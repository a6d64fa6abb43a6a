---------------------------- MODULE MCFeatureState ----------------------------
EXTENDS FeatureState, TLC

\* Two instances, one before 16.8; each knows the token t1, one of them t2.
MCValidTokens == {<<"new", "t1">>, <<"old", "t1">>, <<"new", "t2">>}
MCLicensed == "SUGGESTIONS_NO_LICENSE" :> {<<"new", "t1">>, <<"old", "t1">>}
                @@ "CHAT_NO_LICENSE" :> {<<"new", "t2">>}

\* Bounds: the breaker opens when the document is of no language, and once changes of the
\* account have crossed, the checks that are not of the account stay as they were.
Apart == checks.engaged[API_ERROR] => checks.language = "unsupported"
Plain ==
  /\ checks.language = "unsupported" /\ \A c \in Switches : config.switch[c] = "unset"
  /\ ~checks.engaged[PROJECT] /\ ~checks.engaged[API_ERROR]
MCNext == Next /\ Apart' /\ (crossings' > 0 => Plain')
MCSpec == Init /\ [][MCNext]_vars /\ WF_vars(ApiAnswers)

=============================================================================
