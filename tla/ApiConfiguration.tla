--------------------------- MODULE ApiConfiguration ---------------------------
(***************************************************************************)
(* src/common/api.ts and config_service.ts: the account that the server    *)
(* talks to KhulnaSoft with.  The configuration is what the user set; the  *)
(* API client has its own copy of it, checks the token at the instance,    *)
(* asks for the instance's version and only then tells its subscribers.    *)
(*                                                                         *)
(* The two requests are awaits.  Nothing stops another configuration from  *)
(* starting a check of its own meanwhile, so checking is a sequence.  The  *)
(* operators take and return a world, a record with at least the fields    *)
(*   config    url and token, as ConfigService has them                    *)
(*   api       url and token of the client, and what it learnt: the        *)
(*             instance (<<its url, the url its version came from>>) and   *)
(*             the token that tokenInfo is about                           *)
(*   checking  token checks in flight                                      *)
(***************************************************************************)
EXTENDS Sequences, SequencesExt

CONSTANTS
  Urls, DefaultUrl,
  Tokens, NoToken,
  ValidTokens,      \* <<url, token>> that the instance accepts
  OldInstances      \* urls of instances before 16.8

ASSUME AccountAssumption ==
  DefaultUrl \in Urls /\ NoToken \notin Tokens /\ ValidTokens \subseteq Urls \X Tokens

NoVersion == "no version"

NewApi == [url |-> DefaultUrl, token |-> NoToken,
           instance |-> <<DefaultUrl, NoVersion>>, tokenInfo |-> NoToken]

\* Mutant: every configuration is checked, changed or not.
configureApiAlways(w) ==
  [w EXCEPT !.api.url = w.config.url, !.api.token = w.config.token,
            !.checking = Append(@, [url |-> w.config.url, token |-> w.config.token,
                                    step |-> "token", versionOf |-> NoVersion])]

\* configureApi up to its first await.
configureApi(w) ==
  IF w.api.url = w.config.url /\ w.api.token = w.config.token THEN w
  ELSE [w EXCEPT !.api.url = w.config.url, !.api.token = w.config.token,
                 !.checking = Append(@, [url |-> w.config.url, token |-> w.config.token,
                                         step |-> "token", versionOf |-> NoVersion])]

\* checkToken: a token that the instance accepts may still fail to be checked.
canBeValid(check) == check.step = "token" /\ <<check.url, check.token>> \in ValidTokens

\* Mutant: the configuration keeps a token that was found invalid.
tokenKept(w, i) == [w EXCEPT !.checking = RemoveAt(@, i)]

\* configureApi after a check that failed: whatever token is configured by now
\* is removed, which configures the API again before the subscribers hear.
tokenIsInvalid(w, i) ==
  configureApi([w EXCEPT !.checking = RemoveAt(@, i), !.config.token = NoToken])

\* ... after one that succeeded: the version is that of the current instance.
tokenIsValid(w, i) ==
  [w EXCEPT !.checking[i].step = "version",
            !.checking[i].versionOf =
               IF w.api.token = NoToken THEN NoVersion ELSE w.api.url]

\* Mutant: the instance is known by the url that the check began with.
urlOfTheCheck(w, i, version) ==
  [w EXCEPT !.checking = RemoveAt(@, i),
            !.api.instance = <<w.checking[i].url, version>>,
            !.api.tokenInfo = w.checking[i].token]

\* ... and after the version came back, or an answer that has none.
versionIsKnown(w, i, version) ==
  [w EXCEPT !.checking = RemoveAt(@, i),
            !.api.instance = <<w.api.url, version>>,
            !.api.tokenInfo = w.checking[i].token]

\* #instanceVersionHigherOrEqualThen, for 16.8 and the current instance: a
\* version that is not known is asked for again, perhaps in vain.
supports(w) ==
  IF w.api.instance[2] = NoVersion THEN {FALSE, w.api.url \notin OldInstances}
  ELSE {w.api.instance[2] \notin OldInstances}

=============================================================================
