---------------------------- MODULE FeatureState ----------------------------
(***************************************************************************)
(* src/common/feature_state: the checks that decide which features work,   *)
(* the manager that tells the client about them, and what sets them off:   *)
(* the configuration, the API client, the documents, the project access    *)
(* cache and the breaker.                                                  *)
(*                                                                         *)
(* A check announces that it may have changed; the manager then reads      *)
(* whether it is engaged, keeps the ids of the engaged ones and sends the  *)
(* state of all features.  An action is one callback with every listener   *)
(* it runs; the awaits are the requests to the API.                        *)
(***************************************************************************)
EXTENDS ApiConfiguration, Naturals, FiniteSets

CONSTANTS
  Switches,        \* the checks CHAT_DISABLED_BY_USER, SUGGESTIONS_DISABLED_BY_USER
  Licensed,        \* by license: the <<url, token>> that have it
  MaxCrossings,    \* bound: changes of the account while the API is at work
  MaxInFlight      \* bound: token checks, and queries, in flight

ASSUME SwitchesAssumption ==
  Switches \subseteq {"CHAT_DISABLED_BY_USER", "SUGGESTIONS_DISABLED_BY_USER"}

AUTH == "AUTHENTICATION_REQUIRED"
VERSION == "UNSUPPORTED_KHULNASOFT_VERSION"
PROJECT == "DUO_DISABLED_FOR_PROJECT"
LANGUAGE == "UNSUPPORTED_LANGUAGE"
API_ERROR == "SUGGESTIONS_API_ERROR"

LicenseChecks == <<"SUGGESTIONS_NO_LICENSE", "CHAT_NO_LICENSE">>
Licenses == Range(LicenseChecks)

Checks == {AUTH, VERSION, PROJECT, LANGUAGE, API_ERROR} \cup Switches \cup Licenses
Ids == Checks \cup {"DISABLED_LANGUAGE"}

VARIABLES
  config, api, checking,
  checks,     \* engaged, by check; the language; what the version check asked for;
              \* history: the engaged checks that announced nothing yet (silent)
  queries,    \* requests of the version and license checks in flight
  manager,    \* #engagedChecksSet
  told,       \* the latest state the client was sent
  unreported, \* history: a version request failed, and its check with it
  crossed,    \* history: the account changed while the API was at work, and it
              \* has not changed since while the API was not
  crossings   \* how often it did so

history == <<unreported, crossed, crossings>>
vars == <<config, api, checking, checks, queries, manager, told, history>>

\* Before any check announces anything.
InitiallyEngaged == {AUTH, LANGUAGE} \cup Licenses

Init == /\ config = [url |-> DefaultUrl, token |-> NoToken,
                     switch |-> [c \in Switches |-> "unset"]]
        /\ api = NewApi /\ checking = <<>>
        /\ checks = [engaged |-> [c \in Checks |-> c \in InitiallyEngaged],
                     language |-> "unsupported", asked |-> <<DefaultUrl, NoToken>>,
                     silent |-> InitiallyEngaged]
        /\ queries = <<>> /\ manager = {} /\ told = {}
        /\ unreported = FALSE /\ crossed = FALSE /\ crossings = 0

World == [config |-> config, api |-> api, checking |-> checking, checks |-> checks,
          queries |-> queries, manager |-> manager, told |-> told]

becomes(world) ==
  \E w \in {world} :
    /\ config' = w.config /\ api' = w.api /\ checking' = w.checking
    /\ checks' = w.checks /\ queries' = w.queries
    /\ manager' = w.manager /\ told' = w.told

-----------------------------------------------------------------------------
\* The language check has one of two ids; the others have theirs.
id(w, c) == IF c = LANGUAGE /\ w.checks.language = "disabled"
            THEN "DISABLED_LANGUAGE" ELSE c

\* What the manager sends: of the ids that the checks have now, those it keeps
\* as engaged.  (Which feature an id belongs to never changes.)
state(w, kept) == kept \cap {id(w, c) : c \in Checks}

\* One check's announcement; the values of all checks after an announcement of some.
only(c, engaged) == [d \in {c} |-> engaged]
heard(values, engaged) ==
  [c \in Checks |-> IF c \in DOMAIN engaged THEN engaged[c] ELSE values[c]]

\* Mutant: the ids are taken as if they never changed.
announcedFixedId(w, engaged) ==
  LET on   == {c \in DOMAIN engaged : engaged[c]}
      kept == (w.manager \ DOMAIN engaged) \cup on
  IN  [w EXCEPT !.checks.engaged = heard(@, engaged), !.checks.silent = @ \ DOMAIN engaged,
                !.manager = kept, !.told = state(w, kept)]

\* The manager's listener, for the checks of the function engaged.
announced(w, engaged) ==
  LET on   == {c \in DOMAIN engaged : engaged[c]}
      kept == (w.manager \ {id(w, c) : c \in DOMAIN engaged \ on})
                \cup {id(w, c) : c \in on}
  IN  [w EXCEPT !.checks.engaged = heard(@, engaged), !.checks.silent = @ \ DOMAIN engaged,
                !.manager = kept, !.told = state(w, kept)]

\* The checks announce their new value, one by one.  (The choice from a set of
\* one world has TLC evaluate it once.)
change(w, engaged) ==
  CHOOSE v \in {announced(u, e) : u \in {w}, e \in {engaged}} : TRUE

\* Queries of the checks in the sequence cs, for the API client's account.
query(w, cs) ==
  [w EXCEPT !.queries = @ \o [i \in DOMAIN cs |->
     [check |-> cs[i], url |-> w.api.url, token |-> w.api.token]]]

\* onApiReconfigured, of an API client that is not in a valid state and of one
\* that is: the authentication check, then the license checks.  Nothing is heard
\* of the chat license if the instance does not support the query.
firedInvalid(w) == change(w, only(AUTH, TRUE))

firedValidOnce(w, chat) ==   \* Mutant: licenses are asked for at authentication only.
  IF w.checks.engaged[AUTH] THEN query(change(w, only(AUTH, FALSE)), LicenseChecks) ELSE w

firedValid(w, chat) ==
  query(change(w, only(AUTH, FALSE)), IF chat THEN LicenseChecks ELSE <<LicenseChecks[1]>>)

asksForChat(w) == IF w.api.token = NoToken THEN {TRUE} ELSE supports(w)

\* onConfigChange of the instance version check.
versionListener(w) ==
  IF w.config.token = NoToken \/ w.checks.asked = <<w.config.url, w.config.token>> THEN w
  ELSE query([w EXCEPT !.checks.asked = <<w.config.url, w.config.token>>], <<VERSION>>)

\* The switches that are set, and the project's.
switchedOff(w, project) ==
  [c \in {d \in Switches : w.config.switch[d] # "unset"} \cup {PROJECT} |->
     IF c = PROJECT THEN project ELSE w.config.switch[c] = "off"]

\* onConfigChange, after the API's listener.  The project check finds out
\* afresh whether the current document's project has Duo enabled.
configListeners(w, project) ==
  change(versionListener(w), switchedOff(w, project))

-----------------------------------------------------------------------------
Quiet == checking = <<>>
AllQuiet == Quiet /\ queries = <<>>
Room == Len(checking) < MaxInFlight /\ Len(queries) < MaxInFlight

configChanges(w) ==
  \E project \in BOOLEAN : becomes(configListeners(configureApi(w), project))

\* workspace/didChangeConfiguration with an account; the merge cannot remove a
\* token.  Nothing makes the user wait until the API is through with the last one.
ConfigureAccount(url, token) ==
  /\ Room /\ (AllQuiet \/ crossings < MaxCrossings)
  /\ configChanges([World EXCEPT !.config.url = url, !.config.token = token])
  /\ IF api' = api THEN UNCHANGED history
     ELSE /\ unreported' = FALSE /\ crossed' = ~AllQuiet
          /\ crossings' = crossings + (IF AllQuiet THEN 0 ELSE 1)

ConfigureSwitch(c, value) ==
  /\ Room
  /\ configChanges([World EXCEPT !.config.switch[c] = value])
  /\ UNCHANGED history

TokenIsInvalid(i) ==
  /\ checking[i].step = "token"
  /\ \E project \in BOOLEAN :
       becomes(firedInvalid(configListeners(tokenIsInvalid(World, i), project)))
  /\ UNCHANGED history

TokenIsValid(i) ==
  /\ canBeValid(checking[i])
  /\ becomes(tokenIsValid(World, i)) /\ UNCHANGED history

VersionIsKnown(i) ==
  /\ checking[i].step = "version" /\ Len(queries) < MaxInFlight
  /\ \E version \in {checking[i].versionOf, NoVersion} :
       \E w \in {versionIsKnown(World, i, version)} :
         \E chat \in asksForChat(w) : becomes(firedValid(w, chat))
  /\ UNCHANGED history

\* The request throws in an event listener: nobody is told.
VersionFails(i) ==
  /\ checking[i].step = "version" /\ checking[i].versionOf # NoVersion
  /\ checking' = RemoveAt(checking, i) /\ unreported' = TRUE
  /\ UNCHANGED <<config, api, checks, queries, manager, told, crossed, crossings>>

\* A license query failing counts as no license; a version check failing is not
\* announced.
QueryAnswered(i) ==
  LET q == queries[i]
      w == [World EXCEPT !.queries = RemoveAt(@, i)]
  IN  /\ \/ /\ q.check = VERSION /\ q.token # NoToken
            /\ becomes(change(w, only(VERSION, q.url \in OldInstances)))
         \/ /\ q.check \in Licenses /\ <<q.url, q.token>> \in Licensed[q.check]
            /\ becomes(change(w, only(q.check, FALSE)))
         \/ q.check \in Licenses /\ becomes(change(w, only(q.check, TRUE)))
         \/ q.check = VERSION /\ becomes(w)
      /\ UNCHANGED history

\* The active document, its language or the languages of the configuration.
LanguageChanges(language) ==
  /\ becomes(change([World EXCEPT !.checks.language = language],
                    only(LANGUAGE, language # "enabled")))
  /\ UNCHANGED history

\* The active document changed or the project access cache was updated.
ProjectChecked(engaged) ==
  becomes(change(World, only(PROJECT, engaged))) /\ UNCHANGED history

\* Every error while it is open announces the breaker again.
BreakerOpens == becomes(change(World, only(API_ERROR, TRUE))) /\ UNCHANGED history
BreakerCloses == /\ checks.engaged[API_ERROR]
                 /\ becomes(change(World, only(API_ERROR, FALSE))) /\ UNCHANGED history

ApiAnswers ==
  \/ \E i \in DOMAIN checking :
       \/ TokenIsInvalid(i) \/ TokenIsValid(i)
       \/ VersionIsKnown(i) \/ VersionFails(i)
  \/ \E i \in DOMAIN queries : QueryAnswered(i)

Next ==
  \/ ApiAnswers
  \/ \E url \in Urls, token \in Tokens : ConfigureAccount(url, token)
  \/ \E c \in Switches, value \in {"on", "off"} : ConfigureSwitch(c, value)
  \/ \E language \in {"enabled", "disabled", "unsupported"} : LanguageChanges(language)
  \/ \E engaged \in BOOLEAN : ProjectChecked(engaged)
  \/ BreakerOpens \/ BreakerCloses

\* The instance answers, or the request fails.
Spec == Init /\ [][Next]_vars /\ WF_vars(ApiAnswers)

-----------------------------------------------------------------------------
Accounts == Urls \X (Tokens \cup {NoToken})

\* The client is told of every check that is engaged and of none that is not,
\* although the language check changes its id while the manager keeps ids.
\* (A check that announced nothing is not in the manager yet.)
ToldIsEngaged ==
  \A c \in Checks \ checks.silent : checks.engaged[c] <=> id(World, c) \in told

\* "authentication-required: The user is unauthenticated": once the API client
\* is done, exactly when there is no token that it has found valid.
AuthenticationIsAlwaysReported ==
  Quiet /\ ~unreported /\ api # NewApi
    => /\ AUTH \in told <=> config.token = NoToken
       /\ api.token = config.token /\ api.url = config.url

\* So it is unless changes of the account crossed; and the next change that waits
\* puts it right whatever they left behind.
AuthenticationIsReported == ~crossed => AuthenticationIsAlwaysReported

\* However the changes of the account cross: if a token is left in the end, then the
\* client is not told to authenticate, and the API client uses what is configured and
\* knows the instance by the url in use, although others were asked meanwhile.  The
\* version and the information on the token may be those of another account only
\* after changes that crossed, until the next one that waits.
KnowledgeIsCurrent ==
  Quiet /\ ~unreported /\ config.token # NoToken
    => /\ api.url = config.url /\ api.token = config.token
       /\ AUTH \notin told /\ api.instance[1] = api.url
       /\ ~crossed => api.instance[2] \in {api.url, NoVersion} /\ api.tokenInfo = api.token

\* A feature is offered only with a license of the account in use, unless changes of
\* the account crossed.  (The chat license is not asked for of an instance that is old
\* or of unknown version.)
LicensedIfOffered ==
  \A c \in Licenses :
    AllQuiet /\ AUTH \notin told /\ ~unreported /\ ~crossed /\ ~checks.engaged[c]
        /\ (c = "CHAT_NO_LICENSE" => api.instance[2] \notin OldInstances \cup {NoVersion})
      => <<api.url, api.token>> \in Licensed[c]

\* A configuration settles: the removal of an invalid token, which configures
\* the API again, does not go on for ever.
ConfigurationSettles == ~Quiet ~> Quiet

=============================================================================
