-------------------------- MODULE FeatureStateProofs --------------------------
(***************************************************************************)
(* Proofs about the feature checks: what the client is told of them, and   *)
(* what it is told of the account, however changes of the account cross    *)
(* and once one of them did not.                                           *)
(*                                                                         *)
(* The listeners take and return a world.  The lemmas about them say which *)
(* fields of it they change; the invariants are stated of a world.         *)
(***************************************************************************)
EXTENDS FeatureState, SequenceTheorems, TLAPS

-----------------------------------------------------------------------------
(* Worlds, and what a listener does to one.                                *)

WorldFields == {"config", "api", "checking", "checks", "queries", "manager", "told"}
CheckFields == {"engaged", "language", "asked", "silent"}

\* The fields a world has, and the checks that have a value.
Shaped(w) ==
  /\ DOMAIN w = WorldFields /\ DOMAIN w.checks = CheckFields
  /\ w.checks.engaged \in [Checks -> BOOLEAN]
  /\ DOMAIN w.config = {"url", "token", "switch"} /\ DOMAIN w.config.switch = Switches

\* New values for some of the checks.
Announcements == UNION {[S -> BOOLEAN] : S \in SUBSET Checks}

LEMMA ChecksAreNamed ==
  /\ Licenses = {"SUGGESTIONS_NO_LICENSE", "CHAT_NO_LICENSE"}
  /\ {AUTH, VERSION, PROJECT, LANGUAGE, API_ERROR} \cup Licenses \cup Switches \subseteq Checks
  /\ "DISABLED_LANGUAGE" \notin Checks
<1>1. Licenses = {"SUGGESTIONS_NO_LICENSE", "CHAT_NO_LICENSE"}
  BY DEF Licenses, LicenseChecks, Range
<1> QED
  BY <1>1, SwitchesAssumption DEF Checks, AUTH, VERSION, PROJECT, LANGUAGE, API_ERROR

LEMMA ChangeIsAnnounced == ASSUME NEW w, NEW engaged
                           PROVE  change(w, engaged) = announced(w, engaged)
<1>1. {announced(u, e) : u \in {w}, e \in {engaged}} = {announced(w, engaged)}
  OBVIOUS
<1> QED BY <1>1 DEF change

\* What the manager keeps after the announcement.
keeps(w, engaged) ==
  (w.manager \ {id(w, c) : c \in {d \in DOMAIN engaged : ~engaged[d]}})
    \cup {id(w, c) : c \in {d \in DOMAIN engaged : engaged[d]}}

LEMMA AnnouncedFields ==
  ASSUME NEW w, Shaped(w), NEW engaged \in Announcements
  PROVE  LET v == change(w, engaged) IN
         /\ Shaped(v)
         /\ v.config = w.config /\ v.api = w.api /\ v.checking = w.checking
         /\ v.queries = w.queries
         /\ v.checks.language = w.checks.language /\ v.checks.asked = w.checks.asked
         /\ v.checks.silent = w.checks.silent \ DOMAIN engaged
         /\ \A c \in Checks : v.checks.engaged[c]
              = IF c \in DOMAIN engaged THEN engaged[c] ELSE w.checks.engaged[c]
         /\ v.manager = keeps(w, engaged) /\ v.told = state(w, v.manager)
<1> DEFINE on == {c \in DOMAIN engaged : engaged[c]}
           kept == (w.manager \ {id(w, c) : c \in DOMAIN engaged \ on})
                      \cup {id(w, c) : c \in on}
<1>1. kept = keeps(w, engaged)
  <2>1. DOMAIN engaged \ on = {d \in DOMAIN engaged : ~engaged[d]}
    OBVIOUS
  <2> QED BY <2>1, Zenon DEF keeps
<1>2. PICK new : new = heard(w.checks.engaged, engaged)
  OBVIOUS
<1>3. /\ new \in [Checks -> BOOLEAN]
      /\ \A c \in Checks : new[c] = IF c \in DOMAIN engaged THEN engaged[c] ELSE w.checks.engaged[c]
  BY <1>2 DEF Announcements, Shaped, heard
<1>4. PICK v : v = [w EXCEPT !.checks.engaged = new, !.checks.silent = @ \ DOMAIN engaged,
                             !.manager = kept, !.told = state(w, kept)]
  OBVIOUS
<1>5. v = change(w, engaged)
  BY <1>2, <1>4, ChangeIsAnnounced, Zenon DEF announced
<1> HIDE DEF kept
<1>6. /\ v.config = w.config /\ v.api = w.api /\ v.checking = w.checking
      /\ v.queries = w.queries /\ v.manager = kept /\ v.told = state(w, kept)
      /\ DOMAIN v = WorldFields /\ DOMAIN v.checks = CheckFields
      /\ v.checks.engaged = new /\ v.checks.silent = w.checks.silent \ DOMAIN engaged
      /\ v.checks.language = w.checks.language /\ v.checks.asked = w.checks.asked
  BY <1>4 DEF Shaped, WorldFields, CheckFields
<1> QED BY <1>1, <1>3, <1>5, <1>6 DEF Shaped

\* What the client is told is of the ids that there are now, and what the manager keeps of
\* them is right for every check that announced anything.
Right(w, c) == w.checks.engaged[c] <=> id(w, c) \in w.manager
Told(w) ==
  /\ Shaped(w) /\ w.told = state(w, w.manager)
  /\ \A c \in Checks \ w.checks.silent : Right(w, c)

LEMMA IdsAreDistinct ==
  ASSUME NEW w, NEW c \in Checks, NEW d \in Checks, id(w, c) = id(w, d)
  PROVE  c = d
BY ChecksAreNamed DEF id

\* An announcement makes right what it is about, and leaves the rest as it is.
LEMMA ChangeTells ==
  ASSUME NEW w, Shaped(w), NEW engaged \in Announcements,
         \A c \in Checks \ (w.checks.silent \cup DOMAIN engaged) : Right(w, c)
  PROVE  Told(change(w, engaged))
<1> DEFINE v == change(w, engaged)
<1>1. /\ Shaped(v) /\ v.checks.language = w.checks.language
      /\ v.checks.silent = w.checks.silent \ DOMAIN engaged
      /\ \A c \in Checks : v.checks.engaged[c]
           = IF c \in DOMAIN engaged THEN engaged[c] ELSE w.checks.engaged[c]
      /\ v.manager = keeps(w, engaged) /\ v.told = state(w, v.manager)
  BY AnnouncedFields
<1> HIDE DEF v
<1>2. \A c : id(v, c) = id(w, c)
  BY <1>1 DEF id
<1>3. v.told = state(v, v.manager)
  BY <1>1, <1>2 DEF state
<1>4. ASSUME NEW c \in Checks \ v.checks.silent
      PROVE  Right(v, c)
  <2>1. CASE c \in DOMAIN engaged
    <3>1. engaged[c] <=> id(w, c) \in keeps(w, engaged)
      BY <2>1, IdsAreDistinct DEF keeps, Announcements
    <3> QED BY <1>1, <1>2, <2>1, <3>1 DEF Right
  <2>2. CASE c \notin DOMAIN engaged
    <3>1. id(w, c) \in keeps(w, engaged) <=> id(w, c) \in w.manager
      BY <2>2, IdsAreDistinct DEF keeps, Announcements
    <3>2. Right(w, c)
      BY <1>1, <2>2
    <3> QED BY <1>1, <1>2, <2>2, <3>1, <3>2 DEF Right
  <2> QED BY <2>1, <2>2
<1> QED BY <1>1, <1>3, <1>4 DEF Told, v

\* A listener that only asks, or sets what the checks do not read.
SameChecks(v, w) ==
  /\ DOMAIN v = WorldFields
  /\ DOMAIN v.config = DOMAIN w.config /\ DOMAIN v.config.switch = Switches
  /\ DOMAIN v.checks = CheckFields /\ v.checks.engaged = w.checks.engaged
  /\ v.checks.silent = w.checks.silent /\ v.checks.language = w.checks.language
  /\ v.manager = w.manager /\ v.told = w.told

LEMMA SameChecksTell ==
  ASSUME NEW v, NEW w, Told(w), SameChecks(v, w)
  PROVE  Told(v)
BY DEF SameChecks, Shaped, Told, Right, id, state

LEMMA OnlyAnnounces ==
  ASSUME NEW c \in Checks, NEW engaged \in BOOLEAN
  PROVE  /\ only(c, engaged) \in Announcements /\ DOMAIN only(c, engaged) = {c}
         /\ only(c, engaged)[c] = engaged
<1>1. only(c, engaged) \in [{c} -> BOOLEAN] /\ {c} \in SUBSET Checks
  BY DEF only
<1> QED BY <1>1 DEF only, Announcements

LEMMA SwitchesAnnounce ==
  ASSUME NEW w, NEW project \in BOOLEAN
  PROVE  /\ switchedOff(w, project) \in Announcements
         /\ DOMAIN switchedOff(w, project) \subseteq Switches \cup {PROJECT}
<1> DEFINE S == {d \in Switches : w.config.switch[d] # "unset"} \cup {PROJECT}
<1>1. switchedOff(w, project) \in [S -> BOOLEAN]
  BY DEF switchedOff
<1>2. S \in SUBSET Checks
  BY ChecksAreNamed
<1> QED BY <1>1, <1>2 DEF Announcements

\* The API client, and the queries of the checks.
LEMMA ConfigureApiFields ==
  ASSUME NEW w, Shaped(w)
  PROVE  LET v == configureApi(w) IN
         /\ SameChecks(v, w) /\ v.config = w.config /\ v.queries = w.queries
         /\ v.checks = w.checks
         /\ IF w.api.url = w.config.url /\ w.api.token = w.config.token
            THEN v.api = w.api /\ v.checking = w.checking
            ELSE /\ v.checking = Append(w.checking,
                      [url |-> w.config.url, token |-> w.config.token,
                       step |-> "token", versionOf |-> NoVersion])
                 /\ v.api = [w.api EXCEPT !.url = w.config.url, !.token = w.config.token]
BY DEF configureApi, SameChecks, Shaped, WorldFields, CheckFields

queryOf(account, c) == [check |-> c, url |-> account.url, token |-> account.token]
queriesOf(account, cs) == [i \in DOMAIN cs |-> queryOf(account, cs[i])]

LEMMA QueryFields ==
  ASSUME NEW w, Shaped(w), NEW cs
  PROVE  LET v == query(w, cs) IN
         /\ SameChecks(v, w) /\ v.config = w.config /\ v.api = w.api
         /\ v.checking = w.checking /\ v.checks = w.checks
         /\ v.queries = w.queries \o queriesOf(w.api, cs)
BY DEF query, queriesOf, queryOf, SameChecks, Shaped, WorldFields, CheckFields

LEMMA VersionListenerFields ==
  ASSUME NEW w, Shaped(w)
  PROVE  LET v == versionListener(w) IN
         /\ SameChecks(v, w) /\ v.config = w.config /\ v.api = w.api
         /\ v.checking = w.checking
         /\ \/ v.queries = w.queries
            \/ v.queries = w.queries \o queriesOf(w.api, <<VERSION>>)
<1>1. CASE versionListener(w) = w
  BY <1>1 DEF SameChecks, Shaped
<1>2. CASE versionListener(w) # w
  <2>1. PICK u : u = [w EXCEPT !.checks.asked = <<w.config.url, w.config.token>>]
    OBVIOUS
  <2>2. versionListener(w) = query(u, <<VERSION>>)
    BY <1>2, <2>1 DEF versionListener
  <2>3. /\ Shaped(u) /\ SameChecks(u, w) /\ u.config = w.config /\ u.api = w.api
        /\ u.checking = w.checking /\ u.queries = w.queries
    BY <2>1 DEF Shaped, SameChecks, WorldFields, CheckFields
  <2> HIDE DEF SameChecks
  <2>4. SameChecks(query(u, <<VERSION>>), w)
    BY <2>3, QueryFields DEF SameChecks
  <2>5. PICK v : v = query(u, <<VERSION>>)
    OBVIOUS
  <2>6. /\ v.config = u.config /\ v.api = u.api /\ v.checking = u.checking
        /\ v.queries = u.queries \o queriesOf(u.api, <<VERSION>>)
    BY <2>3, <2>5, QueryFields
  <2>7. v.queries = w.queries \o queriesOf(w.api, <<VERSION>>)
    BY <2>3, <2>6
  <2> QED BY <2>2, <2>3, <2>4, <2>5, <2>6, <2>7
<1> QED BY <1>1, <1>2

\* The account's checks and what the configuration's listeners leave of them.
Unswitched == {AUTH} \cup Licenses

LEMMA ConfigListenersFields ==
  ASSUME NEW w, Told(w), NEW project \in BOOLEAN
  PROVE  LET v == configListeners(w, project) IN
         /\ Told(v) /\ v.config = w.config /\ v.api = w.api /\ v.checking = w.checking
         /\ v.queries = versionListener(w).queries
         /\ \A c \in Unswitched : /\ v.checks.engaged[c] = w.checks.engaged[c]
                                  /\ c \in v.checks.silent <=> c \in w.checks.silent
<1> DEFINE u == versionListener(w)
           e == switchedOff(w, project)
<1>1. /\ SameChecks(u, w) /\ u.config = w.config /\ u.api = w.api
      /\ u.checking = w.checking
  BY VersionListenerFields DEF Told
<1>2. Told(u)
  BY <1>1, SameChecksTell
<1>3. e \in Announcements /\ DOMAIN e \subseteq Switches \cup {PROJECT}
  BY SwitchesAnnounce
<1>4. configListeners(w, project) = change(u, e)
  BY DEF configListeners
<1> HIDE DEF u, e
<1>5. Told(change(u, e))
  BY <1>2, <1>3, ChangeTells DEF Told
<1>6. Unswitched \cap DOMAIN e = {} /\ Unswitched \subseteq Checks
  BY <1>3, ChecksAreNamed, SwitchesAssumption DEF Unswitched, AUTH, PROJECT
<1>7. LET v == change(u, e) IN
        /\ v.config = u.config /\ v.api = u.api /\ v.checking = u.checking
        /\ v.queries = u.queries /\ v.checks.silent = u.checks.silent \ DOMAIN e
        /\ \A c \in Checks : v.checks.engaged[c]
             = IF c \in DOMAIN e THEN e[c] ELSE u.checks.engaged[c]
  BY <1>2, <1>3, AnnouncedFields DEF Told
<1>8. u.checks.engaged = w.checks.engaged /\ u.checks.silent = w.checks.silent
  BY <1>1 DEF SameChecks
<1> QED BY <1>1, <1>4, <1>5, <1>6, <1>7, <1>8 DEF u

\* An announcement of one check.
LEMMA OneChangeFields ==
  ASSUME NEW w, Shaped(w), NEW c \in Checks, NEW engaged \in BOOLEAN,
         \A d \in Checks \ (w.checks.silent \cup {c}) : Right(w, d)
  PROVE  LET v == change(w, only(c, engaged)) IN
         /\ Told(v) /\ v.config = w.config /\ v.api = w.api /\ v.checking = w.checking
         /\ v.queries = w.queries /\ v.checks.silent = w.checks.silent \ {c}
         /\ \A d \in Checks : v.checks.engaged[d]
              = IF d = c THEN engaged ELSE w.checks.engaged[d]
<1> DEFINE e == only(c, engaged)
<1>1. e \in Announcements /\ DOMAIN e = {c} /\ e[c] = engaged
  BY OnlyAnnounces
<1> HIDE DEF e
<1>2. Told(change(w, e))
  BY <1>1, ChangeTells
<1>3. LET v == change(w, e) IN
        /\ v.config = w.config /\ v.api = w.api /\ v.checking = w.checking
        /\ v.queries = w.queries /\ v.checks.silent = w.checks.silent \ DOMAIN e
        /\ \A d \in Checks : v.checks.engaged[d]
             = IF d \in DOMAIN e THEN e[d] ELSE w.checks.engaged[d]
  BY <1>1, AnnouncedFields
<1> QED BY <1>1, <1>2, <1>3 DEF e

\* The fields of the world that a step leads to.
Becoming(w) ==
  /\ DOMAIN World' = WorldFields
  /\ World'.config = w.config /\ World'.api = w.api /\ World'.checking = w.checking
  /\ World'.checks = w.checks /\ World'.queries = w.queries
  /\ World'.manager = w.manager /\ World'.told = w.told

LEMMA BecomesWorld ==
  ASSUME NEW w, Told(w), becomes(w)
  PROVE  Becoming(w) /\ Told(World)'
<1>1. Becoming(w)
  BY DEF becomes, Becoming, World, WorldFields
<1>2. SameChecks(World', w)
  BY <1>1 DEF Becoming, SameChecks, Told, Shaped
<1>3. Told(World')
  BY <1>2, SameChecksTell
<1> QED BY <1>1, <1>3

-----------------------------------------------------------------------------
(* Every step tells the client what is engaged.                            *)

LEMMA ToldInitially == Init => Told(World)
<1> SUFFICES ASSUME Init PROVE Told(World)
  OBVIOUS
<1>1. /\ World.checks.engaged = [c \in Checks |-> c \in InitiallyEngaged]
      /\ World.checks.silent = InitiallyEngaged /\ World.manager = {} /\ World.told = {}
      /\ DOMAIN World = WorldFields /\ DOMAIN World.checks = CheckFields
      /\ DOMAIN World.config = {"url", "token", "switch"}
      /\ DOMAIN World.config.switch = Switches
  BY DEF Init, World, WorldFields, CheckFields
<1>2. Shaped(World)
  BY <1>1 DEF Shaped
<1>3. \A c \in Checks \ InitiallyEngaged : ~World.checks.engaged[c]
  BY <1>1
<1> QED BY <1>1, <1>2, <1>3 DEF Told, Right, state

\* A change of the configuration, by the user or by a check that failed.
LEMMA ConfigChangesTell ==
  ASSUME NEW w, Told(w), configChanges(w)
  PROVE  Told(World)'
<1>1. PICK project \in BOOLEAN : becomes(configListeners(configureApi(w), project))
  BY DEF configChanges
<1>2. Told(configureApi(w))
  BY ConfigureApiFields, SameChecksTell DEF Told
<1>3. Told(configListeners(configureApi(w), project))
  BY <1>2, ConfigListenersFields
<1> QED BY <1>1, <1>3, BecomesWorld

LEMMA ConfigurationTells ==
  ASSUME Told(World),
         \/ \E url \in Urls, token \in Tokens : ConfigureAccount(url, token)
         \/ \E c \in Switches, value \in {"on", "off"} : ConfigureSwitch(c, value)
  PROVE  Told(World)'
<1>1. ASSUME NEW url \in Urls, NEW token \in Tokens, ConfigureAccount(url, token)
      PROVE  Told(World)'
  <2>1. PICK w : w = [World EXCEPT !.config.url = url, !.config.token = token]
    OBVIOUS
  <2>2. SameChecks(w, World)
    BY <2>1 DEF SameChecks, World, Told, Shaped, WorldFields
  <2> QED BY <1>1, <2>1, <2>2, SameChecksTell, ConfigChangesTell DEF ConfigureAccount
<1>2. ASSUME NEW c \in Switches, NEW value \in {"on", "off"}, ConfigureSwitch(c, value)
      PROVE  Told(World)'
  <2>1. PICK w : w = [World EXCEPT !.config.switch[c] = value]
    OBVIOUS
  <2>2. SameChecks(w, World)
    BY <2>1 DEF SameChecks, World, Told, Shaped, WorldFields
  <2> QED BY <1>2, <2>1, <2>2, SameChecksTell, ConfigChangesTell DEF ConfigureSwitch
<1> QED BY <1>1, <1>2

\* The fields that the client's checks of the token change.
LEMMA TokenIsInvalidFields ==
  ASSUME NEW w, Shaped(w), NEW i
  PROVE  \E u : /\ tokenIsInvalid(w, i) = configureApi(u)
                /\ SameChecks(u, w) /\ u.config = [w.config EXCEPT !.token = NoToken]
                /\ u.checking = RemoveAt(w.checking, i) /\ u.api = w.api
                /\ u.queries = w.queries /\ u.checks = w.checks
<1>1. PICK u : u = [w EXCEPT !.checking = RemoveAt(@, i), !.config.token = NoToken]
  OBVIOUS
<1>2. tokenIsInvalid(w, i) = configureApi(u)
  BY <1>1 DEF tokenIsInvalid
<1>3. SameChecks(u, w) /\ u.config = [w.config EXCEPT !.token = NoToken]
      /\ u.checking = RemoveAt(w.checking, i) /\ u.api = w.api
      /\ u.queries = w.queries /\ u.checks = w.checks
  BY <1>1 DEF SameChecks, Shaped, WorldFields
<1> QED BY <1>2, <1>3

LEMMA VersionIsKnownFields ==
  ASSUME NEW w, Shaped(w), NEW i, NEW version
  PROVE  LET v == versionIsKnown(w, i, version) IN
         /\ SameChecks(v, w) /\ v.config = w.config /\ v.queries = w.queries
         /\ v.checking = RemoveAt(w.checking, i) /\ v.checks = w.checks
BY DEF versionIsKnown, SameChecks, Shaped, WorldFields

\* The listeners of a check that is through.
LEMMA FiredTells ==
  ASSUME NEW w, Told(w)
  PROVE  Told(firedInvalid(w)) /\ \A chat \in BOOLEAN : Told(firedValid(w, chat))
<1>1. AUTH \in Checks
  BY ChecksAreNamed
<1>2. Told(change(w, only(AUTH, TRUE))) /\ Told(change(w, only(AUTH, FALSE)))
  BY <1>1, OneChangeFields DEF Told
<1>3. \A u, cs : Told(u) => Told(query(u, cs))
  BY QueryFields, SameChecksTell DEF Told
<1> QED BY <1>2, <1>3 DEF firedInvalid, firedValid

LEMMA ApiAnswersTell ==
  ASSUME Told(World), NEW i \in DOMAIN checking,
         TokenIsInvalid(i) \/ TokenIsValid(i) \/ VersionIsKnown(i) \/ VersionFails(i)
  PROVE  Told(World)'
<1>1. CASE TokenIsInvalid(i)
  <2>1. Told(tokenIsInvalid(World, i))
    <3>1. PICK u : tokenIsInvalid(World, i) = configureApi(u) /\ SameChecks(u, World)
      BY TokenIsInvalidFields DEF Told
    <3>2. Told(u)
      BY <3>1, SameChecksTell
    <3> QED BY <3>1, <3>2, ConfigureApiFields, SameChecksTell DEF Told
  <2>2. \A project \in BOOLEAN : Told(firedInvalid(configListeners(tokenIsInvalid(World, i), project)))
    BY <2>1, ConfigListenersFields, FiredTells
  <2> QED BY <1>1, <2>2, BecomesWorld DEF TokenIsInvalid
<1>2. CASE TokenIsValid(i)
  <2>1. SameChecks(tokenIsValid(World, i), World)
    BY DEF tokenIsValid, SameChecks, World, Told, Shaped, WorldFields
  <2> QED BY <1>2, <2>1, SameChecksTell, BecomesWorld DEF TokenIsValid
<1>3. CASE VersionIsKnown(i)
  <2>1. PICK version, w : /\ w = versionIsKnown(World, i, version)
                          /\ \E chat \in asksForChat(w) : becomes(firedValid(w, chat))
    BY <1>3 DEF VersionIsKnown
  <2>2. Told(w) /\ asksForChat(w) \subseteq BOOLEAN
    <3>1. Told(w)
      BY <2>1, VersionIsKnownFields, SameChecksTell DEF Told
    <3>2. asksForChat(w) \subseteq BOOLEAN
      BY DEF asksForChat, supports
    <3> QED BY <3>1, <3>2
  <2> QED BY <2>1, <2>2, FiredTells, BecomesWorld
<1>4. CASE VersionFails(i)
  <2>1. SameChecks(World', World)
    BY <1>4 DEF VersionFails, SameChecks, World, Told, Shaped, WorldFields
  <2>2. Told(World')
    BY <2>1, SameChecksTell
  <2> QED BY <2>2
<1> QED BY <1>1, <1>2, <1>3, <1>4

\* One check announces, of a world in which the others are as they are.
LEMMA OneChangeTells ==
  ASSUME NEW w, Told(w), NEW c \in Checks, NEW engaged \in BOOLEAN,
         becomes(change(w, only(c, engaged)))
  PROVE  Told(World)'
BY OneChangeFields, BecomesWorld DEF Told

\* The answer to a query leaves the others.
LEMMA RemovedQueryFields ==
  ASSUME NEW i, Shaped(World)
  PROVE  LET v == [World EXCEPT !.queries = RemoveAt(@, i)] IN
         /\ SameChecks(v, World) /\ v.config = config /\ v.api = api
         /\ v.checking = checking /\ v.queries = RemoveAt(queries, i) /\ v.checks = checks
BY DEF World, SameChecks, Shaped, WorldFields

LEMMA QueryAnsweredTells ==
  ASSUME Told(World), NEW i, QueryAnswered(i)
  PROVE  Told(World)'
<1>1. PICK w : w = [World EXCEPT !.queries = RemoveAt(@, i)]
  OBVIOUS
<1>2. Told(w)
  BY <1>1, RemovedQueryFields, SameChecksTell DEF Told
<1>3. \/ becomes(change(w, only(VERSION, queries[i].url \in OldInstances)))
      \/ queries[i].check \in Licenses /\ becomes(change(w, only(queries[i].check, FALSE)))
      \/ queries[i].check \in Licenses /\ becomes(change(w, only(queries[i].check, TRUE)))
      \/ becomes(w)
  BY <1>1 DEF QueryAnswered
<1>4. VERSION \in Checks /\ Licenses \subseteq Checks
  BY ChecksAreNamed
<1>5. ASSUME becomes(change(w, only(VERSION, queries[i].url \in OldInstances)))
      PROVE  Told(World)'
  <2> DEFINE old == queries[i].url \in OldInstances
  <2>1. old \in BOOLEAN
    OBVIOUS
  <2>2. becomes(change(w, only(VERSION, old)))
    BY <1>5
  <2> HIDE DEF old
  <2> QED BY <1>2, <1>4, <2>1, <2>2, OneChangeTells
<1> QED BY <1>2, <1>3, <1>4, <1>5, OneChangeTells, BecomesWorld

\* The language's id changes with it, and is announced at once.
LEMMA LanguageTells ==
  ASSUME Told(World), NEW language, LanguageChanges(language)
  PROVE  Told(World)'
<1>1. PICK w : w = [World EXCEPT !.checks.language = language]
  OBVIOUS
<1>2. /\ Shaped(w) /\ w.checks.engaged = checks.engaged /\ w.manager = manager
      /\ w.checks.silent = checks.silent
  BY <1>1 DEF World, Told, Shaped, WorldFields, CheckFields
<1>3. \A c \in Checks \ (w.checks.silent \cup {LANGUAGE}) : Right(w, c)
  BY <1>2 DEF World, Told, Right, id
<1>4. LANGUAGE \in Checks
  BY ChecksAreNamed
<1>5. Told(change(w, only(LANGUAGE, language # "enabled")))
  BY <1>2, <1>3, <1>4, OneChangeFields
<1> QED BY <1>1, <1>5, BecomesWorld DEF LanguageChanges

LEMMA StepTells == Told(World) /\ [Next]_vars => Told(World)'
<1> SUFFICES ASSUME Told(World), [Next]_vars PROVE Told(World)'
  OBVIOUS
<1>1. CASE UNCHANGED vars
  <2>1. World' = World
    BY <1>1 DEF vars, World
  <2> QED BY <2>1
<1>2. CASE ApiAnswers
  BY <1>2, ApiAnswersTell, QueryAnsweredTells DEF ApiAnswers
<1>3. ASSUME NEW engaged \in BOOLEAN, ProjectChecked(engaged) PROVE Told(World)'
  BY <1>3, ChecksAreNamed, OneChangeTells DEF ProjectChecked
<1>4. CASE BreakerOpens \/ BreakerCloses
  BY <1>4, ChecksAreNamed, OneChangeTells DEF BreakerOpens, BreakerCloses
<1> QED BY <1>1, <1>2, <1>3, <1>4, ConfigurationTells, LanguageTells DEF Next

\* However the checks, the account, the documents and the answers of the API follow each
\* other: the client is told of a check that announced anything exactly if it is engaged.
THEOREM ToldIsEngagedCorrect == Spec => []ToldIsEngaged
<1>1. Told(World) => ToldIsEngaged
  <2> SUFFICES ASSUME Told(World), NEW c \in Checks \ checks.silent
               PROVE  checks.engaged[c] <=> id(World, c) \in told
    BY DEF ToldIsEngaged
  <2>1. told = state(World, manager) /\ Right(World, c)
    BY DEF Told, World
  <2>2. checks.engaged[c] <=> id(World, c) \in manager
    BY <2>1 DEF Right, World
  <2> QED BY <2>1, <2>2 DEF state
<1> QED BY <1>1, ToldInitially, StepTells, PTL DEF Spec

-----------------------------------------------------------------------------
(* The account.  However its changes cross: as long as a token is left, a  *)
(* check of the account in use is under way, or the last one to come back  *)
(* found the token valid and took the url in use for the instance's.       *)
(*                                                                         *)
(* If the last change waited until the API was through, there is one check *)
(* at most, of the account in use; licenses are asked for when it is       *)
(* through; and what the checks say afterwards is about that account,      *)
(* unless the request for the version failed.                              *)

Queries == [check : Checks, url : Urls, token : Tokens \cup {NoToken}]
TokenChecks == [url : Urls, token : Tokens \cup {NoToken}, step : {"token", "version"},
                versionOf : Urls \cup {NoVersion}]

LicenseQueries(w) == {q \in Range(w.queries) : q.check \in Licenses}
Asks(w, c) == \E q \in LicenseQueries(w) : q.check = c

IsOfTheAccount(check, w) ==
  /\ w.checking = <<check>> /\ check.url = w.api.url /\ check.token = w.api.token
  /\ check.step = "version" => check.token \in Tokens /\ check.versionOf = w.api.url

\* The API client has what is configured, and the check is of it.
AccountBase(w) ==
  /\ w.config.url \in Urls /\ w.config.token \in Tokens \cup {NoToken}
  /\ w.queries \in Seq(Queries)
  /\ DOMAIN w.api = {"url", "token", "instance", "tokenInfo"}
  /\ w.api.url = w.config.url /\ w.api.token = w.config.token
  /\ w.checking = <<>> \/ \E check \in TokenChecks : IsOfTheAccount(check, w)
  /\ \A q \in LicenseQueries(w) :
       w.checking = <<>> /\ q.url = w.api.url /\ q.token = w.api.token

Reported(w, failed) == w.checking = <<>> /\ ~failed

\* Nothing is known of the account before the authentication check is announced.
NothingIsKnown(w) ==
  AUTH \in w.checks.silent => \A c \in Licenses : w.checks.engaged[c] /\ ~Asks(w, c)

AuthenticationIsKnown(w, failed) ==
  Reported(w, failed) =>
    /\ IF AUTH \in w.checks.silent THEN w.api = NewApi
       ELSE w.checks.engaged[AUTH] <=> w.api.token = NoToken
    /\ w.api.token # NoToken =>
         /\ w.api.instance \in {<<w.api.url, w.api.url>>, <<w.api.url, NoVersion>>}
         /\ w.api.tokenInfo = w.api.token

\* What a check says of a license, or a query under way will.
LicenseIsKnown(w, failed, c) ==
  (/\ Reported(w, failed) /\ AUTH \notin w.checks.silent /\ ~w.checks.engaged[AUTH]
   /\ ~w.checks.engaged[c] /\ ~Asks(w, c)
   /\ c = "CHAT_NO_LICENSE" => w.api.instance[2] \notin OldInstances \cup {NoVersion})
  => <<w.api.url, w.api.token>> \in Licensed[c]

AccountInv(w, failed) ==
  /\ AccountBase(w) /\ NothingIsKnown(w) /\ AuthenticationIsKnown(w, failed)
  /\ \A c \in Licenses : LicenseIsKnown(w, failed, c)

\* Whatever crossed: the API client has what is configured,
Held(w) ==
  /\ w.config.url \in Urls /\ w.config.token \in Tokens \cup {NoToken}
  /\ w.queries \in Seq(Queries) /\ w.checking \in Seq(TokenChecks)
  /\ DOMAIN w.api = {"url", "token", "instance", "tokenInfo"}
  /\ w.api.url = w.config.url /\ w.api.token = w.config.token

\* ... and a token that is left is checked, or was when the client last heard of it.
IsChecked(w) ==
  \E check \in Range(w.checking) : check.url = w.api.url /\ check.token = w.api.token
IsConfirmed(w) ==
  /\ AUTH \notin w.checks.silent /\ ~w.checks.engaged[AUTH]
  /\ w.api.instance[1] = w.api.url

CrossingInv(w, failed) ==
  /\ Held(w) /\ NothingIsKnown(w)
  /\ ~failed /\ w.api.token # NoToken => IsChecked(w) \/ IsConfirmed(w)

\* A listener that changes nothing of this.
SameAccount(v, w) ==
  /\ v.config.url = w.config.url /\ v.config.token = w.config.token
  /\ v.api = w.api /\ v.checking = w.checking
  /\ v.queries \in Seq(Queries) /\ LicenseQueries(v) = LicenseQueries(w)
  /\ \A c \in Unswitched : /\ v.checks.engaged[c] = w.checks.engaged[c]
                           /\ c \in v.checks.silent <=> c \in w.checks.silent

LEMMA SameAccountBase ==
  ASSUME NEW v, NEW w, SameAccount(v, w), AccountBase(w)
  PROVE  AccountBase(v)
BY DEF AccountBase, SameAccount, IsOfTheAccount

LEMMA SameAccountKeeps ==
  ASSUME NEW v, NEW w, NEW failed, SameAccount(v, w), AccountInv(w, failed)
  PROVE  AccountInv(v, failed)
<1>1. AUTH \in Unswitched /\ Licenses \subseteq Unswitched
  BY DEF Unswitched
<1>2. AccountBase(v)
  BY SameAccountBase DEF AccountInv
<1>3. NothingIsKnown(v) /\ AuthenticationIsKnown(v, failed)
  BY <1>1 DEF AccountInv, NothingIsKnown, AuthenticationIsKnown, Asks, SameAccount, Reported
<1>4. ASSUME NEW c \in Licenses PROVE LicenseIsKnown(v, failed, c)
  BY <1>1 DEF AccountInv, LicenseIsKnown, Asks, SameAccount, Reported
<1> QED BY <1>2, <1>3, <1>4 DEF AccountInv

LEMMA SameAccountCrossing ==
  ASSUME NEW v, NEW w, NEW failed, SameAccount(v, w), CrossingInv(w, failed)
  PROVE  CrossingInv(v, failed)
<1>1. AUTH \in Unswitched /\ Licenses \subseteq Unswitched
  BY DEF Unswitched
<1>2. Held(v)
  BY DEF CrossingInv, Held, SameAccount
<1>3. NothingIsKnown(v)
  BY <1>1 DEF CrossingInv, NothingIsKnown, Asks, SameAccount
<1>4. IsChecked(w) => IsChecked(v)
  BY DEF IsChecked, SameAccount
<1>5. IsConfirmed(w) => IsConfirmed(v)
  BY <1>1 DEF IsConfirmed, SameAccount
<1>6. v.api = w.api
  BY DEF SameAccount
<1> QED BY <1>2, <1>3, <1>4, <1>5, <1>6 DEF CrossingInv

\* Sequences of queries and of token checks.
LEMMA RangeIs ==
  ASSUME NEW S, NEW s \in Seq(S)
  PROVE  /\ \A i \in 1 .. Len(s) : s[i] \in Range(s)
         /\ \A x \in Range(s) : x \in S /\ \E i \in 1 .. Len(s) : x = s[i]
<1>1. DOMAIN s = 1 .. Len(s) /\ \A i \in 1 .. Len(s) : s[i] \in S
  OBVIOUS
<1>2. Range(s) = {s[i] : i \in 1 .. Len(s)}
  BY <1>1 DEF Range
<1> QED BY <1>1, <1>2, Zenon

LEMMA ConcatIs ==
  ASSUME NEW S, NEW s \in Seq(S), NEW t \in Seq(S)
  PROVE  s \o t \in Seq(S) /\ Range(s \o t) = Range(s) \cup Range(t)
<1>1. /\ s \o t \in Seq(S) /\ Len(s) \in Nat /\ Len(t) \in Nat
      /\ Len(s \o t) = Len(s) + Len(t)
      /\ \A i \in 1 .. Len(s \o t) :
           (s \o t)[i] = IF i <= Len(s) THEN s[i] ELSE t[i - Len(s)]
  OBVIOUS
<1> DEFINE both == s \o t
<1>2. ASSUME NEW x \in Range(s) PROVE x \in Range(both)
  <2>1. PICK i \in 1 .. Len(s) : x = s[i]
    BY RangeIs
  <2>2. i \in 1 .. Len(both) /\ both[i] = x
    BY <1>1, <2>1
  <2> QED BY <1>1, <2>2, RangeIs
<1>3. ASSUME NEW x \in Range(t) PROVE x \in Range(both)
  <2>1. PICK i \in 1 .. Len(t) : x = t[i]
    BY RangeIs
  <2>2. Len(s) + i \in 1 .. Len(both) /\ both[Len(s) + i] = x
    BY <1>1, <2>1
  <2> QED BY <1>1, <2>2, RangeIs
<1>4. ASSUME NEW x \in Range(both) PROVE x \in Range(s) \cup Range(t)
  <2>1. PICK i \in 1 .. Len(both) : x = both[i]
    BY <1>1, RangeIs
  <2>2. CASE i <= Len(s)
    <3>1. i \in 1 .. Len(s) /\ x = s[i]
      BY <1>1, <2>1, <2>2
    <3> QED BY <3>1, RangeIs
  <2>3. CASE ~(i <= Len(s))
    <3>1. i - Len(s) \in 1 .. Len(t) /\ x = t[i - Len(s)]
      BY <1>1, <2>1, <2>3
    <3> QED BY <3>1, RangeIs
  <2> QED BY <2>2, <2>3
<1> HIDE DEF both
<1>5. Range(both) = Range(s) \cup Range(t)
  BY <1>2, <1>3, <1>4, Zenon
<1> QED BY <1>1, <1>5 DEF both

LEMMA RemoveAtIs ==
  ASSUME NEW S, NEW s \in Seq(S), NEW i \in DOMAIN s
  PROVE  /\ RemoveAt(s, i) \in Seq(S) /\ Range(RemoveAt(s, i)) \subseteq Range(s)
         /\ Range(s) \subseteq Range(RemoveAt(s, i)) \cup {s[i]}
<1> DEFINE a == SubSeq(s, 1, i - 1)
           b == SubSeq(s, i + 1, Len(s))
<1>1. i \in 1 .. Len(s) /\ Len(s) \in Nat
  OBVIOUS
<1>2. /\ a \in Seq(S) /\ Len(a) = i - 1
      /\ \A j \in 1 .. i - 1 : j \in 1 .. Len(s) /\ a[j] = s[j]
  BY <1>1
<1>3. /\ b \in Seq(S) /\ Len(b) = Len(s) - i
      /\ \A j \in 1 .. Len(s) - i : j + i \in 1 .. Len(s) /\ b[j] = s[j + i]
  BY <1>1
<1> HIDE DEF a, b
<1>4. RemoveAt(s, i) = a \o b
  BY DEF RemoveAt, a, b
<1>5. ASSUME NEW x \in Range(a) PROVE x \in Range(s)
  <2>1. PICK j \in 1 .. i - 1 : x = a[j]
    BY <1>2, RangeIs
  <2> QED BY <1>2, <2>1, RangeIs
<1>6. ASSUME NEW x \in Range(b) PROVE x \in Range(s)
  <2>1. PICK j \in 1 .. Len(s) - i : x = b[j]
    BY <1>3, RangeIs
  <2> QED BY <1>3, <2>1, RangeIs
<1>7. ASSUME NEW x \in Range(s), x # s[i] PROVE x \in Range(a) \cup Range(b)
  <2>1. PICK j \in 1 .. Len(s) : x = s[j]
    BY RangeIs
  <2>2. CASE j < i
    <3>1. j \in 1 .. i - 1 /\ a[j] = x
      BY <1>1, <1>2, <2>1, <2>2
    <3> QED BY <1>2, <3>1, RangeIs
  <2>3. CASE j > i
    <3>1. j - i \in 1 .. Len(s) - i /\ (j - i) + i = j
      BY <1>1, <2>3
    <3>2. b[j - i] = x
      BY <1>3, <2>1, <3>1
    <3> QED BY <1>3, <3>1, <3>2, RangeIs
  <2> QED BY <1>1, <1>7, <2>1, <2>2, <2>3
<1>8. Range(a \o b) = Range(a) \cup Range(b) /\ a \o b \in Seq(S)
  BY <1>2, <1>3, ConcatIs
<1> QED BY <1>4, <1>5, <1>6, <1>7, <1>8

\* The queries after some more checks asked.
LEMMA QueriesAre ==
  ASSUME NEW account, account.url \in Urls, account.token \in Tokens \cup {NoToken},
         NEW cs \in Seq(Checks), NEW qs \in Seq(Queries), NEW new,
         new = qs \o queriesOf(account, cs)
  PROVE  /\ new \in Seq(Queries) /\ Range(qs) \subseteq Range(new)
         /\ \A c \in Range(cs) : queryOf(account, c) \in Range(new)
         /\ \A q \in Range(new) :
              \/ q \in Range(qs)
              \/ q.check \in Range(cs) /\ q.url = account.url /\ q.token = account.token
<1> DEFINE t == [i \in DOMAIN cs |-> queryOf(account, cs[i])]
<1>1. DOMAIN cs = 1 .. Len(cs) /\ Len(cs) \in Nat /\ \A i \in 1 .. Len(cs) : cs[i] \in Checks
  OBVIOUS
<1>2. \A c \in Checks : queryOf(account, c) \in Queries
  BY DEF Queries, queryOf
<1>3. t \in Seq(Queries) /\ Len(t) = Len(cs) /\ \A i \in 1 .. Len(cs) : t[i] = queryOf(account, cs[i])
  BY <1>1, <1>2
<1>4. new = qs \o t
  BY DEF queriesOf
<1> HIDE DEF t
<1>5. new \in Seq(Queries) /\ Range(new) = Range(qs) \cup Range(t)
  <2>1. t \in Seq(Queries)
    BY <1>3
  <2>2. qs \o t \in Seq(Queries) /\ Range(qs \o t) = Range(qs) \cup Range(t)
    BY <2>1, ConcatIs
  <2> QED BY <1>4, <2>2
<1>6. ASSUME NEW c \in Range(cs) PROVE queryOf(account, c) \in Range(t)
  <2>1. PICK i \in 1 .. Len(cs) : c = cs[i]
    BY RangeIs
  <2> QED BY <1>3, <2>1, RangeIs
<1>7. ASSUME NEW q \in Range(t)
      PROVE  q.check \in Range(cs) /\ q.url = account.url /\ q.token = account.token
  <2>1. PICK i \in 1 .. Len(cs) : q = t[i]
    BY <1>3, RangeIs
  <2>2. q = queryOf(account, cs[i]) /\ cs[i] \in Range(cs)
    BY <1>3, <2>1, RangeIs
  <2> QED BY <2>2 DEF queryOf
<1> QED BY <1>5, <1>6, <1>7 DEF queryOf

LEMMA ChecksOfTheAccount ==
  /\ AUTH \in Unswitched /\ Licenses \subseteq Unswitched /\ AUTH \notin Licenses
  /\ VERSION \notin Unswitched /\ PROJECT \notin Unswitched /\ LANGUAGE \notin Unswitched
  /\ API_ERROR \notin Unswitched /\ Unswitched \subseteq Checks
BY ChecksAreNamed DEF Unswitched, AUTH, VERSION, PROJECT, LANGUAGE, API_ERROR

\* The account of an API client and its queries, typed.
Typed(w) == /\ w.queries \in Seq(Queries)
            /\ w.api.url \in Urls /\ w.api.token \in Tokens \cup {NoToken}

\* The listeners of a configuration ask for the version, and announce others.
LEMMA ConfigListenersSame ==
  ASSUME NEW w, Told(w), Typed(w), NEW project \in BOOLEAN
  PROVE  LET v == configListeners(w, project) IN SameAccount(v, w) /\ Told(v)
<1>1. PICK v : v = configListeners(w, project)
  OBVIOUS
<1>2. /\ Told(v) /\ v.config = w.config /\ v.api = w.api /\ v.checking = w.checking
      /\ v.queries = versionListener(w).queries
      /\ \A c \in Unswitched : /\ v.checks.engaged[c] = w.checks.engaged[c]
                               /\ c \in v.checks.silent <=> c \in w.checks.silent
  BY <1>1, ConfigListenersFields
<1>3. v.queries \in Seq(Queries) /\ LicenseQueries(v) = LicenseQueries(w)
  <2>1. CASE v.queries = w.queries
    BY <2>1 DEF LicenseQueries, Typed
  <2>2. CASE v.queries = w.queries \o queriesOf(w.api, <<VERSION>>)
    <3>1. PICK cs : cs = <<VERSION>>
      OBVIOUS
    <3>2. cs \in Seq(Checks) /\ \A c \in Range(cs) : c = VERSION
      BY <3>1, ChecksAreNamed DEF Range
    <3>3. v.queries = w.queries \o queriesOf(w.api, cs)
      BY <2>2, <3>1
    <3>4. /\ v.queries \in Seq(Queries) /\ Range(w.queries) \subseteq Range(v.queries)
          /\ \A q \in Range(v.queries) : q \in Range(w.queries) \/ q.check \in Range(cs)
      <4>1. PICK account, qs, new : account = w.api /\ qs = w.queries /\ new = v.queries
        OBVIOUS
      <4>2. qs \in Seq(Queries)
        BY <4>1 DEF Typed
      <4>3. account.url \in Urls /\ account.token \in Tokens \cup {NoToken}
        BY <4>1 DEF Typed
      <4>4. new = qs \o queriesOf(account, cs)
        BY <3>3, <4>1
      <4>5. cs \in Seq(Checks)
        BY <3>2
      <4>6. /\ new \in Seq(Queries) /\ Range(qs) \subseteq Range(new)
            /\ \A q \in Range(new) : q \in Range(qs) \/ q.check \in Range(cs)
        BY <4>2, <4>3, <4>4, <4>5, QueriesAre
      <4> QED BY <4>1, <4>6
    <3> QED BY <3>2, <3>4, ChecksOfTheAccount DEF LicenseQueries
  <2> QED BY <1>2, <2>1, <2>2, VersionListenerFields DEF Told
<1> QED BY <1>1, <1>2, <1>3 DEF SameAccount

\* An announcement of another check.
LEMMA OthersSame ==
  ASSUME NEW w, Shaped(w), w.queries \in Seq(Queries),
         NEW c \in Checks \ Unswitched, NEW engaged \in BOOLEAN,
         \A d \in Checks \ (w.checks.silent \cup {c}) : Right(w, d)
  PROVE  SameAccount(change(w, only(c, engaged)), w)
<1>1. PICK v : v = change(w, only(c, engaged))
  OBVIOUS
<1>2. /\ v.config = w.config /\ v.api = w.api /\ v.checking = w.checking
      /\ v.queries = w.queries /\ v.checks.silent = w.checks.silent \ {c}
      /\ \A d \in Checks : v.checks.engaged[d]
           = IF d = c THEN engaged ELSE w.checks.engaged[d]
  BY <1>1, OneChangeFields
<1>3. \A d \in Unswitched : d \in Checks /\ d # c
  BY ChecksOfTheAccount
<1> QED BY <1>1, <1>2, <1>3 DEF SameAccount, LicenseQueries

\* The API client takes over a configuration when no check of another is under way.
LEMMA ConfigureBase ==
  ASSUME NEW w, Shaped(w), w.checking = <<>>, LicenseQueries(w) = {},
         w.queries \in Seq(Queries), w.config.url \in Urls,
         w.config.token \in Tokens \cup {NoToken},
         DOMAIN w.api = {"url", "token", "instance", "tokenInfo"}
  PROVE  LET v == configureApi(w) IN
         /\ AccountBase(v) /\ LicenseQueries(v) = {} /\ v.checks = w.checks
         /\ v.api.token = w.config.token
         /\ IF w.api.url = w.config.url /\ w.api.token = w.config.token
            THEN v.checking = <<>> /\ v.api = w.api
            ELSE v.checking # <<>>
<1>1. PICK v : v = configureApi(w)
  OBVIOUS
<1>2. /\ v.config = w.config /\ v.queries = w.queries /\ v.checks = w.checks
      /\ IF w.api.url = w.config.url /\ w.api.token = w.config.token
         THEN v.api = w.api /\ v.checking = w.checking
         ELSE /\ v.checking = Append(w.checking,
                   [url |-> w.config.url, token |-> w.config.token,
                    step |-> "token", versionOf |-> NoVersion])
              /\ v.api = [w.api EXCEPT !.url = w.config.url, !.token = w.config.token]
  BY <1>1, ConfigureApiFields
<1>3. LicenseQueries(v) = {}
  BY <1>2 DEF LicenseQueries
<1>4. CASE w.api.url = w.config.url /\ w.api.token = w.config.token
  BY <1>1, <1>2, <1>3, <1>4 DEF AccountBase
<1>5. CASE ~(w.api.url = w.config.url /\ w.api.token = w.config.token)
  <2>1. PICK check : check = [url |-> w.config.url, token |-> w.config.token,
                              step |-> "token", versionOf |-> NoVersion]
    OBVIOUS
  <2>2. check \in TokenChecks /\ check.step # "version"
        /\ check.url = w.config.url /\ check.token = w.config.token
    BY <2>1 DEF TokenChecks
  <2>3. v.checking = <<check>> /\ v.checking # <<>>
    BY <1>2, <1>5, <2>1
  <2>4. /\ v.api.url = w.config.url /\ v.api.token = w.config.token
        /\ DOMAIN v.api = {"url", "token", "instance", "tokenInfo"}
    BY <1>2, <1>5
  <2>5. IsOfTheAccount(check, v)
    BY <2>2, <2>3, <2>4 DEF IsOfTheAccount
  <2>6. AccountBase(v)
    BY <1>2, <1>3, <2>2, <2>4, <2>5 DEF AccountBase
  <2> QED BY <1>1, <1>2, <1>3, <1>5, <2>3, <2>4, <2>6
<1> QED BY <1>4, <1>5

\* The authentication check says that the user is to authenticate: the token is being
\* checked, or there is none.
LEMMA FiredInvalidAccount ==
  ASSUME NEW w, Told(w), AccountBase(w), w.checking # <<>> \/ w.api.token = NoToken,
         NEW failed
  PROVE  AccountInv(firedInvalid(w), failed)
<1>1. PICK v : v = change(w, only(AUTH, TRUE))
  OBVIOUS
<1>2. /\ v.config = w.config /\ v.api = w.api /\ v.checking = w.checking
      /\ v.queries = w.queries /\ v.checks.silent = w.checks.silent \ {AUTH}
      /\ v.checks.engaged[AUTH]
  BY <1>1, OneChangeFields, ChecksAreNamed DEF Told
<1>3. AccountBase(v)
  BY <1>2 DEF AccountBase, LicenseQueries, IsOfTheAccount
<1>4. NothingIsKnown(v) /\ AuthenticationIsKnown(v, failed)
  BY <1>2 DEF NothingIsKnown, AuthenticationIsKnown, Reported
<1>5. \A c \in Licenses : LicenseIsKnown(v, failed, c)
  BY <1>2 DEF LicenseIsKnown
<1> QED BY <1>1, <1>3, <1>4, <1>5 DEF AccountInv, firedInvalid

LEMMA BecomesAccount ==
  ASSUME NEW w, Told(w), becomes(w), NEW failed, AccountInv(w, failed)
  PROVE  AccountInv(World', failed)
<1>1. Becoming(w)
  BY BecomesWorld
<1>2. SameAccount(World', w)
  BY <1>1 DEF Becoming, SameAccount, AccountInv, AccountBase, LicenseQueries
<1> QED BY <1>2, SameAccountKeeps

LEMMA BaseIsTyped == ASSUME NEW w, AccountBase(w) PROVE Typed(w)
BY DEF AccountBase, Typed

\* A world with the account of the current one, in which the configuration's listeners run.
LEMMA ListenersKeepTheAccount ==
  ASSUME NEW w, Told(w), NEW failed, AccountInv(w, failed), NEW project \in BOOLEAN,
         becomes(configListeners(w, project))
  PROVE  AccountInv(World', failed) /\ api' = w.api
<1>1. Typed(w)
  BY BaseIsTyped DEF AccountInv
<1>2. PICK v : v = configListeners(w, project)
  OBVIOUS
<1>3. SameAccount(v, w) /\ Told(v)
  BY <1>1, <1>2, ConfigListenersSame
<1>4. AccountInv(v, failed)
  BY <1>3, SameAccountKeeps
<1>5. api' = w.api
  BY <1>2, <1>3 DEF becomes, SameAccount
<1> QED BY <1>2, <1>3, <1>4, <1>5, BecomesAccount

LEMMA BecomesCrossing ==
  ASSUME NEW w, Told(w), becomes(w), NEW failed, CrossingInv(w, failed)
  PROVE  CrossingInv(World', failed)
<1>1. Becoming(w)
  BY BecomesWorld
<1>2. SameAccount(World', w)
  BY <1>1 DEF Becoming, SameAccount, CrossingInv, Held, LicenseQueries
<1> QED BY <1>2, SameAccountCrossing

LEMMA ListenersKeepCrossing ==
  ASSUME NEW w, Told(w), NEW failed, CrossingInv(w, failed), NEW project \in BOOLEAN,
         becomes(configListeners(w, project))
  PROVE  CrossingInv(World', failed)
<1>1. Typed(w)
  BY DEF CrossingInv, Held, Typed
<1>2. PICK v : v = configListeners(w, project)
  OBVIOUS
<1>3. SameAccount(v, w) /\ Told(v)
  BY <1>1, <1>2, ConfigListenersSame
<1> QED BY <1>2, <1>3, SameAccountCrossing, BecomesCrossing

LEMMA ConfigureSwitchAccount ==
  ASSUME Told(World), CrossingInv(World, unreported), ~crossed => AccountInv(World, unreported),
         NEW c \in Switches, NEW value \in {"on", "off"}, ConfigureSwitch(c, value)
  PROVE  CrossingInv(World', unreported') /\ (~crossed' => AccountInv(World', unreported'))
<1>1. PICK w : w = [World EXCEPT !.config.switch[c] = value]
  OBVIOUS
<1>2. SameChecks(w, World)
  BY <1>1 DEF SameChecks, World, Told, Shaped, WorldFields
<1>3. /\ w.config.url = config.url /\ w.config.token = config.token /\ w.api = api
      /\ w.checking = checking /\ w.queries = queries /\ w.checks = checks
  BY <1>1 DEF World, Told, Shaped
<1>4. SameAccount(w, World)
  BY <1>3 DEF SameAccount, World, LicenseQueries, CrossingInv, Held
<1>5. /\ Told(w) /\ CrossingInv(w, unreported)
      /\ ~crossed => AccountInv(w, unreported)
  BY <1>2, <1>4, SameChecksTell, SameAccountKeeps, SameAccountCrossing
<1>6. configureApi(w) = w
  BY <1>3 DEF configureApi, CrossingInv, Held, World
<1>7. PICK project \in BOOLEAN : becomes(configListeners(w, project))
  BY <1>1, <1>6 DEF ConfigureSwitch, configChanges
<1>8. unreported' = unreported /\ crossed' = crossed
  BY DEF ConfigureSwitch, history
<1> QED BY <1>5, <1>7, <1>8, ListenersKeepTheAccount, ListenersKeepCrossing

\* The worlds that a change of the account goes through before the listeners are told.
LEMMA ConfigureAccountFields ==
  ASSUME Told(World), CrossingInv(World, unreported), NEW url \in Urls, NEW token \in Tokens,
         ConfigureAccount(url, token)
  PROVE  \E w, v : \E project \in BOOLEAN :
           /\ v = configureApi(w) /\ becomes(configListeners(v, project))
           /\ SameChecks(w, World) /\ Told(w) /\ Told(v) /\ Held(v)
           /\ w.config.url = url /\ w.config.token = token /\ w.api = api
           /\ w.checking = checking /\ w.queries = queries /\ w.checks = checks
           /\ api' = v.api /\ (api' = api <=> url = config.url /\ token = config.token)
           /\ v.checks = checks /\ v.queries = queries
           /\ IF url = config.url /\ token = config.token
              THEN v = w /\ SameAccount(w, World)
              ELSE IsChecked(v)
<1>1. PICK w : w = [World EXCEPT !.config.url = url, !.config.token = token]
  OBVIOUS
<1>2. SameChecks(w, World) /\ Told(w)
  <2>1. SameChecks(w, World)
    BY <1>1 DEF SameChecks, World, Told, Shaped, WorldFields
  <2> QED BY <2>1, SameChecksTell
<1>3. /\ w.config.url = url /\ w.config.token = token /\ w.api = api
      /\ w.checking = checking /\ w.queries = queries /\ w.checks = checks
  BY <1>1 DEF World, Told, Shaped
<1>4. /\ DOMAIN api = {"url", "token", "instance", "tokenInfo"}
      /\ api.url = config.url /\ api.token = config.token
      /\ queries \in Seq(Queries) /\ checking \in Seq(TokenChecks)
  BY DEF CrossingInv, Held, World
<1>5. PICK v : v = configureApi(w)
  OBVIOUS
<1>6. /\ v.config = w.config /\ v.queries = queries /\ v.checks = checks /\ SameChecks(v, w)
      /\ IF api.url = url /\ api.token = token
         THEN v.api = api /\ v.checking = checking
         ELSE /\ v.checking = Append(checking,
                   [url |-> url, token |-> token, step |-> "token", versionOf |-> NoVersion])
              /\ v.api = [api EXCEPT !.url = url, !.token = token]
  BY <1>2, <1>3, <1>5, ConfigureApiFields DEF Told
<1>7. Told(v)
  BY <1>2, <1>6, SameChecksTell
<1>8. PICK project \in BOOLEAN : becomes(configListeners(v, project))
  BY <1>1, <1>5 DEF ConfigureAccount, configChanges
<1>9. CASE url = config.url /\ token = config.token
  <2>1. v = w
    BY <1>3, <1>4, <1>5, <1>9 DEF configureApi
  <2>2. v.api = api
    BY <1>4, <1>6, <1>9
  <2>3. Held(v)
    BY <1>3, <1>4, <1>9, <2>1 DEF Held
  <2>4. SameAccount(w, World)
    BY <1>3, <1>4, <1>9 DEF SameAccount, World, LicenseQueries
  <2>5. Typed(v)
    BY <2>3 DEF Held, Typed
  <2>6. api' = v.api
    BY <1>7, <1>8, <2>5, ConfigListenersSame DEF becomes, SameAccount
  <2> QED BY <1>2, <1>3, <1>5, <1>6, <1>7, <1>8, <1>9, <2>1, <2>2, <2>3, <2>4, <2>6
<1>10. CASE ~(url = config.url /\ token = config.token)
  <2>1. PICK check : check = [url |-> url, token |-> token,
                              step |-> "token", versionOf |-> NoVersion]
    OBVIOUS
  <2>2. check \in TokenChecks /\ check.url = url /\ check.token = token
    BY <2>1 DEF TokenChecks
  <2>3. v.checking = Append(checking, check) /\ v.api = [api EXCEPT !.url = url, !.token = token]
    BY <1>4, <1>6, <1>10, <2>1
  <2>4. /\ v.api.url = url /\ v.api.token = token /\ v.api # api
        /\ DOMAIN v.api = {"url", "token", "instance", "tokenInfo"}
    BY <1>4, <1>10, <2>3
  <2>5. v.checking \in Seq(TokenChecks) /\ check \in Range(v.checking)
    <3>1. v.checking \in Seq(TokenChecks) /\ Len(checking) + 1 \in 1 .. Len(v.checking)
          /\ v.checking[Len(checking) + 1] = check
      BY <1>4, <2>2, <2>3
    <3> QED BY <3>1, RangeIs
  <2>6. Held(v)
    BY <1>3, <1>4, <1>6, <2>4, <2>5 DEF Held
  <2>7. IsChecked(v)
    BY <2>2, <2>4, <2>5 DEF IsChecked
  <2>8. Typed(v)
    BY <2>6 DEF Held, Typed
  <2>9. api' = v.api
    BY <1>7, <1>8, <2>8, ConfigListenersSame DEF becomes, SameAccount
  <2> QED BY <1>2, <1>3, <1>5, <1>6, <1>7, <1>8, <1>10, <2>4, <2>6, <2>7, <2>9
<1> QED BY <1>9, <1>10

\* A change of the account keeps what crossing changes leave, and, if it waited, brings
\* about the rest.
LEMMA ConfigureAccountAccount ==
  ASSUME Told(World), CrossingInv(World, unreported), unreported \in BOOLEAN,
         ~crossed => AccountInv(World, unreported),
         NEW url \in Urls, NEW token \in Tokens, ConfigureAccount(url, token)
  PROVE  /\ CrossingInv(World', unreported')
         /\ ~crossed' => AccountInv(World', unreported')
<1> DEFINE same == url = config.url /\ token = config.token
<1>1. PICK w, v, project :
        /\ project \in BOOLEAN /\ v = configureApi(w) /\ becomes(configListeners(v, project))
        /\ SameChecks(w, World) /\ Told(w) /\ Told(v) /\ Held(v)
        /\ w.config.url = url /\ w.config.token = token /\ w.api = api
        /\ w.checking = checking /\ w.queries = queries /\ w.checks = checks
        /\ api' = v.api /\ (api' = api <=> same)
        /\ v.checks = checks /\ v.queries = queries
        /\ IF same THEN v = w /\ SameAccount(w, World) ELSE IsChecked(v)
  BY ConfigureAccountFields
<1> HIDE DEF same
<1>2. NothingIsKnown(v)
  BY <1>1 DEF CrossingInv, NothingIsKnown, World, Asks, LicenseQueries
<1>3. IF same THEN unreported' = unreported /\ crossed' = crossed
      ELSE unreported' = FALSE /\ crossed' = ~AllQuiet
  BY <1>1 DEF ConfigureAccount, history
<1>4. CASE same
  <2>1. CrossingInv(v, unreported)
    BY <1>1, <1>4, SameAccountCrossing
  <2>2. CrossingInv(World', unreported)
    BY <1>1, <2>1, ListenersKeepCrossing
  <2>3. ASSUME ~crossed PROVE AccountInv(World', unreported)
    <3>1. AccountInv(v, unreported)
      BY <1>1, <1>4, <2>3, SameAccountKeeps
    <3> QED BY <1>1, <3>1, ListenersKeepTheAccount
  <2> QED BY <1>3, <1>4, <2>2, <2>3
<1>5. CASE ~same
  <2>1. CrossingInv(v, FALSE)
    BY <1>1, <1>2, <1>5 DEF CrossingInv
  <2>2. CrossingInv(World', FALSE)
    BY <1>1, <2>1, ListenersKeepCrossing
  <2>3. ASSUME AllQuiet PROVE AccountInv(World', FALSE)
    <3>1. checking = <<>> /\ queries = <<>>
      BY <2>3 DEF AllQuiet, Quiet
    <3>2. LicenseQueries(w) = {} /\ w.queries \in Seq(Queries)
      BY <1>1, <3>1 DEF LicenseQueries, Range
    <3>3. DOMAIN w.api = {"url", "token", "instance", "tokenInfo"} /\ Shaped(w)
      BY <1>1 DEF CrossingInv, Held, World, Told
    <3>4. w.config.url \in Urls /\ w.config.token \in Tokens \cup {NoToken} /\ w.checking = <<>>
      BY <1>1, <3>1
    <3>5. /\ AccountBase(v)
          /\ IF w.api.url = w.config.url /\ w.api.token = w.config.token
             THEN v.api = w.api ELSE v.checking # <<>>
      BY <1>1, <3>2, <3>3, <3>4, ConfigureBase
    <3>6. v.checking # <<>>
      BY <1>1, <1>5, <3>5
    <3>7. /\ AuthenticationIsKnown(v, FALSE)
          /\ \A c \in Licenses : LicenseIsKnown(v, FALSE, c)
      BY <3>6 DEF AuthenticationIsKnown, LicenseIsKnown, Reported
    <3>8. AccountInv(v, FALSE)
      BY <1>2, <3>5, <3>7 DEF AccountInv
    <3> QED BY <1>1, <3>8, ListenersKeepTheAccount
  <2> QED BY <1>3, <1>5, <2>2, <2>3
<1> QED BY <1>4, <1>5

\* There is one check at most, and no license is asked for meanwhile.
LEMMA OneCheck ==
  ASSUME AccountBase(World), NEW i \in DOMAIN checking
  PROVE  /\ i = 1 /\ IsOfTheAccount(checking[i], World) /\ checking[i] \in TokenChecks
         /\ checking # <<>> /\ LicenseQueries(World) = {} /\ RemoveAt(checking, i) = <<>>
<1>1. World.checking = checking
  BY DEF World
<1>2. checking # <<>>
  OBVIOUS
<1>3. PICK check \in TokenChecks : IsOfTheAccount(check, World)
  BY <1>1, <1>2 DEF AccountBase
<1>4. checking = <<check>>
  BY <1>1, <1>3 DEF IsOfTheAccount
<1>5. i = 1 /\ checking[i] = check
  BY <1>4
<1>6. RemoveAt(checking, i) = <<>>
  <2>1. SubSeq(checking, 1, 0) = <<>> /\ SubSeq(checking, 2, 1) = <<>> /\ Len(checking) = 1
    BY <1>4
  <2>2. <<>> \o <<>> = <<>>
    OBVIOUS
  <2> QED BY <1>5, <2>1, <2>2 DEF RemoveAt
<1>7. LicenseQueries(World) = {}
  BY <1>1, <1>2 DEF AccountBase
<1> QED BY <1>2, <1>3, <1>5, <1>6, <1>7

LEMMA TokenIsInvalidAccount ==
  ASSUME Told(World), AccountInv(World, unreported), NEW i \in DOMAIN checking,
         TokenIsInvalid(i)
  PROVE  AccountInv(World', unreported')
<1>1. LicenseQueries(World) = {} /\ RemoveAt(checking, i) = <<>>
  BY OneCheck DEF AccountInv
<1>2. PICK w : /\ tokenIsInvalid(World, i) = configureApi(w)
               /\ SameChecks(w, World) /\ w.config = [config EXCEPT !.token = NoToken]
               /\ w.checking = <<>> /\ w.api = api
               /\ w.queries = queries /\ w.checks = checks
  <2>1. /\ World.config = config /\ World.checking = checking /\ World.api = api
        /\ World.queries = queries /\ World.checks = checks
    BY DEF World
  <2>2. \E w : /\ tokenIsInvalid(World, i) = configureApi(w)
               /\ SameChecks(w, World)
               /\ w.config = [World.config EXCEPT !.token = NoToken]
               /\ w.checking = RemoveAt(World.checking, i) /\ w.api = World.api
               /\ w.queries = World.queries /\ w.checks = World.checks
    BY TokenIsInvalidFields DEF Told
  <2> QED BY <1>1, <2>1, <2>2
<1>3. Told(w)
  BY <1>2, SameChecksTell
<1>4. PICK v : v = configureApi(w)
  OBVIOUS
<1>5. Told(v)
  BY <1>3, <1>4, ConfigureApiFields, SameChecksTell DEF Told
<1>6. AccountBase(v) /\ (v.checking # <<>> \/ v.api.token = NoToken)
  <2>1. /\ w.config.url \in Urls /\ w.config.token = NoToken
        /\ w.queries \in Seq(Queries) /\ LicenseQueries(w) = {}
        /\ DOMAIN w.api = {"url", "token", "instance", "tokenInfo"}
    BY <1>1, <1>2 DEF Told, Shaped, World, AccountInv, AccountBase, LicenseQueries
  <2> QED BY <1>2, <1>3, <1>4, <2>1, ConfigureBase DEF Told
<1>7. PICK project \in BOOLEAN : becomes(firedInvalid(configListeners(v, project)))
  BY <1>2, <1>4 DEF TokenIsInvalid
<1>8. PICK u : u = configListeners(v, project)
  OBVIOUS
<1>9. SameAccount(u, v) /\ Told(u)
  BY <1>5, <1>6, <1>8, BaseIsTyped, ConfigListenersSame
<1>10. AccountBase(u) /\ (u.checking # <<>> \/ u.api.token = NoToken)
  <2>1. AccountBase(u)
    BY <1>6, <1>9, SameAccountBase
  <2> QED BY <1>6, <1>9, <2>1 DEF SameAccount
<1>11. AccountInv(firedInvalid(u), unreported) /\ Told(firedInvalid(u))
  BY <1>9, <1>10, FiredInvalidAccount, FiredTells
<1> QED BY <1>7, <1>8, <1>11, BecomesAccount DEF TokenIsInvalid, history

LEMMA TokenIsValidAccount ==
  ASSUME Told(World), AccountInv(World, unreported), NEW i \in DOMAIN checking,
         TokenIsValid(i)
  PROVE  AccountInv(World', unreported')
<1>1. /\ i = 1 /\ IsOfTheAccount(checking[1], World) /\ checking[1] \in TokenChecks
      /\ LicenseQueries(World) = {} /\ checking = <<checking[1]>>
  BY OneCheck DEF AccountInv, IsOfTheAccount, World
<1>2. checking[1].token \in Tokens
  BY <1>1, AccountAssumption DEF TokenIsValid, canBeValid
<1>3. api.token \in Tokens /\ api.token # NoToken /\ api.url \in Urls
      /\ checking[1].url = api.url /\ checking[1].token = api.token
  BY <1>1, <1>2, AccountAssumption DEF IsOfTheAccount, World, AccountInv, AccountBase
<1>4. PICK check : check = [checking[1] EXCEPT !.step = "version", !.versionOf = api.url]
  OBVIOUS
<1>5. /\ check \in TokenChecks /\ check.url = api.url /\ check.token = api.token
      /\ check.step = "version" /\ check.versionOf = api.url
  BY <1>1, <1>3, <1>4 DEF TokenChecks
<1>6. PICK v : v = tokenIsValid(World, i)
  OBVIOUS
<1>7. /\ SameChecks(v, World) /\ v.config = config /\ v.api = api
      /\ v.queries = queries /\ v.checks = checks
  BY <1>6 DEF tokenIsValid, SameChecks, World, Told, Shaped, WorldFields
<1>8. v.checking = <<check>>
  <2>1. v.checking = [checking EXCEPT ![1] = check]
    BY <1>1, <1>3, <1>4, <1>6 DEF tokenIsValid, World
  <2> QED BY <1>1, <2>1
<1>9. AccountBase(v)
  <2>1. IsOfTheAccount(check, v)
    BY <1>3, <1>5, <1>7, <1>8 DEF IsOfTheAccount
  <2>2. LicenseQueries(v) = {}
    BY <1>1, <1>7 DEF LicenseQueries, World
  <2> QED BY <1>5, <1>7, <2>1, <2>2 DEF AccountInv, AccountBase, World
<1>10. NothingIsKnown(v)
  BY <1>1, <1>7 DEF AccountInv, NothingIsKnown, Asks, LicenseQueries, World
<1>11. /\ AuthenticationIsKnown(v, unreported)
       /\ \A c \in Licenses : LicenseIsKnown(v, unreported, c)
  BY <1>8 DEF AuthenticationIsKnown, LicenseIsKnown, Reported
<1>12. Told(v)
  BY <1>7, SameChecksTell
<1> QED BY <1>6, <1>9, <1>10, <1>11, <1>12, BecomesAccount DEF TokenIsValid, AccountInv, history

\* What the API client knows when the version came; then the checks fire: authentication,
\* and the licenses.
Learnt(w) ==
  /\ w.config.url \in Urls /\ w.api.token \in Tokens
  /\ w.api.url = w.config.url /\ w.api.token = w.config.token
  /\ w.queries \in Seq(Queries) /\ LicenseQueries(w) = {} /\ w.checking = <<>>
  /\ DOMAIN w.api = {"url", "token", "instance", "tokenInfo"}
  /\ w.api.instance \in {<<w.api.url, w.api.url>>, <<w.api.url, NoVersion>>}
  /\ w.api.tokenInfo = w.api.token

\* The fields that are left when a check found the token valid: its listeners announced
\* it, and asked for the licenses.
LEMMA FiredValidFields ==
  ASSUME NEW w, Told(w), Typed(w), NEW chat \in BOOLEAN
  PROVE  \E cs :
           LET v == firedValid(w, chat) IN
           /\ Told(v) /\ v.config = w.config /\ v.api = w.api /\ v.checking = w.checking
           /\ v.checks.silent = w.checks.silent \ {AUTH} /\ ~v.checks.engaged[AUTH]
           /\ Range(cs) \subseteq Licenses /\ "SUGGESTIONS_NO_LICENSE" \in Range(cs)
           /\ chat => "CHAT_NO_LICENSE" \in Range(cs)
           /\ v.queries \in Seq(Queries)
           /\ \A c \in Range(cs) : queryOf(w.api, c) \in Range(v.queries)
           /\ \A q \in Range(v.queries) :
                \/ q \in Range(w.queries)
                \/ q.check \in Range(cs) /\ q.url = w.api.url /\ q.token = w.api.token
<1>3. PICK u : u = change(w, only(AUTH, FALSE))
  OBVIOUS
<1>4. /\ Told(u) /\ u.config = w.config /\ u.api = w.api /\ u.checking = w.checking
      /\ u.queries = w.queries /\ u.checks.silent = w.checks.silent \ {AUTH}
      /\ ~u.checks.engaged[AUTH]
  <2>1. Shaped(w) /\ \A d \in Checks \ (w.checks.silent \cup {AUTH}) : Right(w, d)
    BY DEF Told
  <2>2. AUTH \in Checks
    BY ChecksAreNamed
  <2> QED BY <1>3, <2>1, <2>2, OneChangeFields
<1>5. PICK cs : cs = IF chat THEN LicenseChecks ELSE <<LicenseChecks[1]>>
  OBVIOUS
<1>6. /\ cs \in Seq(Checks) /\ Range(cs) \subseteq Licenses
      /\ "SUGGESTIONS_NO_LICENSE" \in Range(cs)
      /\ chat => "CHAT_NO_LICENSE" \in Range(cs)
  <2>1. CASE chat
    <3>1. cs = LicenseChecks /\ cs \in Seq(Checks)
      BY <1>5, <2>1, ChecksAreNamed DEF LicenseChecks
    <3> QED BY <3>1, ChecksAreNamed DEF Licenses
  <2>2. CASE ~chat
    <3>1. cs = <<"SUGGESTIONS_NO_LICENSE">>
      BY <1>5, <2>2 DEF LicenseChecks
    <3>2. cs \in Seq(Checks) /\ Range(cs) = {"SUGGESTIONS_NO_LICENSE"}
      BY <3>1, ChecksAreNamed DEF Range
    <3> QED BY <2>2, <3>2, ChecksAreNamed
  <2> QED BY <2>1, <2>2
<1>7. PICK v : v = query(u, cs)
  OBVIOUS
<1>8. /\ SameChecks(v, u) /\ v.config = w.config /\ v.api = w.api
      /\ v.checking = w.checking /\ v.checks = u.checks
      /\ v.queries = w.queries \o queriesOf(w.api, cs)
  <2>1. Shaped(u)
    BY <1>4 DEF Told
  <2>2. /\ SameChecks(v, u) /\ v.config = u.config /\ v.api = u.api
        /\ v.checking = u.checking /\ v.checks = u.checks
        /\ v.queries = u.queries \o queriesOf(u.api, cs)
    BY <1>7, <2>1, QueryFields
  <2> QED BY <1>4, <2>2
<1>9. v = firedValid(w, chat) /\ Told(v)
  <2>1. v = firedValid(w, chat)
    BY <1>3, <1>5, <1>7 DEF firedValid
  <2> QED BY <1>4, <1>8, <2>1, SameChecksTell
<1>10. /\ v.queries \in Seq(Queries)
       /\ \A c \in Range(cs) :
            queryOf(w.api, c) \in Range(v.queries)
       /\ \A q \in Range(v.queries) :
            \/ q \in Range(w.queries)
            \/ q.check \in Range(cs) /\ q.url = w.api.url /\ q.token = w.api.token
  <2>1. PICK account, qs, new : account = w.api /\ qs = w.queries /\ new = v.queries
    OBVIOUS
  <2>2. account.url \in Urls /\ account.token \in Tokens \cup {NoToken} /\ qs \in Seq(Queries)
    BY <2>1 DEF Typed
  <2>3. new = qs \o queriesOf(account, cs)
    BY <1>8, <2>1
  <2>4. cs \in Seq(Checks)
    BY <1>6
  <2>5. /\ new \in Seq(Queries)
        /\ \A c \in Range(cs) :
             queryOf(account, c) \in Range(new)
        /\ \A q \in Range(new) :
             \/ q \in Range(qs)
             \/ q.check \in Range(cs) /\ q.url = account.url /\ q.token = account.token
    BY <2>2, <2>3, <2>4, QueriesAre
  <2> QED BY <2>1, <2>5
<1> QED BY <1>4, <1>6, <1>8, <1>9, <1>10

LEMMA FiredValidAccount ==
  ASSUME NEW w, Told(w), Learnt(w), NEW chat \in asksForChat(w), NEW failed
  PROVE  AccountInv(firedValid(w, chat), failed) /\ Told(firedValid(w, chat))
<1>1. w.api.token # NoToken
  BY AccountAssumption DEF Learnt
<1>2. /\ chat \in BOOLEAN
      /\ w.api.instance[2] \notin OldInstances \cup {NoVersion} => chat = TRUE
  BY <1>1 DEF asksForChat, supports
<1>3. Typed(w)
  BY DEF Learnt, Typed
<1>4. PICK v : v = firedValid(w, chat)
  OBVIOUS
<1>5. PICK cs :
        /\ Told(v) /\ v.config = w.config /\ v.api = w.api /\ v.checking = w.checking
        /\ v.checks.silent = w.checks.silent \ {AUTH} /\ ~v.checks.engaged[AUTH]
        /\ Range(cs) \subseteq Licenses /\ "SUGGESTIONS_NO_LICENSE" \in Range(cs)
        /\ chat => "CHAT_NO_LICENSE" \in Range(cs)
        /\ v.queries \in Seq(Queries)
        /\ \A c \in Range(cs) : queryOf(w.api, c) \in Range(v.queries)
        /\ \A q \in Range(v.queries) :
             \/ q \in Range(w.queries)
             \/ q.check \in Range(cs) /\ q.url = w.api.url /\ q.token = w.api.token
  BY <1>2, <1>3, <1>4, FiredValidFields
<1>6. \A q \in LicenseQueries(v) : q.url = w.api.url /\ q.token = w.api.token
  BY <1>5 DEF LicenseQueries, Learnt
<1>7. \A c \in Range(cs) : Asks(v, c)
  <2> SUFFICES ASSUME NEW c \in Range(cs) PROVE Asks(v, c)
    OBVIOUS
  <2>1. PICK q : q = queryOf(w.api, c)
    OBVIOUS
  <2>2. q \in Range(v.queries) /\ q.check = c /\ c \in Licenses
    BY <1>5, <2>1 DEF queryOf
  <2> QED BY <2>2 DEF Asks, LicenseQueries
<1>8. AccountBase(v)
  BY <1>5, <1>6 DEF AccountBase, Learnt
<1>9. NothingIsKnown(v) /\ AuthenticationIsKnown(v, failed)
  <2>1. AUTH \notin v.checks.silent /\ ~v.checks.engaged[AUTH]
    BY <1>5
  <2> QED BY <1>1, <1>5, <2>1 DEF NothingIsKnown, AuthenticationIsKnown, Learnt
<1>10. ASSUME NEW c \in Licenses PROVE LicenseIsKnown(v, failed, c)
  <2>1. CASE c = "SUGGESTIONS_NO_LICENSE"
    BY <1>5, <1>7, <2>1 DEF LicenseIsKnown
  <2>2. CASE c = "CHAT_NO_LICENSE"
    BY <1>2, <1>5, <1>7, <2>2 DEF LicenseIsKnown
  <2> QED BY <2>1, <2>2, ChecksAreNamed
<1> QED BY <1>4, <1>5, <1>8, <1>9, <1>10 DEF AccountInv

LEMMA VersionIsKnownAccount ==
  ASSUME Told(World), AccountInv(World, unreported), NEW i \in DOMAIN checking,
         VersionIsKnown(i)
  PROVE  AccountInv(World', unreported')
<1>1. /\ IsOfTheAccount(checking[i], World) /\ checking[i].step = "version"
      /\ LicenseQueries(World) = {} /\ RemoveAt(checking, i) = <<>>
  BY OneCheck DEF AccountInv, VersionIsKnown
<1>2. /\ checking[i].token = api.token /\ checking[i].versionOf = api.url
      /\ api.token \in Tokens
  BY <1>1 DEF IsOfTheAccount, World
<1>3. PICK version, w : /\ version \in {api.url, NoVersion}
                        /\ w = versionIsKnown(World, i, version)
                        /\ \E chat \in asksForChat(w) : becomes(firedValid(w, chat))
  BY <1>2 DEF VersionIsKnown
<1>4. /\ SameChecks(w, World) /\ w.config = config /\ w.queries = queries
      /\ w.checking = <<>>
      /\ w.api.url = api.url /\ w.api.token = api.token /\ w.api.tokenInfo = api.token
      /\ w.api.instance = <<api.url, version>>
      /\ DOMAIN w.api = {"url", "token", "instance", "tokenInfo"}
  <2>1. PICK u : u = World
    OBVIOUS
  <2>2. /\ Shaped(u) /\ w = versionIsKnown(u, i, version)
        /\ DOMAIN u.api = {"url", "token", "instance", "tokenInfo"}
    BY <1>3, <2>1 DEF Told, AccountInv, AccountBase
  <2>3. /\ SameChecks(w, u) /\ w.config = u.config /\ w.queries = u.queries
        /\ w.checking = RemoveAt(u.checking, i)
    BY <2>2, VersionIsKnownFields
  <2>4. /\ DOMAIN w.api = DOMAIN u.api /\ w.api.url = u.api.url /\ w.api.token = u.api.token
        /\ w.api.instance = <<u.api.url, version>>
        /\ w.api.tokenInfo = u.checking[i].token
    BY <2>2 DEF versionIsKnown, Shaped, WorldFields
  <2>5. /\ u.config = config /\ u.queries = queries
        /\ u.checking = checking /\ u.api = api
    BY <2>1 DEF World
  <2> QED BY <1>1, <1>2, <2>1, <2>2, <2>3, <2>4, <2>5
<1>5. Told(w) /\ LicenseQueries(w) = {}
  BY <1>1, <1>4, SameChecksTell DEF LicenseQueries, World
<1>6. /\ api.url = config.url /\ api.token = config.token /\ queries \in Seq(Queries)
      /\ config.url \in Urls /\ DOMAIN api = {"url", "token", "instance", "tokenInfo"}
  BY DEF AccountInv, AccountBase, World
<1>7. PICK chat \in asksForChat(w) : becomes(firedValid(w, chat))
  BY <1>3
<1>8. AccountInv(firedValid(w, chat), unreported) /\ Told(firedValid(w, chat))
  <2>1. w.api.instance \in {<<w.api.url, w.api.url>>, <<w.api.url, NoVersion>>}
    BY <1>3, <1>4
  <2>2. /\ w.config.url \in Urls /\ w.queries \in Seq(Queries)
        /\ w.api.token \in Tokens /\ w.api.tokenInfo = w.api.token
        /\ w.api.url = w.config.url /\ w.api.token = w.config.token
    BY <1>2, <1>4, <1>6
  <2>3. Learnt(w)
    BY <1>4, <1>5, <2>1, <2>2 DEF Learnt
  <2> QED BY <1>5, <1>7, <2>3, FiredValidAccount
<1> QED BY <1>7, <1>8, BecomesAccount DEF VersionIsKnown, history

LEMMA VersionFailsAccount ==
  ASSUME Told(World), AccountInv(World, unreported), NEW i \in DOMAIN checking,
         VersionFails(i)
  PROVE  AccountInv(World', unreported')
<1>1. LicenseQueries(World) = {} /\ RemoveAt(checking, i) = <<>>
  BY OneCheck DEF AccountInv
<1>2. /\ World'.config = World.config /\ World'.api = World.api /\ World'.checking = <<>>
      /\ World'.checks = World.checks /\ World'.queries = World.queries /\ unreported'
  BY <1>1 DEF VersionFails, World
<1>3. LicenseQueries(World') = {}
  BY <1>1, <1>2 DEF LicenseQueries
<1>4. AccountBase(World')
  BY <1>2, <1>3 DEF AccountInv, AccountBase
<1>5. NothingIsKnown(World')
  BY <1>1, <1>2, <1>3 DEF AccountInv, NothingIsKnown, Asks
<1>6. /\ AuthenticationIsKnown(World', unreported')
      /\ \A c \in Licenses : LicenseIsKnown(World', unreported', c)
  BY <1>2 DEF AuthenticationIsKnown, LicenseIsKnown, Reported
<1> QED BY <1>4, <1>5, <1>6 DEF AccountInv

\* A license query is answered once the check is through; the others keep asking.
LEMMA LicenseAnswered ==
  ASSUME NEW w, NEW failed, AccountInv(w, failed), NEW u, Told(u),
         NEW i \in DOMAIN w.queries, NEW c \in Licenses, w.queries[i].check = c,
         u.config = w.config /\ u.api = w.api /\ u.checking = w.checking /\ u.checks = w.checks,
         u.queries = RemoveAt(w.queries, i),
         NEW engaged \in BOOLEAN, engaged \/ <<w.queries[i].url, w.queries[i].token>> \in Licensed[c]
  PROVE  AccountInv(change(u, only(c, engaged)), failed)
<1>1. PICK q : q = w.queries[i]
  OBVIOUS
<1>2. /\ u.queries \in Seq(Queries) /\ Range(u.queries) \subseteq Range(w.queries)
      /\ Range(w.queries) \subseteq Range(u.queries) \cup {q} /\ q \in Range(w.queries)
  <2>1. w.queries \in Seq(Queries)
    BY DEF AccountInv, AccountBase
  <2>2. q \in Range(w.queries)
    BY <1>1 DEF Range
  <2> QED BY <1>1, <2>1, <2>2, RemoveAtIs
<1>3. q \in LicenseQueries(w) /\ Asks(w, c)
  BY <1>1, <1>2 DEF LicenseQueries, Asks
<1>4. w.checking = <<>> /\ q.url = w.api.url /\ q.token = w.api.token
  BY <1>3 DEF AccountInv, AccountBase
<1>5. AUTH \notin w.checks.silent
  BY <1>3 DEF AccountInv, NothingIsKnown
<1>6. PICK v : v = change(u, only(c, engaged))
  OBVIOUS
<1>7. c \in Checks /\ c # AUTH /\ AUTH \in Checks /\ Licenses \subseteq Checks
  BY ChecksOfTheAccount
<1>8. /\ v.config = w.config /\ v.api = w.api /\ v.checking = w.checking
      /\ v.queries = u.queries /\ v.checks.silent = w.checks.silent \ {c}
      /\ \A d \in Checks : v.checks.engaged[d]
           = IF d = c THEN engaged ELSE w.checks.engaged[d]
  <2>1. Shaped(u) /\ \A d \in Checks \ (u.checks.silent \cup {c}) : Right(u, d)
    BY DEF Told
  <2>2. /\ v.config = u.config /\ v.api = u.api /\ v.checking = u.checking
        /\ v.queries = u.queries /\ v.checks.silent = u.checks.silent \ {c}
        /\ \A d \in Checks : v.checks.engaged[d]
             = IF d = c THEN engaged ELSE u.checks.engaged[d]
    BY <1>6, <1>7, <2>1, OneChangeFields
  <2> QED BY <2>2
<1>9. LicenseQueries(v) \subseteq LicenseQueries(w)
  BY <1>2, <1>8 DEF LicenseQueries
<1>10. \A d \in Licenses : d # c /\ Asks(w, d) => Asks(v, d)
  <2> SUFFICES ASSUME NEW d \in Licenses, d # c, Asks(w, d) PROVE Asks(v, d)
    OBVIOUS
  <2>1. PICK p \in LicenseQueries(w) : p.check = d
    BY DEF Asks
  <2>2. p \in Range(w.queries) /\ p # q
    BY <1>1, <2>1 DEF LicenseQueries
  <2>3. p \in Range(v.queries)
    BY <1>2, <1>8, <2>2
  <2> QED BY <2>1, <2>3 DEF Asks, LicenseQueries
<1>11. AccountBase(v)
  BY <1>2, <1>4, <1>8, <1>9 DEF AccountInv, AccountBase
<1>12. AUTH \notin v.checks.silent
  BY <1>5, <1>8
<1>13. NothingIsKnown(v)
  BY <1>12 DEF NothingIsKnown
<1>14. AuthenticationIsKnown(v, failed)
  BY <1>5, <1>7, <1>8, <1>12 DEF AccountInv, AuthenticationIsKnown, Reported
<1>15. ASSUME NEW d \in Licenses PROVE LicenseIsKnown(v, failed, d)
  <2>1. CASE d = c
    <3>1. engaged \/ <<w.api.url, w.api.token>> \in Licensed[c]
      BY <1>1, <1>4
    <3>2. v.checks.engaged[c] = engaged /\ v.api = w.api
      BY <1>7, <1>8
    <3> QED BY <2>1, <3>1, <3>2 DEF LicenseIsKnown
  <2>2. CASE d # c
    <3>1. v.checks.engaged[d] = w.checks.engaged[d] /\ v.checks.engaged[AUTH] = w.checks.engaged[AUTH]
      BY <1>7, <1>8, <2>2
    <3>2. LicenseIsKnown(w, failed, d) /\ (Asks(w, d) => Asks(v, d))
      BY <1>10, <2>2 DEF AccountInv
    <3> QED BY <1>5, <1>8, <3>1, <3>2 DEF LicenseIsKnown, Reported
  <2> QED BY <2>1, <2>2
<1> QED BY <1>6, <1>11, <1>13, <1>14, <1>15 DEF AccountInv

LEMMA QueryAnsweredAccount ==
  ASSUME Told(World), AccountInv(World, unreported), NEW i \in DOMAIN queries,
         QueryAnswered(i)
  PROVE  AccountInv(World', unreported')
<1>1. PICK w : w = [World EXCEPT !.queries = RemoveAt(@, i)]
  OBVIOUS
<1>2. /\ SameChecks(w, World) /\ w.config = config /\ w.api = api
      /\ w.checking = checking /\ w.queries = RemoveAt(queries, i) /\ w.checks = checks
  BY <1>1, RemovedQueryFields DEF Told
<1>3. Told(w)
  BY <1>2, SameChecksTell
<1>4. PICK q : q = queries[i]
  OBVIOUS
<1>5. /\ w.queries \in Seq(Queries) /\ Range(w.queries) \subseteq Range(queries)
      /\ Range(queries) \subseteq Range(w.queries) \cup {q}
  <2>1. queries \in Seq(Queries)
    BY DEF AccountInv, AccountBase, World
  <2> QED BY <1>2, <1>4, <2>1, RemoveAtIs
<1>6. ASSUME q.check \notin Licenses
      PROVE  AccountInv(w, unreported)
  <2>1. LicenseQueries(w) = LicenseQueries(World)
    BY <1>5, <1>6 DEF LicenseQueries, World
  <2>2. SameAccount(w, World)
    BY <1>2, <1>5, <2>1 DEF SameAccount, World
  <2> QED BY <2>2, SameAccountKeeps
<1>7. ASSUME q.check \in Licenses, NEW engaged \in BOOLEAN,
             engaged \/ <<q.url, q.token>> \in Licensed[q.check],
             becomes(change(w, only(q.check, engaged)))
      PROVE  AccountInv(World', unreported)
  <2>1. PICK v : v = World
    OBVIOUS
  <2>2. /\ v.queries = queries /\ v.config = config /\ v.api = api
        /\ v.checking = checking /\ v.checks = checks /\ AccountInv(v, unreported)
    BY <2>1 DEF World
  <2>3. /\ w.config = v.config /\ w.api = v.api /\ w.checking = v.checking
        /\ w.checks = v.checks /\ w.queries = RemoveAt(v.queries, i) /\ i \in DOMAIN v.queries
        /\ v.queries[i] = q
    BY <1>2, <1>4, <2>2
  <2>4. AccountInv(change(w, only(q.check, engaged)), unreported)
    BY <1>3, <1>7, <2>2, <2>3, LicenseAnswered
  <2>5. Told(change(w, only(q.check, engaged)))
    BY <1>3, <1>7, ChecksOfTheAccount, OneChangeFields DEF Told
  <2> QED BY <1>7, <2>4, <2>5, BecomesAccount
<1>8. ASSUME q.check = VERSION, NEW engaged \in BOOLEAN,
             becomes(change(w, only(VERSION, engaged)))
      PROVE  AccountInv(World', unreported)
  <2>1. VERSION \in Checks \ Unswitched /\ VERSION \notin Licenses
    BY ChecksAreNamed, ChecksOfTheAccount
  <2>2. Shaped(w) /\ \A d \in Checks \ (w.checks.silent \cup {VERSION}) : Right(w, d)
    BY <1>3 DEF Told
  <2>3. SameAccount(change(w, only(VERSION, engaged)), w)
    BY <1>5, <2>1, <2>2, OthersSame
  <2>4. AccountInv(change(w, only(VERSION, engaged)), unreported)
    BY <1>6, <1>8, <2>1, <2>3, SameAccountKeeps
  <2>5. Told(change(w, only(VERSION, engaged)))
    BY <2>1, <2>2, OneChangeFields
  <2> QED BY <1>8, <2>4, <2>5, BecomesAccount
<1>9. ASSUME q.check = VERSION, becomes(w)
      PROVE  AccountInv(World', unreported)
  BY <1>3, <1>6, <1>9, ChecksOfTheAccount, BecomesAccount
<1>10. AccountInv(World', unreported)
  <2> DEFINE old == q.url \in OldInstances
  <2>1. old \in BOOLEAN
    OBVIOUS
  <2>2. \/ q.check = VERSION /\ becomes(change(w, only(VERSION, old)))
        \/ /\ q.check \in Licenses /\ <<q.url, q.token>> \in Licensed[q.check]
           /\ becomes(change(w, only(q.check, FALSE)))
        \/ q.check \in Licenses /\ becomes(change(w, only(q.check, TRUE)))
        \/ q.check = VERSION /\ becomes(w)
    BY <1>1, <1>4 DEF QueryAnswered
  <2> HIDE DEF old
  <2> QED BY <1>7, <1>8, <1>9, <2>1, <2>2
<1> QED BY <1>10 DEF QueryAnswered, history

-----------------------------------------------------------------------------
(* What the answers of the API leave however the changes of the account    *)
(* cross: the check that answers need not be of the account in use.        *)

\* A check that answered is out of those under way; the others stay.
LEMMA ChecksAfter ==
  ASSUME Held(World), NEW i \in DOMAIN checking
  PROVE  /\ checking[i] \in TokenChecks /\ checking[i] \in Range(checking)
         /\ RemoveAt(checking, i) \in Seq(TokenChecks)
<1>1. checking \in Seq(TokenChecks)
  BY DEF Held, World
<1>2. checking[i] \in TokenChecks /\ RemoveAt(checking, i) \in Seq(TokenChecks)
  BY <1>1, RemoveAtIs
<1>3. checking[i] \in Range(checking)
  BY DEF Range
<1> QED BY <1>2, <1>3

LEMMA TokenIsInvalidCrossing ==
  ASSUME Told(World), CrossingInv(World, unreported), NEW i \in DOMAIN checking,
         TokenIsInvalid(i)
  PROVE  CrossingInv(World', unreported')
<1>1. Held(World) /\ RemoveAt(checking, i) \in Seq(TokenChecks)
  BY ChecksAfter DEF CrossingInv
<1>2. PICK w : /\ tokenIsInvalid(World, i) = configureApi(w)
               /\ SameChecks(w, World) /\ w.config = [config EXCEPT !.token = NoToken]
               /\ w.checking = RemoveAt(checking, i) /\ w.api = api
               /\ w.queries = queries /\ w.checks = checks
  <2>1. /\ World.config = config /\ World.checking = checking /\ World.api = api
        /\ World.queries = queries /\ World.checks = checks
    BY DEF World
  <2>2. \E w : /\ tokenIsInvalid(World, i) = configureApi(w)
               /\ SameChecks(w, World)
               /\ w.config = [World.config EXCEPT !.token = NoToken]
               /\ w.checking = RemoveAt(World.checking, i) /\ w.api = World.api
               /\ w.queries = World.queries /\ w.checks = World.checks
    BY TokenIsInvalidFields DEF Told
  <2> QED BY <2>1, <2>2
<1>3. Told(w) /\ w.config.url \in Urls /\ w.config.token = NoToken
  BY <1>1, <1>2, SameChecksTell DEF Held, World, Told, Shaped
<1>4. PICK v : v = configureApi(w)
  OBVIOUS
<1>5. /\ SameChecks(v, w) /\ v.config = w.config /\ v.queries = queries /\ v.checks = checks
      /\ IF w.api.url = w.config.url /\ w.api.token = w.config.token
         THEN v.api = w.api /\ v.checking = w.checking
         ELSE /\ v.checking = Append(w.checking,
                   [url |-> w.config.url, token |-> w.config.token,
                    step |-> "token", versionOf |-> NoVersion])
              /\ v.api = [w.api EXCEPT !.url = w.config.url, !.token = w.config.token]
  BY <1>2, <1>3, <1>4, ConfigureApiFields DEF Told
<1>6. Told(v) /\ v.api.token = NoToken
  <2>1. DOMAIN w.api = {"url", "token", "instance", "tokenInfo"}
    BY <1>1, <1>2 DEF Held, World
  <2> QED BY <1>3, <1>5, <2>1, SameChecksTell
<1>7. Held(v)
  <2>1. [url |-> w.config.url, token |-> w.config.token,
         step |-> "token", versionOf |-> NoVersion] \in TokenChecks
    BY <1>3 DEF TokenChecks
  <2>2. v.checking \in Seq(TokenChecks)
    BY <1>1, <1>2, <1>5, <2>1
  <2>3. DOMAIN w.api = {"url", "token", "instance", "tokenInfo"} /\ queries \in Seq(Queries)
    BY <1>1, <1>2 DEF Held, World
  <2>4. /\ v.api.url = w.config.url /\ v.api.token = w.config.token
        /\ DOMAIN v.api = {"url", "token", "instance", "tokenInfo"}
    BY <1>5, <2>3
  <2> QED BY <1>3, <1>5, <2>2, <2>3, <2>4 DEF Held
<1>8. PICK project \in BOOLEAN : becomes(firedInvalid(configListeners(v, project)))
  BY <1>2, <1>4 DEF TokenIsInvalid
<1>9. PICK u : u = configListeners(v, project)
  OBVIOUS
<1>10. SameAccount(u, v) /\ Told(u)
  BY <1>6, <1>7, <1>9, ConfigListenersSame DEF Held, Typed
<1>11. PICK t : t = firedInvalid(u)
  OBVIOUS
<1>12. /\ Told(t) /\ t.config = u.config /\ t.api = u.api /\ t.checking = u.checking
       /\ t.queries = u.queries /\ t.checks.silent = u.checks.silent \ {AUTH}
  <2>1. Shaped(u) /\ \A d \in Checks \ (u.checks.silent \cup {AUTH}) : Right(u, d)
    BY <1>10 DEF Told
  <2>2. t = change(u, only(AUTH, TRUE)) /\ AUTH \in Checks
    BY <1>11, ChecksAreNamed DEF firedInvalid
  <2> QED BY <2>1, <2>2, OneChangeFields
<1>13. Held(t) /\ t.api.token = NoToken
  BY <1>6, <1>7, <1>10, <1>12 DEF Held, SameAccount
<1>14. NothingIsKnown(t)
  BY <1>12 DEF NothingIsKnown
<1>15. CrossingInv(t, unreported)
  BY <1>13, <1>14 DEF CrossingInv
<1> QED BY <1>8, <1>9, <1>11, <1>12, <1>15, BecomesCrossing DEF TokenIsInvalid, history

LEMMA TokenIsValidCrossing ==
  ASSUME Told(World), CrossingInv(World, unreported), NEW i \in DOMAIN checking,
         TokenIsValid(i)
  PROVE  CrossingInv(World', unreported')
<1>1. Held(World) /\ checking[i] \in TokenChecks /\ checking \in Seq(TokenChecks)
      /\ api.url \in Urls
  BY ChecksAfter DEF CrossingInv, Held, World
<1>2. PICK of : of = IF api.token = NoToken THEN NoVersion ELSE api.url
  OBVIOUS
<1>3. PICK check : check = [checking[i] EXCEPT !.step = "version", !.versionOf = of]
  OBVIOUS
<1>4. check \in TokenChecks /\ check.url = checking[i].url /\ check.token = checking[i].token
  BY <1>1, <1>2, <1>3 DEF TokenChecks
<1>5. PICK v : v = tokenIsValid(World, i)
  OBVIOUS
<1>6. /\ SameChecks(v, World) /\ v.config = config /\ v.api = api
      /\ v.queries = queries /\ v.checks = checks
      /\ v.checking = [checking EXCEPT ![i] = check]
  BY <1>2, <1>3, <1>5 DEF tokenIsValid, SameChecks, World, Told, Shaped, WorldFields
<1>7. v.checking \in Seq(TokenChecks) /\ DOMAIN v.checking = DOMAIN checking
  BY <1>1, <1>4, <1>6
<1>8. Held(v) /\ NothingIsKnown(v)
  BY <1>6, <1>7 DEF CrossingInv, Held, World, NothingIsKnown, Asks, LicenseQueries
<1>9. ASSUME IsChecked(World) PROVE IsChecked(v)
  <2>1. PICK j \in DOMAIN checking : checking[j].url = api.url /\ checking[j].token = api.token
    BY <1>9 DEF IsChecked, World, Range
  <2>2. v.checking[j].url = api.url /\ v.checking[j].token = api.token
    BY <1>1, <1>4, <1>6, <2>1
  <2>3. v.checking[j] \in Range(v.checking)
    BY <1>7 DEF Range
  <2> QED BY <1>6, <2>2, <2>3 DEF IsChecked
<1>10. IsConfirmed(World) => IsConfirmed(v)
  BY <1>6 DEF IsConfirmed, World
<1>11. CrossingInv(v, unreported)
  BY <1>6, <1>8, <1>9, <1>10 DEF CrossingInv, World
<1>12. Told(v)
  BY <1>6, SameChecksTell
<1> QED BY <1>5, <1>11, <1>12, BecomesCrossing DEF TokenIsValid, history

LEMMA VersionIsKnownCrossing ==
  ASSUME Told(World), CrossingInv(World, unreported), NEW i \in DOMAIN checking,
         VersionIsKnown(i)
  PROVE  CrossingInv(World', unreported')
<1>1. Held(World) /\ RemoveAt(checking, i) \in Seq(TokenChecks)
  BY ChecksAfter DEF CrossingInv
<1>2. PICK version, w : /\ w = versionIsKnown(World, i, version)
                        /\ \E chat \in asksForChat(w) : becomes(firedValid(w, chat))
  BY DEF VersionIsKnown
<1>3. /\ SameChecks(w, World) /\ w.config = config /\ w.queries = queries
      /\ w.checking = RemoveAt(checking, i)
      /\ w.api.url = api.url /\ w.api.token = api.token /\ w.api.instance = <<api.url, version>>
      /\ DOMAIN w.api = {"url", "token", "instance", "tokenInfo"}
  <2>1. PICK u : u = World
    OBVIOUS
  <2>2. /\ Shaped(u) /\ w = versionIsKnown(u, i, version)
        /\ DOMAIN u.api = {"url", "token", "instance", "tokenInfo"}
    BY <1>1, <1>2, <2>1 DEF Told, Held
  <2>3. /\ SameChecks(w, u) /\ w.config = u.config /\ w.queries = u.queries
        /\ w.checking = RemoveAt(u.checking, i)
    BY <2>2, VersionIsKnownFields
  <2>4. /\ DOMAIN w.api = DOMAIN u.api /\ w.api.url = u.api.url /\ w.api.token = u.api.token
        /\ w.api.instance = <<u.api.url, version>>
    BY <2>2 DEF versionIsKnown, Shaped, WorldFields
  <2>5. /\ u.config = config /\ u.queries = queries
        /\ u.checking = checking /\ u.api = api
    BY <2>1 DEF World
  <2> QED BY <2>1, <2>2, <2>3, <2>4, <2>5
<1>4. Told(w) /\ Typed(w)
  BY <1>1, <1>3, SameChecksTell DEF Held, Typed, World
<1>5. PICK chat \in asksForChat(w) : becomes(firedValid(w, chat))
  BY <1>2
<1>6. chat \in BOOLEAN
  BY DEF asksForChat, supports
<1>7. PICK v : v = firedValid(w, chat)
  OBVIOUS
<1>8. /\ Told(v) /\ v.config = w.config /\ v.api = w.api /\ v.checking = w.checking
      /\ v.checks.silent = w.checks.silent \ {AUTH} /\ ~v.checks.engaged[AUTH]
      /\ v.queries \in Seq(Queries)
  BY <1>4, <1>6, <1>7, FiredValidFields
<1>9. Held(v)
  BY <1>1, <1>3, <1>8 DEF Held, World
<1>10. NothingIsKnown(v) /\ IsConfirmed(v)
  BY <1>3, <1>8 DEF NothingIsKnown, IsConfirmed
<1>11. CrossingInv(v, unreported)
  BY <1>9, <1>10 DEF CrossingInv
<1> QED BY <1>5, <1>7, <1>8, <1>11, BecomesCrossing DEF VersionIsKnown, history

LEMMA VersionFailsCrossing ==
  ASSUME Told(World), CrossingInv(World, unreported), NEW i \in DOMAIN checking,
         VersionFails(i)
  PROVE  CrossingInv(World', unreported')
<1>1. Held(World) /\ RemoveAt(checking, i) \in Seq(TokenChecks)
  BY ChecksAfter DEF CrossingInv
<1>2. /\ World'.config = World.config /\ World'.api = World.api
      /\ World'.checking = RemoveAt(checking, i)
      /\ World'.checks = World.checks /\ World'.queries = World.queries /\ unreported'
  BY DEF VersionFails, World
<1>3. Held(World') /\ NothingIsKnown(World')
  BY <1>1, <1>2 DEF CrossingInv, Held, NothingIsKnown, Asks, LicenseQueries
<1> QED BY <1>2, <1>3 DEF CrossingInv

\* One check other than authentication announces; queries were taken out before.
LEMMA OtherCheckCrossing ==
  ASSUME NEW w, NEW failed, CrossingInv(w, failed), NEW u, Shaped(u), NEW c \in Checks,
         \A d \in Checks \ (u.checks.silent \cup {c}) : Right(u, d), c # AUTH,
         u.config.url = w.config.url /\ u.config.token = w.config.token,
         u.api = w.api /\ u.checking = w.checking,
         u.checks.engaged = w.checks.engaged /\ u.checks.silent = w.checks.silent,
         u.queries \in Seq(Queries), Range(u.queries) \subseteq Range(w.queries),
         c \in Licenses => Asks(w, c), NEW engaged \in BOOLEAN
  PROVE  CrossingInv(change(u, only(c, engaged)), failed)
<1>1. PICK v : v = change(u, only(c, engaged))
  OBVIOUS
<1>2. /\ v.config = u.config /\ v.api = u.api /\ v.checking = u.checking
      /\ v.queries = u.queries /\ v.checks.silent = u.checks.silent \ {c}
      /\ \A d \in Checks : v.checks.engaged[d] = IF d = c THEN engaged ELSE u.checks.engaged[d]
  BY <1>1, OneChangeFields
<1>3. Held(v)
  BY <1>2 DEF CrossingInv, Held
<1>4. NothingIsKnown(v)
  <2> SUFFICES ASSUME AUTH \in v.checks.silent, NEW d \in Licenses
               PROVE  v.checks.engaged[d] /\ ~Asks(v, d)
    BY DEF NothingIsKnown
  <2>1. AUTH \in w.checks.silent
    BY <1>2
  <2>2. w.checks.engaged[d] /\ ~Asks(w, d)
    BY <2>1 DEF CrossingInv, NothingIsKnown
  <2>3. d # c /\ d \in Checks
    BY <2>2, ChecksOfTheAccount
  <2>4. Asks(v, d) => Asks(w, d)
    BY <1>2 DEF Asks, LicenseQueries
  <2> QED BY <1>2, <2>2, <2>3, <2>4
<1>5. IsChecked(w) => IsChecked(v)
  BY <1>2 DEF IsChecked
<1>6. IsConfirmed(w) => IsConfirmed(v)
  BY <1>2, ChecksOfTheAccount DEF IsConfirmed
<1>7. v.api = w.api
  BY <1>2
<1> QED BY <1>1, <1>3, <1>4, <1>5, <1>6, <1>7 DEF CrossingInv

LEMMA QueryAnsweredCrossing ==
  ASSUME Told(World), CrossingInv(World, unreported), NEW i \in DOMAIN queries,
         QueryAnswered(i)
  PROVE  CrossingInv(World', unreported')
<1>1. PICK w : w = [World EXCEPT !.queries = RemoveAt(@, i)]
  OBVIOUS
<1>2. /\ SameChecks(w, World) /\ w.config = config /\ w.api = api
      /\ w.checking = checking /\ w.queries = RemoveAt(queries, i) /\ w.checks = checks
  BY <1>1, RemovedQueryFields DEF Told
<1>3. Told(w)
  BY <1>2, SameChecksTell
<1>4. PICK q : q = queries[i]
  OBVIOUS
<1>5. /\ w.queries \in Seq(Queries) /\ Range(w.queries) \subseteq Range(queries)
      /\ q \in Range(queries)
  <2>1. queries \in Seq(Queries)
    BY DEF CrossingInv, Held, World
  <2>2. q \in Range(queries)
    BY <1>4 DEF Range
  <2> QED BY <1>2, <1>4, <2>1, <2>2, RemoveAtIs
<1>6. ASSUME NEW c \in Checks, c = q.check, c # AUTH, NEW engaged \in BOOLEAN,
             becomes(change(w, only(c, engaged)))
      PROVE  CrossingInv(World', unreported)
  <2>1. PICK v : v = World
    OBVIOUS
  <2>2. /\ CrossingInv(v, unreported) /\ v.config = config /\ v.api = api
        /\ v.checking = checking /\ v.checks = checks /\ v.queries = queries
    BY <2>1 DEF World
  <2>3. c \in Licenses => Asks(v, c)
    BY <1>5, <1>6, <2>2 DEF Asks, LicenseQueries
  <2>4. Shaped(w) /\ \A d \in Checks \ (w.checks.silent \cup {c}) : Right(w, d)
    BY <1>3 DEF Told
  <2>5. /\ w.config.url = v.config.url /\ w.config.token = v.config.token
        /\ w.api = v.api /\ w.checking = v.checking
        /\ w.checks.engaged = v.checks.engaged /\ w.checks.silent = v.checks.silent
        /\ w.queries \in Seq(Queries) /\ Range(w.queries) \subseteq Range(v.queries)
    BY <1>2, <1>5, <2>2
  <2>6. CrossingInv(change(w, only(c, engaged)), unreported)
    BY <1>6, <2>2, <2>3, <2>4, <2>5, OtherCheckCrossing
  <2>7. Told(change(w, only(c, engaged)))
    BY <2>4, OneChangeFields
  <2> QED BY <1>6, <2>6, <2>7, BecomesCrossing
<1>7. ASSUME becomes(w) PROVE CrossingInv(World', unreported)
  <2>1. Held(w)
    BY <1>2, <1>5 DEF CrossingInv, Held, World
  <2>2. NothingIsKnown(w)
    BY <1>2, <1>5 DEF CrossingInv, NothingIsKnown, Asks, LicenseQueries, World
  <2>3. (IsChecked(World) => IsChecked(w)) /\ (IsConfirmed(World) => IsConfirmed(w))
    BY <1>2 DEF IsChecked, IsConfirmed, World
  <2>4. CrossingInv(w, unreported)
    BY <1>2, <2>1, <2>2, <2>3 DEF CrossingInv, World
  <2> QED BY <1>3, <1>7, <2>4, BecomesCrossing
<1>8. AUTH \notin Licenses /\ VERSION # AUTH /\ VERSION \in Checks /\ Licenses \subseteq Checks
  BY ChecksAreNamed, ChecksOfTheAccount DEF VERSION, AUTH
<1>9. CrossingInv(World', unreported)
  <2> DEFINE old == q.url \in OldInstances
  <2>1. old \in BOOLEAN
    OBVIOUS
  <2>2. \/ q.check = VERSION /\ becomes(change(w, only(q.check, old)))
        \/ q.check \in Licenses /\ becomes(change(w, only(q.check, FALSE)))
        \/ q.check \in Licenses /\ becomes(change(w, only(q.check, TRUE)))
        \/ becomes(w)
    BY <1>1, <1>4 DEF QueryAnswered
  <2> HIDE DEF old
  <2> QED BY <1>6, <1>7, <1>8, <2>1, <2>2
<1> QED BY <1>9 DEF QueryAnswered, history

LEMMA OthersCrossing ==
  ASSUME Told(World), CrossingInv(World, unreported),
         NEW c \in Checks \ Unswitched, NEW engaged \in BOOLEAN,
         becomes(change(World, only(c, engaged)))
  PROVE  CrossingInv(World', unreported)
<1>1. PICK w : w = World
  OBVIOUS
<1>2. /\ Shaped(w) /\ CrossingInv(w, unreported) /\ w.queries \in Seq(Queries)
      /\ \A d \in Checks \ (w.checks.silent \cup {c}) : Right(w, d)
  BY <1>1 DEF Told, CrossingInv, Held
<1>3. SameAccount(change(w, only(c, engaged)), w)
  BY <1>2, OthersSame
<1>4. Told(change(w, only(c, engaged)))
  BY <1>2, OneChangeFields
<1>5. CrossingInv(change(w, only(c, engaged)), unreported)
  BY <1>2, <1>3, SameAccountCrossing
<1> QED BY <1>1, <1>4, <1>5, BecomesCrossing

\* What the client is told of the account, and what an action may rely on.
AccountInvariant ==
  /\ Told(World) /\ CrossingInv(World, unreported) /\ unreported \in BOOLEAN
  /\ ~crossed => AccountInv(World, unreported)

LEMMA AccountInitially == Init => AccountInvariant
<1> SUFFICES ASSUME Init PROVE AccountInvariant
  OBVIOUS
<1>1. /\ World.config.url = DefaultUrl /\ World.config.token = NoToken
      /\ World.api = NewApi /\ World.checking = <<>> /\ World.queries = <<>>
      /\ World.checks.silent = InitiallyEngaged
      /\ World.checks.engaged = [c \in Checks |-> c \in InitiallyEngaged]
  BY DEF Init, World
<1>2. /\ LicenseQueries(World) = {} /\ World.queries \in Seq(Queries)
  BY <1>1 DEF LicenseQueries, Range
<1>3. AccountBase(World)
  BY <1>1, <1>2, AccountAssumption DEF AccountBase, NewApi
<1>4. NothingIsKnown(World)
  <2>1. Licenses \subseteq InitiallyEngaged /\ Licenses \subseteq Checks
    BY ChecksAreNamed DEF InitiallyEngaged
  <2> QED BY <1>1, <1>2, <2>1 DEF NothingIsKnown, Asks
<1>5. AUTH \in World.checks.silent
  BY <1>1 DEF InitiallyEngaged
<1>6. /\ AuthenticationIsKnown(World, unreported)
      /\ \A c \in Licenses : LicenseIsKnown(World, unreported, c)
  BY <1>1, <1>5 DEF AuthenticationIsKnown, LicenseIsKnown, NewApi
<1>7. CrossingInv(World, unreported)
  BY <1>1, <1>2, <1>4, AccountAssumption DEF CrossingInv, Held, NewApi
<1> QED BY <1>3, <1>4, <1>6, <1>7, ToldInitially DEF AccountInvariant, AccountInv, Init

LEMMA OthersAccount ==
  ASSUME Told(World), AccountInv(World, unreported),
         NEW c \in Checks \ Unswitched, NEW engaged \in BOOLEAN,
         becomes(change(World, only(c, engaged)))
  PROVE  AccountInv(World', unreported)
<1>1. PICK w : w = World
  OBVIOUS
<1>2. /\ Shaped(w) /\ AccountInv(w, unreported) /\ w.queries \in Seq(Queries)
      /\ \A d \in Checks \ (w.checks.silent \cup {c}) : Right(w, d)
  BY <1>1 DEF Told, AccountInv, AccountBase
<1>3. SameAccount(change(w, only(c, engaged)), w)
  BY <1>2, OthersSame
<1>4. Told(change(w, only(c, engaged)))
  BY <1>2, OneChangeFields
<1>5. AccountInv(change(w, only(c, engaged)), unreported)
  BY <1>2, <1>3, SameAccountKeeps
<1> QED BY <1>1, <1>4, <1>5, BecomesAccount

LEMMA LanguageAccount ==
  ASSUME Told(World), CrossingInv(World, unreported), ~crossed => AccountInv(World, unreported),
         NEW language, LanguageChanges(language)
  PROVE  CrossingInv(World', unreported') /\ (~crossed' => AccountInv(World', unreported'))
<1>1. PICK w : w = [World EXCEPT !.checks.language = language]
  OBVIOUS
<1>2. /\ Shaped(w) /\ w.checks.engaged = checks.engaged /\ w.manager = manager
      /\ w.checks.silent = checks.silent /\ w.config = config /\ w.api = api
      /\ w.checking = checking /\ w.queries = queries
  BY <1>1 DEF World, Told, Shaped, WorldFields, CheckFields
<1>3. \A d \in Checks \ (w.checks.silent \cup {LANGUAGE}) : Right(w, d)
  BY <1>2 DEF World, Told, Right, id
<1>4. SameAccount(w, World) /\ w.queries \in Seq(Queries)
  BY <1>2 DEF SameAccount, World, LicenseQueries, CrossingInv, Held
<1>5. CrossingInv(w, unreported) /\ (~crossed => AccountInv(w, unreported))
  BY <1>4, SameAccountKeeps, SameAccountCrossing
<1> DEFINE engaged == language # "enabled"
<1>6. LANGUAGE \in Checks \ Unswitched /\ engaged \in BOOLEAN
  BY ChecksAreNamed, ChecksOfTheAccount
<1>7. becomes(change(w, only(LANGUAGE, engaged)))
  BY <1>1 DEF LanguageChanges
<1> HIDE DEF engaged
<1>8. SameAccount(change(w, only(LANGUAGE, engaged)), w)
  BY <1>2, <1>3, <1>4, <1>6, OthersSame
<1>9. Told(change(w, only(LANGUAGE, engaged)))
  BY <1>2, <1>3, <1>6, OneChangeFields
<1>10. /\ CrossingInv(change(w, only(LANGUAGE, engaged)), unreported)
       /\ ~crossed => AccountInv(change(w, only(LANGUAGE, engaged)), unreported)
  BY <1>5, <1>8, SameAccountKeeps, SameAccountCrossing
<1>11. unreported' = unreported /\ crossed' = crossed
  BY DEF LanguageChanges, history
<1> QED BY <1>7, <1>9, <1>10, <1>11, BecomesAccount, BecomesCrossing

\* A step of the API or of a check other than the account's.
LEMMA ApiKeepsTheAccount ==
  ASSUME AccountInvariant, ApiAnswers
  PROVE  CrossingInv(World', unreported') /\ (~crossed' => AccountInv(World', unreported'))
<1>1. /\ Told(World) /\ CrossingInv(World, unreported)
      /\ ~crossed => AccountInv(World, unreported)
  BY DEF AccountInvariant
<1>2. crossed' = crossed
  BY DEF ApiAnswers, TokenIsInvalid, TokenIsValid, VersionIsKnown, VersionFails,
         QueryAnswered, history
<1>3. CrossingInv(World', unreported')
  BY <1>1, TokenIsInvalidCrossing, TokenIsValidCrossing, VersionIsKnownCrossing,
     VersionFailsCrossing, QueryAnsweredCrossing DEF ApiAnswers
<1>4. ASSUME ~crossed PROVE AccountInv(World', unreported')
  BY <1>1, <1>4, TokenIsInvalidAccount, TokenIsValidAccount, VersionIsKnownAccount,
     VersionFailsAccount, QueryAnsweredAccount DEF ApiAnswers
<1> QED BY <1>2, <1>3, <1>4

LEMMA OthersKeepTheAccount ==
  ASSUME AccountInvariant, NEW c \in Checks \ Unswitched, NEW engaged \in BOOLEAN,
         becomes(change(World, only(c, engaged))), UNCHANGED history
  PROVE  CrossingInv(World', unreported') /\ (~crossed' => AccountInv(World', unreported'))
<1>1. /\ Told(World) /\ CrossingInv(World, unreported)
      /\ ~crossed => AccountInv(World, unreported)
  BY DEF AccountInvariant
<1>2. crossed' = crossed /\ unreported' = unreported
  BY DEF history
<1> QED BY <1>1, <1>2, OthersCrossing, OthersAccount

LEMMA StepKeepsTheAccount == AccountInvariant /\ [Next]_vars => AccountInvariant'
<1> SUFFICES ASSUME AccountInvariant, [Next]_vars PROVE AccountInvariant'
  OBVIOUS
<1>1. /\ Told(World)' /\ Told(World) /\ CrossingInv(World, unreported)
      /\ unreported \in BOOLEAN /\ (~crossed => AccountInv(World, unreported))
  BY StepTells DEF AccountInvariant
<1>2. unreported' \in BOOLEAN
  BY <1>1 DEF vars, history, Next, ApiAnswers, ConfigureAccount, ConfigureSwitch, TokenIsInvalid,
              TokenIsValid, VersionIsKnown, VersionFails, QueryAnswered, LanguageChanges,
              ProjectChecked, BreakerOpens, BreakerCloses
<1> DEFINE Kept == CrossingInv(World', unreported') /\ (~crossed' => AccountInv(World', unreported'))
<1>3. Kept
  <2>1. CASE UNCHANGED vars
    <3>1. World' = World /\ unreported' = unreported /\ crossed' = crossed
      BY <2>1 DEF vars, history, World
    <3> QED BY <1>1, <3>1
  <2>2. CASE ApiAnswers
    BY <2>2, ApiKeepsTheAccount
  <2>3. ASSUME NEW url \in Urls, NEW token \in Tokens, ConfigureAccount(url, token)
        PROVE  Kept
    BY <1>1, <2>3, ConfigureAccountAccount
  <2>4. ASSUME NEW c \in Switches, NEW value \in {"on", "off"}, ConfigureSwitch(c, value)
        PROVE  Kept
    BY <1>1, <2>4, ConfigureSwitchAccount
  <2>5. ASSUME NEW language, LanguageChanges(language)
        PROVE  Kept
    BY <1>1, <2>5, LanguageAccount
  <2>6. PROJECT \in Checks \ Unswitched /\ API_ERROR \in Checks \ Unswitched
    BY ChecksAreNamed, ChecksOfTheAccount
  <2>7. ASSUME NEW engaged \in BOOLEAN, ProjectChecked(engaged)
        PROVE  Kept
    BY <2>6, <2>7, OthersKeepTheAccount DEF ProjectChecked
  <2>8. CASE BreakerOpens \/ BreakerCloses
    BY <2>6, <2>8, OthersKeepTheAccount DEF BreakerOpens, BreakerCloses
  <2> HIDE DEF Kept
  <2> QED BY <2>1, <2>2, <2>3, <2>4, <2>5, <2>7, <2>8 DEF Next
<1> QED BY <1>1, <1>2, <1>3 DEF AccountInvariant

\* What the client was told of the authentication check, once it announced anything.
LEMMA AuthenticationIsTold ==
  ASSUME Told(World), AUTH \notin checks.silent
  PROVE  checks.engaged[AUTH] <=> AUTH \in told
<1>1. AUTH \in Checks /\ id(World, AUTH) = AUTH
  BY ChecksAreNamed DEF id, AUTH, LANGUAGE
<1>2. Right(World, AUTH) /\ told = state(World, manager)
  BY <1>1 DEF Told, World
<1>3. checks.engaged[AUTH] <=> AUTH \in manager
  BY <1>1, <1>2 DEF Right, World
<1>4. AUTH \in {id(World, c) : c \in Checks}
  BY <1>1
<1> QED BY <1>2, <1>3, <1>4 DEF state

\* However the answers of the instance and the changes of the account follow each other: once
\* nothing is under way and no request for the version failed, the client was told to
\* authenticate exactly if there is no token, unless the last changes of the account crossed.
\* The first change that waits puts right whatever those before it left.
THEOREM AuthenticationIsReportedCorrect == Spec => []AuthenticationIsReported
<1>1. AccountInvariant => AuthenticationIsReported
  <2> SUFFICES ASSUME AccountInvariant, ~crossed, Quiet, ~unreported, api # NewApi
               PROVE  /\ AUTH \in told <=> config.token = NoToken
                      /\ api.token = config.token /\ api.url = config.url
    BY DEF AuthenticationIsReported, AuthenticationIsAlwaysReported
  <2>1. api.token = config.token /\ api.url = config.url
    BY DEF AccountInvariant, AccountInv, AccountBase, World
  <2>2. AUTH \notin checks.silent /\ (checks.engaged[AUTH] <=> api.token = NoToken)
    BY DEF AccountInvariant, AccountInv, AuthenticationIsKnown, Reported, Quiet, World
  <2> QED BY <2>1, <2>2, AuthenticationIsTold DEF AccountInvariant
<1> QED BY <1>1, AccountInitially, StepKeepsTheAccount, PTL DEF Spec

\* However often changes of the account cross, and in whatever order the token checks and the
\* versions of different accounts come back: if a token is left once nothing is under way and no
\* request for the version failed, the API client uses what is configured, the client is not
\* told to authenticate, and the instance that a version was joined with is the one in use
\* (configureApi reads the base URL after the await).  The version and the token's information
\* are of the account in use unless the last changes crossed.
THEOREM KnowledgeIsCurrentCorrect == Spec => []KnowledgeIsCurrent
<1>1. AccountInvariant => KnowledgeIsCurrent
  <2> SUFFICES ASSUME AccountInvariant, Quiet, ~unreported, config.token # NoToken
               PROVE  /\ api.url = config.url /\ api.token = config.token
                      /\ AUTH \notin told /\ api.instance[1] = api.url
                      /\ ~crossed => /\ api.instance[2] \in {api.url, NoVersion}
                                     /\ api.tokenInfo = api.token
    BY DEF KnowledgeIsCurrent
  <2>1. api.url = config.url /\ api.token = config.token
    BY DEF AccountInvariant, CrossingInv, Held, World
  <2>2. IsConfirmed(World)
    <3>1. ~IsChecked(World)
      BY DEF IsChecked, Quiet, World, Range
    <3> QED BY <2>1, <3>1 DEF AccountInvariant, CrossingInv, World
  <2>3. AUTH \notin told
    BY <2>2, AuthenticationIsTold DEF AccountInvariant, IsConfirmed, World
  <2>4. api.instance[1] = api.url
    BY <2>2 DEF IsConfirmed, World
  <2>5. ASSUME ~crossed PROVE api.instance[2] \in {api.url, NoVersion} /\ api.tokenInfo = api.token
    BY <2>1, <2>5 DEF AccountInvariant, AccountInv, AuthenticationIsKnown, Reported, Quiet, World
  <2> QED BY <2>1, <2>3, <2>4, <2>5
<1> QED BY <1>1, AccountInitially, StepKeepsTheAccount, PTL DEF Spec

\* A feature whose license check is not engaged is licensed for the instance and the token in
\* use, unless the last changes of the account crossed: no answer about another account is
\* taken for one of these, whatever was asked for accounts before.
THEOREM LicensedIfOfferedCorrect == Spec => []LicensedIfOffered
<1>1. AccountInvariant => LicensedIfOffered
  <2> SUFFICES ASSUME AccountInvariant, NEW c \in Licenses, AllQuiet, AUTH \notin told,
                      ~unreported, ~crossed, ~checks.engaged[c],
                      c = "CHAT_NO_LICENSE" => api.instance[2] \notin OldInstances \cup {NoVersion}
               PROVE  <<api.url, api.token>> \in Licensed[c]
    BY DEF LicensedIfOffered
  <2>1. AUTH \notin checks.silent
    BY DEF AccountInvariant, AccountInv, NothingIsKnown, World
  <2>2. ~checks.engaged[AUTH]
    BY <2>1, AuthenticationIsTold DEF AccountInvariant
  <2>3. ~Asks(World, c)
    BY DEF AllQuiet, Asks, LicenseQueries, World, Range
  <2> QED BY <2>1, <2>2, <2>3
          DEF AccountInvariant, AccountInv, LicenseIsKnown, Reported, AllQuiet, Quiet, World
<1> QED BY <1>1, AccountInitially, StepKeepsTheAccount, PTL DEF Spec

=============================================================================
