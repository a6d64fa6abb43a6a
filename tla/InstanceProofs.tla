---------------------------- MODULE InstanceProofs ----------------------------
(***************************************************************************)
(* Proofs about what the server has to do with the instance and with its   *)
(* client: its requests, the details for asking KhulnaSoft Cloud directly, *)
(* what it knows of the account, the scans it asks for, and its start.     *)
(* The five components share nothing; each part is about the specification *)
(* of one.                                                                 *)
(***************************************************************************)
EXTENDS HttpFetch, DirectConnection, FeatureFlags, SecurityScan, ServerConnection,
        SequenceTheorems, TLAPS

LEMMA FunctionIsSequence ==
  ASSUME NEW S, NEW n \in Nat, NEW f \in [1 .. n -> S]
  PROVE  f \in Seq(S)
  OBVIOUS

-----------------------------------------------------------------------------
(* HttpFetch: the agents follow the options that were handed over last,    *)
(* and a request keeps what it began with.                                 *)

Options == [strict : BOOLEAN, files : SUBSET ((CertificateFiles \cup {"none", "plain"}) \X Int)]

Service == [initialized : BOOLEAN, options : Options, https : Options, proxy : Options,
            variables : {"none", "environment", "user", "settings"}, user : BOOLEAN]

Rightful(agent, options) == agent \notin {NoAgent, PlainAgent} => agent = options

Stages == {"sent", "body", "over"}
Reasons == {"none", "timeout", "timeout of the caller", "caller"}
Signals == {"none", "controller", "timeout", "aborted"}
Ends == {"no", "not initialized", "failed", "refused", "TimeoutError", "AbortError", "read",
         "invalid token", "canceled"}

RequestRecord ==
  [scheme : {"http", "https"}, signal : Signals, streams : BOOLEAN, canceled : BOOLEAN,
   agent : Options, handed : Options, stage : Stages, reason : Reasons, chunks : Int,
   ended : Ends]
RightfulRequest == {r \in RequestRecord : Rightful(r.agent, r.handed)}

AgentsFollow == /\ http \in Service /\ handed \in Options
                /\ http.options = handed /\ http.https = handed
                /\ Rightful(http.proxy, handed)
HttpInv == /\ disk \in [CertificateFiles -> Int]
           /\ AgentsFollow
           /\ requests \in Seq(RightfulRequest)

LEMMA HttpInitInv == HttpInit => HttpInv
<1> SUFFICES ASSUME HttpInit PROVE HttpInv
  OBVIOUS
<1>1. NoAgent \in Options /\ DefaultOptions \in Options
  BY DEF NoAgent, DefaultOptions, Options
<1>2. AgentsFollow
  BY <1>1 DEF HttpInit, AgentsFollow, Service, Rightful
<1> QED BY <1>2 DEF HttpInit, HttpInv

LEMMA FilesAreRead ==
  ASSUME disk \in [CertificateFiles -> Int], NEW named \in SUBSET CertificateFiles,
         NEW strict \in BOOLEAN
  PROVE  [strict |-> strict, files |-> readFiles(named)] \in Options
<1>1. readFiles(named) \in SUBSET ((CertificateFiles \cup {"none", "plain"}) \X Int)
  BY DEF readFiles
<1> QED BY <1>1 DEF Options

LEMMA OptionsAreFollowed ==
  ASSUME AgentsFollow, NEW options \in Options, handed' = options, http' = withOptions(options)
  PROVE  AgentsFollow'
<1>1. CASE options = http.options
  BY <1>1 DEF AgentsFollow, withOptions
<1>2. CASE options # http.options
  <2> DEFINE proxy == IF http.proxy = NoAgent THEN http.proxy ELSE options
  <2>1. http' = [http EXCEPT !.options = options, !.https = options, !.proxy = proxy]
    BY <1>2 DEF withOptions
  <2>2. proxy \in Options /\ Rightful(proxy, options)
    BY DEF AgentsFollow, Service, Rightful
  <2> HIDE DEF proxy
  <2> QED BY <2>1, <2>2 DEF AgentsFollow, Service
<1> QED BY <1>1, <1>2

\* What a step does to one request.
LEMMA RequestMoves ==
  ASSUME HttpInv, NEW i \in DOMAIN requests, NEW r \in RequestRecord,
         r.agent = requests[i].agent, r.handed = requests[i].handed,
         requests' = [requests EXCEPT ![i] = r]
  PROVE  requests' \in Seq(RightfulRequest)
<1>1. i \in 1 .. Len(requests) /\ requests[i] \in RightfulRequest
  BY DEF HttpInv
<1>2. r \in RightfulRequest
  BY <1>1 DEF RightfulRequest
<1> QED BY <1>1, <1>2 DEF HttpInv

LEMMA RequestEnds ==
  ASSUME HttpInv, NEW i \in DOMAIN requests, NEW stage \in Stages, NEW ended \in Ends,
         requests' = [requests EXCEPT ![i] = [requests[i] EXCEPT !.stage = stage, !.ended = ended]]
  PROVE  requests' \in Seq(RightfulRequest)
<1> DEFINE r == [requests[i] EXCEPT !.stage = stage, !.ended = ended]
<1>1. requests[i] \in RequestRecord
  BY DEF HttpInv, RightfulRequest
<1>2. r \in RequestRecord /\ r.agent = requests[i].agent /\ r.handed = requests[i].handed
  BY <1>1 DEF RequestRecord
<1> QED BY <1>2, RequestMoves

LEMMA FetchBegins ==
  ASSUME HttpInv, NEW scheme \in {"http", "https"}, NEW streams \in BOOLEAN,
         NEW signal \in {"none", "controller", "timeout"}, Fetch(scheme, signal, streams)
  PROVE  HttpInv'
<1> DEFINE agent == IF http.initialized THEN getAgent(scheme) ELSE NoAgent
           stage == IF http.initialized THEN "sent" ELSE "over"
           ended == IF http.initialized THEN "no" ELSE "not initialized"
           r == [scheme |-> scheme, signal |-> signal, streams |-> streams, canceled |-> FALSE,
                 agent |-> agent, handed |-> handed, stage |-> stage, reason |-> "none",
                 chunks |-> 0, ended |-> ended]
<1>1. agent \in Options /\ Rightful(agent, handed)
  <2>1. NoAgent \in Options /\ PlainAgent \in Options
    BY DEF NoAgent, PlainAgent, Options
  <2> QED BY <2>1 DEF HttpInv, AgentsFollow, Service, Rightful, getAgent
<1>2. requests' = Append(requests, r) /\ UNCHANGED <<disk, http, handed>>
  BY DEF Fetch
<1>3. handed \in Options
  BY DEF HttpInv, AgentsFollow
<1>4. signal \in Signals /\ "none" \in Reasons /\ stage \in Stages /\ ended \in Ends
  BY DEF Signals, Reasons, Stages, Ends
<1> HIDE DEF agent, stage, ended
<1>5. r \in RequestRecord
  BY <1>1, <1>3, <1>4 DEF RequestRecord
<1>6. r \in RightfulRequest
  <2>1. r.agent = agent /\ r.handed = handed
    OBVIOUS
  <2> HIDE DEF r
  <2> QED BY <1>1, <1>5, <2>1 DEF RightfulRequest
<1> HIDE DEF r
<1>7. requests' \in Seq(RightfulRequest)
  BY <1>2, <1>6 DEF HttpInv
<1> QED BY <1>2, <1>7 DEF HttpInv, AgentsFollow

LEMMA RequestsKeep ==
  ASSUME HttpInv, NEW i \in DOMAIN requests,
         \/ RequestTimesOut(i) \/ CallerAborts(i) \/ AbortIsHeard(i)
         \/ \E status \in {"ok", "refused", "unreachable"} : Answered(i, status)
         \/ \E invalidToken \in BOOLEAN : BodyIsRead(i, invalidToken)
         \/ ChunkArrives(i) \/ StreamEnds(i) \/ TokenIsCanceled(i)
  PROVE  requests' \in Seq(RightfulRequest)
<1> DEFINE q == requests[i]
<1>1. q \in RequestRecord /\ requests \in Seq(RightfulRequest) /\ "over" \in Stages
  BY DEF HttpInv, RightfulRequest, Stages
<1>2. CASE RequestTimesOut(i)
  <2> DEFINE r == [q EXCEPT !.reason = "timeout"]
  <2>1. "timeout" \in Reasons
    BY DEF Reasons
  <2>2. r \in RequestRecord /\ r.agent = q.agent /\ r.handed = q.handed
    BY <1>1, <2>1 DEF RequestRecord
  <2>3. requests' = [requests EXCEPT ![i] = r]
    BY <1>2 DEF RequestTimesOut, abort
  <2> QED BY <2>2, <2>3, RequestMoves
<1>3. CASE CallerAborts(i)
  <2> DEFINE why == IF q.signal = "timeout" THEN "timeout of the caller" ELSE "caller"
             a == abort(q, why)
             r == [a EXCEPT !.signal = "aborted"]
  <2>1. why \in Reasons /\ "aborted" \in Signals
    BY DEF Reasons, Signals
  <2>2. requests' = [requests EXCEPT ![i] = r]
    BY <1>1, <1>3 DEF CallerAborts
  <2> HIDE DEF why
  <2>3. a \in RequestRecord /\ a.agent = q.agent /\ a.handed = q.handed
    BY <1>1, <2>1 DEF RequestRecord, abort
  <2> HIDE DEF a
  <2>4. r \in RequestRecord /\ r.agent = q.agent /\ r.handed = q.handed
    BY <2>1, <2>3 DEF RequestRecord
  <2> QED BY <2>2, <2>4, RequestMoves
<1>4. CASE AbortIsHeard(i)
  <2> DEFINE ended == IF q.stage = "sent" THEN errorOf(q.reason)
                      ELSE IF q.ended = "refused" THEN q.ended ELSE "AbortError"
  <2>1. ended \in Ends
    BY DEF errorOf, Ends
  <2>2. requests' = [requests EXCEPT ![i] = [q EXCEPT !.stage = "over", !.ended = ended]]
    BY <1>1, <1>4 DEF AbortIsHeard
  <2> HIDE DEF ended
  <2> QED BY <1>1, <2>1, <2>2, RequestEnds
<1>5. ASSUME NEW status \in {"ok", "refused", "unreachable"}, Answered(i, status)
      PROVE  requests' \in Seq(RightfulRequest)
  <2> DEFINE stage == IF status = "unreachable" THEN "over" ELSE "body"
             ended == IF status = "unreachable" THEN "failed"
                      ELSE IF status = "refused" THEN "refused" ELSE q.ended
  <2>1. q.ended \in Ends
    BY <1>1 DEF RequestRecord
  <2>2. ended \in Ends /\ stage \in Stages
    BY <2>1 DEF Ends, Stages
  <2>3. requests' = [requests EXCEPT ![i] = [q EXCEPT !.stage = stage, !.ended = ended]]
    BY <1>1, <1>5 DEF Answered
  <2> HIDE DEF stage, ended
  <2> QED BY <2>2, <2>3, RequestEnds
<1>6. ASSUME NEW invalidToken \in BOOLEAN, BodyIsRead(i, invalidToken)
      PROVE  requests' \in Seq(RightfulRequest)
  <2> DEFINE ended == IF q.ended # "refused" THEN "read"
                      ELSE IF invalidToken THEN "invalid token" ELSE "refused"
  <2>1. ended \in Ends
    BY DEF Ends
  <2>2. requests' = [requests EXCEPT ![i] = [q EXCEPT !.stage = "over", !.ended = ended]]
    BY <1>1, <1>6 DEF BodyIsRead
  <2> HIDE DEF ended
  <2> QED BY <1>1, <2>1, <2>2, RequestEnds
<1>7. ASSUME NEW ended \in {"canceled", "read"},
             requests' = [requests EXCEPT ![i] = [q EXCEPT !.stage = "over", !.ended = ended]]
      PROVE  requests' \in Seq(RightfulRequest)
  <2>1. ended \in Ends
    BY DEF Ends
  <2> QED BY <1>1, <1>7, <2>1, RequestEnds
<1>8. CASE requests' = [requests EXCEPT ![i] = [q EXCEPT !.chunks = @ + 1]]
  <2> DEFINE r == [q EXCEPT !.chunks = @ + 1]
  <2>1. r \in RequestRecord /\ r.agent = q.agent /\ r.handed = q.handed
    BY <1>1 DEF RequestRecord
  <2> QED BY <1>8, <2>1, RequestMoves
<1>9. CASE ChunkArrives(i) \/ StreamEnds(i)
  <2>1. \/ \E ended \in {"canceled", "read"} :
             requests' = [requests EXCEPT ![i] = [q EXCEPT !.stage = "over", !.ended = ended]]
        \/ requests' = [requests EXCEPT ![i] = [q EXCEPT !.chunks = @ + 1]]
    BY <1>1, <1>9 DEF ChunkArrives, StreamEnds
  <2> QED BY <1>7, <1>8, <2>1
<1>10. CASE TokenIsCanceled(i)
  <2> DEFINE r == [q EXCEPT !.canceled = TRUE]
  <2>1. r \in RequestRecord /\ r.agent = q.agent /\ r.handed = q.handed
    BY <1>1 DEF RequestRecord
  <2>2. requests' = [requests EXCEPT ![i] = r]
    BY <1>10 DEF TokenIsCanceled
  <2> QED BY <2>1, <2>2, RequestMoves
<1> QED BY <1>2, <1>3, <1>4, <1>5, <1>6, <1>9, <1>10

LEMMA HttpKeeps == HttpInv /\ [HttpNext]_httpVars => HttpInv'
<1> SUFFICES ASSUME HttpInv, [HttpNext]_httpVars PROVE HttpInv'
  OBVIOUS
<1>1. ASSUME NEW f \in CertificateFiles, FileChanges(f) PROVE HttpInv'
  BY <1>1 DEF FileChanges, HttpInv, AgentsFollow
<1>2. ASSUME NEW settings \in {"proxy", "none", "unreadable"}, Initialize(settings)
      PROVE  HttpInv'
  <2> DEFINE variables == IF http.user THEN "user"
                          ELSE IF settings = "proxy" THEN "settings" ELSE http.variables
             proxy == IF variables = "none" THEN http.proxy ELSE http.options
  <2>1. http' = [http EXCEPT !.initialized = TRUE, !.variables = variables, !.proxy = proxy]
    BY <1>2 DEF Initialize
  <2>2. /\ variables \in {"none", "environment", "user", "settings"}
        /\ proxy \in Options /\ Rightful(proxy, handed)
    BY DEF HttpInv, AgentsFollow, Service, Rightful
  <2> HIDE DEF variables, proxy
  <2>3. http' \in Service /\ http'.options = http.options /\ http'.https = http.https
        /\ http'.proxy = proxy
    BY <2>1, <2>2 DEF HttpInv, AgentsFollow, Service
  <2> QED BY <1>2, <2>2, <2>3 DEF Initialize, HttpInv, AgentsFollow
<1>3. ASSUME NEW strict \in BOOLEAN, NEW named \in SUBSET CertificateFiles,
             UpdateAgentOptions(strict, named)
      PROVE  HttpInv'
  <2> DEFINE options == [strict |-> strict, files |-> readFiles(named)]
  <2>1. options \in Options
    BY FilesAreRead DEF HttpInv
  <2>2. handed' = options /\ http' = withOptions(options) /\ UNCHANGED <<disk, requests>>
    BY <1>3 DEF UpdateAgentOptions
  <2> HIDE DEF options
  <2>3. AgentsFollow'
    BY <2>1, <2>2, OptionsAreFollowed DEF HttpInv
  <2> QED BY <2>2, <2>3 DEF HttpInv
<1>4. ASSUME NEW i \in DOMAIN requests,
             \/ RequestTimesOut(i) \/ CallerAborts(i) \/ AbortIsHeard(i)
             \/ \E status \in {"ok", "refused", "unreachable"} : Answered(i, status)
             \/ \E invalidToken \in BOOLEAN : BodyIsRead(i, invalidToken)
             \/ ChunkArrives(i) \/ StreamEnds(i) \/ TokenIsCanceled(i)
      PROVE  HttpInv'
  <2>1. requests' \in Seq(RightfulRequest)
    BY <1>4, RequestsKeep
  <2>2. UNCHANGED <<disk, http, handed>>
    BY <1>4 DEF RequestTimesOut, CallerAborts, AbortIsHeard, Answered, BodyIsRead,
                ChunkArrives, StreamEnds, TokenIsCanceled
  <2> QED BY <2>1, <2>2 DEF HttpInv, AgentsFollow
<1>5. CASE UNCHANGED httpVars
  BY <1>5 DEF httpVars, HttpInv, AgentsFollow
<1> QED BY <1>1, <1>2, <1>3, <1>4, <1>5, FetchBegins DEF HttpNext

\* updateAgentOptions replaces every agent at once: for any number of files,
\* hand-overs and requests, a request is made under the options in force when
\* it began, through a proxy or not.
THEOREM RequestsUseTheOptionsCorrect == HttpSpec => []RequestsUseTheOptions
<1>1. HttpInv => RequestsUseTheOptions
  BY DEF HttpInv, RightfulRequest, Rightful, RequestsUseTheOptions
<1> QED BY <1>1, HttpInitInv, HttpKeeps, PTL DEF HttpSpec

-----------------------------------------------------------------------------
(* DirectConnection: a question for details is of the account in force,    *)
(* and so is its answer, until a reconfiguration marks it.  Details do not *)
(* outlive one.                                                            *)

FetchesOf(account) ==
  {f \in [of : DirectAccounts, crossed : BOOLEAN] : f.of = account \/ f.crossed}
DetailsOf(account) ==
  {d \in [of : DirectAccounts, expired : BOOLEAN, crossed : BOOLEAN] :
     d.of = account \/ d.crossed}

DetailsInv == /\ directAccount \in DirectAccounts
              /\ fetches \in Seq(FetchesOf(directAccount))
              /\ details \subseteq DetailsOf(directAccount)

LEMMA DetailsInit == DirectInit => DetailsInv
  BY DEF DirectInit, DetailsInv

LEMMA WithoutOne ==
  ASSUME NEW S, fetches \in Seq(S), NEW f \in DOMAIN fetches
  PROVE  without(f) \in Seq(S)
<1>1. f \in 1 .. Len(fetches) /\ Len(fetches) \in Nat
  OBVIOUS
<1>2. /\ SubSeq(fetches, 1, f - 1) \in Seq(S)
      /\ SubSeq(fetches, f + 1, Len(fetches)) \in Seq(S)
  BY <1>1
<1> QED BY <1>2 DEF without

LEMMA DetailsKeep == DetailsInv /\ [DirectNext]_directVars => DetailsInv'
<1> SUFFICES ASSUME DetailsInv, [DirectNext]_directVars PROVE DetailsInv'
  OBVIOUS
<1> USE DEF DetailsInv
<1>1. ASSUME NEW account \in DirectAccounts, NEW valid \in BOOLEAN, Reconfigure(account, valid)
      PROVE  DetailsInv'
  <2>1. details' = {} /\ directAccount' = account
    BY <1>1 DEF Reconfigure, resetDetails
  <2>2. ASSUME NEW f \in FetchesOf(directAccount)
        PROVE  [f EXCEPT !.crossed = TRUE] \in FetchesOf(account)
    BY DEF FetchesOf
  <2>3. fetches' = [f \in 1 .. Len(fetches) |-> [fetches[f] EXCEPT !.crossed = TRUE]]
    BY <1>1 DEF Reconfigure
  <2>4. \A f \in 1 .. Len(fetches) : fetches[f] \in FetchesOf(directAccount)
    OBVIOUS
  <2>5. fetches' \in Seq(FetchesOf(account))
    BY <2>2, <2>3, <2>4
  <2> QED BY <2>1, <2>5
<1>2. CASE Expire
  <2>1. PICK d \in details : details' = {[d EXCEPT !.expired = TRUE]}
    BY <1>2 DEF Expire
  <2>2. [d EXCEPT !.expired = TRUE] \in DetailsOf(directAccount)
    BY DEF DetailsOf
  <2> QED BY <1>2, <2>1, <2>2 DEF Expire
<1>3. ASSUME NEW c \in Completions, AskForDetails(c) PROVE DetailsInv'
  <2>1. [of |-> directAccount, crossed |-> FALSE] \in FetchesOf(directAccount)
    BY DEF FetchesOf
  <2> QED BY <1>3, <2>1 DEF AskForDetails
<1>4. ASSUME NEW f \in DOMAIN fetches, DetailsArrive(f) PROVE DetailsInv'
  <2>1. fetches[f] \in FetchesOf(directAccount)
    OBVIOUS
  <2>2. Details(fetches[f].of, fetches[f].crossed) \in DetailsOf(directAccount)
    BY <2>1 DEF Details, DetailsOf, FetchesOf
  <2> QED BY <1>4, <2>2, WithoutOne DEF DetailsArrive
<1>5. ASSUME NEW f \in DOMAIN fetches, DetailsFail(f) PROVE DetailsInv'
  BY <1>5, WithoutOne DEF DetailsFail
<1>6. CASE UNCHANGED <<directAccount, fetches, details>>
  BY <1>6
<1> QED BY <1>1, <1>2, <1>3, <1>4, <1>5, <1>6
        DEF DirectNext, directVars, BackoffOver, AskDirectly, AskTheInstance, DirectAnswers,
            DirectFails, InstanceAnswers

\* onApiReconfigured forgets the details before anybody can use them with
\* another account, for any number of accounts, questions and completions.
THEOREM DirectDetailsCorrect == DirectSpec => []DirectDetailsAreCurrent
<1>1. DetailsInv => DirectDetailsAreCurrent
  BY DEF DetailsInv, DetailsOf, DirectDetailsAreCurrent
<1> QED BY <1>1, DetailsInit, DetailsKeep, PTL DEF DirectSpec

-----------------------------------------------------------------------------
(* SecurityScan: while the scans of a document do not overlap, there is    *)
(* one at work at most, and nothing but its publishing parts what the      *)
(* document shows from what the client was told.                           *)

ScanRecord == [of : ScannedDocuments, at : {"asked", "published", "done"},
               found : BOOLEAN, alone : BOOLEAN]
Result == [scan : Nat, found : BOOLEAN]

ScanTypes == /\ scans \in Seq(ScanRecord)
             /\ diagnostics \in [ScannedDocuments -> Result]
             /\ told \in [ScannedDocuments -> Result]

Apart(d) == \A n \in DOMAIN scans : scans[n].of = d => scans[n].alone
OneAtWork(d) == \A m, n \in AtWork(d) : m = n
PublishedIsShown(d) ==
  \A n \in AtWork(d) :
    scans[n].at = "published" => diagnostics[d] = [scan |-> n, found |-> scans[n].found]
ToldIsShown(d) ==
  told[d] # Nothing /\ (\A n \in AtWork(d) : scans[n].at = "asked") => diagnostics[d] = told[d]

Matching(d) == OneAtWork(d) /\ PublishedIsShown(d) /\ ToldIsShown(d)
ScanInv == ScanTypes /\ \A d \in ScannedDocuments : Apart(d) => Matching(d)

LEMMA ScanInitInv == ScanInit => ScanInv
<1> SUFFICES ASSUME ScanInit PROVE ScanInv
  OBVIOUS
<1>1. ScanTypes
  BY DEF ScanInit, ScanTypes, Result, Nothing
<1>2. \A d \in ScannedDocuments : AtWork(d) = {} /\ told[d] = Nothing
  BY DEF ScanInit, AtWork
<1> QED BY <1>1, <1>2 DEF ScanInv, Matching, OneAtWork, PublishedIsShown, ToldIsShown

\* A step of scan n of document d.
LEMMA ScanMoves ==
  ASSUME ScanInv, NEW d \in ScannedDocuments, NEW n \in AtWork(d),
         NEW at \in {"published", "done"}, NEW found \in BOOLEAN,
         scans' = [scans EXCEPT ![n].at = at, ![n].found = found]
  PROVE  /\ scans' \in Seq(ScanRecord)
         /\ scans'[n].at = at /\ scans'[n].found = found
         /\ \A e \in ScannedDocuments : Apart(e)' => Apart(e)
         /\ \A e \in ScannedDocuments :
              e # d => /\ AtWork(e)' = AtWork(e)
                       /\ \A m \in AtWork(e) : scans'[m] = scans[m]
         /\ Apart(d)' => AtWork(d) = {n} /\ AtWork(d)' = IF at = "done" THEN {} ELSE {n}
<1> DEFINE x == [scans[n] EXCEPT !.at = at, !.found = found]
<1>1. scans \in Seq(ScanRecord) /\ n \in DOMAIN scans /\ scans[n] \in ScanRecord
  BY DEF ScanInv, ScanTypes, AtWork
<1>2. /\ x \in ScanRecord /\ x.of = d /\ x.at = at /\ x.found = found
      /\ x.alone = scans[n].alone
  BY <1>1 DEF ScanRecord, AtWork
<1>3. scans' = [scans EXCEPT ![n] = x]
  BY <1>1 DEF ScanRecord
<1> HIDE DEF x
<1>4. scans' \in Seq(ScanRecord) /\ DOMAIN scans' = DOMAIN scans /\ scans'[n] = x
  <2>1. scans \in [1 .. Len(scans) -> ScanRecord] /\ Len(scans) \in Nat
    BY <1>1, LenProperties
  <2>2. scans' \in [1 .. Len(scans) -> ScanRecord]
    BY <1>2, <1>3, <2>1
  <2>3. scans' \in Seq(ScanRecord)
    BY <2>1, <2>2, FunctionIsSequence
  <2>4. DOMAIN scans' = DOMAIN scans
    BY <2>1, <2>2
  <2>5. scans'[n] = x
    BY <1>1, <1>3
  <2> QED BY <2>3, <2>4, <2>5
<1>5. \A m \in DOMAIN scans : m # n => scans'[m] = scans[m]
  BY <1>1, <1>3
<1>6. scans[n].of = d /\ scans[n].at # "done"
  BY DEF AtWork
<1>7. \A e \in ScannedDocuments : Apart(e)' => Apart(e)
  BY <1>2, <1>4, <1>5, <1>6 DEF Apart
<1>8. ASSUME NEW e \in ScannedDocuments, e # d
      PROVE  /\ AtWork(e)' = AtWork(e)
             /\ \A m \in AtWork(e) : scans'[m] = scans[m]
  BY <1>2, <1>4, <1>5, <1>6, <1>8 DEF AtWork
<1>9. ASSUME Apart(d)'
      PROVE  AtWork(d) = {n} /\ AtWork(d)' = IF at = "done" THEN {} ELSE {n}
  <2>1. AtWork(d) = {n}
    BY <1>7, <1>9 DEF ScanInv, Matching, OneAtWork
  <2>2. \A m \in DOMAIN scans : m # n => ~(scans[m].of = d /\ scans[m].at # "done")
    BY <2>1 DEF AtWork
  <2> QED BY <1>1, <1>2, <1>4, <1>5, <2>1, <2>2 DEF AtWork
<1> QED BY <1>2, <1>4, <1>7, <1>8, <1>9

\* Documents whose scans did not move, and what is shown and told of them.
LEMMA OthersMatch ==
  ASSUME ScanInv, NEW e \in ScannedDocuments, Apart(e)' => Apart(e),
         AtWork(e)' = AtWork(e), \A m \in AtWork(e) : scans'[m] = scans[m],
         diagnostics'[e] = diagnostics[e], told'[e] = told[e]
  PROVE  Apart(e)' => Matching(e)'
<1> SUFFICES ASSUME Apart(e)' PROVE Matching(e)'
  OBVIOUS
<1>1. Matching(e)
  BY DEF ScanInv
<1>2. OneAtWork(e)'
  BY <1>1 DEF Matching, OneAtWork
<1>3. PublishedIsShown(e)'
  BY <1>1 DEF Matching, PublishedIsShown
<1>4. ToldIsShown(e)'
  BY <1>1 DEF Matching, ToldIsShown
<1> QED BY <1>2, <1>3, <1>4 DEF Matching

LEMMA ScanBegins ==
  ASSUME ScanInv, NEW d \in ScannedDocuments, Scan(d)
  PROVE  ScanInv'
<1> DEFINE scan == [of |-> d, at |-> "asked", found |-> FALSE, alone |-> AtWork(d) = {}]
           overlapped == [n \in DOMAIN scans |->
                            IF n \in AtWork(d) THEN [scans[n] EXCEPT !.alone = FALSE]
                            ELSE scans[n]]
           len == Len(scans)
<1>1. CASE UNCHANGED <<scans, told>>
  BY <1>1 DEF Scan, ScanInv, ScanTypes, Apart, Matching, OneAtWork, PublishedIsShown,
              ToldIsShown, AtWork
<1>2. CASE UNCHANGED scans /\ told' = [told EXCEPT ![d] = Nothing]
  <2>1. diagnostics' = diagnostics
    BY DEF Scan
  <2>2. ScanTypes'
    BY <1>2, <2>1 DEF ScanInv, ScanTypes, Result, Nothing
  <2>3. ASSUME NEW e \in ScannedDocuments, Apart(e)' PROVE Matching(e)'
    BY <1>2, <2>1, <2>3 DEF ScanInv, ScanTypes, Apart, Matching, OneAtWork, PublishedIsShown,
                            ToldIsShown, AtWork
  <2> QED BY <2>2, <2>3 DEF ScanInv
<1>3. CASE scans' = Append(overlapped, scan) /\ UNCHANGED told
  <2>1. scans \in Seq(ScanRecord) /\ len \in Nat /\ DOMAIN scans = 1 .. len
    BY DEF ScanInv, ScanTypes
  <2>2. scan \in ScanRecord
    BY DEF ScanRecord
  <2>3. \A n \in 1 .. len : /\ overlapped[n] \in ScanRecord
                            /\ overlapped[n].of = scans[n].of /\ overlapped[n].at = scans[n].at
                            /\ overlapped[n].found = scans[n].found
                            /\ overlapped[n].alone = (scans[n].alone /\ n \notin AtWork(d))
    <3>1. ASSUME NEW n \in 1 .. len PROVE scans[n] \in ScanRecord
      BY <2>1
    <3> QED BY <2>1, <3>1 DEF ScanRecord
  <2>4. overlapped \in Seq(ScanRecord) /\ Len(overlapped) = len
    <3>1. overlapped \in [1 .. len -> ScanRecord]
      BY <2>1, <2>3
    <3> QED BY <2>1, <3>1
  <2> HIDE DEF overlapped, scan, len
  <2>5. /\ scans' \in Seq(ScanRecord) /\ DOMAIN scans' = 1 .. (len + 1)
        /\ scans'[len + 1] = scan /\ \A n \in 1 .. len : scans'[n] = overlapped[n]
    BY <1>3, <2>1, <2>2, <2>4
  <2>6. diagnostics' = diagnostics /\ told' = told
    BY <1>3 DEF Scan
  <2>7. ScanTypes'
    BY <2>5, <2>6 DEF ScanInv, ScanTypes
  <2>10. ASSUME NEW e \in ScannedDocuments, Apart(e)' PROVE Apart(e)
    <3> SUFFICES ASSUME NEW n \in 1 .. len, scans[n].of = e PROVE scans[n].alone
      BY <2>1 DEF Apart
    <3>1. n \in DOMAIN scans' /\ scans'[n] = overlapped[n]
      BY <2>1, <2>5
    <3>2. scans'[n].of = e
      BY <2>3, <3>1
    <3>3. scans'[n].alone
      BY <2>10, <3>1, <3>2 DEF Apart
    <3>4. overlapped[n].alone = (scans[n].alone /\ n \notin AtWork(d))
      BY <2>3
    <3> QED BY <3>1, <3>3, <3>4
  <2>8. ASSUME NEW e \in ScannedDocuments, e # d, Apart(e)' PROVE Matching(e)'
    <3>1. AtWork(e)' = AtWork(e)
      BY <2>1, <2>3, <2>5, <2>8 DEF AtWork, scan
    <3>2. Apart(e)
      BY <2>8, <2>10
    <3>3. \A m \in AtWork(e) : scans'[m].at = scans[m].at /\ scans'[m].found = scans[m].found
      BY <2>1, <2>3, <2>5 DEF AtWork
    <3>4. Matching(e)
      BY <3>2 DEF ScanInv
    <3> QED BY <2>6, <3>1, <3>3, <3>4 DEF Matching, OneAtWork, PublishedIsShown, ToldIsShown
  <2>9. ASSUME Apart(d)' PROVE Matching(d)'
    <3>1. AtWork(d) = {}
      <4>1. len + 1 \in DOMAIN scans' /\ scans'[len + 1].of = d
        BY <2>1, <2>5 DEF scan
      <4>2. scans'[len + 1].alone
        BY <2>9, <4>1 DEF Apart
      <4>3. scan.alone = (AtWork(d) = {})
        BY DEF scan
      <4> QED BY <2>5, <4>2, <4>3
    <3>2. AtWork(d)' = {len + 1} /\ scans'[len + 1].at = "asked"
      BY <2>1, <2>3, <2>5, <3>1 DEF AtWork, scan
    <3>3. Apart(d)
      BY <2>9, <2>10
    <3>4. told[d] # Nothing => diagnostics[d] = told[d]
      BY <3>1, <3>3 DEF ScanInv, Matching, ToldIsShown
    <3> QED BY <2>6, <3>2, <3>4 DEF Matching, OneAtWork, PublishedIsShown, ToldIsShown
  <2> QED BY <2>7, <2>8, <2>9 DEF ScanInv
<1> QED BY <1>1, <1>2, <1>3 DEF Scan

\* What a step of scan n leaves of its document, in what is shown and told.
LEMMA DocumentMoves ==
  ASSUME ScanInv, NEW d \in ScannedDocuments, NEW n \in AtWork(d),
         NEW at \in {"published", "done"}, NEW found \in BOOLEAN,
         scans' = [scans EXCEPT ![n].at = at, ![n].found = found],
         NEW shown \in Result, diagnostics' = [diagnostics EXCEPT ![d] = shown],
         NEW heard \in Result, told' = [told EXCEPT ![d] = heard],
         Apart(d) => /\ at = "published" => shown = [scan |-> n, found |-> found]
                     /\ at = "done" /\ heard # Nothing => shown = heard
  PROVE  ScanInv'
<1>1. /\ scans' \in Seq(ScanRecord)
      /\ scans'[n].at = at /\ scans'[n].found = found
      /\ \A e \in ScannedDocuments : Apart(e)' => Apart(e)
      /\ \A e \in ScannedDocuments :
           e # d => AtWork(e)' = AtWork(e) /\ \A m \in AtWork(e) : scans'[m] = scans[m]
      /\ Apart(d)' => AtWork(d) = {n} /\ AtWork(d)' = IF at = "done" THEN {} ELSE {n}
  BY ScanMoves
<1>2. ScanTypes'
  BY <1>1 DEF ScanInv, ScanTypes
<1>3. /\ diagnostics'[d] = shown /\ told'[d] = heard
      /\ \A e \in ScannedDocuments :
           e # d => diagnostics'[e] = diagnostics[e] /\ told'[e] = told[e]
  BY DEF ScanInv, ScanTypes
<1>4. ASSUME NEW e \in ScannedDocuments, e # d PROVE Apart(e)' => Matching(e)'
  BY <1>1, <1>3, <1>4, OthersMatch
<1>5. ASSUME Apart(d)' PROVE Matching(d)'
  <2>1. CASE at = "done"
    BY <1>1, <1>3, <1>5, <2>1 DEF Matching, OneAtWork, PublishedIsShown, ToldIsShown
  <2>2. CASE at = "published"
    BY <1>1, <1>3, <1>5, <2>2 DEF Matching, OneAtWork, PublishedIsShown, ToldIsShown
  <2> QED BY <2>1, <2>2
<1> QED BY <1>2, <1>4, <1>5 DEF ScanInv

LEMMA ScanProceeds ==
  ASSUME ScanInv, NEW n \in DOMAIN scans,
         ScanAnswered(n) \/ AnswerIgnored(n) \/ ClientTold(n) \/ ScanFails(n)
  PROVE  ScanInv'
<1> DEFINE q == scans[n]
           d == scans[n].of
<1>1. scans \in Seq(ScanRecord) /\ q \in ScanRecord /\ n \in Nat
  BY LenProperties DEF ScanInv, ScanTypes
<1>2. q.at # "done"
  BY DEF ScanAnswered, AnswerIgnored, ClientTold, ScanFails
<1>3. d \in ScannedDocuments /\ n \in AtWork(d) /\ q.found \in BOOLEAN
  BY <1>1, <1>2 DEF ScanRecord, AtWork
<1>4. /\ diagnostics[d] \in Result /\ told[d] \in Result
      /\ diagnostics = [diagnostics EXCEPT ![d] = diagnostics[d]]
      /\ told = [told EXCEPT ![d] = told[d]]
  BY <1>3 DEF ScanInv, ScanTypes
<1>5. [scans EXCEPT ![n].at = "done"] = [scans EXCEPT ![n].at = "done", ![n].found = q.found]
  <2>1. [q EXCEPT !.at = "done"] = [q EXCEPT !.at = "done", !.found = q.found]
    BY <1>1 DEF ScanRecord
  <2>2. /\ [scans EXCEPT ![n].at = "done"] = [scans EXCEPT ![n] = [q EXCEPT !.at = "done"]]
        /\ [scans EXCEPT ![n].at = "done", ![n].found = q.found]
             = [scans EXCEPT ![n] = [q EXCEPT !.at = "done", !.found = q.found]]
    BY <1>1 DEF ScanRecord
  <2> QED BY <2>1, <2>2
<1>6. CASE ScanAnswered(n)
  <2>1. PICK found \in BOOLEAN :
          /\ diagnostics' = [diagnostics EXCEPT ![d] = [scan |-> n, found |-> found]]
          /\ scans' = [scans EXCEPT ![n].at = "published", ![n].found = found]
          /\ told' = told
    BY <1>6 DEF ScanAnswered, publish
  <2>2. [scan |-> n, found |-> found] \in Result
    BY <1>1 DEF Result
  <2> QED BY <1>3, <1>4, <2>1, <2>2, DocumentMoves
<1>7. CASE AnswerIgnored(n)
  <2>1. Apart(d) /\ told[d] # Nothing => diagnostics[d] = told[d]
    BY <1>3, <1>7 DEF AnswerIgnored, ScanInv, Matching, OneAtWork, ToldIsShown
  <2>2. scans' = [scans EXCEPT ![n].at = "done", ![n].found = q.found]
    BY <1>5, <1>7 DEF AnswerIgnored
  <2>3. /\ diagnostics' = [diagnostics EXCEPT ![d] = diagnostics[d]]
        /\ told' = [told EXCEPT ![d] = told[d]]
    BY <1>4, <1>7 DEF AnswerIgnored
  <2> HIDE DEF d, q
  <2> QED BY <1>3, <1>4, <2>1, <2>2, <2>3, DocumentMoves
<1>8. CASE ClientTold(n)
  <2>1. Apart(d) => diagnostics[d] = [scan |-> n, found |-> q.found]
    BY <1>3, <1>8 DEF ClientTold, ScanInv, Matching, PublishedIsShown
  <2>2. scans' = [scans EXCEPT ![n].at = "done", ![n].found = q.found]
    BY <1>5, <1>8 DEF ClientTold
  <2>3. /\ diagnostics' = diagnostics
        /\ told' = [told EXCEPT ![d] = [scan |-> n, found |-> q.found]]
    BY <1>8 DEF ClientTold
  <2>4. [scan |-> n, found |-> q.found] \in Result
    BY <1>1, <1>3 DEF Result
  <2> QED BY <1>3, <1>4, <2>1, <2>2, <2>3, <2>4, DocumentMoves
<1>9. CASE ScanFails(n)
  <2>1. Nothing \in Result
    BY DEF Nothing, Result
  <2>2. scans' = [scans EXCEPT ![n].at = "done", ![n].found = q.found]
    BY <1>5, <1>9 DEF ScanFails
  <2>3. diagnostics' = diagnostics /\ told' = [told EXCEPT ![d] = Nothing]
    BY <1>9 DEF ScanFails
  <2> QED BY <1>3, <1>4, <2>1, <2>2, <2>3, DocumentMoves
<1> QED BY <1>6, <1>7, <1>8, <1>9

LEMMA ScanKeeps == ScanInv /\ [ScanNext]_scanVars => ScanInv'
<1> SUFFICES ASSUME ScanInv, [ScanNext]_scanVars PROVE ScanInv'
  OBVIOUS
<1>1. CASE UNCHANGED <<scans, diagnostics, told>>
  BY <1>1 DEF ScanInv, ScanTypes, Apart, Matching, OneAtWork, PublishedIsShown, ToldIsShown,
              AtWork
<1> QED BY <1>1, ScanBegins, ScanProceeds
        DEF ScanNext, scanVars, SwitchScans, EditDocument, CloseDocument

\* A result is published before the client is told of it, and nothing in
\* between changes either: for any number of documents, texts and scans.
THEOREM DiagnosticsCorrect == ScanSpec => []DiagnosticsMatchTheResult
<1>1. ScanInv => DiagnosticsMatchTheResult
  BY DEF ScanInv, Apart, Matching, ToldIsShown, DiagnosticsMatchTheResult
<1> QED BY <1>1, ScanInitInv, ScanKeeps, PTL DEF ScanSpec

-----------------------------------------------------------------------------
(* FeatureFlags: with no question of another account at work, all          *)
(* questions are about the account in force, and there is one still to be  *)
(* answered for whatever is not known of it yet.                           *)

\* Flags is a sequence, and not the empty one.
SomeFlags == Flags \in Seq(ToSet(Flags)) /\ Flags # <<>>

Accounts == FlagAccounts \cup {"none"}
Updates == [next : 1 .. Len(Flags), of : Accounts]

FlagTypes == /\ current \in Accounts /\ announced \in BOOLEAN /\ crossed \in BOOLEAN
             /\ DOMAIN flags = ToSet(Flags)
             /\ updates \in Seq(Updates) /\ asks \in Seq(Accounts)

QuestionsAreCurrent == /\ \A u \in DOMAIN updates : updates[u].of = current
                       /\ \A a \in DOMAIN asks : asks[a] = current
FlagsAreAsked ==
  \A k \in 1 .. Len(Flags) :
    flags[Flags[k]] = current \/ \E u \in DOMAIN updates : updates[u].next <= k
UserIsAsked == user \in {current, "none"} \/ asks # <<>>

FlagsInv ==
  /\ FlagTypes
  /\ ~crossed /\ current # "none" =>
       /\ QuestionsAreCurrent
       /\ announced => FlagsAreAsked /\ UserIsAsked

LEMMA SomeFlagsExist ==
  ASSUME SomeFlags
  PROVE  Len(Flags) \in Nat \ {0} /\ DOMAIN Flags = 1 .. Len(Flags)
  BY DEF SomeFlags

\* What RemoveAt leaves of a sequence.
LEMMA RemovedOne ==
  ASSUME NEW S, NEW s \in Seq(S), NEW i \in DOMAIN s
  PROVE  /\ RemoveAt(s, i) \in Seq(S)
         /\ \A k \in DOMAIN RemoveAt(s, i) : \E j \in DOMAIN s : RemoveAt(s, i)[k] = s[j]
         /\ \A j \in DOMAIN s : j # i => \E k \in DOMAIN RemoveAt(s, i) : RemoveAt(s, i)[k] = s[j]
<1> DEFINE n == Len(s)
           left == SubSeq(s, 1, i - 1)
           right == SubSeq(s, i + 1, n)
           r == RemoveAt(s, i)
<1>1. n \in Nat /\ i \in 1 .. n /\ DOMAIN s = 1 .. n
  BY LenProperties
<1>2. /\ left \in Seq(S) /\ Len(left) = i - 1
      /\ \A k \in 1 .. (i - 1) : left[k] = s[k]
  BY <1>1
<1>3. /\ right \in Seq(S) /\ Len(right) = n - i
      /\ \A k \in 1 .. (n - i) : right[k] = s[i + k]
  BY <1>1
<1>4. r = left \o right
  BY DEF RemoveAt
<1> HIDE DEF left, right, r, n
<1>5. /\ r \in Seq(S) /\ DOMAIN r = 1 .. (n - 1)
      /\ \A k \in 1 .. (n - 1) : r[k] = IF k < i THEN s[k] ELSE s[k + 1]
  <2>1. /\ r \in Seq(S) /\ Len(r) = n - 1
        /\ \A k \in 1 .. (n - 1) : r[k] = IF k <= i - 1 THEN left[k] ELSE right[k - (i - 1)]
    <3>1. /\ r \in Seq(S) /\ Len(r) = Len(left) + Len(right)
          /\ \A k \in 1 .. Len(left) + Len(right) :
               r[k] = IF k <= Len(left) THEN left[k] ELSE right[k - Len(left)]
      BY <1>2, <1>3, <1>4, ConcatProperties
    <3> QED BY <1>1, <1>2, <1>3, <3>1
  <2>2. ASSUME NEW k \in 1 .. (n - 1) PROVE r[k] = IF k < i THEN s[k] ELSE s[k + 1]
    <3>1. CASE k < i
      BY <1>1, <1>2, <2>1, <3>1
    <3>2. CASE ~(k < i)
      <4>1. r[k] = right[k - (i - 1)] /\ k - (i - 1) \in 1 .. (n - i)
        BY <1>1, <2>1, <3>2
      <4>2. i + (k - (i - 1)) = k + 1
        BY <1>1
      <4> QED BY <1>3, <3>2, <4>1, <4>2
    <3> QED BY <3>1, <3>2
  <2> QED BY <2>1, <2>2
<1>6. ASSUME NEW k \in DOMAIN r PROVE \E j \in DOMAIN s : r[k] = s[j]
  <2>1. k \in DOMAIN s /\ k + 1 \in DOMAIN s
    BY <1>1, <1>5
  <2> QED BY <1>5, <2>1
<1>7. ASSUME NEW j \in DOMAIN s, j # i PROVE \E k \in DOMAIN r : r[k] = s[j]
  <2>1. CASE j < i
    BY <1>1, <1>5, <2>1
  <2>2. CASE j > i
    <3>1. j - 1 \in DOMAIN r /\ r[j - 1] = s[j]
      BY <1>1, <1>5, <2>2
    <3> QED BY <3>1
  <2> QED BY <1>1, <1>7, <2>1, <2>2
<1> QED BY <1>5, <1>6, <1>7 DEF r

LEMMA FlagsInitInv == FlagsInit => FlagsInv
<1> SUFFICES ASSUME FlagsInit PROVE FlagsInv
  OBVIOUS
<1>1. FlagTypes
  <2>1. /\ current = "none" /\ announced = TRUE /\ crossed = FALSE
        /\ flags = [f \in ToSet(Flags) |-> "unknown"] /\ updates = <<>> /\ asks = <<>>
    BY DEF FlagsInit
  <2>2. DOMAIN flags = ToSet(Flags)
    BY <2>1
  <2>3. updates \in Seq(Updates) /\ asks \in Seq(Accounts)
    BY <2>1
  <2> QED BY <2>1, <2>2, <2>3 DEF FlagTypes, Accounts
<1>2. current = "none"
  BY DEF FlagsInit
<1> QED BY <1>1, <1>2 DEF FlagsInv

LEMMA ApiConfiguredKeeps ==
  ASSUME FlagsInv, NEW account \in FlagAccounts, ApiConfigured(account)
  PROVE  FlagsInv'
<1>1. /\ current' = account /\ announced' = FALSE /\ UNCHANGED <<flags, updates, asks>>
      /\ crossed' = (updates # <<>> \/ asks # <<>>)
  BY DEF ApiConfigured
<1>2. FlagTypes'
  BY <1>1 DEF FlagsInv, FlagTypes, Accounts
<1>3. ASSUME ~crossed' PROVE QuestionsAreCurrent'
  <2>1. updates' = <<>> /\ asks' = <<>>
    BY <1>1, <1>3
  <2>2. DOMAIN updates' = {} /\ DOMAIN asks' = {}
    BY <2>1
  <2> QED BY <2>2 DEF QuestionsAreCurrent
<1>4. ~announced'
  BY <1>1
<1> QED BY <1>2, <1>3, <1>4 DEF FlagsInv

LEMMA ApiReconfiguredKeeps ==
  ASSUME SomeFlags,
         FlagsInv, NEW valid \in BOOLEAN, ApiReconfigured(valid)
  PROVE  FlagsInv'
<1> USE SomeFlagsExist
<1>1. UNCHANGED <<flags, crossed>> /\ announced' = TRUE
  BY DEF ApiReconfigured
<1>2. CASE valid
  <2> DEFINE u == [next |-> 1, of |-> current]
  <2>1. /\ updates' = Append(updates, u) /\ asks' = Append(asks, current)
        /\ UNCHANGED <<current, user>>
    BY <1>2 DEF ApiReconfigured, updateNow, update
  <2>2. updates \in Seq(Updates) /\ asks \in Seq(Accounts) /\ current \in Accounts
    BY DEF FlagsInv, FlagTypes
  <2>3. u \in Updates /\ u.next = 1 /\ u.of = current
    BY <2>2 DEF Updates
  <2> HIDE DEF u
  <2>4. /\ updates' \in Seq(Updates) /\ asks' \in Seq(Accounts)
        /\ DOMAIN updates' = 1 .. (Len(updates) + 1) /\ updates'[Len(updates) + 1] = u
        /\ \A k \in 1 .. Len(updates) : updates'[k] = updates[k]
        /\ DOMAIN asks' = 1 .. (Len(asks) + 1) /\ asks'[Len(asks) + 1] = current
        /\ \A k \in 1 .. Len(asks) : asks'[k] = asks[k]
    BY <2>1, <2>2, <2>3
  <2>5. FlagTypes'
    BY <1>1, <2>1, <2>4 DEF FlagsInv, FlagTypes
  <2>6. ~crossed /\ current # "none" => QuestionsAreCurrent'
    BY <2>1, <2>2, <2>3, <2>4 DEF FlagsInv, QuestionsAreCurrent
  <2>7. FlagsAreAsked'
    <3>1. Len(updates) + 1 \in DOMAIN updates' /\ updates'[Len(updates) + 1].next = 1
      BY <2>2, <2>3, <2>4
    <3> QED BY <3>1 DEF FlagsAreAsked
  <2>8. UserIsAsked'
    BY <2>1, <2>2 DEF UserIsAsked
  <2> QED BY <1>1, <2>1, <2>5, <2>6, <2>7, <2>8 DEF FlagsInv
<1>3. CASE ~valid
  <2>1. current' = "none" /\ UNCHANGED <<updates, asks>>
    BY <1>3 DEF ApiReconfigured
  <2>2. FlagTypes'
    BY <1>1, <2>1 DEF FlagsInv, FlagTypes, Accounts
  <2> QED BY <2>1, <2>2 DEF FlagsInv
<1> QED BY <1>2, <1>3

LEMMA UpdateFlagsKeeps ==
  ASSUME SomeFlags, FlagsInv, UpdateInstanceFeatureFlags
  PROVE  FlagsInv'
<1> USE SomeFlagsExist
<1> DEFINE u == [next |-> 1, of |-> current]
<1>1. /\ updates' = Append(updates, u)
      /\ UNCHANGED <<current, announced, flags, user, asks, crossed>>
  BY DEF UpdateInstanceFeatureFlags, update
<1>2. updates \in Seq(Updates) /\ current \in Accounts
  BY DEF FlagsInv, FlagTypes
<1>3. u \in Updates /\ u.of = current
  BY <1>2 DEF Updates
<1> HIDE DEF u
<1>4. /\ updates' \in Seq(Updates)
      /\ DOMAIN updates' = 1 .. (Len(updates) + 1) /\ updates'[Len(updates) + 1] = u
      /\ DOMAIN updates = 1 .. Len(updates) /\ Len(updates) \in Nat
      /\ \A k \in 1 .. Len(updates) : updates'[k] = updates[k]
  BY <1>1, <1>2, <1>3
<1>5. FlagTypes'
  BY <1>1, <1>4 DEF FlagsInv, FlagTypes
<1>6. ASSUME QuestionsAreCurrent PROVE QuestionsAreCurrent'
  BY <1>1, <1>3, <1>4, <1>6 DEF QuestionsAreCurrent
<1>7. ASSUME FlagsAreAsked PROVE FlagsAreAsked'
  BY <1>1, <1>4, <1>7 DEF FlagsAreAsked
<1>8. UserIsAsked => UserIsAsked'
  BY <1>1 DEF UserIsAsked
<1> QED BY <1>1, <1>5, <1>6, <1>7, <1>8 DEF FlagsInv

LEMMA UserAnsweredKeeps ==
  ASSUME FlagsInv, NEW a \in DOMAIN asks, UserAnswered(a)
  PROVE  FlagsInv'
<1>1. /\ user' \in {"none", asks[a]} /\ asks' = RemoveAt(asks, a)
      /\ UNCHANGED <<current, announced, flags, updates, crossed>>
  BY DEF UserAnswered
<1>2. /\ asks' \in Seq(Accounts)
      /\ \A k \in DOMAIN asks' : \E j \in DOMAIN asks : asks'[k] = asks[j]
  BY <1>1, RemovedOne DEF FlagsInv, FlagTypes
<1>3. FlagTypes'
  BY <1>1, <1>2 DEF FlagsInv, FlagTypes
<1>4. ASSUME QuestionsAreCurrent PROVE QuestionsAreCurrent' /\ UserIsAsked'
  BY <1>1, <1>2, <1>4 DEF QuestionsAreCurrent, UserIsAsked
<1>5. FlagsAreAsked => FlagsAreAsked'
  BY <1>1 DEF FlagsAreAsked
<1> QED BY <1>1, <1>3, <1>4, <1>5 DEF FlagsInv

LEMMA FlagAnsweredKeeps ==
  ASSUME SomeFlags, FlagsInv, NEW u \in DOMAIN updates, FlagAnswered(u)
  PROVE  FlagsInv'
<1> USE SomeFlagsExist
<1> DEFINE n == updates[u].next
           x == [next |-> n + 1, of |-> current]
<1>1. /\ flags' = [flags EXCEPT ![Flags[n]] = updates[u].of]
      /\ UNCHANGED <<current, announced, user, asks, crossed>>
      /\ n = Len(Flags) => updates' = RemoveAt(updates, u)
      /\ n # Len(Flags) => updates' = [updates EXCEPT ![u] = x]
  BY DEF FlagAnswered
<1>2. /\ updates \in Seq(Updates) /\ u \in 1 .. Len(updates) /\ Len(updates) \in Nat
      /\ updates[u] \in Updates /\ current \in Accounts
  BY DEF FlagsInv, FlagTypes
<1>3. n \in 1 .. Len(Flags)
  BY <1>2 DEF Updates
<1>4. /\ updates' \in Seq(Updates)
      /\ \A k \in DOMAIN updates' :
           updates'[k].of = current \/ \E j \in DOMAIN updates : updates'[k].of = updates[j].of
      /\ \A j \in DOMAIN updates : j # u =>
           \E k \in DOMAIN updates' : updates'[k].next = updates[j].next
      /\ n # Len(Flags) => \E k \in DOMAIN updates' : updates'[k].next = n + 1
  <2>1. CASE n = Len(Flags)
    BY <1>1, <1>2, <2>1, RemovedOne
  <2>2. CASE n # Len(Flags)
    <3>1. x \in Updates /\ x.of = current /\ x.next = n + 1
      BY <1>2, <1>3, <2>2 DEF Updates
    <3> HIDE DEF x
    <3>2. /\ updates' \in [1 .. Len(updates) -> Updates]
          /\ updates'[u] = x /\ \A j \in 1 .. Len(updates) : j # u => updates'[j] = updates[j]
      BY <1>1, <1>2, <2>2, <3>1
    <3>3. DOMAIN updates' = DOMAIN updates /\ updates' \in Seq(Updates)
      BY <1>2, <3>2, FunctionIsSequence
    <3> QED BY <1>2, <2>2, <3>1, <3>2, <3>3
  <2> QED BY <2>1, <2>2
<1>5. FlagTypes'
  <2>1. DOMAIN flags' = DOMAIN flags
    BY <1>1
  <2> QED BY <1>1, <1>4, <2>1 DEF FlagsInv, FlagTypes
<1>6. ASSUME QuestionsAreCurrent PROVE QuestionsAreCurrent'
  BY <1>1, <1>4, <1>6 DEF QuestionsAreCurrent
<1>7. ASSUME QuestionsAreCurrent, FlagsAreAsked PROVE FlagsAreAsked'
  <2> SUFFICES ASSUME NEW k \in 1 .. Len(Flags), flags'[Flags[k]] # current
               PROVE  \E v \in DOMAIN updates' : updates'[v].next <= k
    BY <1>1 DEF FlagsAreAsked
  <2>1. Flags[k] \in DOMAIN flags /\ updates[u].of = current
    BY <1>7 DEF QuestionsAreCurrent, FlagsInv, FlagTypes, ToSet
  <2>2. flags[Flags[k]] # current /\ k # n
    BY <1>1, <2>1
  <2>3. PICK v \in DOMAIN updates : updates[v].next <= k
    BY <1>7, <2>2 DEF FlagsAreAsked
  <2>4. CASE v # u
    BY <1>4, <2>3, <2>4
  <2>5. CASE v = u
    <3>1. n + 1 <= k /\ n # Len(Flags)
      BY <1>3, <2>2, <2>3, <2>5
    <3> QED BY <1>4, <3>1
  <2> QED BY <2>4, <2>5
<1>8. UserIsAsked => UserIsAsked'
  BY <1>1 DEF UserIsAsked
<1> QED BY <1>1, <1>5, <1>6, <1>7, <1>8 DEF FlagsInv

\* Every reconfiguration asks for all flags and for the user itself, whatever
\* the throttle does: whichever and however many accounts and flags there are.
THEOREM KnownIsOfTheAccountCorrect ==
  ASSUME SomeFlags
  PROVE  FlagsSpec => []KnownIsOfTheAccount
<1>1. FlagsInv /\ [FlagsNext]_flagsVars => FlagsInv'
  <2> SUFFICES ASSUME FlagsInv, [FlagsNext]_flagsVars PROVE FlagsInv'
    OBVIOUS
  <2>1. CASE UNCHANGED flagsVars
    BY <2>1 DEF flagsVars, FlagsInv, FlagTypes, QuestionsAreCurrent, FlagsAreAsked, UserIsAsked
  <2> QED BY <2>1, ApiConfiguredKeeps, ApiReconfiguredKeeps, UpdateFlagsKeeps, UserAnsweredKeeps,
             FlagAnsweredKeeps DEF FlagsNext
<1>2. FlagsInv => KnownIsOfTheAccount
  BY SomeFlagsExist DEF FlagsInv, FlagTypes, FlagsAreAsked, UserIsAsked, KnownIsOfTheAccount,
                        ToSet
<1> QED BY <1>1, <1>2, FlagsInitInv, PTL DEF FlagsSpec

-----------------------------------------------------------------------------
(* ServerConnection.  Whatever the client sends once it is ready is behind *)
(* its "initialized", and a page exists only if main got to its end.       *)

Messages == Registered \cup {"initialized", "folders"}

ConnectionTypes ==
  /\ DOMAIN client = {"state", "metadata"} /\ DOMAIN httpServer = {"listens", "address"}
  /\ inbox \in Seq(Messages) /\ checks \in Int /\ DOMAIN webviews = {"socket", "rpc"}
  /\ client.state \in {"new", "asking", "answered", "ready"}

\* A message has its handler when it is heard.
HandlersStand ==
  /\ IF main = "fetch" THEN ~notifiers ELSE Registered \cup {"initialized"} \subseteq handlers
  /\ notifiers => "folders" \in handlers
  /\ checks > 0 => notifiers

Announced(n) == \E i \in 1 .. n : inbox[i] = "initialized"
ClientKeepsOrder ==
  /\ client.state \in {"new", "answered"} => inbox = <<>>
  /\ client.state = "asking" => inbox \in {<<>>, <<"initialize">>}
  /\ client.state = "ready" =>
       /\ main # "stopped" => notifiers \/ Announced(Len(inbox))
       /\ \A j \in 1 .. Len(inbox) : inbox[j] # "initialize" /\ (notifiers \/ Announced(j))

\* Who has an address got it from a server that started; who has a page of it, from one
\* that has not stopped.
PagesHaveServer ==
  /\ main = "started" => transports = {"socket", "rpc"}
  /\ httpServer.address <=> main = "started"
  /\ httpServer.listens => main \in {"http", "started", "failed"}
  /\ client.metadata = "addresses" => main \in {"started", "stopped"} /\ client.state = "ready"
  /\ \A t \in DOMAIN webviews :
       /\ webviews[t] # "closed" => client.metadata = "addresses"
       /\ webviews[t] = "loaded" => main = "started"
  /\ \A i \in 1 .. Len(inbox) : inbox[i] = "webview created" =>
       main = "started" /\ client.metadata = "addresses"

ConnectionInv ==
  ConnectionTypes /\ HandlersStand /\ ClientKeepsOrder /\ PagesHaveServer /\ NothingIsUnheard

LEMMA ConnectionInitInv == ConnectionInit => ConnectionInv
BY DEF ConnectionInit, ConnectionInv, ConnectionTypes, HandlersStand, ClientKeepsOrder, Announced,
       PagesHaveServer, NothingIsUnheard

\* The start and the end of the server.
LEMMA ServerStepKeeps ==
  ASSUME ConnectionInv, ServerListens \/ HttpListens \/ HttpFails \/ ServerStarts \/ Shutdown
  PROVE  ConnectionInv'
<1>1. CASE ServerListens
  BY <1>1 DEF ServerListens, ConnectionInv, ConnectionTypes, HandlersStand, ClientKeepsOrder,
              Announced, PagesHaveServer, NothingIsUnheard
<1>2. CASE HttpListens
  BY <1>2 DEF HttpListens, listens, ConnectionInv, ConnectionTypes, HandlersStand,
              ClientKeepsOrder, Announced, PagesHaveServer, NothingIsUnheard
<1>3. CASE HttpFails
  BY <1>3 DEF HttpFails, ConnectionInv, ConnectionTypes, HandlersStand, ClientKeepsOrder,
              Announced, PagesHaveServer, NothingIsUnheard
<1>4. CASE ServerStarts
  BY <1>4 DEF ServerStarts, ConnectionInv, ConnectionTypes, HandlersStand, ClientKeepsOrder,
              Announced, PagesHaveServer, NothingIsUnheard
<1>5. CASE Shutdown
  <2>1. ConnectionTypes' /\ HandlersStand' /\ NothingIsUnheard'
    BY <1>5 DEF Shutdown, ConnectionInv, ConnectionTypes, HandlersStand, NothingIsUnheard
  <2>2. ClientKeepsOrder'
    BY <1>5 DEF Shutdown, ClientKeepsOrder
  <2>3. ~httpServer'.listens /\ ~httpServer'.address /\ main' = "stopped"
    BY <1>5, Zenon DEF Shutdown
  <2>4. /\ client' = client /\ Len(inbox') = 0 /\ DOMAIN webviews' = DOMAIN webviews
        /\ \A t \in DOMAIN webviews :
             webviews'[t] # "loaded" /\ (webviews'[t] # "closed" => webviews[t] # "closed")
    BY <1>5 DEF Shutdown
  <2>5. PagesHaveServer'
    <3>1. client'.metadata = "addresses" => client'.state = "ready"
      BY <2>4 DEF ConnectionInv, PagesHaveServer
    <3>2. \A t \in DOMAIN webviews' : webviews'[t] # "loaded"
           /\ (webviews'[t] # "closed" => client'.metadata = "addresses")
      BY <2>4 DEF ConnectionInv, PagesHaveServer
    <3>3. \A i \in 1 .. Len(inbox') : FALSE
      BY <2>4
    <3> QED BY <2>3, <3>1, <3>2, <3>3 DEF PagesHaveServer
  <2> QED BY <2>1, <2>2, <2>5 DEF ConnectionInv
<1> QED BY <1>1, <1>2, <1>3, <1>4, <1>5

LEMMA InPrefix ==
  ASSUME NEW n \in Nat, NEW j \in 1 .. n
  PROVE  1 .. j \subseteq 1 .. n /\ j \in 1 .. n + 1 /\ n # 0
OBVIOUS

LEMMA LastOrBefore ==
  ASSUME NEW n \in Nat, NEW j \in 1 .. n + 1
  PROVE  j = n + 1 \/ j \in 1 .. n
OBVIOUS

LEMMA AppendIs ==
  ASSUME NEW S, NEW s \in Seq(S), NEW x \in S
  PROVE  /\ Append(s, x) \in Seq(S) /\ Len(s) \in Nat /\ Len(Append(s, x)) = Len(s) + 1
         /\ Append(s, x)[Len(s) + 1] = x
         /\ \A i \in 1 .. Len(s) : Append(s, x)[i] = s[i]
OBVIOUS

\* A client that is ready, or was answered and says that it is initialized, sends behind it;
\* and a page that loads may have told it to.
SaysInOrder(message) ==
  /\ DOMAIN client' = DOMAIN client /\ client'.metadata = client.metadata
  /\ \/ /\ client'.state = "ready" /\ message # "initialize"
        /\ client.state = "ready" \/ (client.state = "answered" /\ message = "initialized")
     \/ client.state = "new" /\ client'.state = "asking" /\ message = "initialize"
PageMayAnnounce ==
  /\ DOMAIN webviews' = DOMAIN webviews
  /\ \A t \in DOMAIN webviews :
       webviews'[t] # webviews[t] => webviews[t] = "loaded" /\ webviews'[t] = "announced"

LEMMA MessageKeeps ==
  ASSUME ConnectionInv, NEW message \in Messages, sends(message), SaysInOrder(message),
         PageMayAnnounce,
         message = "webview created" => main = "started" /\ client.metadata = "addresses"
  PROVE  ConnectionInv'
<1>1. /\ inbox' = Append(inbox, message) /\ Len(inbox') = Len(inbox) + 1
      /\ inbox' \in Seq(Messages) /\ inbox'[Len(inbox) + 1] = message
      /\ \A i \in 1 .. Len(inbox) : inbox'[i] = inbox[i]
      /\ Len(inbox) \in Nat
  <2>1. inbox \in Seq(Messages) /\ inbox' = Append(inbox, message)
    BY DEF sends, ConnectionInv, ConnectionTypes
  <2>2. /\ Append(inbox, message) \in Seq(Messages) /\ Len(inbox) \in Nat
        /\ Len(Append(inbox, message)) = Len(inbox) + 1
        /\ Append(inbox, message)[Len(inbox) + 1] = message
        /\ \A i \in 1 .. Len(inbox) : Append(inbox, message)[i] = inbox[i]
    BY <2>1, AppendIs
  <2> QED BY <2>1, <2>2
<1>0. Len(inbox) \in Nat
  BY <1>1
<1>2. ConnectionTypes' /\ HandlersStand' /\ NothingIsUnheard'
  BY <1>1 DEF sends, SaysInOrder, PageMayAnnounce, ConnectionInv, ConnectionTypes, HandlersStand, NothingIsUnheard
<1>3. ClientKeepsOrder'
  <2>1. CASE client.state = "new"
    <3>1. inbox = <<>> /\ message = "initialize" /\ client'.state = "asking"
      BY <2>1 DEF ConnectionInv, ClientKeepsOrder, SaysInOrder
    <3>2. inbox' = <<"initialize">>
      BY <1>1, <3>1
    <3> QED BY <3>1, <3>2 DEF ClientKeepsOrder
  <2>2. CASE client.state # "new"
    <3>1. ASSUME NEW j \in 1 .. Len(inbox), Announced(j) PROVE Announced(j)'
      <4>1. PICK i \in 1 .. j : inbox[i] = "initialized"
        BY <3>1 DEF Announced
      <4>2. i \in 1 .. Len(inbox)
        BY <1>0, <4>1, InPrefix
      <4> QED BY <1>1, <4>1, <4>2 DEF Announced
    <3>2. client'.state = "ready" /\ message # "initialize"
      BY <2>2 DEF SaysInOrder
    <3>3. notifiers' \/ Announced(Len(inbox))'
      <4>1. CASE message = "initialized"
        BY <1>1, <4>1 DEF Announced
      <4>2. CASE message # "initialized"
        <5>1. notifiers \/ Announced(Len(inbox))
          BY <2>2, <3>2, <4>2 DEF sends, SaysInOrder, ConnectionInv, ClientKeepsOrder
        <5>2. CASE notifiers
          BY <5>2 DEF sends
        <5>3. CASE Announced(Len(inbox))
          <6>1. PICK i \in 1 .. Len(inbox) : inbox[i] = "initialized"
            BY <5>3 DEF Announced
          <6>2. i \in 1 .. Len(inbox')
            BY <1>0, <1>1, <6>1, InPrefix
          <6> QED BY <1>1, <6>1, <6>2 DEF Announced
        <5> QED BY <5>1, <5>2, <5>3
      <4> QED BY <4>1, <4>2
    <3>4. ASSUME NEW j \in 1 .. Len(inbox')
          PROVE  inbox'[j] # "initialize" /\ (notifiers' \/ Announced(j)')
      <4>1. CASE j = Len(inbox')
        BY <1>1, <3>2, <3>3, <4>1
      <4>2. CASE j \in 1 .. Len(inbox)
        <5>1. client.state \in {"ready", "answered"}
          BY <2>2, <3>2 DEF SaysInOrder
        <5>2. client.state = "ready"
          <6>1. inbox # <<>>
            <7>1. Len(<<>>) = 0
              OBVIOUS
            <7> QED BY <1>0, <4>2, <7>1, InPrefix
          <6> QED BY <5>1, <6>1 DEF ConnectionInv, ClientKeepsOrder
        <5>3. inbox[j] # "initialize" /\ (notifiers \/ Announced(j))
          BY <4>2, <5>2 DEF ConnectionInv, ClientKeepsOrder
        <5>4. notifiers' = notifiers /\ inbox'[j] = inbox[j]
          BY <1>1, <4>2 DEF sends
        <5>5. Announced(j) => Announced(j)'
          BY <4>2, <3>1
        <5> QED BY <5>3, <5>4, <5>5
      <4> QED BY <1>0, <1>1, <4>1, <4>2, LastOrBefore
    <3> QED BY <3>2, <3>3, <3>4 DEF ClientKeepsOrder
  <2> QED BY <2>1, <2>2
<1>4. PagesHaveServer'
  <2>1. client'.metadata = "addresses" => main' \in {"started", "stopped"} /\ client'.state = "ready"
    BY DEF sends, SaysInOrder, ConnectionInv, PagesHaveServer
  <2>2. ASSUME NEW t \in DOMAIN webviews'
        PROVE  /\ webviews'[t] # "closed" => client'.metadata = "addresses"
               /\ webviews'[t] = "loaded" => main' = "started"
    BY DEF sends, SaysInOrder, PageMayAnnounce, ConnectionInv, PagesHaveServer
  <2>3. ASSUME NEW i \in 1 .. Len(inbox'), inbox'[i] = "webview created"
        PROVE  main' = "started" /\ client'.metadata = "addresses"
    <3>1. i = Len(inbox) + 1 \/ i \in 1 .. Len(inbox)
      BY <1>0, <1>1, LastOrBefore
    <3> QED BY <1>1, <2>3, <3>1 DEF sends, SaysInOrder, ConnectionInv, PagesHaveServer
  <2>4. /\ main' = "started" => transports' = {"socket", "rpc"}
        /\ httpServer'.address <=> main' = "started"
        /\ httpServer'.listens => main' \in {"http", "started", "failed"}
    BY DEF sends, ConnectionInv, PagesHaveServer
  <2> QED BY <2>1, <2>2, <2>3, <2>4 DEF PagesHaveServer
<1> QED BY <1>2, <1>3, <1>4 DEF ConnectionInv

\* What the client says, with its page or on its own.
LEMMA ClientStepKeeps ==
  ASSUME ConnectionInv,
         \/ ClientInitializes
         \/ \E message \in (Registered \ {"initialize", "webview created"}) \cup {"folders"} :
              ClientSends(message)
  PROVE  ConnectionInv'
<1>1. ASSUME client.state = "new", sends("initialize"), UNCHANGED webviews,
             client' = [client EXCEPT !.state = "asking"]
      PROVE  ConnectionInv'
  <2>1. SaysInOrder("initialize") /\ PageMayAnnounce /\ "initialize" \in Messages
    BY <1>1 DEF SaysInOrder, PageMayAnnounce, ConnectionInv, ConnectionTypes, Messages,
                Registered, ClientMessages
  <2> QED BY <1>1, <2>1, MessageKeeps
<1>2. ASSUME client.state = "answered", sends("initialized"), UNCHANGED webviews,
             client' = [client EXCEPT !.state = "ready"]
      PROVE  ConnectionInv'
  <2>1. SaysInOrder("initialized") /\ PageMayAnnounce /\ "initialized" \in Messages
    BY <1>2 DEF SaysInOrder, PageMayAnnounce, ConnectionInv, ConnectionTypes, Messages
  <2> QED BY <1>2, <2>1, MessageKeeps
<1>3. ASSUME NEW message \in (Registered \ {"initialize", "webview created"}) \cup {"folders"},
             ClientSends(message)
      PROVE  ConnectionInv'
  <2>1. SaysInOrder(message) /\ PageMayAnnounce /\ message \in Messages
    BY <1>3 DEF ClientSends, SaysInOrder, PageMayAnnounce, Messages, Registered
  <2> QED BY <1>3, <2>1, MessageKeeps DEF ClientSends
<1> QED BY <1>1, <1>2, <1>3 DEF ClientInitializes

LEMMA PageStepKeeps ==
  ASSUME ConnectionInv, NEW t \in DOMAIN webviews, NEW readable \in BOOLEAN,
         ClientOpens(t) \/ PageIsServed(t, readable) \/ PageConnects(t)
  PROVE  ConnectionInv'
<1>1. CASE ClientOpens(t) \/ PageIsServed(t, readable)
  <2>1. /\ UNCHANGED <<main, httpServer, transports, handlers, notifiers, client, inbox, checks,
                       unheard>>
        /\ DOMAIN webviews' = DOMAIN webviews
        /\ \A u \in DOMAIN webviews : u # t => webviews'[u] = webviews[u]
    BY <1>1 DEF ClientOpens, PageIsServed, ConnectionInv, ConnectionTypes
  <2>2. /\ webviews'[t] # "closed" => client.metadata = "addresses"
        /\ webviews'[t] = "loaded" => main = "started"
    BY <1>1 DEF ClientOpens, PageIsServed, ConnectionInv, ConnectionTypes, PagesHaveServer
  <2>3. ASSUME NEW u \in DOMAIN webviews'
        PROVE  /\ webviews'[u] # "closed" => client'.metadata = "addresses"
               /\ webviews'[u] = "loaded" => main' = "started"
    <3>1. CASE u = t
      BY <2>1, <2>2, <3>1
    <3>2. CASE u # t
      BY <2>1, <2>3, <3>2 DEF ConnectionInv, PagesHaveServer
    <3> QED BY <3>1, <3>2
  <2>4. PagesHaveServer'
    BY <2>1, <2>3 DEF ConnectionInv, PagesHaveServer
  <2> QED BY <2>1, <2>4 DEF ConnectionInv, ConnectionTypes, HandlersStand, ClientKeepsOrder,
                            Announced, NothingIsUnheard
<1>2. CASE PageConnects(t)
  <2>1. /\ webviews[t] = "loaded" /\ main = "started"
        /\ client.state = "ready" /\ client.metadata = "addresses"
    BY <1>2 DEF PageConnects, ConnectionInv, PagesHaveServer
  <2>2. CASE t = "rpc"
    <3>1. sends("webview created") /\ SaysInOrder("webview created") /\ PageMayAnnounce
      BY <1>2, <2>1, <2>2 DEF PageConnects, SaysInOrder, PageMayAnnounce
    <3>2. "webview created" \in Messages
      BY DEF Messages, Registered, MainMessages
    <3> QED BY <2>1, <3>1, <3>2, MessageKeeps
  <2>3. CASE t # "rpc"
    <3>1. /\ UNCHANGED <<main, httpServer, transports, handlers, notifiers, client, inbox,
                         checks, unheard>>
          /\ DOMAIN webviews' = DOMAIN webviews
          /\ \A u \in DOMAIN webviews :
               webviews'[u] # webviews[u] => webviews[u] = "loaded" /\ webviews'[u] = "connected"
      BY <1>2, <2>1, <2>3 DEF PageConnects, ConnectionInv, ConnectionTypes, PagesHaveServer
    <3>2. PagesHaveServer'
      BY <3>1 DEF ConnectionInv, PagesHaveServer
    <3> QED BY <3>1, <3>2 DEF ConnectionInv, ConnectionTypes, HandlersStand, ClientKeepsOrder,
                              Announced, NothingIsUnheard
  <2> QED BY <2>2, <2>3
<1> QED BY <1>1, <1>2

LEMMA TailIs ==
  ASSUME NEW S, NEW s \in Seq(S), s # <<>>
  PROVE  /\ Tail(s) \in Seq(S) /\ Len(s) \in Nat /\ Len(Tail(s)) \in Nat
         /\ Len(s) = Len(Tail(s)) + 1 /\ 1 \in 1 .. Len(s) /\ Head(s) = s[1] /\ s[1] \in S
         /\ \A i \in 1 .. Len(Tail(s)) : i + 1 \in 1 .. Len(s) /\ Tail(s)[i] = s[i + 1]
OBVIOUS

\* What is at the head of the inbox is heard, and what is behind it keeps its order.
LEMMA DispatchKeeps == ConnectionInv /\ Dispatch => ConnectionInv'
<1> SUFFICES ASSUME ConnectionInv, Dispatch PROVE ConnectionInv'
  OBVIOUS
<1> DEFINE message == Head(inbox)
<1>1. /\ inbox' \in Seq(Messages) /\ Len(inbox) \in Nat /\ Len(inbox') \in Nat
      /\ Len(inbox) = Len(inbox') + 1 /\ 1 \in 1 .. Len(inbox)
      /\ message = inbox[1] /\ message \in Messages
      /\ \A i \in 1 .. Len(inbox') : i + 1 \in 1 .. Len(inbox) /\ inbox'[i] = inbox[i + 1]
  <2>1. inbox \in Seq(Messages) /\ inbox # <<>> /\ inbox' = Tail(inbox)
    BY DEF Dispatch, ConnectionInv, ConnectionTypes
  <2> QED BY <2>1, TailIs
<1>2. /\ main \notin {"fetch", "stopped"} /\ UNCHANGED <<main, httpServer, transports>>
      /\ handlers' = IF message = "initialized" THEN handlers \cup {"folders"} ELSE handlers
      /\ notifiers' = (notifiers \/ message = "initialized")
      /\ (message = "configuration" /\ checks' = checks + 1) \/ checks' = checks
      /\ webviews' = IF message = "webview created" /\ "rpc" \in transports
                     THEN [webviews EXCEPT !["rpc"] = "connected"] ELSE webviews
      /\ unheard' = unheard \cup
           IF message \notin handlers \/ (message = "webview created" /\ "rpc" \notin transports)
           THEN {message} ELSE {}
  BY DEF Dispatch, initializeNotifiers, configures
<1>3. /\ DOMAIN client' = DOMAIN client
      /\ client'.state = IF message = "initialize" THEN "answered" ELSE client.state
      /\ client'.metadata = IF message = "metadata" THEN resolveUris ELSE client.metadata
  BY DEF Dispatch, answers, ConnectionInv, ConnectionTypes
<1> HIDE DEF message
<1>4. IF message = "initialize" THEN client.state = "asking" /\ inbox = <<"initialize">>
      ELSE client.state = "ready" /\ (notifiers \/ message = "initialized")
  <2>1. inbox # <<>> /\ client.state \in {"asking", "ready"}
    BY DEF Dispatch, ConnectionInv, ConnectionTypes, ClientKeepsOrder
  <2>2. CASE client.state = "asking"
    BY <1>1, <2>1, <2>2 DEF ConnectionInv, ClientKeepsOrder
  <2>3. CASE client.state = "ready"
    <3>1. message # "initialize" /\ (notifiers \/ Announced(1))
      BY <1>1, <2>3 DEF ConnectionInv, ClientKeepsOrder
    <3> QED BY <1>1, <2>3, <3>1 DEF Announced
  <2> QED BY <2>1, <2>2, <2>3
<1>5. HandlersStand' /\ NothingIsUnheard'
  <2>1. message \in handlers
    BY <1>1, <1>2, <1>4 DEF ConnectionInv, HandlersStand, Messages
  <2>2. message = "webview created" => "rpc" \in transports
    BY <1>1 DEF ConnectionInv, PagesHaveServer
  <2>3. HandlersStand'
    BY <1>2, <1>4 DEF ConnectionInv, ConnectionTypes, HandlersStand
  <2> QED BY <1>2, <2>1, <2>2, <2>3 DEF ConnectionInv, NothingIsUnheard
<1>6. ConnectionTypes'
  <2>1. client'.state \in {"new", "asking", "answered", "ready"}
    BY <1>3 DEF ConnectionInv, ConnectionTypes
  <2>2. checks' \in Int
    <3>1. checks \in Int /\ (checks' = checks + 1 \/ checks' = checks)
      BY <1>2, Zenon DEF ConnectionInv, ConnectionTypes
    <3> QED BY <3>1
  <2>3. DOMAIN webviews' = DOMAIN webviews
    BY <1>2
  <2> QED BY <1>1, <1>2, <1>3, <2>1, <2>2, <2>3 DEF ConnectionInv, ConnectionTypes
<1>7. ClientKeepsOrder'
  <2>1. CASE message = "initialize"
    <3>1. inbox' = Tail(<<"initialize">>) /\ client'.state = "answered"
      BY <1>3, <1>4, <2>1 DEF Dispatch
    <3>2. Tail(<<"initialize">>) = <<>>
      OBVIOUS
    <3> QED BY <3>1, <3>2 DEF ClientKeepsOrder
  <2>2. CASE message # "initialize"
    <3>1. client'.state = "ready" /\ client.state = "ready"
      BY <1>3, <1>4, <2>2
    <3>2. notifiers'
      BY <1>2, <1>4, <2>2
    <3>3. \A j \in 1 .. Len(inbox') : inbox'[j] # "initialize"
      BY <1>1, <3>1 DEF ConnectionInv, ClientKeepsOrder
    <3> QED BY <3>1, <3>2, <3>3 DEF ClientKeepsOrder
  <2> QED BY <2>1, <2>2
<1>8. PagesHaveServer'
  <2>1. client.metadata = "addresses" => client'.metadata = "addresses"
    BY <1>2, <1>3 DEF resolveUris, ConnectionInv, PagesHaveServer
  <2>2. client'.metadata = "addresses" => main' \in {"started", "stopped"} /\ client'.state = "ready"
    BY <1>2, <1>3, <1>4 DEF resolveUris, ConnectionInv, PagesHaveServer
  <2>3. ASSUME NEW t \in DOMAIN webviews'
        PROVE  /\ webviews'[t] # "closed" => client'.metadata = "addresses"
               /\ webviews'[t] = "loaded" => main' = "started"
    <3>1. CASE message = "webview created"
      BY <1>1, <1>2, <2>1, <3>1 DEF ConnectionInv, ConnectionTypes, PagesHaveServer
    <3>2. CASE message # "webview created"
      BY <1>2, <2>1, <3>2 DEF ConnectionInv, PagesHaveServer
    <3> QED BY <3>1, <3>2
  <2>4. ASSUME NEW i \in 1 .. Len(inbox'), inbox'[i] = "webview created"
        PROVE  main' = "started" /\ client'.metadata = "addresses"
    BY <1>1, <1>2, <2>1, <2>4 DEF ConnectionInv, PagesHaveServer
  <2> QED BY <1>2, <2>2, <2>3, <2>4 DEF ConnectionInv, PagesHaveServer
<1> QED BY <1>5, <1>6, <1>7, <1>8 DEF ConnectionInv

LEMMA ConnectionStepKeeps == ConnectionInv /\ [ConnectionNext]_connectionVars => ConnectionInv'
<1> SUFFICES ASSUME ConnectionInv, [ConnectionNext]_connectionVars PROVE ConnectionInv'
  OBVIOUS
<1>1. CASE UNCHANGED connectionVars
  BY <1>1 DEF connectionVars, ConnectionInv, ConnectionTypes, HandlersStand, ClientKeepsOrder,
              Announced, PagesHaveServer, NothingIsUnheard
<1>2. ASSUME NEW valid \in BOOLEAN, TokenChecked(valid) PROVE ConnectionInv'
  <2>1. ConnectionTypes' /\ HandlersStand' /\ NothingIsUnheard'
    BY <1>2 DEF TokenChecked, ConnectionInv, ConnectionTypes, HandlersStand, NothingIsUnheard
  <2>2. ClientKeepsOrder' /\ PagesHaveServer'
    BY <1>2 DEF TokenChecked, ConnectionInv, ClientKeepsOrder, Announced, PagesHaveServer
  <2> QED BY <2>1, <2>2 DEF ConnectionInv
<1>3. ASSUME NEW t \in DOMAIN webviews,
             \/ ClientOpens(t) \/ PageConnects(t)
             \/ \E readable \in BOOLEAN : PageIsServed(t, readable)
      PROVE  ConnectionInv'
  BY <1>3, PageStepKeeps
<1> QED BY <1>1, <1>2, <1>3, DispatchKeeps, ServerStepKeeps, ClientStepKeeps DEF ConnectionNext

\* However many messages are under way, and wherever the HTTP server, its failure or the
\* shutdown come between them: nothing that a client sends, no token check and no page
\* finds nobody.
THEOREM NothingIsUnheardCorrect == ConnectionSpec => []NothingIsUnheard
<1>1. ConnectionInv => NothingIsUnheard
  BY DEF ConnectionInv
<1> QED BY <1>1, ConnectionInitInv, ConnectionStepKeeps, PTL DEF ConnectionSpec
=============================================================================
