------------------------------ MODULE HttpFetch ------------------------------
(***************************************************************************)
(* The HTTP requests of the server (src/node/fetch.ts, src/common/fetch.ts,*)
(* fetch_error.ts, simple_api_client.ts).                                  *)
(*                                                                         *)
(* A request goes through the agent of the moment: the proxy's if there is *)
(* one, that for https with the certificates and checks the client asked   *)
(* for, or a plain one.  It is aborted by whichever comes first of its     *)
(* caller's signal and the timeout of fifteen seconds, and so is the body  *)
(* of its response.  Streams also look at a cancellation token, when a     *)
(* chunk arrives.                                                          *)
(*                                                                         *)
(* What the code does and no property here claims: a signal that has been  *)
(* aborted before the call is never heard; the timeout of a caller is      *)
(* reported as that of fifteen seconds; a timeout while the body is read   *)
(* is an AbortError, and a stream is cut after fifteen seconds.            *)
(***************************************************************************)
EXTENDS Integers, Sequences, FiniteSets

CONSTANTS
  CertificateFiles,   \* ca, cert and certKey
  MaxFetches, MaxAgents, MaxStreamed   \* bounds

VARIABLES
  disk,      \* version of each file, 0 if it can't be read
  http,      \* the service: whether it is initialized, its options, agents and proxy
  handed,    \* the options that were last handed over, as the files were then
  agents,    \* how often they were handed over
  requests

httpVars == <<disk, http, handed, agents, requests>>

NoAgent == [strict |-> FALSE, files |-> {<<"none", 0>>}]
PlainAgent == [strict |-> FALSE, files |-> {<<"plain", 0>>}]
DefaultOptions == [strict |-> TRUE, files |-> {}]

\* One that cannot be read leaves none.
readFiles(named) ==
  IF \E f \in named : disk[f] = 0 THEN {} ELSE {<<f, disk[f]>> : f \in named}

HttpInit ==
  /\ disk = [f \in CertificateFiles |-> 1] /\ handed = DefaultOptions /\ agents = 0
  /\ \E environment \in {"none", "environment"}, user \in BOOLEAN :
       http = [initialized |-> FALSE, options |-> DefaultOptions, https |-> DefaultOptions,
               proxy |-> NoAgent, variables |-> environment, user |-> user]
  /\ requests = <<>>

\* A certificate is renewed, or cannot be read for a while.  What no options
\* will be read from any more does not matter (bound).
FileChanges(f) ==
  /\ agents < MaxAgents
  /\ \E version \in 0 .. 1 : disk[f] # version /\ disk' = [disk EXCEPT ![f] = version]
  /\ UNCHANGED <<http, handed, agents, requests>>

-----------------------------------------------------------------------------
(* Agents.                                                                 *)

\* initialize: the proxy of the user, of the settings if they could be read,
\* or of the environment.
Initialize(settings) ==
  LET variables == IF http.user THEN "user"
                   ELSE IF settings = "proxy" THEN "settings" ELSE http.variables
  IN  /\ ~http.initialized
      /\ http' = [http EXCEPT !.initialized = TRUE, !.variables = variables,
                    !.proxy = IF variables = "none" THEN @ ELSE http.options]
      /\ UNCHANGED <<disk, handed, agents, requests>>

\* Mutant: the proxy's agent is made once.
keepProxy(options) ==
  IF options = http.options THEN http
  ELSE [http EXCEPT !.options = options, !.https = options]

\* updateAgentOptions, once the files have been read.
withOptions(options) ==
  IF options = http.options THEN http
  ELSE [http EXCEPT !.options = options, !.https = options,
                    !.proxy = IF @ = NoAgent THEN @ ELSE options]

UpdateAgentOptions(strict, named) ==
  LET options == [strict |-> strict, files |-> readFiles(named)] IN
  /\ agents < MaxAgents /\ agents' = agents + 1
  /\ handed' = options /\ http' = withOptions(options)
  /\ UNCHANGED <<disk, requests>>

getAgent(scheme) ==
  IF http.proxy # NoAgent THEN http.proxy
  ELSE IF scheme = "https" THEN http.https ELSE PlainAgent

-----------------------------------------------------------------------------
(* Requests.  reason: why its controller was aborted, if it was; ended:    *)
(* how the call, or reading what it returned, ended.                       *)

\* signal: that of the caller, if any.  Only what it does from now on is heard.
Fetch(scheme, signal, streams) ==
  /\ Len(requests) < MaxFetches
  /\ requests' = Append(requests,
       [scheme |-> scheme, signal |-> signal, streams |-> streams, canceled |-> FALSE,
        agent |-> IF http.initialized THEN getAgent(scheme) ELSE NoAgent, handed |-> handed,
        stage |-> IF http.initialized THEN "sent" ELSE "over", reason |-> "none",
        chunks |-> 0, ended |-> IF http.initialized THEN "no" ELSE "not initialized"])
  /\ UNCHANGED <<disk, http, handed, agents>>

\* Mutant: the timer is that of the request alone, not of its body.
abortUnanswered(r, why) ==
  IF r.reason # "none" \/ r.stage = "body" THEN r ELSE [r EXCEPT !.reason = why]

\* The first of the two signals gives the reason.
abort(r, why) == IF r.reason = "none" THEN [r EXCEPT !.reason = why] ELSE r

\* AbortSignal.timeout fires.
RequestTimesOut(i) ==
  /\ requests[i].stage # "over" /\ requests[i].reason = "none"
  /\ requests' = [requests EXCEPT ![i] = abort(@, "timeout")]
  /\ UNCHANGED <<disk, http, handed, agents>>

\* The signal of the caller, who aborts or whose own timer runs out.
CallerAborts(i) ==
  /\ requests[i].signal \in {"controller", "timeout"} /\ requests[i].stage # "over"
  /\ requests' = [requests EXCEPT ![i] =
       [abort(@, IF @.signal = "timeout" THEN "timeout of the caller" ELSE "caller")
          EXCEPT !.signal = "aborted"]]
  /\ UNCHANGED <<disk, http, handed, agents>>

\* A reason that is called TimeoutError becomes the error of this timeout.
errorOf(reason) ==
  IF reason \in {"timeout", "timeout of the caller"} THEN "TimeoutError" ELSE "AbortError"

\* An aborted request is not waited for, and neither is the rest of its body,
\* which an error does without.
AbortIsHeard(i) ==
  /\ requests[i].reason # "none" /\ requests[i].stage # "over"
  /\ requests' = [requests EXCEPT ![i].stage = "over",
       ![i].ended = IF requests[i].stage = "sent" THEN errorOf(requests[i].reason)
                    ELSE IF @ = "refused" THEN @ ELSE "AbortError"]
  /\ UNCHANGED <<disk, http, handed, agents>>

\* fetch resolves with any status, or rejects if there is no response.
Answered(i, status) ==
  /\ requests[i].stage = "sent" /\ requests[i].reason = "none"
  /\ requests' = [requests EXCEPT
       ![i].stage = IF status = "unreachable" THEN "over" ELSE "body",
       ![i].ended = IF status = "unreachable" THEN "failed"
                    ELSE IF status = "refused" THEN "refused" ELSE @]
  /\ UNCHANGED <<disk, http, handed, agents>>

\* handleFetchError: an error names an invalid token only if its body could be read.
BodyIsRead(i, invalidToken) ==
  /\ requests[i].stage = "body" /\ requests[i].reason = "none"
  /\ (requests[i].ended = "refused" \/ ~requests[i].streams)
  /\ (invalidToken => requests[i].ended = "refused")
  /\ requests' = [requests EXCEPT ![i].stage = "over",
       ![i].ended = IF requests[i].ended # "refused" THEN "read"
                    ELSE IF invalidToken THEN "invalid token" ELSE "refused"]
  /\ UNCHANGED <<disk, http, handed, agents>>

\* streamResponse: the token is looked at when a chunk arrives.
ChunkArrives(i) ==
  /\ requests[i].stage = "body" /\ requests[i].reason = "none"
  /\ requests[i].streams /\ requests[i].ended = "no"
  /\ IF requests[i].canceled
     THEN requests' = [requests EXCEPT ![i].stage = "over", ![i].ended = "canceled"]
     ELSE /\ requests[i].chunks < MaxStreamed
          /\ requests' = [requests EXCEPT ![i].chunks = @ + 1]
  /\ UNCHANGED <<disk, http, handed, agents>>

StreamEnds(i) ==
  /\ requests[i].stage = "body" /\ requests[i].reason = "none"
  /\ requests[i].streams /\ requests[i].ended = "no"
  /\ requests' = [requests EXCEPT ![i].stage = "over", ![i].ended = "read"]
  /\ UNCHANGED <<disk, http, handed, agents>>

TokenIsCanceled(i) ==
  /\ requests[i].streams /\ ~requests[i].canceled /\ requests[i].stage # "over"
  /\ requests' = [requests EXCEPT ![i].canceled = TRUE]
  /\ UNCHANGED <<disk, http, handed, agents>>

\* The clock runs, and what is aborted is over soon; nothing else is certain.
FetchProceeds(i) == i \in DOMAIN requests /\ (RequestTimesOut(i) \/ AbortIsHeard(i))

-----------------------------------------------------------------------------
HttpNext ==
  \/ \E f \in CertificateFiles : FileChanges(f)
  \/ \E settings \in {"proxy", "none", "unreadable"} : Initialize(settings)
  \/ \E strict \in BOOLEAN, named \in SUBSET CertificateFiles : UpdateAgentOptions(strict, named)
  \/ \E scheme \in {"http", "https"}, signal \in {"none", "controller", "timeout"},
        streams \in BOOLEAN : Fetch(scheme, signal, streams)
  \/ \E i \in DOMAIN requests :
       \/ RequestTimesOut(i) \/ CallerAborts(i) \/ AbortIsHeard(i)
       \/ \E status \in {"ok", "refused", "unreachable"} : Answered(i, status)
       \/ \E invalidToken \in BOOLEAN : BodyIsRead(i, invalidToken)
       \/ ChunkArrives(i) \/ StreamEnds(i) \/ TokenIsCanceled(i)

HttpSpec == HttpInit /\ [][HttpNext]_httpVars

-----------------------------------------------------------------------------
\* A request that needs the options of an agent, through a proxy or not, runs
\* under those that were in force when it began, whatever changed before.
RequestsUseTheOptions ==
  \A i \in DOMAIN requests :
    requests[i].agent \notin {NoAgent, PlainAgent} => requests[i].agent = requests[i].handed

\* Whatever the instance does, every request ends, with its body: by its
\* answer, its caller or the timeout.
EveryFetchEnds ==
  \A i \in 1 .. MaxFetches :
    i \in DOMAIN requests ~> (i \in DOMAIN requests /\ requests[i].stage = "over")

=============================================================================
