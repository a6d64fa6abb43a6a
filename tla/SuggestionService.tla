-------------------------- MODULE SuggestionService --------------------------
(***************************************************************************)
(* src/common/suggestion/suggestion_service.ts: completion requests from   *)
(* the client, served from the cache or the API, with the telemetry        *)
(* tracker, the cache and the circuit breaker that all of them share.      *)
(*                                                                         *)
(* An action is what runs between two awaits.  A request waits for its     *)
(* debounce timer, for additional contexts and the intent, for the API and *)
(* for the post-processors; other requests, their cancellation and the     *)
(* client's telemetry come in between.                                     *)
(***************************************************************************)
EXTENDS CodeSuggestionsTelemetry, RequestBreaker, SuggestionsCache

CONSTANTS
  Requests,
  RequestPlaces, RequestLines,   \* where a request can be made from
  ResponseChoices,               \* the choices of a response: sequences of texts
  MaxOptions                     \* bound: options of one response

\* Tracking ids, which are the Suggestions: what the API answers to r has one id
\* for all its options; every option from the cache gets an id of its own.
network(r) == <<r, 0>>
cached(r, i) == <<r, i>>

VARIABLES
  request,            \* what getSuggestionOptions' frame holds, by request
  snowplow,           \* the Snowplow tracker
  suggestionsCache,
  returned            \* tracking ids of the non-empty options returned to the client
\* The breaker of RequestBreaker is SuggestionApiErrorCheck.

serviceVars == <<request, snowplow, breaker, suggestionsCache, returned>>

NewRequest == [phase |-> "none", invoked |-> FALSE, cancelled |-> FALSE,
               place |-> CHOOSE p \in RequestPlaces : TRUE, line |-> <<>>,
               hits |-> 0,         \* options found in the cache
               choices |-> <<>>]   \* texts of the response

ServiceInit ==
  /\ request = [r \in Requests |-> NewRequest]
  /\ snowplow = NewTracker("snowplow") /\ RequestBreakerInit
  /\ suggestionsCache = NoEntries /\ returned = {}

-----------------------------------------------------------------------------
update(t, id) == setTrackingContext(t, id, FALSE, FALSE)

\* Several updates: the first that makes a context rejects what is open, and none
\* of them what was just requested, so that their order does not matter.
updateAll(t, ids) ==
  LET new == {id \in ids : t.context[id] = NoContext}
      stored == [rejectOpenedSuggestions(t) EXCEPT
                   !.context = [s \in Suggestions |-> IF s \in new THEN "plain" ELSE @[s]]]
  IN  IF new = {} THEN t ELSE trackEvents(stored, new, "REQUESTED")

\* Mutant: shown is tracked if the client tracks it as well.
trackShowIfRegistered(t, id) ==
  IF canClientTrackEvent("SHOWN") THEN trackEvent(t, id, "SHOWN") ELSE t

trackShowIfNeeded(t, id) ==
  IF canClientTrackEvent("SHOWN") THEN t ELSE trackEvent(t, id, "SHOWN")

\* Of the options from the cache, the first one's id is tracked.
useAndTrackCachedSuggestions(t, r, hits) ==
  IF hits = 0 THEN t
  ELSE trackShowIfNeeded(trackEvent(update(t, cached(r, 1)), cached(r, 1), "LOADED"),
                         cached(r, 1))

\* The list the client gets names the tracking id of each option, for its telemetry.
returns(r, req, options) ==
  returned' = returned \cup {cached(r, i) : i \in 1 .. req.hits} \cup options

\* The answer of r: network options (none, or those of the response), after
\* the cached ones of a request made by hand, whose contexts are updated.
answer(r, req, t, options) ==
  /\ request' = [request EXCEPT ![r] = [req EXCEPT !.phase = "done"]]
  /\ snowplow' = IF req.invoked THEN updateAll(t, {cached(r, i) : i \in 1 .. req.hits}) ELSE t
  /\ returns(r, req, options)

moves(r, req, phase) ==
  /\ request' = [request EXCEPT ![r] = [req EXCEPT !.phase = phase]]
  /\ UNCHANGED returned

\* #getSuggestions up to its first await.  A request without a token, with a
\* short document or in the middle of a line is refused like one that meets an
\* open breaker.
getSuggestions(r, req, t) ==
  \/ answer(r, req, t, {})
  \/ /\ ~breaker.open
     /\ moves(r, req, "loading")
     /\ snowplow' = update(t, network(r))

-----------------------------------------------------------------------------
\* getSuggestionOptions up to its first await.
RequestOptions(r, place, line) ==
  \E invoked \in BOOLEAN :
    LET hits == Len(cachedOptions(suggestionsCache, place, line))
        req  == [NewRequest EXCEPT !.invoked = invoked, !.hits = hits,
                                   !.place = place, !.line = line]
        t    == useAndTrackCachedSuggestions(snowplow, r, hits)
    IN  /\ request[r].phase = "none"
        /\ suggestionsCache' = afterRetrieval(suggestionsCache, place, line)
        /\ \/ invoked /\ getSuggestions(r, req, t)
           \/ ~invoked /\ hits > 0 /\ answer(r, req, t, {})
           \/ ~invoked /\ hits = 0 /\ moves(r, req, "debouncing") /\ snowplow' = t
        /\ UNCHANGED breaker

\* The document is not open.
RequestElsewhere(r) ==
  /\ request[r].phase = "none" /\ answer(r, NewRequest, snowplow, {})
  /\ UNCHANGED <<breaker, suggestionsCache>>

\* The debounce is over: a request that was cancelled meanwhile, or whose
\* selected completion no longer matches the document, is answered with none.
Debounced(r) ==
  /\ request[r].phase = "debouncing"
  /\ \/ answer(r, request[r], snowplow, {})
     \/ /\ ~request[r].cancelled
        /\ moves(r, request[r], "resolving") /\ UNCHANGED snowplow
  /\ UNCHANGED <<breaker, suggestionsCache>>

\* What the document's tree says; a failure to parse it is caught.
getIntent == {"completion", "generation", "undefined"}

\* Contexts and intent are known.  A generation is answered with a stream, or
\* with nothing while the breaker is open.
Resolved(r) ==
  /\ request[r].phase = "resolving"
  /\ \E intent \in getIntent :
       IF intent # "generation" THEN getSuggestions(r, request[r], snowplow)
       ELSE IF breaker.open THEN answer(r, request[r], snowplow, {})
       ELSE moves(r, request[r], "streamed") /\ UNCHANGED snowplow
  /\ UNCHANGED <<breaker, suggestionsCache>>

\* Mutant: a failure after which the request is never answered.
ResponseFailsSilently(r) ==
  /\ request[r].phase = "loading"
  /\ UNCHANGED <<request, snowplow, suggestionsCache, returned>>
  /\ breaker' = breakerError(breaker)

\* The API, or something on the way to it, fails.
ResponseFails(r) ==
  /\ request[r].phase = "loading"
  /\ answer(r, request[r], trackEvent(update(snowplow, network(r)), network(r), "ERRORED"), {})
  /\ breaker' = breakerError(breaker)
  /\ UNCHANGED suggestionsCache

\* A request made by hand asks for more than one option.
Responded(r) ==
  /\ request[r].phase = "loading"
  /\ \E choices \in ResponseChoices :
       /\ Len(choices) <= (IF request[r].invoked THEN MaxOptions ELSE 1)
       /\ moves(r, [request[r] EXCEPT !.choices = choices], "processing")
  /\ snowplow' = trackEvent(update(snowplow, network(r)), network(r), "LOADED")
  /\ breaker' = breakerSuccess(breaker)
  /\ UNCHANGED suggestionsCache

\* How the suggestion ends; whether any were provided was decided before the
\* post-processors ran.
outcome(r) == IF request[r].cancelled THEN "CANCELLED"
              ELSE IF request[r].choices = <<>> THEN "NOT_PROVIDED" ELSE "SHOWN"

\* What the post-processors make of choices: one that fails leaves empty texts.
processed(choices) == {choices, [i \in DOMAIN choices |-> <<>>]}

\* The post-processors are through.  The cache gets the options even if the request
\* was cancelled.
OptionsProcessed(r) ==
  LET req == request[r]
      id  == network(r)
  IN  /\ req.phase = "processing"
      /\ \E texts \in processed(req.choices) :
           /\ suggestionsCache' =
                addToSuggestionCache(suggestionsCache, req.place, req.line, texts)
           /\ IF outcome(r) = "SHOWN"
              THEN answer(r, req, trackShowIfNeeded(update(snowplow, id), id),
                          IF texts = req.choices THEN {id} ELSE {})
              ELSE answer(r, req, trackEvent(snowplow, id, outcome(r)), {})
      /\ UNCHANGED breaker

-----------------------------------------------------------------------------
\* $/cancelRequest, before the answer.
CancelRequest(r) ==
  /\ request[r].phase \notin {"none", "done", "streamed"} /\ ~request[r].cancelled
  /\ request' = [request EXCEPT ![r].cancelled = TRUE]
  /\ UNCHANGED <<snowplow, breaker, suggestionsCache, returned>>

\* $/gitlab/telemetry about an option the client got.
ClientTracksOption(id, event) ==
  /\ id \in returned
  /\ \E namesOption \in BOOLEAN :
       snowplow' = clientTracks(snowplow, id, event, namesOption)
  /\ UNCHANGED <<request, breaker, suggestionsCache, returned>>

\* A stream that was answered reports to the breaker when it starts or fails.
StreamReports ==
  /\ \E r \in Requests : request[r].phase = "streamed"
  /\ breaker' \in {breakerSuccess(breaker), breakerError(breaker)}
  /\ UNCHANGED <<request, snowplow, suggestionsCache, returned>>

BreakerCloses ==
  /\ breaker.open /\ breaker' = breakTimeOver(breaker)
  /\ UNCHANGED <<request, snowplow, suggestionsCache, returned>>

Expire(k) == /\ suggestionsCache' = delete(suggestionsCache, k)
             /\ UNCHANGED <<request, snowplow, breaker, returned>>

ServiceNext ==
  \/ \E r \in Requests :
       \/ \E place \in RequestPlaces, line \in RequestLines : RequestOptions(r, place, line)
       \/ RequestElsewhere(r) \/ Debounced(r) \/ Resolved(r)
       \/ Responded(r) \/ ResponseFails(r) \/ OptionsProcessed(r) \/ CancelRequest(r)
  \/ \E id \in Suggestions, event \in ClientActions : ClientTracksOption(id, event)
  \/ \E k \in DOMAIN suggestionsCache : Expire(k)
  \/ StreamReports \/ BreakerCloses

\* Timers fire, and contexts, intent, API and post-processors answer or fail.
ServiceFairness(r) ==
  /\ WF_serviceVars(Debounced(r)) /\ WF_serviceVars(Resolved(r))
  /\ WF_serviceVars(Responded(r) \/ ResponseFails(r)) /\ WF_serviceVars(OptionsProcessed(r))

ServiceSpec ==
  ServiceInit /\ [][ServiceNext]_serviceVars /\ \A r \in Requests : ServiceFairness(r)

-----------------------------------------------------------------------------
\* Once a request is answered, its suggestion is never left half way: it
\* failed, was cancelled, had nothing to offer or counts as shown.
Settled == {"ERRORED", "CANCELLED", "NOT_PROVIDED", "SHOWN", "ACCEPTED", "REJECTED"}
             \cup (IF canClientTrackEvent("SHOWN") THEN {"LOADED"} ELSE {})
AnsweredIsSettled ==
  \A r \in Requests :
    request[r].phase = "done" => snowplow.state[network(r)] \in Settled \cup {Unknown}

\* The client gets an answer to every request, whatever fails on the way.
EveryRequestIsAnswered ==
  \A r \in Requests :
    request[r].phase # "none" ~> request[r].phase \in {"done", "streamed"}

=============================================================================
