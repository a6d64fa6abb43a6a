---------------------------- MODULE MCSuggestions ----------------------------
(***************************************************************************)
(* The parts of the suggestion path, each on its own: the two breakers,    *)
(* the cache, the suggestion service with tracker, breaker and cache, and  *)
(* one stream.  A behaviour follows one of them, its focus.                *)
(*                                                                         *)
(* The exponential breaker, the cache, the service and the streams keep    *)
(* their names, as their proofs state them.                                *)
(***************************************************************************)
EXTENDS ExponentialBackoffCircuitBreaker, SuggestionsCacheUse, SuggestionService,
        StreamingHandler

CONSTANT BreakTime

VARIABLES
  focus,
  fixedState, fixedErrors, fixedTimers, fixedPause, fixedOpenFor

-----------------------------------------------------------------------------
\* Room for two errors of requests that were in flight.
F == INSTANCE FixedTimeCircuitBreaker WITH
  state <- fixedState, errorCount <- fixedErrors, timers <- fixedTimers,
  pause <- fixedPause, openFor <- fixedOpenFor,
  MaxErrorCount <- MaxErrorsBeforeBreaking + 2, MaxTimers <- 3

\* Every line of at most two characters, white space included, so that typing
\* along, typing something else, erasing and indenting all occur; one response
\* with a single option and one with two that part ways.
MCLines == {<<>>, <<"a">>, <<"b">>, <<" ">>, <<"a", "a">>, <<"a", "b">>, <<" ", "a">>}
MCResponses == {<< <<"a", "b">> >>, << <<"a", "a">>, <<"b">> >>}

\* Requests from a line before and after one character was typed along; no
\* choice, one, and two that begin with the same character.
MCRequestLines == {<<>>, <<"a">>}
MCResponseChoices == {<<>>, << <<"a", "b">> >>, << <<"a", "b">>, <<"a", "a">> >>}

\* A stream's tracking id, and those of the other suggestions.
MCStreams == {<<"s", 0>>}
MCTrackingIds == MCStreams \cup (Requests \X (0 .. MaxOptions))

-----------------------------------------------------------------------------
\* The service and the streams share their breaker.
fixedVars == <<fixedState, fixedErrors, fixedTimers, fixedPause, fixedOpenFor>>
optionVars == <<request, snowplow, suggestionsCache, returned>>
streamVars == <<stream, tracker, client>>
suggestionVars == <<cacheVars, optionVars, streamVars, breaker>>
allVars == <<focus, breakerVars, fixedVars, suggestionVars>>

OfBackoff(step) == /\ focus = "backoff breaker" /\ step
                   /\ UNCHANGED <<focus, fixedVars, suggestionVars>>
OfFixed(step) == /\ focus = "fixed breaker" /\ step
                 /\ UNCHANGED <<focus, breakerVars, suggestionVars>>
OfCache(step) == /\ focus = "cache" /\ step
                 /\ UNCHANGED <<focus, breakerVars, fixedVars, optionVars, streamVars, breaker>>
OfService(step) == /\ focus = "service" /\ step
                   /\ UNCHANGED <<focus, breakerVars, fixedVars, cacheVars, streamVars>>
OfStream(step) == /\ focus = "stream" /\ step
                  /\ UNCHANGED <<focus, breakerVars, fixedVars, cacheVars, optionVars>>

SuggestionsInit ==
  /\ focus \in {"backoff breaker", "fixed breaker", "cache", "service", "stream"}
  /\ BreakerInit /\ F!BreakerInit /\ CacheInit /\ ServiceInit /\ Init

SuggestionsNext ==
  \/ OfBackoff(BackoffNext) \/ OfFixed(F!Next) \/ OfCache(CacheNext)
  \/ OfService(ServiceNext) \/ OfStream(Next)

SuggestionsSpec ==
  /\ SuggestionsInit /\ [][SuggestionsNext]_allVars
  /\ WF_allVars(OfBackoff(Tick)) /\ WF_allVars(OfBackoff(TimerFires))
  /\ WF_allVars(OfFixed(F!Tick)) /\ WF_allVars(OfFixed(F!TimerFires))
  /\ \A r \in Requests :
       /\ WF_allVars(OfService(Debounced(r))) /\ WF_allVars(OfService(Resolved(r)))
       /\ WF_allVars(OfService(Responded(r) \/ ResponseFails(r)))
       /\ WF_allVars(OfService(OptionsProcessed(r)))
  /\ \A s \in Streams :
       /\ WF_allVars(OfStream(StartStream(s))) /\ WF_allVars(OfStream(PostProcessed(s)))
       /\ WF_allVars(OfStream(NotificationHandled(s)))
       /\ WF_allVars(OfStream(StreamFails(s) \/ StreamOver(s)))
       /\ WF_allVars(OfStream(QueueIdle(s))) /\ WF_allVars(OfStream(StreamEnded(s)))

\* The fixed-time breaker implements RequestBreaker (see FixedTimeCircuitBreaker).
BehavesLikeRequestBreaker == F!BehavesLikeRequestBreaker
=============================================================================
