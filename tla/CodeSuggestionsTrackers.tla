----------------------- MODULE CodeSuggestionsTrackers -----------------------
(***************************************************************************)
(* The two trackers behind the multi tracker, called by the rest of the    *)
(* server in any order the events of a few suggestions can come in, with   *)
(* the instance tracker's requests in flight, its circuit breaker, the     *)
(* garbage collection of old suggestions and the telemetry switch.         *)
(*                                                                         *)
(* The callers create a context first, a streamed suggestion's with        *)
(* isStreaming, and from then on only update it: with the model, the       *)
(* status of an error or the option that was accepted.                     *)
(***************************************************************************)
EXTENDS CodeSuggestionsTelemetry, RequestBreaker, FiniteSets

CONSTANTS
  Streamed,      \* the suggestions that are streamed
  MaxInFlight    \* bound: instance events on their way to the API

VARIABLES
  begun,                       \* suggestions the callers have created
  snowplow, instance,          \* the two trackers
  enabled,                     \* #options.enabled, the same in both
  inFlight,                    \* instance events sent and not yet answered
  invalidInstanceMsgLogged     \* #invalidInstanceMsgLogged
\* The breaker of RequestBreaker is the instance tracker's #circuitBreaker.

trackersVars == <<begun, snowplow, instance, enabled, breaker, inFlight,
                  invalidInstanceMsgLogged>>

TrackersInit ==
  /\ begun = {}
  /\ snowplow = NewTracker("snowplow")
  /\ instance = NewTracker("instance")
  /\ enabled = TRUE
  /\ RequestBreakerInit
  /\ inFlight = 0 /\ invalidInstanceMsgLogged = FALSE

\* The requests a call adds: one per event the instance tracker reports.
sends(ss, event) ==
  LET reported == IF reports(instance, event)
                  THEN {s \in ss : tracks(instance, s, event)} ELSE {}
  IN  /\ inFlight + Cardinality(reported) <= MaxInFlight
      /\ inFlight' = inFlight + Cardinality(reported)

\* The suggestions that auto-reject has ended.
rejectedBy(tracker, next) ==
  {s \in Suggestions : tracker.state[s] # "REJECTED" /\ next.state[s] = "REJECTED"}

\* The multi tracker calls each enabled tracker in turn.
callTrackers(s, isStreaming) ==
  /\ enabled
  /\ snowplow' = setTrackingContext(snowplow, s, isStreaming, FALSE)
  /\ instance' = setTrackingContext(instance, s, isStreaming, breaker.open)
  /\ sends(rejectedBy(instance, instance'), "REJECTED")
  /\ UNCHANGED <<enabled, breaker, invalidInstanceMsgLogged>>

Create(s) == /\ s \notin begun /\ begun' = begun \cup {s}
             /\ callTrackers(s, s \in Streamed)

\* A suggestion that begins while telemetry is switched off.
CreateUntracked(s) ==
  /\ s \notin begun /\ begun' = begun \cup {s}
  /\ ~enabled
  /\ UNCHANGED <<snowplow, instance, enabled, breaker, inFlight,
                  invalidInstanceMsgLogged>>

Update(s) == /\ s \in begun /\ UNCHANGED begun
             /\ callTrackers(s, FALSE)

TrackEvent(s, event) ==
  /\ enabled /\ s \in begun
  /\ snowplow' = trackEvent(snowplow, s, event)
  /\ instance' = trackEvent(instance, s, event)
  /\ sends({s}, event)
  /\ UNCHANGED <<begun, enabled, breaker, invalidInstanceMsgLogged>>

-----------------------------------------------------------------------------
\* #trackCodeSuggestionsEvent after its await.
answered == /\ inFlight > 0 /\ inFlight' = inFlight - 1
            /\ UNCHANGED <<begun, snowplow, instance, enabled>>

EventAccepted == /\ answered
                 /\ breaker' = breakerSuccess(breaker)
                 /\ UNCHANGED invalidInstanceMsgLogged

EventFailed == /\ answered
               /\ breaker' = breakerError(breaker)
               /\ UNCHANGED invalidInstanceMsgLogged

\* InvalidInstanceVersionError: an error the first time, nothing afterwards.
InstanceTooOld ==
  /\ answered
  /\ invalidInstanceMsgLogged' = TRUE
  /\ breaker' = IF invalidInstanceMsgLogged THEN breaker ELSE breakerError(breaker)

BreakTimeOver ==
  /\ breaker.open /\ breaker' = breakTimeOver(breaker)
  /\ UNCHANGED <<begun, snowplow, instance, enabled, inFlight,
                  invalidInstanceMsgLogged>>

\* Each tracker arms its own timer when it stores the context.
CollectSnowplow(s) ==
  /\ snowplow.context[s] # NoContext
  /\ snowplow' = collectGarbage(snowplow, s)
  /\ UNCHANGED <<begun, instance, enabled, breaker, inFlight,
                  invalidInstanceMsgLogged>>

CollectInstance(s) ==
  /\ instance.context[s] # NoContext
  /\ instance' = collectGarbage(instance, s)
  /\ UNCHANGED <<begun, snowplow, enabled, breaker, inFlight,
                  invalidInstanceMsgLogged>>

ReconfigureTrackers ==
  /\ enabled' = ~enabled
  /\ UNCHANGED <<begun, snowplow, instance, breaker, inFlight,
                  invalidInstanceMsgLogged>>

TrackersNext ==
  \/ \E s \in Suggestions :
       \/ Create(s) \/ CreateUntracked(s) \/ Update(s)
       \/ \E event \in Events \ {"REQUESTED"} : TrackEvent(s, event)
       \/ CollectSnowplow(s) \/ CollectInstance(s)
  \/ EventAccepted \/ EventFailed \/ InstanceTooOld \/ BreakTimeOver
  \/ ReconfigureTrackers

TrackersSpec == TrackersInit /\ [][TrackersNext]_trackersVars

-----------------------------------------------------------------------------
\* A tracker's part in the life of a suggestion.
Lifecycle(tracker, s) == INSTANCE SuggestionLifecycle WITH
  state <- tracker.state[s],
  streaming <- tracker.state[s] # Unknown /\ isStreamingSuggestion(tracker, s)

FlowStep(tracker, s) ==
  [Lifecycle(tracker, s)!Next]_(Lifecycle(tracker, s)!vars)

\* Each tracker takes each suggestion through the state flow, in whatever
\* order events arrive and whenever the suggestion is forgotten: the maps of
\* states and of contexts never disagree about what is known.
BothFollowFlow ==
  /\ \A s \in Suggestions :
       Lifecycle(snowplow, s)!Init /\ Lifecycle(instance, s)!Init
  /\ [][/\ snowplow' # snowplow => \A s \in Suggestions : FlowStep(snowplow, s)
        /\ instance' # instance => \A s \in Suggestions : FlowStep(instance, s)]_trackersVars

=============================================================================
