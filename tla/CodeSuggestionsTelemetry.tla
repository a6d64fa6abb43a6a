---------------------- MODULE CodeSuggestionsTelemetry ----------------------
(***************************************************************************)
(* The code suggestion trackers of src/common/tracking/code_suggestions:   *)
(* the state manager they share, the Snowplow tracker, the instance        *)
(* tracker and the multi tracker that calls both.  The trackers keep two   *)
(* maps by tracking id, the suggestion's state and its context; of a       *)
(* context only is_streaming matters to what is tracked.                   *)
(*                                                                         *)
(* Every method runs to completion in the step that calls it, and some     *)
(* steps call several, so the methods are operators from a tracker (a      *)
(* record) to the tracker after the call.                                  *)
(***************************************************************************)
EXTENDS SuggestionStateGraph

CONSTANTS
  Suggestions,     \* unique tracking ids
  ClientActions    \* telemetry.actions: the events the client tracks itself

NoContext == "none"

\* What a tracker starts with.
NewTracker(kind) ==
  [kind    |-> kind,
   state   |-> [s \in Suggestions |-> Unknown],
   context |-> [s \in Suggestions |-> NoContext]]

-----------------------------------------------------------------------------
\* CodeSuggestionTelemetryState.canUpdateState.  A state that the graph does
\* not know leads nowhere, not even to ACCEPTED.
canUpdateState(current, newState, isStreaming) ==
  \/ newState = "REQUESTED"
  \/ /\ current \in DOMAIN stateGraph(isStreaming)
     /\ \/ newState \in stateGraph(isStreaming)[current]
        \/ newState = "ACCEPTED"

getOpenedSuggestions(tracker) ==
  {s \in Suggestions : tracker.state[s] \notin endStates \cup {Unknown}}

isStreamingSuggestion(tracker, s) == tracker.context[s] = "streaming"

\* Whether trackEvent moves s to the event's state and reports it.  For the
\* instance tracker there are no streamed suggestions.
tracks(tracker, s, event) ==
  /\ canUpdateState(tracker.state[s], event, isStreamingSuggestion(tracker, s))
  /\ tracker.kind = "instance" => ~isStreamingSuggestion(tracker, s)

INSTANCE_TRACKING_EVENTS == {"SHOWN", "ACCEPTED", "REJECTED"}

\* Whether a tracked event is sent to the tracker's collector.
reports(tracker, event) ==
  tracker.kind = "instance" => event \in INSTANCE_TRACKING_EVENTS

\* trackEvent for every suggestion of a set.
trackEvents(tracker, ss, event) ==
  [tracker EXCEPT !.state =
     [s \in Suggestions |->
        IF s \in ss /\ tracks(tracker, s, event) THEN event ELSE @[s]]]

trackEvent(tracker, s, event) == trackEvents(tracker, {s}, event)

canClientTrackEvent(event) == event \in ClientActions

\* Auto-reject, when the client tracks ACCEPTED and not REJECTED.
rejectOpenedSuggestions(tracker) ==
  IF canClientTrackEvent("ACCEPTED") /\ ~canClientTrackEvent("REJECTED")
  THEN trackEvents(tracker, getOpenedSuggestions(tracker), "REJECTED")
  ELSE tracker

setCodeSuggestionsContext(tracker, s, isStreaming) ==
  LET rejected == rejectOpenedSuggestions(tracker)
      stored == [rejected EXCEPT
                   !.context[s] = IF isStreaming THEN "streaming" ELSE "plain"]
  IN  IF tracker.kind = "instance" /\ isStreaming
      THEN stored
      ELSE trackEvent(stored, s, "REQUESTED")

\* The Snowplow tracker never changes is_streaming again.
updateCodeSuggestionsContext(tracker, s, isStreaming) ==
  IF tracker.kind = "instance" /\ isStreaming
  THEN [tracker EXCEPT !.context[s] = "streaming"]
  ELSE tracker

\* setTrackingContext; isStreaming is whether the caller passes it as true.
\* The instance tracker ignores the call while its breaker is open.
setTrackingContext(tracker, s, isStreaming, breakerOpen) ==
  IF tracker.kind = "instance" /\ breakerOpen THEN tracker
  ELSE IF tracker.context[s] # NoContext
       THEN updateCodeSuggestionsContext(tracker, s, isStreaming)
       ELSE setCodeSuggestionsContext(tracker, s, isStreaming)

\* $/gitlab/telemetry from the client, by the handler of that notification.
\* An acceptance that names the option updates the context first, which
\* creates one if there is none.
clientTracks(tracker, s, event, namesOption) ==
  LET updated == IF event = "ACCEPTED" /\ namesOption
                 THEN setTrackingContext(tracker, s, FALSE, FALSE) ELSE tracker
  IN  IF canClientTrackEvent(event)
           /\ event \in {"ACCEPTED", "REJECTED", "CANCELLED", "SHOWN", "NOT_PROVIDED"}
      THEN trackEvent(updated, s, event) ELSE tracker

\* Mutant: the state outlives the context.
collectContextOnly(tracker, s) == [tracker EXCEPT !.context[s] = NoContext]

\* The callback of the GC_TIME timer armed with the context.
collectGarbage(tracker, s) == [tracker EXCEPT !.state[s] = Unknown,
                                              !.context[s] = NoContext]

=============================================================================
