---------------------------- MODULE ServerProofs ----------------------------
(***************************************************************************)
(* Proofs about the parts of the server that MCServer composes: the        *)
(* trackers of code suggestions, the webviews, the workflow's pages, the   *)
(* chat and the intent of a request.  Each is proved of its own            *)
(* specification.                                                          *)
(***************************************************************************)
EXTENDS Container, CodeSuggestionsTrackers, WebviewRuntime, WorkflowPages, DuoChat,
        IntentResolver, FiniteSetTheorems, SequenceTheorems, WellFoundedInduction, TLAPS

-----------------------------------------------------------------------------
(* The trackers.                                                           *)

\* A tracker whose two maps agree: what has a state has a context.
IsTracker(t, type) ==
  /\ t.kind = type
  /\ t = [kind |-> type, state |-> t.state, context |-> t.context]
  /\ t.state \in [Suggestions -> Events \cup {Unknown}]
  /\ t.context \in [Suggestions -> {NoContext, "streaming", "plain"}]
  /\ \A s \in Suggestions : t.context[s] = NoContext => t.state[s] = Unknown

streams(t, s) == t.state[s] # Unknown /\ isStreamingSuggestion(t, s)

\* What the state flow allows to happen to s between two states of a tracker.
Follows(t, next, s) ==
  \/ next.state[s] = t.state[s] /\ streams(next, s) = streams(t, s)
  \/ t.state[s] = Unknown /\ next.state[s] = "REQUESTED"
  \/ /\ t.state[s] # Unknown /\ streams(next, s) = streams(t, s)
     /\ next.state[s] \in stateGraph(streams(t, s))[t.state[s]] \cup {"ACCEPTED"}
  \/ t.state[s] # Unknown /\ next.state[s] = Unknown

\* Of two calls in one step, each follows the flow if no suggestion moves twice.
Step(t, next, type) ==
  /\ IsTracker(next, type)
  /\ \A s \in Suggestions : Follows(t, next, s)

\* Nothing is known of a suggestion before it is created.
TrackersInv ==
  /\ IsTracker(snowplow, "snowplow") /\ IsTracker(instance, "instance")
  /\ \A s \in Suggestions \ begun :
       snowplow.context[s] = NoContext /\ instance.context[s] = NoContext

\* An event that the state manager accepts is one that the flow has.
LEMMA UpdatesFollow ==
  ASSUME NEW current \in Events \cup {Unknown}, NEW event \in Events \ {"REQUESTED"},
         NEW isStreaming \in BOOLEAN, canUpdateState(current, event, isStreaming)
  PROVE  /\ current # Unknown
         /\ event \in stateGraph(isStreaming)[current] \cup {"ACCEPTED"}
<1>1. /\ event # "REQUESTED"
      /\ current \in DOMAIN stateGraph(isStreaming)
      /\ event \in stateGraph(isStreaming)[current] \cup {"ACCEPTED"}
  BY DEF canUpdateState
<1>2. Unknown \notin DOMAIN stateGraph(isStreaming)
  BY DEF stateGraph, streamingSuggestionStateGraph, nonStreamingSuggestionStateGraph,
         endStates, Unknown
<1> QED
  BY <1>1, <1>2

\* trackEvents, suggestion by suggestion.
LEMMA EventsMove ==
  ASSUME NEW type, NEW t, IsTracker(t, type), NEW ss, NEW event \in Events,
         ~(event = "REQUESTED" /\ \E s \in ss : t.context[s] = NoContext)
  PROVE  LET next == trackEvents(t, ss, event) IN
         /\ IsTracker(next, type) /\ next.context = t.context
         /\ \A s \in Suggestions :
              next.state[s] = IF s \in ss /\ tracks(t, s, event) THEN event ELSE t.state[s]
<1> DEFINE next == trackEvents(t, ss, event)
<1>1. /\ next.kind = t.kind /\ next.context = t.context
      /\ next = [kind |-> t.kind, state |-> next.state, context |-> t.context]
      /\ next.state = [s \in Suggestions |->
                         IF s \in ss /\ tracks(t, s, event) THEN event ELSE t.state[s]]
  BY DEF trackEvents, IsTracker
<1>2. t.state \in [Suggestions -> Events \cup {Unknown}]
  BY DEF IsTracker
<1>3. next.state \in [Suggestions -> Events \cup {Unknown}]
  BY <1>1, <1>2
<1>4. ASSUME NEW s \in Suggestions, t.context[s] = NoContext
      PROVE  next.state[s] = Unknown
  <2>1. t.state[s] = Unknown
    BY <1>4 DEF IsTracker
  <2>2. CASE event = "REQUESTED"
    BY <1>1, <1>4, <2>1, <2>2
  <2>3. CASE event # "REQUESTED"
    <3>1. ~tracks(t, s, event)
      <4> SUFFICES ASSUME tracks(t, s, event) PROVE FALSE
        OBVIOUS
      <4>1. canUpdateState(Unknown, event, isStreamingSuggestion(t, s))
        BY <2>1 DEF tracks
      <4>2. isStreamingSuggestion(t, s) \in BOOLEAN /\ event \in Events \ {"REQUESTED"}
        BY <2>3 DEF isStreamingSuggestion
      <4> QED
        BY <4>1, <4>2, UpdatesFollow
    <3> QED
      BY <1>1, <2>1, <3>1
  <2> QED
    BY <2>2, <2>3
<1> QED
  BY <1>1, <1>3, <1>4 DEF IsTracker

\* Of the events that no context comes with, every one follows the flow.
LEMMA EventsFollow ==
  ASSUME NEW type, NEW t, IsTracker(t, type), NEW ss, NEW event \in Events \ {"REQUESTED"}
  PROVE  LET next == trackEvents(t, ss, event) IN
         Step(t, next, type) /\ next.context = t.context
<1> DEFINE next == trackEvents(t, ss, event)
<1>1. /\ IsTracker(next, type) /\ next.context = t.context
      /\ \A s \in Suggestions :
           next.state[s] = IF s \in ss /\ tracks(t, s, event) THEN event ELSE t.state[s]
  BY EventsMove
<1>2. ASSUME NEW s \in Suggestions
      PROVE  Follows(t, next, s)
  <2>1. isStreamingSuggestion(next, s) = isStreamingSuggestion(t, s)
    BY <1>1 DEF isStreamingSuggestion
  <2>2. CASE s \in ss /\ tracks(t, s, event)
    <3>1. canUpdateState(t.state[s], event, isStreamingSuggestion(t, s))
      BY <2>2 DEF tracks
    <3>2. t.state[s] \in Events \cup {Unknown} /\ isStreamingSuggestion(t, s) \in BOOLEAN
      BY DEF IsTracker, isStreamingSuggestion
    <3>3. /\ t.state[s] # Unknown
          /\ event \in stateGraph(isStreamingSuggestion(t, s))[t.state[s]] \cup {"ACCEPTED"}
      BY <3>1, <3>2, UpdatesFollow
    <3>4. next.state[s] = event /\ event # Unknown
      BY <1>1, <2>2 DEF Events, Unknown
    <3>5. /\ streams(t, s) = isStreamingSuggestion(t, s)
          /\ streams(next, s) = isStreamingSuggestion(t, s)
      BY <2>1, <3>3, <3>4 DEF streams, isStreamingSuggestion
    <3> QED
      BY <3>3, <3>4, <3>5 DEF Follows
  <2>3. CASE ~(s \in ss /\ tracks(t, s, event))
    <3>1. next.state[s] = t.state[s]
      BY <1>1, <2>3
    <3> QED
      BY <2>1, <3>1 DEF Follows, streams
  <2> QED
    BY <2>2, <2>3
<1> QED
  BY <1>1, <1>2 DEF Step

LEMMA SameFollows ==
  ASSUME NEW type, NEW t, IsTracker(t, type)
  PROVE  Step(t, t, type)
BY DEF Step, Follows

\* What a suggestion does is seen at its entries of the two maps.
LEMMA AlikeFollows ==
  ASSUME NEW t, NEW r, NEW next, NEW s, Follows(t, r, s),
         next.state[s] = r.state[s], next.context[s] = r.context[s]
  PROVE  Follows(t, next, s)
<1>1. streams(next, s) = streams(r, s)
  BY DEF streams, isStreamingSuggestion
<1> QED
  BY <1>1 DEF Follows

\* Auto-reject.
LEMMA RejectedFollow ==
  ASSUME NEW type, NEW t, IsTracker(t, type)
  PROVE  LET next == rejectOpenedSuggestions(t) IN
         /\ Step(t, next, type) /\ next.context = t.context
<1> DEFINE e == trackEvents(t, getOpenedSuggestions(t), "REJECTED")
<1>1. "REJECTED" \in Events \ {"REQUESTED"}
  BY DEF Events
<1>2. Step(t, e, type) /\ e.context = t.context
  BY <1>1, EventsFollow
<1>3. Step(t, t, type)
  BY SameFollows
<1>4. rejectOpenedSuggestions(t) = e \/ rejectOpenedSuggestions(t) = t
  BY DEF rejectOpenedSuggestions
<1> QED
  BY <1>2, <1>3, <1>4

\* A suggestion whose context is set begins its life, if the tracker follows it.
LEMMA SetFollows ==
  ASSUME NEW type, NEW t, IsTracker(t, type), NEW s \in Suggestions,
         NEW isStreaming \in BOOLEAN, t.context[s] = NoContext
  PROVE  LET next == setCodeSuggestionsContext(t, s, isStreaming) IN
         /\ Step(t, next, type)
         /\ \A u \in Suggestions \ {s} : next.context[u] = t.context[u]
<1> DEFINE r == rejectOpenedSuggestions(t)
           x == IF isStreaming THEN "streaming" ELSE "plain"
           stored == [r EXCEPT !.context[s] = x]
           requested == trackEvents(stored, {s}, "REQUESTED")
           next == setCodeSuggestionsContext(t, s, isStreaming)
<1>1. Step(t, r, type) /\ r.context = t.context
  BY RejectedFollow
<1>2. IsTracker(r, type) /\ \A u \in Suggestions : Follows(t, r, u)
  BY <1>1 DEF Step
<1>3. t.state[s] = Unknown /\ r.state[s] = Unknown
  BY <1>1, <1>2 DEF IsTracker
<1>4. /\ stored.kind = r.kind /\ stored.state = r.state
      /\ stored.context = [r.context EXCEPT ![s] = x]
      /\ stored = [kind |-> r.kind, state |-> r.state, context |-> [r.context EXCEPT ![s] = x]]
  BY <1>2 DEF IsTracker
<1>5. /\ r.context \in [Suggestions -> {NoContext, "streaming", "plain"}]
      /\ x \in {"streaming", "plain"} /\ x # NoContext
  BY <1>2 DEF IsTracker, NoContext
<1>6. IsTracker(stored, type)
  BY <1>2, <1>4, <1>5 DEF IsTracker
<1>7. /\ stored.context[s] = x
      /\ \A u \in Suggestions \ {s} : stored.context[u] = r.context[u]
  BY <1>4, <1>5
<1>8. t.kind = type
  BY DEF IsTracker
<1>9. CASE type = "instance" /\ isStreaming
  <2>1. next = stored
    BY <1>8, <1>9 DEF setCodeSuggestionsContext
  <2>2. ASSUME NEW u \in Suggestions
        PROVE  Follows(t, stored, u)
    <3>1. CASE u = s
      BY <1>3, <1>4, <3>1 DEF Follows, streams
    <3>2. CASE u # s
      <4>1. stored.state[u] = r.state[u] /\ stored.context[u] = r.context[u]
        BY <1>4, <1>7, <3>2
      <4>2. Follows(t, r, u)
        BY <1>2
      <4> QED
        BY <4>1, <4>2, AlikeFollows
    <3> QED
      BY <3>1, <3>2
  <2> QED
    BY <1>1, <1>6, <1>7, <2>1, <2>2 DEF Step
<1>10. CASE ~(type = "instance" /\ isStreaming)
  <2>1. next = requested
    BY <1>8, <1>10 DEF setCodeSuggestionsContext, trackEvent
  <2>2. /\ "REQUESTED" \in Events
        /\ ~("REQUESTED" = "REQUESTED" /\ \E u \in {s} : stored.context[u] = NoContext)
    BY <1>5, <1>7 DEF Events
  <2> HIDE DEF stored
  <2>3. /\ IsTracker(requested, type) /\ requested.context = stored.context
        /\ \A u \in Suggestions :
             requested.state[u] = IF u \in {s} /\ tracks(stored, u, "REQUESTED")
                                  THEN "REQUESTED" ELSE stored.state[u]
    BY <1>6, <2>2, EventsMove
  <2>4. type = "instance" => ~isStreamingSuggestion(stored, s)
    BY <1>7, <1>10 DEF isStreamingSuggestion
  <2>5. stored.kind = type
    BY <1>6 DEF IsTracker
  <2>6. tracks(stored, s, "REQUESTED")
    BY <2>4, <2>5 DEF tracks, canUpdateState
  <2>7. ASSUME NEW u \in Suggestions
        PROVE  Follows(t, requested, u)
    <3>1. CASE u = s
      BY <1>3, <2>3, <2>6, <3>1 DEF Follows
    <3>2. CASE u # s
      <4>1. requested.state[u] = r.state[u] /\ requested.context[u] = r.context[u]
        BY <1>4, <1>7, <2>3, <3>2
      <4>2. Follows(t, r, u)
        BY <1>2
      <4> QED
        BY <4>1, <4>2, AlikeFollows
    <3> QED
      BY <3>1, <3>2
  <2> QED
    BY <1>1, <1>7, <2>1, <2>3, <2>7 DEF Step
<1> QED
  BY <1>9, <1>10

\* setTrackingContext; isStreaming is only ever passed by the call that creates s.
LEMMA ContextFollows ==
  ASSUME NEW type, NEW t, IsTracker(t, type), NEW s \in Suggestions,
         NEW isStreaming \in BOOLEAN, NEW breakerOpen,
         isStreaming => t.context[s] = NoContext
  PROVE  LET next == setTrackingContext(t, s, isStreaming, breakerOpen) IN
         /\ Step(t, next, type)
         /\ \A u \in Suggestions \ {s} : next.context[u] = t.context[u]
<1> DEFINE next == setTrackingContext(t, s, isStreaming, breakerOpen)
<1>1. Step(t, t, type)
  BY SameFollows
<1>2. CASE t.context[s] = NoContext
  <2>1. next = t \/ next = setCodeSuggestionsContext(t, s, isStreaming)
    BY <1>2 DEF setTrackingContext
  <2> QED
    BY <1>1, <1>2, <2>1, SetFollows
<1>3. CASE t.context[s] # NoContext
  <2>1. next = t
    BY <1>3 DEF setTrackingContext, updateCodeSuggestionsContext
  <2> QED
    BY <1>1, <2>1
<1> QED
  BY <1>2, <1>3

\* The callback that forgets a suggestion.
LEMMA CollectFollows ==
  ASSUME NEW type, NEW t, IsTracker(t, type), NEW s \in Suggestions,
         t.context[s] # NoContext
  PROVE  LET next == collectGarbage(t, s) IN
         /\ Step(t, next, type)
         /\ \A u \in Suggestions : t.context[u] = NoContext => next.context[u] = NoContext
<1> DEFINE next == collectGarbage(t, s)
<1>1. /\ next.kind = t.kind
      /\ next.state = [t.state EXCEPT ![s] = Unknown]
      /\ next.context = [t.context EXCEPT ![s] = NoContext]
      /\ next = [kind |-> t.kind, state |-> next.state, context |-> next.context]
  <2>1. t = [kind |-> t.kind, state |-> t.state, context |-> t.context]
    BY DEF IsTracker
  <2>2. next = [[t EXCEPT !.state = [t.state EXCEPT ![s] = Unknown]]
                  EXCEPT !.context = [t.context EXCEPT ![s] = NoContext]]
    BY <2>1 DEF collectGarbage
  <2> QED
    BY <2>1, <2>2
<1>2. /\ t.state \in [Suggestions -> Events \cup {Unknown}]
      /\ t.context \in [Suggestions -> {NoContext, "streaming", "plain"}]
  BY DEF IsTracker
<1>3. /\ next.state[s] = Unknown /\ next.context[s] = NoContext
      /\ \A u \in Suggestions \ {s} :
           next.state[u] = t.state[u] /\ next.context[u] = t.context[u]
  BY <1>1, <1>2
<1>4. IsTracker(next, type)
  BY <1>1, <1>2, <1>3 DEF IsTracker
<1>5. ASSUME NEW u \in Suggestions
      PROVE  Follows(t, next, u)
  <2>1. Follows(t, t, u)
    BY DEF Follows
  <2>2. CASE u # s
    BY <1>3, <2>1, <2>2, AlikeFollows
  <2>3. CASE u = s /\ t.state[u] = Unknown
    BY <1>3, <2>3 DEF Follows, streams
  <2>4. CASE u = s /\ t.state[u] # Unknown
    BY <1>3, <2>4 DEF Follows
  <2> QED
    BY <2>2, <2>3, <2>4
<1> QED
  BY <1>3, <1>4, <1>5 DEF Step

\* The trackers in one step of theirs: each follows the flow, and a suggestion
\* that is not created has no context.
TrackersMove ==
  /\ Step(snowplow, snowplow', "snowplow") /\ Step(instance, instance', "instance")
  /\ \A s \in Suggestions \ begun' :
       snowplow'.context[s] = NoContext /\ instance'.context[s] = NoContext

LEMMA CallTrackersMoves ==
  ASSUME TrackersInv, NEW s \in Suggestions, NEW isStreaming \in BOOLEAN,
         isStreaming => s \notin begun, callTrackers(s, isStreaming), begun' = begun \cup {s}
  PROVE  TrackersMove
<1>1. /\ IsTracker(snowplow, "snowplow") /\ IsTracker(instance, "instance")
      /\ \A u \in Suggestions \ begun :
           snowplow.context[u] = NoContext /\ instance.context[u] = NoContext
  BY DEF TrackersInv
<1>2. /\ snowplow' = setTrackingContext(snowplow, s, isStreaming, FALSE)
      /\ instance' = setTrackingContext(instance, s, isStreaming, breaker.open)
  BY DEF callTrackers
<1>3. isStreaming => snowplow.context[s] = NoContext /\ instance.context[s] = NoContext
  BY <1>1
<1>4. /\ Step(snowplow, snowplow', "snowplow")
      /\ \A u \in Suggestions \ {s} : snowplow'.context[u] = snowplow.context[u]
  <2> DEFINE noBreaker == FALSE
  <2>1. snowplow' = setTrackingContext(snowplow, s, isStreaming, noBreaker)
    BY <1>2
  <2> HIDE DEF noBreaker
  <2> QED
    BY <1>1, <1>3, <2>1, ContextFollows
<1>5. /\ Step(instance, instance', "instance")
      /\ \A u \in Suggestions \ {s} : instance'.context[u] = instance.context[u]
  BY <1>1, <1>2, <1>3, ContextFollows
<1>6. ASSUME NEW u \in Suggestions \ begun'
      PROVE  snowplow'.context[u] = NoContext /\ instance'.context[u] = NoContext
  <2>1. u # s /\ u \in Suggestions \ begun
    OBVIOUS
  <2> QED
    BY <1>1, <1>4, <1>5, <2>1
<1> QED
  BY <1>4, <1>5, <1>6 DEF TrackersMove

LEMMA TrackersStep ==
  TrackersInv /\ [TrackersNext]_trackersVars => TrackersMove
<1> SUFFICES ASSUME TrackersInv, [TrackersNext]_trackersVars
             PROVE  TrackersMove
  OBVIOUS
<1>1. /\ IsTracker(snowplow, "snowplow") /\ IsTracker(instance, "instance")
      /\ \A u \in Suggestions \ begun :
           snowplow.context[u] = NoContext /\ instance.context[u] = NoContext
  BY DEF TrackersInv
<1>2. Step(snowplow, snowplow, "snowplow") /\ Step(instance, instance, "instance")
  BY <1>1, SameFollows
<1>3. ASSUME NEW s \in Suggestions, Create(s)
      PROVE  TrackersMove
  <2>1. /\ s \notin begun /\ begun' = begun \cup {s}
        /\ callTrackers(s, TRUE) \/ callTrackers(s, FALSE)
    <3>1. CASE s \in Streamed
      <4>1. (s \in Streamed) = TRUE
        BY <3>1
      <4> QED
        BY <1>3, <4>1 DEF Create
    <3>2. CASE s \notin Streamed
      <4>1. (s \in Streamed) = FALSE
        BY <3>2
      <4> QED
        BY <1>3, <4>1 DEF Create
    <3> QED
      BY <3>1, <3>2
  <2>2. CASE callTrackers(s, TRUE)
    BY <2>1, <2>2, CallTrackersMoves
  <2>3. CASE callTrackers(s, FALSE)
    BY <2>1, <2>3, CallTrackersMoves
  <2> QED
    BY <2>1, <2>2, <2>3
<1>4. ASSUME NEW s \in Suggestions, CreateUntracked(s)
      PROVE  TrackersMove
  BY <1>1, <1>2, <1>4 DEF CreateUntracked, TrackersMove
<1>5. ASSUME NEW s \in Suggestions, Update(s)
      PROVE  TrackersMove
  <2>1. begun' = begun \cup {s} /\ callTrackers(s, FALSE)
    BY <1>5 DEF Update
  <2> QED
    BY <2>1, CallTrackersMoves
<1>6. ASSUME NEW s \in Suggestions, NEW event \in Events \ {"REQUESTED"}, TrackEvent(s, event)
      PROVE  TrackersMove
  <2>1. /\ snowplow' = trackEvents(snowplow, {s}, event)
        /\ instance' = trackEvents(instance, {s}, event)
        /\ begun' = begun
    BY <1>6 DEF TrackEvent, trackEvent
  <2>2. Step(snowplow, snowplow', "snowplow") /\ snowplow'.context = snowplow.context
    BY <1>1, <2>1, EventsFollow
  <2>3. Step(instance, instance', "instance") /\ instance'.context = instance.context
    BY <1>1, <2>1, EventsFollow
  <2> QED
    BY <1>1, <2>1, <2>2, <2>3 DEF TrackersMove
<1>7. ASSUME NEW s \in Suggestions, CollectSnowplow(s)
      PROVE  TrackersMove
  <2>1. /\ snowplow.context[s] # NoContext /\ snowplow' = collectGarbage(snowplow, s)
        /\ UNCHANGED <<begun, instance>>
    BY <1>7 DEF CollectSnowplow
  <2>2. /\ Step(snowplow, snowplow', "snowplow")
        /\ \A u \in Suggestions :
             snowplow.context[u] = NoContext => snowplow'.context[u] = NoContext
    BY <1>1, <2>1, CollectFollows
  <2> QED
    BY <1>1, <1>2, <2>1, <2>2 DEF TrackersMove
<1>8. ASSUME NEW s \in Suggestions, CollectInstance(s)
      PROVE  TrackersMove
  <2>1. /\ instance.context[s] # NoContext /\ instance' = collectGarbage(instance, s)
        /\ UNCHANGED <<begun, snowplow>>
    BY <1>8 DEF CollectInstance
  <2>2. /\ Step(instance, instance', "instance")
        /\ \A u \in Suggestions :
             instance.context[u] = NoContext => instance'.context[u] = NoContext
    BY <1>1, <2>1, CollectFollows
  <2> QED
    BY <1>1, <1>2, <2>1, <2>2 DEF TrackersMove
<1>9. CASE UNCHANGED <<begun, snowplow, instance>>
  BY <1>1, <1>2, <1>9 DEF TrackersMove
<1>10. CASE EventAccepted \/ EventFailed \/ InstanceTooOld \/ BreakTimeOver \/ ReconfigureTrackers
  BY <1>9, <1>10 DEF EventAccepted, EventFailed, InstanceTooOld, answered, BreakTimeOver,
                     ReconfigureTrackers
<1>11. CASE UNCHANGED trackersVars
  BY <1>9, <1>11 DEF trackersVars
<1> QED
  BY <1>3, <1>4, <1>5, <1>6, <1>7, <1>8, <1>10, <1>11 DEF TrackersNext

\* The relation between two trackers is the step of the flow.
LEMMA SnowplowFlow ==
  ASSUME NEW s \in Suggestions, Follows(snowplow, snowplow', s)
  PROVE  FlowStep(snowplow, s)
<1>1. CASE snowplow'.state[s] = snowplow.state[s] /\ streams(snowplow', s) = streams(snowplow, s)
  BY <1>1 DEF FlowStep, Lifecycle!vars, Lifecycle!Unknown, streams, isStreamingSuggestion, Unknown
<1>2. CASE snowplow.state[s] = Unknown /\ snowplow'.state[s] = "REQUESTED"
  <2>1. Lifecycle(snowplow, s)!Request
    BY <1>2 DEF Lifecycle!Request, Lifecycle!Unknown, Unknown, isStreamingSuggestion
  <2> QED
    BY <2>1 DEF FlowStep, Lifecycle!Next
<1>3. CASE /\ snowplow.state[s] # Unknown /\ streams(snowplow', s) = streams(snowplow, s)
           /\ snowplow'.state[s] \in stateGraph(streams(snowplow, s))[snowplow.state[s]]
                                       \cup {"ACCEPTED"}
  <2>1. Lifecycle(snowplow, s)!Move
    BY <1>3 DEF Lifecycle!Move, Lifecycle!Unknown, Unknown, isStreamingSuggestion, streams,
      Lifecycle!stateGraph, stateGraph, Lifecycle!streamingSuggestionStateGraph,
      Lifecycle!nonStreamingSuggestionStateGraph, streamingSuggestionStateGraph,
      nonStreamingSuggestionStateGraph, Lifecycle!endStates, endStates
  <2> QED
    BY <2>1 DEF FlowStep, Lifecycle!Next
<1>4. CASE snowplow.state[s] # Unknown /\ snowplow'.state[s] = Unknown
  <2>1. Lifecycle(snowplow, s)!Forget
    BY <1>4 DEF Lifecycle!Forget, Lifecycle!Unknown, Unknown
  <2> QED
    BY <2>1 DEF FlowStep, Lifecycle!Next
<1> QED
  BY <1>1, <1>2, <1>3, <1>4 DEF Follows

LEMMA InstanceFlow ==
  ASSUME NEW s \in Suggestions, Follows(instance, instance', s)
  PROVE  FlowStep(instance, s)
<1>1. CASE instance'.state[s] = instance.state[s] /\ streams(instance', s) = streams(instance, s)
  BY <1>1 DEF FlowStep, Lifecycle!vars, Lifecycle!Unknown, streams, isStreamingSuggestion, Unknown
<1>2. CASE instance.state[s] = Unknown /\ instance'.state[s] = "REQUESTED"
  <2>1. Lifecycle(instance, s)!Request
    BY <1>2 DEF Lifecycle!Request, Lifecycle!Unknown, Unknown, isStreamingSuggestion
  <2> QED
    BY <2>1 DEF FlowStep, Lifecycle!Next
<1>3. CASE /\ instance.state[s] # Unknown /\ streams(instance', s) = streams(instance, s)
           /\ instance'.state[s] \in stateGraph(streams(instance, s))[instance.state[s]]
                                       \cup {"ACCEPTED"}
  <2>1. Lifecycle(instance, s)!Move
    BY <1>3 DEF Lifecycle!Move, Lifecycle!Unknown, Unknown, isStreamingSuggestion, streams,
      Lifecycle!stateGraph, stateGraph, Lifecycle!streamingSuggestionStateGraph,
      Lifecycle!nonStreamingSuggestionStateGraph, streamingSuggestionStateGraph,
      nonStreamingSuggestionStateGraph, Lifecycle!endStates, endStates
  <2> QED
    BY <2>1 DEF FlowStep, Lifecycle!Next
<1>4. CASE instance.state[s] # Unknown /\ instance'.state[s] = Unknown
  <2>1. Lifecycle(instance, s)!Forget
    BY <1>4 DEF Lifecycle!Forget, Lifecycle!Unknown, Unknown
  <2> QED
    BY <2>1 DEF FlowStep, Lifecycle!Next
<1> QED
  BY <1>1, <1>2, <1>3, <1>4 DEF Follows

\* What both trackers know of a suggestion when they start.
LEMMA TrackersInitInv ==
  ASSUME TrackersInit
  PROVE  /\ TrackersInv
         /\ \A s \in Suggestions : Lifecycle(snowplow, s)!Init /\ Lifecycle(instance, s)!Init
<1>1. /\ IsTracker(snowplow, "snowplow") /\ IsTracker(instance, "instance")
      /\ \A s \in Suggestions : /\ snowplow.state[s] = Unknown /\ instance.state[s] = Unknown
                                /\ snowplow.context[s] = NoContext
                                /\ instance.context[s] = NoContext
  BY DEF TrackersInit, NewTracker, IsTracker
<1> QED
  BY <1>1 DEF TrackersInv, Lifecycle!Init, Lifecycle!Unknown, Unknown

LEMMA TrackersInvStep ==
  TrackersInv /\ [TrackersNext]_trackersVars => TrackersInv'
<1> SUFFICES ASSUME TrackersInv, [TrackersNext]_trackersVars
             PROVE  TrackersInv'
  OBVIOUS
<1>1. TrackersMove
  BY TrackersStep
<1> QED
  BY <1>1 DEF TrackersMove, TrackersInv, Step, IsTracker

LEMMA TrackersFlowStep ==
  TrackersInv /\ [TrackersNext]_trackersVars =>
    /\ snowplow' # snowplow => \A s \in Suggestions : FlowStep(snowplow, s)
    /\ instance' # instance => \A s \in Suggestions : FlowStep(instance, s)
<1> SUFFICES ASSUME TrackersInv, [TrackersNext]_trackersVars
             PROVE  \A s \in Suggestions : FlowStep(snowplow, s) /\ FlowStep(instance, s)
  OBVIOUS
<1>1. \A s \in Suggestions : /\ Follows(snowplow, snowplow', s)
                             /\ Follows(instance, instance', s)
  BY TrackersStep DEF TrackersMove, Step
<1> QED
  BY <1>1, SnowplowFlow, InstanceFlow

\* The maps of states and of contexts of either tracker always agree.
THEOREM TrackersAgree == TrackersSpec => []TrackersInv
<1>1. TrackersInit => TrackersInv
  BY TrackersInitInv
<1> QED
  BY <1>1, TrackersInvStep, PTL DEF TrackersSpec

\* Both trackers take every suggestion through the state flow: the events that
\* the callers send, the auto-reject and the collection of old suggestions.
THEOREM BothFollowFlowCorrect == TrackersSpec => BothFollowFlow
<1>1. TrackersInit => \A s \in Suggestions :
                        Lifecycle(snowplow, s)!Init /\ Lifecycle(instance, s)!Init
  BY TrackersInitInv
<1> QED
  BY <1>1, TrackersAgree, TrackersFlowStep, PTL DEF TrackersSpec, BothFollowFlow

-----------------------------------------------------------------------------
(* The webviews.                                                           *)

MediatorsAreTyped ==
  mediators \in [Transports -> [managed : SUBSET Instances, listening : BOOLEAN]]
ControllersAreTyped == controllers \in [Webviews -> Seq(SUBSET Instances)]
HandlersAreTyped == extensionHandler \in [Webviews -> Instances \cup {Nobody}]
PagesAreTyped ==
  /\ pages = [i \in Instances |-> [state |-> pages[i].state, theme |-> pages[i].theme,
                                   served |-> pages[i].served]]
  /\ \A i \in Instances : pages[i].state \in {"new", "open", "closed"}

WebviewTypes ==
  MediatorsAreTyped /\ ControllersAreTyped /\ HandlersAreTyped /\ PagesAreTyped

\* While its transport is served, the instance whose handler of the extension's
\* prompts is registered has a bus, so that its disconnection finds the handler.
HandlersHaveABus ==
  \A i \in Instances :
    mediators[TransportOf[i]].listening /\ extensionHandler[WebviewOf[i]] = i => hasBus(i)

WebviewInv == WebviewTypes /\ HandlersHaveABus /\ GoneInstancesAreReleased

LEMMA InstancesKnown ==
  ASSUME NEW i \in Instances
  PROVE  WebviewOf[i] \in Webviews /\ TransportOf[i] \in Transports /\ i # Nobody
BY InstancesAssumption DEF Webviews

LEMMA WebviewInitInv == WebviewInit => WebviewInv
<1> SUFFICES ASSUME WebviewInit PROVE WebviewInv
  OBVIOUS
<1>1. \A i \in Instances : pages[i].state = "new"
  BY DEF WebviewInit
<1>2. WebviewTypes
  BY <1>1 DEF WebviewInit, WebviewTypes, MediatorsAreTyped, ControllersAreTyped,
              HandlersAreTyped, PagesAreTyped
<1>3. HandlersHaveABus
  BY InstancesKnown DEF WebviewInit, HandlersHaveABus
<1>4. GoneInstancesAreReleased
  BY <1>1 DEF GoneInstancesAreReleased
<1> QED
  BY <1>2, <1>3, <1>4 DEF WebviewInv

\* A step that leaves the three maps and the pages' states alone.
LEMMA WebviewFrame ==
  ASSUME WebviewInv, PagesAreTyped', UNCHANGED <<mediators, controllers, extensionHandler>>,
         \A i \in Instances : pages'[i].state = pages[i].state
  PROVE  WebviewInv'
BY DEF WebviewInv, WebviewTypes, MediatorsAreTyped, ControllersAreTyped, HandlersAreTyped,
       HandlersHaveABus, GoneInstancesAreReleased, mediator, hasBus

\* A map over the controllers of a webview.
LEMMA ServedIsSeq ==
  ASSUME NEW S, NEW q \in Seq(S), NEW R, NEW g \in [DOMAIN q -> R]
  PROVE  g \in Seq(R) /\ DOMAIN g = DOMAIN q
<1>1. DOMAIN q = 1 .. Len(q) /\ Len(q) \in Nat
  BY LenProperties
<1> QED
  BY <1>1

LEMMA RegisterPluginKeeps ==
  ASSUME WebviewInv, NEW w \in Webviews, RegisterPlugin(w)
  PROVE  WebviewInv'
<1>1. /\ controllers' = [controllers EXCEPT ![w] = Append(@, {})]
      /\ UNCHANGED <<mediators, extensionHandler, pages>>
  BY DEF RegisterPlugin
<1>2. controllers \in [Webviews -> Seq(SUBSET Instances)]
  BY DEF WebviewInv, WebviewTypes, ControllersAreTyped
<1>3. /\ controllers[w] \in Seq(SUBSET Instances) /\ {} \in SUBSET Instances
      /\ controllers'[w] = Append(controllers[w], {})
      /\ \A v \in Webviews \ {w} : controllers'[v] = controllers[v]
  BY <1>1, <1>2
<1>4. controllers'[w] \in Seq(SUBSET Instances)
  BY <1>3, AppendProperties
<1>5. ControllersAreTyped'
  BY <1>1, <1>2, <1>4 DEF ControllersAreTyped, Webviews
<1>6. /\ DOMAIN controllers[w] = 1 .. Len(controllers[w]) /\ Len(controllers[w]) \in Nat
      /\ DOMAIN controllers'[w] = 1 .. (Len(controllers[w]) + 1)
      /\ \A c \in DOMAIN controllers[w] : controllers'[w][c] = controllers[w][c]
      /\ controllers'[w][Len(controllers[w]) + 1] = {}
  BY <1>3, <1>4, AppendProperties, LenProperties
<1>7. \A i \in Instances : hasBus(i) => hasBus(i)'
  BY <1>3, <1>6, InstancesKnown DEF hasBus
<1>8. \A i \in Instances : \A c \in DOMAIN controllers'[WebviewOf[i]] :
        i \in controllers'[WebviewOf[i]][c] => hasBus(i)
  BY <1>3, <1>6, InstancesKnown DEF hasBus
<1>9. HandlersHaveABus'
  BY <1>1, <1>7 DEF WebviewInv, HandlersHaveABus
<1>10. GoneInstancesAreReleased'
  BY <1>1, <1>8 DEF WebviewInv, GoneInstancesAreReleased, hasBus, mediator
<1> QED
  BY <1>1, <1>5, <1>9, <1>10
     DEF WebviewInv, WebviewTypes, MediatorsAreTyped, HandlersAreTyped, PagesAreTyped, Webviews

LEMMA DisposeTransportKeeps ==
  ASSUME WebviewInv, NEW t \in Transports, DisposeTransport(t)
  PROVE  WebviewInv'
<1>1. /\ mediators' = [mediators EXCEPT ![t].listening = FALSE]
      /\ UNCHANGED <<controllers, extensionHandler, pages>>
  BY DEF DisposeTransport
<1>2. mediators \in [Transports -> [managed : SUBSET Instances, listening : BOOLEAN]]
  BY DEF WebviewInv, WebviewTypes, MediatorsAreTyped
<1>3. /\ MediatorsAreTyped'
      /\ \A u \in Transports : /\ mediators'[u].managed = mediators[u].managed
                               /\ mediators'[u].listening => mediators[u].listening
  BY <1>1, <1>2 DEF MediatorsAreTyped
<1>4. HandlersHaveABus'
  BY <1>1, <1>3, InstancesKnown DEF WebviewInv, HandlersHaveABus, hasBus
<1>5. GoneInstancesAreReleased'
  BY <1>1, <1>3, InstancesKnown DEF WebviewInv, GoneInstancesAreReleased, mediator
<1> QED
  BY <1>1, <1>3, <1>4, <1>5
     DEF WebviewInv, WebviewTypes, ControllersAreTyped, HandlersAreTyped, PagesAreTyped

\* A page whose state changes.
turned(i, x) == [pages EXCEPT ![i].state = x]

LEMMA PageMoves ==
  ASSUME PagesAreTyped, NEW i \in Instances, NEW x \in {"new", "open", "closed"}
  PROVE  LET ps == turned(i, x) IN
         /\ ps = [j \in Instances |-> [state |-> ps[j].state, theme |-> ps[j].theme,
                                       served |-> ps[j].served]]
         /\ ps[i].state = x
         /\ \A j \in Instances \ {i} : ps[j] = pages[j]
         /\ \A j \in Instances : ps[j].state \in {"new", "open", "closed"}
<1> DEFINE ps == turned(i, x)
<1>1. /\ pages = [j \in Instances |-> [state |-> pages[j].state, theme |-> pages[j].theme,
                                       served |-> pages[j].served]]
      /\ \A j \in Instances : pages[j].state \in {"new", "open", "closed"}
  BY DEF PagesAreTyped
<1>2. DOMAIN pages = Instances
  BY <1>1
<1>3. /\ ps = [pages EXCEPT ![i] = [pages[i] EXCEPT !.state = x]]
      /\ pages[i] = [state |-> pages[i].state, theme |-> pages[i].theme,
                     served |-> pages[i].served]
  BY <1>1 DEF turned
<1> HIDE DEF ps
<1>4. [pages[i] EXCEPT !.state = x] = [state |-> x, theme |-> pages[i].theme,
                                       served |-> pages[i].served]
  BY <1>3
<1>5. /\ DOMAIN ps = Instances
      /\ ps[i] = [state |-> x, theme |-> pages[i].theme, served |-> pages[i].served]
      /\ \A j \in Instances \ {i} : ps[j] = pages[j]
  BY <1>2, <1>3, <1>4
<1>6. ps = [j \in Instances |-> ps[j]]
  BY <1>3, <1>2
<1>7. \A j \in Instances : ps[j] = [state |-> ps[j].state, theme |-> ps[j].theme,
                                    served |-> ps[j].served]
  BY <1>1, <1>5
<1> QED
  BY <1>1, <1>5, <1>6, <1>7 DEF ps

LEMMA ConnectKeeps ==
  ASSUME WebviewInv, NEW i \in Instances, Connect(i)
  PROVE  WebviewInv'
<1> DEFINE w == WebviewOf[i]
           t == TransportOf[i]
<1>1. /\ WebviewTypes /\ HandlersHaveABus /\ GoneInstancesAreReleased
      /\ w \in Webviews /\ t \in Transports /\ i # Nobody
  BY InstancesKnown DEF WebviewInv
<1>2. PagesAreTyped /\ pages[i].state = "new"
  BY <1>1 DEF WebviewTypes, Connect, arrives
<1>3. PICK b : pages' = [pages EXCEPT ![i].state = "open", ![i].served = b]
  BY DEF Connect
<1>4. /\ PagesAreTyped'
      /\ pages'[i].state = "open"
      /\ \A j \in Instances \ {i} : pages'[j] = pages[j]
  <2> DEFINE ps == turned(i, "open")
  <2>2. /\ ps = [j \in Instances |-> [state |-> ps[j].state, theme |-> ps[j].theme,
                                      served |-> ps[j].served]]
        /\ ps[i].state = "open"
        /\ \A j \in Instances \ {i} : ps[j] = pages[j]
        /\ \A j \in Instances : ps[j].state \in {"new", "open", "closed"}
    BY <1>2, PageMoves
  <2>3. pages' = [ps EXCEPT ![i].served = b]
    BY <1>3 DEF turned
  <2>4. /\ pages'[i] = [state |-> ps[i].state, theme |-> ps[i].theme, served |-> b]
        /\ \A j \in Instances \ {i} : pages'[j] = ps[j]
        /\ pages' = [j \in Instances |-> pages'[j]]
    BY <2>2, <2>3
  <2>5. \A j \in Instances : pages'[j] = [state |-> pages'[j].state, theme |-> pages'[j].theme,
                                          served |-> pages'[j].served]
    BY <2>2, <2>4
  <2> QED
    BY <2>2, <2>4, <2>5 DEF PagesAreTyped
<1>5. CASE ~mediators[t].listening
  <2>1. UNCHANGED <<mediators, controllers, extensionHandler>>
    BY <1>5 DEF Connect, mediator
  <2>2. GoneInstancesAreReleased'
    BY <1>1, <1>4, <2>1 DEF GoneInstancesAreReleased, mediator
  <2> QED
    BY <1>1, <1>4, <2>1, <2>2
       DEF WebviewInv, WebviewTypes, HandlersHaveABus, hasBus, MediatorsAreTyped,
           ControllersAreTyped, HandlersAreTyped
<1>6. CASE mediators[t].listening
  <2>1. /\ mediators' = [mediators EXCEPT ![t].managed = @ \cup {i}]
        /\ controllers' = [controllers EXCEPT ![w] =
             [c \in DOMAIN controllers[w] |-> controllers[w][c] \cup {i}]]
        /\ extensionHandler' = [extensionHandler EXCEPT ![w] =
             IF controllers[w] = <<>> THEN extensionHandler[w] ELSE i]
    BY <1>6 DEF Connect, mediator
  <2>2. /\ mediators \in [Transports -> [managed : SUBSET Instances, listening : BOOLEAN]]
        /\ controllers \in [Webviews -> Seq(SUBSET Instances)]
        /\ extensionHandler \in [Webviews -> Instances \cup {Nobody}]
    BY <1>1 DEF WebviewTypes, MediatorsAreTyped, ControllersAreTyped, HandlersAreTyped
  <2>3. /\ MediatorsAreTyped'
        /\ \A u \in Transports : /\ mediators'[u].listening = mediators[u].listening
                                 /\ mediators'[u].managed \subseteq mediators[u].managed \cup {i}
    BY <1>1, <2>1, <2>2 DEF MediatorsAreTyped
  <2>4. /\ controllers[w] \in Seq(SUBSET Instances)
        /\ controllers'[w] = [c \in DOMAIN controllers[w] |-> controllers[w][c] \cup {i}]
        /\ \A v \in Webviews \ {w} : controllers'[v] = controllers[v]
    BY <1>1, <2>1, <2>2
  <2>5. \A c \in DOMAIN controllers[w] : controllers[w][c] \in SUBSET Instances
    BY <2>4, ElementOfSeq, LenProperties
  <2>6. controllers'[w] \in [DOMAIN controllers[w] -> SUBSET Instances]
    BY <2>4, <2>5
  <2>7. controllers'[w] \in Seq(SUBSET Instances) /\ DOMAIN controllers'[w] = DOMAIN controllers[w]
    BY <2>4, <2>6, ServedIsSeq
  <2>8. ControllersAreTyped'
    BY <2>1, <2>2, <2>7 DEF ControllersAreTyped, Webviews
  <2>9. /\ extensionHandler'[w] = IF controllers[w] = <<>> THEN extensionHandler[w] ELSE i
        /\ \A v \in Webviews \ {w} : extensionHandler'[v] = extensionHandler[v]
        /\ HandlersAreTyped'
    BY <1>1, <2>1, <2>2 DEF HandlersAreTyped, Webviews
  <2>10. \A j \in Instances : hasBus(j) => hasBus(j)'
    BY <2>4, <2>7, InstancesKnown DEF hasBus
  <2>11. \A j \in Instances \ {i} : hasBus(j)' => hasBus(j)
    BY <2>4, <2>7, InstancesKnown DEF hasBus
  <2>12. controllers[w] # <<>> => hasBus(i)'
    <3>1. SUFFICES ASSUME controllers[w] # <<>> PROVE hasBus(i)'
      OBVIOUS
    <3>2. 1 \in DOMAIN controllers[w]
      BY <2>4, <3>1, EmptySeq, LenProperties
    <3> QED
      BY <2>4, <2>7, <3>2 DEF hasBus
  <2>13. HandlersHaveABus'
    <3> SUFFICES ASSUME NEW j \in Instances, mediators'[TransportOf[j]].listening,
                        extensionHandler'[WebviewOf[j]] = j
                 PROVE  hasBus(j)'
      BY DEF HandlersHaveABus
    <3>1. CASE extensionHandler[WebviewOf[j]] = j
      BY <1>1, <2>3, <2>10, <3>1, InstancesKnown DEF HandlersHaveABus
    <3>2. CASE extensionHandler[WebviewOf[j]] # j
      BY <1>1, <2>9, <2>12, <3>2, InstancesKnown
    <3> QED
      BY <3>1, <3>2
  <2>14. GoneInstancesAreReleased'
    <3> SUFFICES ASSUME NEW j \in Instances, mediators'[TransportOf[j]].listening,
                        pages'[j].state = "closed"
                 PROVE  /\ j \notin mediators'[TransportOf[j]].managed
                        /\ \A c \in DOMAIN controllers'[WebviewOf[j]] :
                             j \notin controllers'[WebviewOf[j]][c]
                        /\ extensionHandler'[WebviewOf[j]] # j
      BY DEF GoneInstancesAreReleased, mediator
    <3>1. j # i /\ pages[j].state = "closed" /\ mediators[TransportOf[j]].listening
      BY <1>4, <2>3, InstancesKnown
    <3>2. /\ j \notin mediators[TransportOf[j]].managed /\ ~hasBus(j)
          /\ extensionHandler[WebviewOf[j]] # j
      BY <1>1, <3>1 DEF GoneInstancesAreReleased, hasBus, mediator
    <3>3. ~hasBus(j)'
      BY <2>11, <3>1, <3>2
    <3> QED
      BY <2>3, <2>9, <3>1, <3>2, <3>3, InstancesKnown DEF hasBus
  <2> QED
    BY <1>4, <2>3, <2>8, <2>9, <2>13, <2>14 DEF WebviewInv, WebviewTypes
<1> QED
  BY <1>5, <1>6

LEMMA DisconnectKeeps ==
  ASSUME WebviewInv, NEW i \in Instances, Disconnect(i)
  PROVE  WebviewInv'
<1> DEFINE w == WebviewOf[i]
           t == TransportOf[i]
<1>1. /\ WebviewTypes /\ HandlersHaveABus /\ GoneInstancesAreReleased
      /\ w \in Webviews /\ t \in Transports /\ i # Nobody
  BY InstancesKnown DEF WebviewInv
<1>2. PagesAreTyped /\ pages' = turned(i, "closed")
  BY <1>1 DEF WebviewTypes, Disconnect, turned
<1>3. /\ PagesAreTyped'
      /\ pages'[i].state = "closed"
      /\ \A j \in Instances \ {i} : pages'[j] = pages[j]
  BY <1>2, PageMoves DEF PagesAreTyped
<1>4. CASE ~mediators[t].listening
  <2>1. UNCHANGED <<mediators, controllers, extensionHandler>>
    BY <1>4 DEF Disconnect, mediator
  <2>2. GoneInstancesAreReleased'
    BY <1>1, <1>3, <1>4, <2>1 DEF GoneInstancesAreReleased, mediator
  <2> QED
    BY <1>1, <1>3, <2>1, <2>2
       DEF WebviewInv, WebviewTypes, HandlersHaveABus, hasBus, MediatorsAreTyped,
           ControllersAreTyped, HandlersAreTyped
<1>5. CASE mediators[t].listening
  <2>1. /\ mediators' = [mediators EXCEPT ![t].managed = @ \ {i}]
        /\ controllers' = [controllers EXCEPT ![w] =
             [c \in DOMAIN controllers[w] |-> controllers[w][c] \ {i}]]
        /\ extensionHandler' = [extensionHandler EXCEPT ![w] =
             IF hasBus(i) THEN Nobody ELSE extensionHandler[w]]
    BY <1>5 DEF Disconnect, mediator, dropInstance
  <2>2. /\ mediators \in [Transports -> [managed : SUBSET Instances, listening : BOOLEAN]]
        /\ controllers \in [Webviews -> Seq(SUBSET Instances)]
        /\ extensionHandler \in [Webviews -> Instances \cup {Nobody}]
    BY <1>1 DEF WebviewTypes, MediatorsAreTyped, ControllersAreTyped, HandlersAreTyped
  <2>3. /\ MediatorsAreTyped'
        /\ i \notin mediators'[t].managed
        /\ \A u \in Transports : /\ mediators'[u].listening = mediators[u].listening
                                 /\ mediators'[u].managed \subseteq mediators[u].managed
    BY <1>1, <2>1, <2>2 DEF MediatorsAreTyped
  <2>4. /\ controllers[w] \in Seq(SUBSET Instances)
        /\ controllers'[w] = [c \in DOMAIN controllers[w] |-> controllers[w][c] \ {i}]
        /\ \A v \in Webviews \ {w} : controllers'[v] = controllers[v]
    BY <1>1, <2>1, <2>2
  <2>5. \A c \in DOMAIN controllers[w] : controllers[w][c] \in SUBSET Instances
    BY <2>4, ElementOfSeq, LenProperties
  <2>6. controllers'[w] \in [DOMAIN controllers[w] -> SUBSET Instances]
    BY <2>4, <2>5
  <2>7. controllers'[w] \in Seq(SUBSET Instances) /\ DOMAIN controllers'[w] = DOMAIN controllers[w]
    BY <2>4, <2>6, ServedIsSeq
  <2>8. ControllersAreTyped'
    BY <2>1, <2>2, <2>7 DEF ControllersAreTyped, Webviews
  <2>9. /\ extensionHandler'[w] = IF hasBus(i) THEN Nobody ELSE extensionHandler[w]
        /\ \A v \in Webviews \ {w} : extensionHandler'[v] = extensionHandler[v]
        /\ HandlersAreTyped'
    BY <1>1, <2>1, <2>2 DEF HandlersAreTyped, Webviews
  <2>10. \A j \in Instances \ {i} : hasBus(j) <=> hasBus(j)'
    BY <2>4, <2>7, InstancesKnown DEF hasBus
  <2>11. ~hasBus(i)'
    BY <2>4, <2>7 DEF hasBus
  <2>12. extensionHandler'[w] # i
    BY <1>1, <1>5, <2>9 DEF HandlersHaveABus
  <2>13. \A j \in Instances : extensionHandler'[WebviewOf[j]] = j => extensionHandler[WebviewOf[j]] = j
    BY <2>9, InstancesKnown
  <2>14. HandlersHaveABus'
    BY <1>1, <2>3, <2>10, <2>12, <2>13, InstancesKnown DEF HandlersHaveABus
  <2>15. GoneInstancesAreReleased'
    <3> SUFFICES ASSUME NEW j \in Instances, mediators'[TransportOf[j]].listening,
                        pages'[j].state = "closed"
                 PROVE  /\ j \notin mediators'[TransportOf[j]].managed
                        /\ \A c \in DOMAIN controllers'[WebviewOf[j]] :
                             j \notin controllers'[WebviewOf[j]][c]
                        /\ extensionHandler'[WebviewOf[j]] # j
      BY DEF GoneInstancesAreReleased, mediator
    <3>1. CASE j = i
      BY <2>3, <2>11, <2>12, <3>1 DEF hasBus
    <3>2. CASE j # i
      <4>1. pages[j].state = "closed" /\ mediators[TransportOf[j]].listening
        BY <1>3, <2>3, <3>2, InstancesKnown
      <4>2. /\ j \notin mediators[TransportOf[j]].managed /\ ~hasBus(j)
            /\ extensionHandler[WebviewOf[j]] # j
        BY <1>1, <4>1 DEF GoneInstancesAreReleased, hasBus, mediator
      <4>3. ~hasBus(j)'
        BY <2>10, <3>2, <4>2
      <4> QED
        BY <2>3, <2>13, <4>2, <4>3, InstancesKnown DEF hasBus
    <3> QED
      BY <3>1, <3>2
  <2> QED
    BY <1>3, <2>3, <2>8, <2>9, <2>14, <2>15 DEF WebviewInv, WebviewTypes
<1> QED
  BY <1>4, <1>5

LEMMA PageGetsThemeKeeps ==
  ASSUME WebviewInv, NEW i \in Instances, PageGetsTheme(i)
  PROVE  WebviewInv'
<1>1. PICK x : pages' = [pages EXCEPT ![i].theme = x]
  BY DEF PageGetsTheme
<1>2. PagesAreTyped
  BY DEF WebviewInv, WebviewTypes
<1>3. /\ pages' = [j \in Instances |-> pages'[j]]
      /\ pages'[i] = [state |-> pages[i].state, theme |-> x, served |-> pages[i].served]
      /\ \A j \in Instances \ {i} : pages'[j] = pages[j]
  BY <1>1, <1>2 DEF PagesAreTyped
<1>4. /\ \A j \in Instances : pages'[j].state = pages[j].state
      /\ \A j \in Instances : pages'[j] = [state |-> pages'[j].state, theme |-> pages'[j].theme,
                                           served |-> pages'[j].served]
  BY <1>2, <1>3 DEF PagesAreTyped
<1>5. PagesAreTyped'
  BY <1>2, <1>3, <1>4 DEF PagesAreTyped
<1> QED
  BY <1>4, <1>5, WebviewFrame DEF PageGetsTheme

LEMMA WebviewStep == WebviewInv /\ [WebviewNext]_webviewVars => WebviewInv'
<1> SUFFICES ASSUME WebviewInv, [WebviewNext]_webviewVars
             PROVE  WebviewInv'
  OBVIOUS
<1>1. CASE UNCHANGED <<mediators, controllers, extensionHandler, pages>>
  <2>1. PagesAreTyped'
    BY <1>1 DEF WebviewInv, WebviewTypes, PagesAreTyped
  <2> QED
    BY <1>1, <2>1, WebviewFrame
<1>2. ASSUME NEW w \in Webviews, UnregisterPlugin(w)
      PROVE  WebviewInv'
  BY <1>1, <1>2 DEF UnregisterPlugin
<1>3. ASSUME NEW i \in Instances, PageRequest(i) \/ PluginRequest(i)
      PROVE  WebviewInv'
  BY <1>1, <1>3 DEF PageRequest, PluginRequest
<1>4. ASSUME NEW new \in Themes, ThemeChanges(new)
      PROVE  WebviewInv'
  BY <1>1, <1>4 DEF ThemeChanges
<1>5. ASSUME NEW r \in DOMAIN webRequests,
             PluginAnswers(r) \/ PageGetsAnswer(r) \/ PageAnswers(r) \/ Timeout(r)
      PROVE  WebviewInv'
  BY <1>1, <1>5 DEF PluginAnswers, PageGetsAnswer, PageAnswers, Timeout
<1>6. CASE UNCHANGED webviewVars
  BY <1>1, <1>6 DEF webviewVars
<1> QED
  BY <1>2, <1>3, <1>4, <1>5, <1>6, RegisterPluginKeeps, DisposeTransportKeeps, ConnectKeeps,
     DisconnectKeeps, PageGetsThemeKeeps DEF WebviewNext

\* The webviews' inductive invariant: what the runtime keeps of instances,
\* mediators and controllers belongs to something that is there, and whoever
\* handles messages of an instance has the bus of its plugin.
THEOREM WebviewTyped == WebviewSpec => []WebviewInv
BY WebviewInitInv, WebviewStep, PTL DEF WebviewSpec

\* Once an instance has left a transport that is served, no mediator, controller
\* or handler of the server is for it.
THEOREM GoneInstancesAreReleasedCorrect == WebviewSpec => []GoneInstancesAreReleased
<1>1. WebviewInv => GoneInstancesAreReleased
  BY DEF WebviewInv
<1> QED
  BY <1>1, WebviewTyped, PTL
-----------------------------------------------------------------------------
(* The workflow's pages.                                                   *)

Routes == {"index", "new", "show"}
Workflows == {None} \cup 1 .. sent

SitesOf(workflows) ==
  [route : Routes, docker : BOOLEAN, project : BOOLEAN, goal : BOOLEAN, error : Errors \cup {None},
   creating : BOOLEAN, workflow : workflows, loading : BOOLEAN]

PagesTypes ==
  /\ sent \in Nat \ {0}
  /\ site \in SitesOf(Workflows)
  /\ health \in [loading : BOOLEAN, valid : BOOLEAN, enabled : BOOLEAN]
  /\ list = [loading |-> list.loading, shown |-> list.shown] /\ list.loading \in BOOLEAN
  /\ lost \in [health : BOOLEAN, repeated : BOOLEAN]

\* A request to create a workflow gives it a number that no other request and no
\* page has: unless the page was opened with a goal.
StartsAreNew ==
  /\ \A r \in asked : r.kind \in {"start", "show"} => r.of \in Workflows
  /\ \A r \in asked : r.kind = "start" => /\ r = [kind |-> "start", id |-> r.id, of |-> r.id]
                                          /\ r.of # None
                                          /\ ~site.goal => r.of # 1 /\ r.of # site.workflow
  /\ \A r, q \in asked : ~site.goal /\ r.kind = "start" /\ q.kind = "show" => r.of # q.of

\* Nothing is asked about a project that is not known.
ProjectComesFirst ==
  /\ Project \in asked => ~site.project /\ health.valid
  /\ ~site.project => /\ \A r \in asked : r.kind \notin {"list", "health"}
                      /\ ~list.loading /\ list.shown = 0

HealthIsAwaited == health.loading => lost.health \/ \E r \in asked : r.kind = "health"

ListIsAwaited ==
  mounted("index") /\ list.loading => lost.repeated \/ \E r \in asked : r.kind = "list"

StartIsAwaited ==
  mounted("new") /\ site.creating =>
    lost.repeated \/ site.goal \/ \E r \in asked : r.kind = "start"

PagesInv == /\ PagesTypes /\ StartsAreNew /\ ProjectComesFirst
            /\ HealthIsAwaited /\ ListIsAwaited /\ StartIsAwaited

LEMMA PagesInitInv == PagesInit => PagesInv
<1> SUFFICES ASSUME PagesInit PROVE PagesInv
  OBVIOUS
<1>1. PICK goal \in BOOLEAN :
        site = [route |-> IF goal THEN "new" ELSE "index", docker |-> FALSE, project |-> FALSE,
                goal |-> goal, error |-> None, creating |-> FALSE, workflow |-> None,
                loading |-> FALSE]
  BY DEF PagesInit
<1>2. /\ health = [loading |-> FALSE, valid |-> TRUE, enabled |-> TRUE]
      /\ list = [loading |-> FALSE, shown |-> 0]
      /\ sent = 1 /\ lost = [health |-> FALSE, repeated |-> FALSE]
      /\ asked = {Project} \cup IF site.goal THEN {[kind |-> "start", id |-> 1, of |-> 1]} ELSE {}
  BY DEF PagesInit
<1>3. PagesTypes
  BY <1>1, <1>2 DEF PagesTypes, SitesOf, Routes, Workflows
<1>4. \A r \in asked : \/ r.kind = "project"
                       \/ site.goal /\ r = [kind |-> "start", id |-> 1, of |-> 1]
  BY <1>2 DEF Project
<1>5. StartsAreNew
  BY <1>2, <1>4, NoneIsNoWorkflow DEF StartsAreNew, Workflows
<1>6. ProjectComesFirst
  BY <1>1, <1>2, <1>4 DEF ProjectComesFirst
<1>7. HealthIsAwaited /\ ListIsAwaited /\ StartIsAwaited
  BY <1>1, <1>2 DEF HealthIsAwaited, ListIsAwaited, StartIsAwaited
<1> QED
  BY <1>3, <1>5, <1>6, <1>7 DEF PagesInv

\* What Mount does, field by field.
LEMMA MountFields ==
  ASSUME NEW s \in SitesOf(Workflows), NEW rest, PagesTypes, Mount(s, rest)
  PROVE  /\ site' \in SitesOf(Workflows)
         /\ site'.route = s.route /\ site'.docker = s.docker /\ site'.project = s.project
         /\ site'.goal = s.goal /\ site'.workflow = s.workflow
         /\ site'.creating => s.route = "new" /\ s.goal
         /\ list' = [loading |-> list'.loading, shown |-> list'.shown]
         /\ list'.loading \in BOOLEAN /\ list'.shown = list.shown
         /\ list'.loading => list.loading \/ (s.route = "index" /\ s.project)
         /\ sent' = sent + 1
         /\ rest \subseteq asked'
         /\ \A q \in asked' : \/ q \in rest
                              \/ q.kind = "list" /\ s.project
                              \/ q.kind = "show" /\ q.of = s.workflow
         /\ s.route = "index" /\ s.project => \E q \in asked' : q.kind = "list"
<1>1. /\ site' = [s EXCEPT !.creating = s.route = "new" /\ s.goal,
                           !.loading = s.loading \/ s.route = "show"]
      /\ list' = [list EXCEPT !.loading = list.loading \/ getsUserWorkflows(s)]
      /\ asked' = rest \cup mounts(s)
      /\ sent' = sent + 1
  BY DEF Mount
<1>2. /\ site' \in SitesOf(Workflows)
      /\ site'.route = s.route /\ site'.docker = s.docker /\ site'.project = s.project
      /\ site'.goal = s.goal /\ site'.workflow = s.workflow
      /\ site'.creating => s.route = "new" /\ s.goal
  BY <1>1 DEF SitesOf
<1>3. /\ list' = [loading |-> list'.loading, shown |-> list'.shown]
      /\ list'.loading \in BOOLEAN /\ list'.shown = list.shown
      /\ list'.loading => list.loading \/ (s.route = "index" /\ s.project)
  BY <1>1 DEF PagesTypes, getsUserWorkflows, SitesOf
<1>4. \A q \in mounts(s) : \/ q.kind = "list" /\ s.project
                           \/ q.kind = "show" /\ q.of = s.workflow
  BY DEF mounts, request, getsUserWorkflows
<1>5. s.route = "index" /\ s.project => \E q \in mounts(s) : q.kind = "list"
  BY DEF mounts, request, getsUserWorkflows
<1> QED
  BY <1>1, <1>2, <1>3, <1>4, <1>5

\* Mounting a page keeps everything awaited, whatever becomes of the requests of
\* the page that was there before.
LEMMA MountKeeps ==
  ASSUME PagesInv, NEW s \in SitesOf(Workflows), NEW rest, Mount(s, rest),
         s.goal = site.goal, site.project => s.project,
         \A q \in rest : q \in asked \/ q.kind = "watch",
         \A q \in rest : q.kind = "start" /\ ~s.goal => q.of # s.workflow,
         Project \in rest => ~s.project /\ health'.valid,
         health' \in [loading : BOOLEAN, valid : BOOLEAN, enabled : BOOLEAN],
         health'.loading => lost.health \/ \E q \in rest : q.kind = "health",
         lost' = lost
  PROVE  PagesInv'
<1>1. /\ PagesTypes /\ StartsAreNew /\ ProjectComesFirst
      /\ HealthIsAwaited /\ ListIsAwaited /\ StartIsAwaited
  BY DEF PagesInv
<1>2. /\ site' \in SitesOf(Workflows)
      /\ site'.route = s.route /\ site'.docker = s.docker /\ site'.project = s.project
      /\ site'.goal = s.goal /\ site'.workflow = s.workflow
      /\ site'.creating => s.route = "new" /\ s.goal
      /\ list' = [loading |-> list'.loading, shown |-> list'.shown]
      /\ list'.loading \in BOOLEAN /\ list'.shown = list.shown
      /\ list'.loading => list.loading \/ (s.route = "index" /\ s.project)
      /\ sent' = sent + 1
      /\ rest \subseteq asked'
      /\ \A q \in asked' : \/ q \in rest
                           \/ q.kind = "list" /\ s.project
                           \/ q.kind = "show" /\ q.of = s.workflow
      /\ s.route = "index" /\ s.project => \E q \in asked' : q.kind = "list"
  BY <1>1, MountFields
<1>3. Workflows \subseteq Workflows' /\ sent' \in Nat \ {0}
  BY <1>1, <1>2 DEF Workflows, PagesTypes
<1>4. PagesTypes'
  BY <1>1, <1>2, <1>3 DEF PagesTypes, SitesOf
<1>5. s.workflow \in Workflows /\ s.project \in BOOLEAN /\ s.goal \in BOOLEAN
  BY DEF SitesOf
<1>6. StartsAreNew'
  BY <1>1, <1>2, <1>3, <1>5 DEF StartsAreNew
<1>7. ProjectComesFirst'
  BY <1>1, <1>2, <1>5 DEF ProjectComesFirst, Project
<1>8. HealthIsAwaited'
  BY <1>2 DEF HealthIsAwaited
<1>9. ListIsAwaited'
  BY <1>1, <1>2, <1>5 DEF ListIsAwaited, ProjectComesFirst, mounted
<1>10. StartIsAwaited'
  BY <1>2 DEF StartIsAwaited
<1> QED
  BY <1>4, <1>6, <1>7, <1>8, <1>9, <1>10 DEF PagesInv

LEMMA DockerReadyKeeps == PagesInv /\ DockerReady => PagesInv'
<1> SUFFICES ASSUME PagesInv, DockerReady PROVE PagesInv'
  OBVIOUS
<1> DEFINE s == [site EXCEPT !.docker = TRUE]
<1>1. /\ PagesTypes /\ StartsAreNew /\ ProjectComesFirst
      /\ HealthIsAwaited /\ ListIsAwaited /\ StartIsAwaited
  BY DEF PagesInv
<1>2. /\ s \in SitesOf(Workflows)
      /\ s.goal = site.goal /\ s.project = site.project /\ s.route = site.route
      /\ s.workflow = site.workflow /\ s.creating = site.creating
  BY <1>1 DEF PagesTypes, SitesOf
<1>3. /\ UNCHANGED <<health, lost>>
      /\ \/ Mount(s, asked)
         \/ /\ ~isDuoWorkflowEnabled(s, health)
            /\ site' = s /\ UNCHANGED <<list, asked, sent>>
  BY DEF DockerReady
<1> HIDE DEF s
<1>4. CASE Mount(s, asked)
  <2>1. /\ \A q \in asked : q.kind = "start" /\ ~s.goal => q.of # s.workflow
        /\ Project \in asked => ~s.project /\ health'.valid
        /\ health' \in [loading : BOOLEAN, valid : BOOLEAN, enabled : BOOLEAN]
        /\ health'.loading => lost.health \/ \E q \in asked : q.kind = "health"
        /\ lost' = lost
    BY <1>1, <1>2, <1>3 DEF StartsAreNew, ProjectComesFirst, HealthIsAwaited, PagesTypes
  <2>2. \A q \in asked : q \in asked \/ q.kind = "watch"
    OBVIOUS
  <2> QED
    BY <1>2, <1>4, <2>1, <2>2, MountKeeps
<1>5. CASE /\ ~isDuoWorkflowEnabled(s, health)
           /\ site' = s /\ UNCHANGED <<list, asked, sent>>
  <2>1. ~mounted("index")' /\ ~mounted("new")'
    BY <1>3, <1>5 DEF mounted
  <2>2. PagesTypes' /\ StartsAreNew' /\ ProjectComesFirst' /\ HealthIsAwaited'
    BY <1>1, <1>2, <1>3, <1>5
       DEF PagesTypes, StartsAreNew, Workflows, ProjectComesFirst, HealthIsAwaited
  <2> QED
    BY <2>1, <2>2 DEF PagesInv, ListIsAwaited, StartIsAwaited
<1> QED
  BY <1>3, <1>4, <1>5

LEMMA SetProjectPathKeeps ==
  ASSUME PagesInv, NEW known \in BOOLEAN, SetProjectPath(known)
  PROVE  PagesInv'
<1> DEFINE s == [site EXCEPT !.project = known]
           rest == asked \ {Project}
<1>1. /\ PagesTypes /\ StartsAreNew /\ ProjectComesFirst
      /\ HealthIsAwaited /\ ListIsAwaited /\ StartIsAwaited
  BY DEF PagesInv
<1>2. /\ s \in SitesOf(Workflows)
      /\ s.goal = site.goal /\ s.project = known /\ s.route = site.route
      /\ s.workflow = site.workflow /\ s.creating = site.creating /\ s.docker = site.docker
  BY <1>1 DEF PagesTypes, SitesOf
<1>3. /\ Project \in asked /\ ~site.project /\ health.valid
      /\ health' = [health EXCEPT !.valid = known] /\ lost' = lost
      /\ \/ known /\ Mount(s, rest)
         \/ /\ ~(known /\ mounted("index"))
            /\ site' = s /\ asked' = rest /\ UNCHANGED <<list, sent>>
  BY <1>1 DEF SetProjectPath, ProjectComesFirst
<1>4. /\ health' \in [loading : BOOLEAN, valid : BOOLEAN, enabled : BOOLEAN]
      /\ health'.loading = health.loading /\ health'.enabled = health.enabled
      /\ health'.valid = known
  BY <1>1, <1>3 DEF PagesTypes
<1>5. health'.loading => lost.health \/ \E q \in rest : q.kind = "health"
  BY <1>1, <1>4 DEF HealthIsAwaited, Project
<1> HIDE DEF s
<1>6. CASE known /\ Mount(s, rest)
  <2>1. /\ \A q \in rest : q.kind = "start" /\ ~s.goal => q.of # s.workflow
        /\ Project \notin rest
        /\ \A q \in rest : q \in asked \/ q.kind = "watch"
    BY <1>1, <1>2 DEF StartsAreNew
  <2> HIDE DEF rest
  <2> QED
    BY <1>2, <1>3, <1>4, <1>5, <1>6, <2>1, MountKeeps
<1>7. CASE /\ ~(known /\ mounted("index"))
           /\ site' = s /\ asked' = rest /\ UNCHANGED <<list, sent>>
  <2>1. PagesTypes'
    BY <1>1, <1>2, <1>3, <1>4, <1>7 DEF PagesTypes, Workflows
  <2>2. StartsAreNew'
    BY <1>1, <1>2, <1>7 DEF StartsAreNew, Workflows
  <2>3. ProjectComesFirst'
    BY <1>1, <1>2, <1>3, <1>7 DEF ProjectComesFirst
  <2>4. HealthIsAwaited'
    BY <1>3, <1>5, <1>7 DEF HealthIsAwaited
  <2>5. ~mounted("index")'
    BY <1>2, <1>3, <1>4, <1>7 DEF mounted, isDuoWorkflowEnabled
  <2>6. mounted("new")' => mounted("new")
    BY <1>2, <1>3, <1>4, <1>7 DEF mounted, isDuoWorkflowEnabled
  <2>7. (\E r \in asked : r.kind = "start") => \E r \in rest : r.kind = "start"
    BY DEF Project
  <2>8. StartIsAwaited'
    BY <1>1, <1>2, <1>3, <1>7, <2>6, <2>7 DEF StartIsAwaited
  <2> QED
    BY <2>1, <2>2, <2>3, <2>4, <2>5, <2>8 DEF PagesInv, ListIsAwaited
<1> QED
  BY <1>3, <1>6, <1>7

LEMMA UpdateWorkflowsKeeps ==
  ASSUME PagesInv, NEW r \in asked, NEW empty \in BOOLEAN, UpdateWorkflows(r, empty)
  PROVE  PagesInv'
<1>1. /\ PagesTypes /\ StartsAreNew /\ ProjectComesFirst
      /\ HealthIsAwaited /\ ListIsAwaited /\ StartIsAwaited
  BY DEF PagesInv
<1>2. /\ r.kind = "list"
      /\ list' = [list EXCEPT !.loading = FALSE, !.shown = IF empty THEN 0 ELSE r.of]
      /\ health' = [health EXCEPT !.loading = health.loading \/ empty]
      /\ asked' = (asked \ {r}) \cup IF empty THEN {request("health", None)} ELSE {}
      /\ sent' = IF empty THEN sent + 1 ELSE sent
      /\ UNCHANGED <<site, lost>>
  BY DEF UpdateWorkflows, pending
<1>3. /\ site.project = TRUE /\ Project \notin asked
  BY <1>1, <1>2 DEF ProjectComesFirst, PagesTypes, SitesOf
<1>4. /\ list' = [loading |-> list'.loading, shown |-> list'.shown] /\ list'.loading = FALSE
      /\ health' \in [loading : BOOLEAN, valid : BOOLEAN, enabled : BOOLEAN]
      /\ health'.valid = health.valid /\ health'.enabled = health.enabled
      /\ health'.loading => health.loading \/ empty
  BY <1>1, <1>2 DEF PagesTypes
<1>5. /\ \A q \in asked' : q \in asked \/ q.kind = "health"
      /\ \A q \in asked : q.kind # "list" => q \in asked'
      /\ empty => \E q \in asked' : q.kind = "health"
  <2>1. request("health", None).kind = "health"
    BY DEF request
  <2>2. CASE empty
    <3>1. asked' = (asked \ {r}) \cup {request("health", None)}
      BY <1>2, <2>2
    <3> QED
      BY <1>2, <2>1, <3>1
  <2>3. CASE ~empty
    BY <1>2, <2>3
  <2> QED
    BY <2>2, <2>3
<1>6. Workflows \subseteq Workflows' /\ sent' \in Nat \ {0}
  BY <1>1, <1>2 DEF Workflows, PagesTypes
<1>7. PagesTypes'
  BY <1>1, <1>2, <1>4, <1>6 DEF PagesTypes, SitesOf
<1>8. StartsAreNew'
  BY <1>1, <1>2, <1>5, <1>6 DEF StartsAreNew
<1>9. ProjectComesFirst'
  BY <1>2, <1>3, <1>5 DEF ProjectComesFirst, Project
<1>10. HealthIsAwaited' /\ ListIsAwaited'
  BY <1>1, <1>2, <1>4, <1>5 DEF HealthIsAwaited, ListIsAwaited
<1>11. StartIsAwaited'
  BY <1>1, <1>2, <1>4, <1>5 DEF StartIsAwaited, mounted, isDuoWorkflowEnabled
<1> QED
  BY <1>7, <1>8, <1>9, <1>10, <1>11 DEF PagesInv

LEMMA SetHealthCheckDataKeeps ==
  ASSUME PagesInv, NEW r \in asked, NEW data, SetHealthCheckData(r, data)
  PROVE  PagesInv'
<1> DEFINE rest == asked \ {r}
<1>1. /\ PagesTypes /\ StartsAreNew /\ ProjectComesFirst
      /\ HealthIsAwaited /\ ListIsAwaited /\ StartIsAwaited
  BY DEF PagesInv
<1>2. /\ r.kind = "health"
      /\ health' = [loading |-> FALSE, valid |-> health.valid /\ data # "none",
                    enabled |-> IF data = "none" THEN health.enabled ELSE data = "enabled"]
      /\ lost' = lost
      /\ \/ Mount(site, rest)
         \/ /\ ~(isDuoWorkflowEnabled(site, health') /\ ~isDuoWorkflowEnabled(site, health))
            /\ asked' = rest /\ UNCHANGED <<site, list, sent>>
  BY DEF SetHealthCheckData, pending
<1>3. site.project = TRUE /\ Project \notin asked /\ site \in SitesOf(Workflows)
  BY <1>1, <1>2 DEF ProjectComesFirst, PagesTypes, SitesOf
<1>4. /\ health' \in [loading : BOOLEAN, valid : BOOLEAN, enabled : BOOLEAN]
      /\ health'.loading = FALSE
  BY <1>1, <1>2 DEF PagesTypes
<1>5. CASE Mount(site, rest)
  <2>1. /\ \A q \in rest : q.kind = "start" /\ ~site.goal => q.of # site.workflow
        /\ Project \notin rest
        /\ \A q \in rest : q \in asked \/ q.kind = "watch"
    BY <1>1, <1>3 DEF StartsAreNew
  <2> HIDE DEF rest
  <2> QED
    BY <1>2, <1>3, <1>4, <1>5, <2>1, MountKeeps
<1>6. CASE /\ ~(isDuoWorkflowEnabled(site, health') /\ ~isDuoWorkflowEnabled(site, health))
           /\ asked' = rest /\ UNCHANGED <<site, list, sent>>
  <2>1. PagesTypes'
    BY <1>1, <1>2, <1>4, <1>6 DEF PagesTypes, Workflows, SitesOf
  <2>2. StartsAreNew'
    BY <1>1, <1>6 DEF StartsAreNew, Workflows
  <2>3. ProjectComesFirst'
    BY <1>3, <1>6 DEF ProjectComesFirst
  <2>4. HealthIsAwaited'
    BY <1>4 DEF HealthIsAwaited
  <2>5. /\ mounted("index")' => mounted("index")
        /\ mounted("new")' => mounted("new")
    BY <1>6 DEF mounted
  <2>6. /\ (\E q \in asked : q.kind = "list") => \E q \in asked' : q.kind = "list"
        /\ (\E q \in asked : q.kind = "start") => \E q \in asked' : q.kind = "start"
    BY <1>2, <1>6
  <2>7. ListIsAwaited' /\ StartIsAwaited'
    BY <1>1, <1>2, <1>6, <2>5, <2>6 DEF ListIsAwaited, StartIsAwaited
  <2> QED
    BY <2>1, <2>2, <2>3, <2>4, <2>7 DEF PagesInv
<1> QED
  BY <1>2, <1>5, <1>6

LEMMA SetWorkflowStartedKeeps ==
  ASSUME PagesInv, NEW r \in asked, SetWorkflowStarted(r)
  PROVE  PagesInv'
<1> DEFINE s == [site EXCEPT !.workflow = r.of, !.loading = FALSE]
           t == [s EXCEPT !.route = "show"]
           watched == IF r.kind = "start" THEN {[r EXCEPT !.kind = "watch"]} ELSE {}
           rest == (asked \ {r}) \cup watched
<1>1. /\ PagesTypes /\ StartsAreNew /\ ProjectComesFirst
      /\ HealthIsAwaited /\ ListIsAwaited /\ StartIsAwaited
  BY DEF PagesInv
<1>2. /\ r.kind \in {"start", "show"} /\ UNCHANGED <<health, lost>>
      /\ \/ Mount(t, rest)
         \/ /\ ~(mounted("new") /\ r.of # site.workflow)
            /\ site' = s /\ asked' = rest /\ UNCHANGED <<list, sent>>
  BY DEF SetWorkflowStarted, pending
<1>3. r.of \in Workflows /\ (r.kind = "start" => r = [kind |-> "start", id |-> r.id, of |-> r.id])
  BY <1>1, <1>2 DEF StartsAreNew
<1>4. /\ s \in SitesOf(Workflows) /\ t \in SitesOf(Workflows)
      /\ s.goal = site.goal /\ s.project = site.project /\ s.route = site.route
      /\ s.docker = site.docker /\ s.workflow = r.of /\ s.creating = site.creating
      /\ t.goal = site.goal /\ t.project = site.project /\ t.workflow = r.of
  BY <1>1, <1>3 DEF PagesTypes, SitesOf, Routes
<1>5. \A q \in watched : q.kind = "watch"
  BY <1>3
<1>6. /\ \A q \in rest : (q \in asked /\ q # r) \/ q.kind = "watch"
      /\ asked \ {r} \subseteq rest
  BY <1>5
<1>7. /\ \A q \in rest : q.kind = "start" /\ ~site.goal => q.of # r.of
      /\ Project \in rest => Project \in asked
  <2>1. ASSUME NEW q \in rest, q.kind = "start", ~site.goal
        PROVE  q.of # r.of
    <3>1. q \in asked /\ q # r /\ q = [kind |-> "start", id |-> q.id, of |-> q.id]
      BY <1>1, <1>6, <2>1 DEF StartsAreNew
    <3>2. CASE r.kind = "start"
      BY <1>3, <3>1, <3>2
    <3>3. CASE r.kind = "show"
      BY <1>1, <2>1, <3>1, <3>3 DEF StartsAreNew
    <3> QED
      BY <1>2, <3>2, <3>3
  <2> QED
    BY <1>6, <2>1 DEF Project
<1>8. /\ health \in [loading : BOOLEAN, valid : BOOLEAN, enabled : BOOLEAN]
      /\ health.loading => lost.health \/ \E q \in rest : q.kind = "health"
      /\ Project \in rest => ~site.project /\ health.valid
  BY <1>1, <1>2, <1>6, <1>7 DEF PagesTypes, HealthIsAwaited, ProjectComesFirst
<1> HIDE DEF s, t, rest, watched
<1>9. CASE Mount(t, rest)
  BY <1>2, <1>4, <1>6, <1>7, <1>8, <1>9, MountKeeps
<1>10. CASE /\ ~(mounted("new") /\ r.of # site.workflow)
            /\ site' = s /\ asked' = rest /\ UNCHANGED <<list, sent>>
  <2>1. PagesTypes'
    BY <1>1, <1>2, <1>4, <1>10 DEF PagesTypes, Workflows
  <2>2. StartsAreNew'
    BY <1>1, <1>4, <1>6, <1>7, <1>10 DEF StartsAreNew, Workflows
  <2>3. ProjectComesFirst'
    BY <1>1, <1>2, <1>4, <1>6, <1>8, <1>10 DEF ProjectComesFirst
  <2>4. HealthIsAwaited'
    BY <1>2, <1>8, <1>10 DEF HealthIsAwaited
  <2>5. /\ mounted("index")' <=> mounted("index")
        /\ mounted("new")' <=> mounted("new")
    BY <1>2, <1>4, <1>10 DEF mounted, isDuoWorkflowEnabled
  <2>6. (\E q \in asked : q.kind = "list") => \E q \in rest : q.kind = "list"
    BY <1>2, <1>6
  <2>7. ListIsAwaited'
    BY <1>1, <1>2, <1>10, <2>5, <2>6 DEF ListIsAwaited
  <2>8. ASSUME mounted("new"), ~site.goal
        PROVE  r.kind # "start"
    BY <1>1, <1>10, <2>8 DEF StartsAreNew
  <2>9. StartIsAwaited'
    BY <1>1, <1>2, <1>4, <1>6, <1>10, <2>5, <2>8 DEF StartIsAwaited
  <2> QED
    BY <2>1, <2>2, <2>3, <2>4, <2>7, <2>9 DEF PagesInv
<1> QED
  BY <1>2, <1>9, <1>10

LEMMA ExecutorEndsKeeps ==
  ASSUME PagesInv, NEW r \in asked, ExecutorEnds(r)
  PROVE  PagesInv'
<1>1. /\ r.kind = "watch" /\ asked' = asked \ {r} /\ UNCHANGED <<site, health, list, sent, lost>>
  BY DEF ExecutorEnds, pending
<1>2. \A q \in asked : q.kind \in {"list", "health", "start"} => q \in asked'
  BY <1>1
<1> QED
  BY <1>1, <1>2 DEF PagesInv, PagesTypes, Workflows, StartsAreNew, ProjectComesFirst,
     HealthIsAwaited, ListIsAwaited, StartIsAwaited, mounted

\* An error, or its dismissal: the page that is mounted waits for nothing more,
\* unless the error was on display already.
LEMMA RequestErrorFields ==
  ASSUME PagesTypes, NEW error \in Errors \cup {None}, SetRequestError(error), health' = health
  PROVE  /\ site' \in SitesOf(Workflows)
         /\ site'.project = site.project /\ site'.goal = site.goal
         /\ site'.workflow = site.workflow
         /\ list' = [loading |-> list'.loading, shown |-> list'.shown]
         /\ list'.loading \in BOOLEAN /\ list'.shown = list.shown
         /\ list'.loading => list.loading
         /\ mounted("index")' <=> mounted("index")
         /\ mounted("new")' <=> mounted("new")
         /\ mounted("index") /\ error # site.error => ~list'.loading
         /\ mounted("new") /\ error # site.error => ~site'.creating
         /\ site'.creating => site.creating
<1>1. /\ site' = [site EXCEPT !.error = error,
                    !.creating = site.creating /\ ~(mounted("new") /\ error # site.error),
                    !.loading = site.loading /\ ~(mounted("show") /\ error # site.error)]
      /\ list' = [list EXCEPT !.loading =
                    list.loading /\ ~(mounted("index") /\ error # site.error)]
  BY DEF SetRequestError, onRequestError
<1>2. /\ site' \in SitesOf(Workflows)
      /\ site'.project = site.project /\ site'.goal = site.goal
      /\ site'.workflow = site.workflow /\ site'.route = site.route /\ site'.docker = site.docker
      /\ site'.creating <=> site.creating /\ ~(mounted("new") /\ error # site.error)
  BY <1>1 DEF PagesTypes, SitesOf
<1>3. /\ list' = [loading |-> list'.loading, shown |-> list'.shown]
      /\ list'.loading \in BOOLEAN /\ list'.shown = list.shown
      /\ list'.loading <=> list.loading /\ ~(mounted("index") /\ error # site.error)
  BY <1>1 DEF PagesTypes
<1>4. /\ mounted("index")' <=> mounted("index")
      /\ mounted("new")' <=> mounted("new")
  BY <1>2 DEF mounted, isDuoWorkflowEnabled
<1> QED
  BY <1>2, <1>3, <1>4

LEMMA RequestFailsKeeps ==
  ASSUME PagesInv, NEW r \in asked, NEW error \in Errors, RequestFails(r, error)
  PROVE  PagesInv'
<1>1. /\ PagesTypes /\ StartsAreNew /\ ProjectComesFirst
      /\ HealthIsAwaited /\ ListIsAwaited /\ StartIsAwaited
  BY DEF PagesInv
<1>2. /\ asked' = asked \ {r} /\ SetRequestError(error)
      /\ lost' = [health |-> lost.health \/ r.kind = "health",
                  repeated |-> lost.repeated \/ error = site.error]
      /\ UNCHANGED <<health, sent>>
  BY DEF RequestFails
<1>3. /\ site' \in SitesOf(Workflows)
      /\ site'.project = site.project /\ site'.goal = site.goal
      /\ site'.workflow = site.workflow
      /\ list' = [loading |-> list'.loading, shown |-> list'.shown]
      /\ list'.loading \in BOOLEAN /\ list'.shown = list.shown
      /\ list'.loading => list.loading
      /\ mounted("index")' <=> mounted("index")
      /\ mounted("new")' <=> mounted("new")
      /\ mounted("index") /\ error # site.error => ~list'.loading
      /\ mounted("new") /\ error # site.error => ~site'.creating
      /\ site'.creating => site.creating
  BY <1>1, <1>2, RequestErrorFields
<1>4. /\ lost' \in [health : BOOLEAN, repeated : BOOLEAN]
      /\ lost'.health <=> lost.health \/ r.kind = "health"
      /\ lost'.repeated <=> lost.repeated \/ error = site.error
  BY <1>1, <1>2 DEF PagesTypes
<1>5. PagesTypes' /\ StartsAreNew' /\ ProjectComesFirst'
  BY <1>1, <1>2, <1>3, <1>4 DEF PagesTypes, StartsAreNew, ProjectComesFirst, Workflows
<1>6. HealthIsAwaited'
  BY <1>1, <1>2, <1>4 DEF HealthIsAwaited
<1>7. ListIsAwaited'
  BY <1>1, <1>2, <1>3, <1>4 DEF ListIsAwaited
<1>8. StartIsAwaited'
  BY <1>1, <1>2, <1>3, <1>4 DEF StartIsAwaited
<1> QED
  BY <1>5, <1>6, <1>7, <1>8 DEF PagesInv

LEMMA DismissErrorKeeps == PagesInv /\ DismissError => PagesInv'
<1> SUFFICES ASSUME PagesInv, DismissError PROVE PagesInv'
  OBVIOUS
<1>1. /\ PagesTypes /\ StartsAreNew /\ ProjectComesFirst
      /\ HealthIsAwaited /\ ListIsAwaited /\ StartIsAwaited
  BY DEF PagesInv
<1>2. SetRequestError(None) /\ UNCHANGED <<health, asked, sent, lost>>
  BY DEF DismissError
<1>3. /\ site' \in SitesOf(Workflows)
      /\ site'.project = site.project /\ site'.goal = site.goal
      /\ site'.workflow = site.workflow
      /\ list' = [loading |-> list'.loading, shown |-> list'.shown]
      /\ list'.loading \in BOOLEAN /\ list'.shown = list.shown
      /\ list'.loading => list.loading
      /\ mounted("index")' <=> mounted("index")
      /\ mounted("new")' <=> mounted("new")
      /\ site'.creating => site.creating
  BY <1>1, <1>2, RequestErrorFields
<1>4. PagesTypes' /\ StartsAreNew' /\ ProjectComesFirst'
  BY <1>1, <1>2, <1>3 DEF PagesTypes, StartsAreNew, ProjectComesFirst, Workflows
<1>5. HealthIsAwaited' /\ ListIsAwaited' /\ StartIsAwaited'
  BY <1>1, <1>2, <1>3 DEF HealthIsAwaited, ListIsAwaited, StartIsAwaited
<1> QED
  BY <1>4, <1>5 DEF PagesInv

\* The user goes to another page.  Only one workflow is opened by its number, the
\* first, which no request of a page without a goal creates.
LEMMA NavigationKeeps ==
  ASSUME PagesInv, NEW s \in SitesOf(Workflows), Mount(s, asked), UNCHANGED <<health, lost>>,
         s.goal = site.goal, s.project = site.project,
         s.workflow \in {None, 1, site.workflow}
  PROVE  PagesInv'
<1>1. PagesTypes /\ StartsAreNew /\ ProjectComesFirst /\ HealthIsAwaited
  BY DEF PagesInv
<1>2. /\ \A q \in asked : q.kind = "start" /\ ~s.goal => q.of # s.workflow
      /\ Project \in asked => ~s.project /\ health'.valid
      /\ health' \in [loading : BOOLEAN, valid : BOOLEAN, enabled : BOOLEAN]
      /\ health'.loading => lost.health \/ \E q \in asked : q.kind = "health"
      /\ lost' = lost
  BY <1>1 DEF StartsAreNew, ProjectComesFirst, HealthIsAwaited, PagesTypes
<1>3. \A q \in asked : q \in asked \/ q.kind = "watch"
  OBVIOUS
<1> QED
  BY <1>2, <1>3, MountKeeps

LEMMA RoutesKeep ==
  ASSUME PagesInv, ToNewWorkflowRoute \/ ToIndex \/ ShowWorkflow(1)
  PROVE  PagesInv'
<1>1. PagesTypes
  BY DEF PagesInv
<1>2. CASE ToNewWorkflowRoute
  <2> DEFINE s == [site EXCEPT !.route = "new"]
  <2>1. /\ s \in SitesOf(Workflows) /\ s.goal = site.goal /\ s.project = site.project
        /\ s.workflow = site.workflow
    BY <1>1 DEF PagesTypes, SitesOf, Routes
  <2>2. Mount(s, asked) /\ UNCHANGED <<health, lost>>
    BY <1>2 DEF ToNewWorkflowRoute
  <2> HIDE DEF s
  <2> QED
    BY <2>1, <2>2, NavigationKeeps
<1>3. CASE ToIndex
  <2> DEFINE w == IF site.route = "show" THEN None ELSE site.workflow
             s == [site EXCEPT !.route = "index", !.workflow = w]
  <2>1. w \in Workflows /\ w \in {None, 1, site.workflow}
    BY <1>1 DEF PagesTypes, SitesOf, Workflows
  <2>2. /\ s \in SitesOf(Workflows) /\ s.goal = site.goal /\ s.project = site.project
        /\ s.workflow = w
    BY <1>1, <2>1 DEF PagesTypes, SitesOf, Routes
  <2>3. Mount(s, asked) /\ UNCHANGED <<health, lost>>
    BY <1>3 DEF ToIndex
  <2> HIDE DEF s, w
  <2> QED
    BY <2>1, <2>2, <2>3, NavigationKeeps
<1>4. CASE ShowWorkflow(1)
  <2> DEFINE s == [site EXCEPT !.route = "show", !.workflow = 1]
  <2>1. 1 \in Workflows /\ site \in SitesOf(Workflows)
    BY <1>1 DEF PagesTypes, Workflows
  <2>2. /\ s \in SitesOf(Workflows) /\ s.goal = site.goal /\ s.project = site.project
        /\ s.workflow = 1
    BY <2>1 DEF SitesOf, Routes
  <2>3. Mount(s, asked) /\ UNCHANGED <<health, lost>>
    BY <1>4 DEF ShowWorkflow
  <2> HIDE DEF s
  <2> QED
    BY <2>2, <2>3, NavigationKeeps
<1> QED
  BY <1>2, <1>3, <1>4
\* Of all workflows only the new one has the number of its request.
LEMMA OnStartWorkflowKeeps == PagesInv /\ OnStartWorkflow => PagesInv'
<1> SUFFICES ASSUME PagesInv, OnStartWorkflow PROVE PagesInv'
  OBVIOUS
<1> DEFINE new == request("start", sent + 1)
<1>1. /\ PagesTypes /\ StartsAreNew /\ ProjectComesFirst
      /\ HealthIsAwaited /\ ListIsAwaited /\ StartIsAwaited
  BY DEF PagesInv
<1>2. /\ site' = [site EXCEPT !.creating = TRUE]
      /\ asked' = asked \cup {new} /\ sent' = sent + 1
      /\ UNCHANGED <<health, list, lost>>
  BY DEF OnStartWorkflow
<1>3. /\ site' \in SitesOf(Workflows)
      /\ site'.project = site.project /\ site'.goal = site.goal
      /\ site'.workflow = site.workflow /\ site'.route = site.route /\ site'.docker = site.docker
  BY <1>1, <1>2 DEF PagesTypes, SitesOf
<1>4. /\ new = [kind |-> "start", id |-> sent + 1, of |-> sent + 1]
      /\ new.kind = "start" /\ new.id = sent + 1 /\ new.of = sent + 1
  BY DEF request
<1>5. /\ Workflows \subseteq Workflows' /\ sent' \in Nat \ {0}
      /\ sent + 1 \in Workflows' /\ sent + 1 \notin Workflows /\ sent + 1 # None /\ sent + 1 # 1
      /\ 1 \in Workflows /\ site.workflow \in Workflows
  BY <1>1, <1>2, NoneIsNoWorkflow DEF PagesTypes, Workflows, SitesOf
<1> HIDE DEF new
<1>6. PagesTypes'
  BY <1>1, <1>2, <1>3, <1>5 DEF PagesTypes, SitesOf
<1>7. StartsAreNew'
  <2>1. \A r \in asked' : r.kind \in {"start", "show"} => r.of \in Workflows'
    BY <1>1, <1>2, <1>4, <1>5 DEF StartsAreNew
  <2>2. \A r \in asked' : r.kind = "start" =>
          /\ r = [kind |-> "start", id |-> r.id, of |-> r.id] /\ r.of # None
          /\ ~site'.goal => r.of # 1 /\ r.of # site'.workflow
    BY <1>1, <1>2, <1>3, <1>4, <1>5 DEF StartsAreNew
  <2>3. \A r, q \in asked' : ~site'.goal /\ r.kind = "start" /\ q.kind = "show" => r.of # q.of
    BY <1>1, <1>2, <1>3, <1>4, <1>5 DEF StartsAreNew
  <2> QED
    BY <2>1, <2>2, <2>3 DEF StartsAreNew
<1>8. ProjectComesFirst'
  BY <1>1, <1>2, <1>3, <1>4 DEF ProjectComesFirst, Project
<1>9. HealthIsAwaited'
  BY <1>1, <1>2 DEF HealthIsAwaited
<1>10. ListIsAwaited'
  BY <1>1, <1>2, <1>3 DEF ListIsAwaited, mounted, isDuoWorkflowEnabled
<1>11. StartIsAwaited'
  BY <1>2, <1>4 DEF StartIsAwaited
<1> QED
  BY <1>6, <1>7, <1>8, <1>9, <1>10, <1>11 DEF PagesInv

LEMMA TurnPageKeeps ==
  ASSUME PagesInv, NEW n \in Pages, TurnPage(n)
  PROVE  PagesInv'
<1> DEFINE next == request("list", n)
<1>1. /\ PagesTypes /\ StartsAreNew /\ ProjectComesFirst
      /\ HealthIsAwaited /\ ListIsAwaited /\ StartIsAwaited
  BY DEF PagesInv
<1>2. /\ list.shown # 0 /\ list' = [list EXCEPT !.loading = TRUE]
      /\ asked' = asked \cup {next} /\ sent' = sent + 1
      /\ UNCHANGED <<site, health, lost>>
  BY DEF TurnPage, canTurnTo, tableIsShown
<1>3. site.project = TRUE /\ Project \notin asked
  BY <1>1, <1>2 DEF ProjectComesFirst, PagesTypes, SitesOf
<1>4. next.kind = "list"
  BY DEF request
<1>5. Workflows \subseteq Workflows' /\ sent' \in Nat \ {0}
  BY <1>1, <1>2 DEF PagesTypes, Workflows
<1> HIDE DEF next
<1>6. PagesTypes'
  BY <1>1, <1>2, <1>5 DEF PagesTypes, SitesOf
<1>7. StartsAreNew'
  BY <1>1, <1>2, <1>4, <1>5 DEF StartsAreNew
<1>8. ProjectComesFirst'
  BY <1>2, <1>3, <1>4 DEF ProjectComesFirst, Project
<1>9. HealthIsAwaited' /\ ListIsAwaited'
  BY <1>1, <1>2, <1>4 DEF HealthIsAwaited, ListIsAwaited
<1>10. StartIsAwaited'
  BY <1>1, <1>2 DEF StartIsAwaited, mounted
<1> QED
  BY <1>6, <1>7, <1>8, <1>9, <1>10 DEF PagesInv

LEMMA PagesStep == PagesInv /\ [PagesNext]_pagesVars => PagesInv'
<1> SUFFICES ASSUME PagesInv, [PagesNext]_pagesVars
             PROVE  PagesInv'
  OBVIOUS
<1>1. ASSUME NEW known \in BOOLEAN, SetProjectPath(known)
      PROVE  PagesInv'
  BY <1>1, SetProjectPathKeeps
<1>2. ASSUME NEW r \in asked, NEW empty \in BOOLEAN, UpdateWorkflows(r, empty)
      PROVE  PagesInv'
  BY <1>2, UpdateWorkflowsKeeps
<1>3. CASE Answers
  BY <1>1, <1>2, <1>3, DockerReadyKeeps, SetHealthCheckDataKeeps, SetWorkflowStartedKeeps,
     ExecutorEndsKeeps, RequestFailsKeeps DEF Answers
<1>4. CASE UNCHANGED pagesVars
  BY <1>4 DEF pagesVars, PagesInv, PagesTypes, Workflows, StartsAreNew, ProjectComesFirst,
     HealthIsAwaited, ListIsAwaited, StartIsAwaited, mounted
<1> QED
  BY <1>3, <1>4, DismissErrorKeeps, RoutesKeep, OnStartWorkflowKeeps, TurnPageKeeps DEF PagesNext

\* Whatever a page waits for has been asked, or was lost in one of three ways.
THEOREM WaitingIsAnswered == PagesSpec => []PagesInv
BY PagesInitInv, PagesStep, PTL DEF PagesSpec

\* A page of the workflow application that has got all its answers does not go on
\* loading, except after a failed health check, an error that repeats the last
\* one, or a goal it was opened with.
THEOREM NoPageHangsCorrect == PagesSpec => []NoPageHangs
<1>1. PagesInv => NoPageHangs
  <2> SUFFICES ASSUME PagesInv, asked \ pending("watch") = {}
               PROVE  /\ mounted("index") /\ isLoading => lost.health \/ lost.repeated
                      /\ mounted("new") /\ site.creating => lost.repeated \/ site.goal
    BY DEF NoPageHangs
  <2>1. \A r \in asked : r.kind = "watch"
    BY DEF pending
  <2>2. Project \notin asked
    BY <2>1 DEF Project
  <2> QED
    BY <2>1, <2>2 DEF PagesInv, HealthIsAwaited, ListIsAwaited, StartIsAwaited, isLoading
<1> QED
  BY <1>1, WaitingIsAnswered, PTL
-----------------------------------------------------------------------------
(* DuoChat.  The history has one record of a kind for a prompt, and only   *)
(* once the mutation has returned; an answer that is complete came over    *)
(* the cable, after which no chunk counts, or was pulled, which is done    *)
(* once and only if there is no cable.  The page agrees with the history   *)
(* as far as it shows it.                                                  *)

RecordIds == {"user", "assistant"} \X Prompts
Records == [id : RecordIds, request : Prompts \cup {NoRequestId}, state : {"ready", "pending"},
            content : Int, hydrated : BOOLEAN]

ChatTypes ==
  /\ kind \in [Prompts -> {"page", "extension", "reset"}]
  /\ stage \in [Prompts -> {"idle", "context", "subscribing", "sending", "failed", "done"}]
  /\ cable \in [Prompts -> {"none", "open", "failed", "closed"}]
  /\ fullSeen \in [Prompts -> BOOLEAN]
  /\ polls \subseteq RecordIds
  /\ history \in Seq(Records)
  /\ page = [listening |-> page.listening, messages |-> page.messages,
             selections |-> page.selections, asked |-> page.asked]
  /\ page.messages \in Seq(Records)
  /\ page.listening \in BOOLEAN /\ restoring \in BOOLEAN /\ displaced \in BOOLEAN

IdsDiffer(h) == \A i, j \in DOMAIN h : h[i].id = h[j].id => i = j

RecordsAreOfPrompts ==
  /\ IdsDiffer(history)
  /\ \A i \in DOMAIN history :
       /\ stage[history[i].id[2]] = "done"
       /\ history[i].request \in {NoRequestId, history[i].id[2]}
  /\ \A id \in polls : stage[id[2]] = "done" /\ cable[id[2]] = "failed"

CablesFollow ==
  \A p \in Prompts :
    /\ stage[p] \in {"idle", "context", "subscribing"} => cable[p] = "none"
    /\ fullSeen[p] => cable[p] = "closed"

FullTextsAreKnown ==
  \A i \in DOMAIN history : \A p \in Prompts :
    history[i].id = Assistant(p) /\ history[i].content = FullText =>
      fullSeen[p] \/ (cable[p] = "failed" /\ Assistant(p) \notin polls)

\* What the page shows of a history, and that it shows all of it.
Agrees(h, m) ==
  /\ \A i \in DOMAIN m : IsShown(h, m[i].id)
  /\ \A i \in DOMAIN h : IsShown(m, h[i].id) =>
       LET first == m[FirstIndex(m, h[i].id)]
       IN first.content = h[i].content /\ first.state = h[i].state
ShowsAll(h, m) == \A i \in DOMAIN h : IsShown(m, h[i].id)

PageAgrees ==
  /\ ~page.listening => page.messages = <<>> /\ ~restoring
  /\ page.listening => page.selections = selected
  /\ page.listening /\ ~displaced =>
       /\ Agrees(history, page.messages)
       /\ ~restoring => ShowsAll(history, page.messages)

ChatInv == ChatTypes /\ RecordsAreOfPrompts /\ CablesFollow /\ FullTextsAreKnown /\ PageAgrees

\* Among numbers there is a smallest one: the intervals up to them are finite sets.
LEMMA SmallestOf ==
  ASSUME NEW T, T \subseteq Nat, T # {}
  PROVE  \E x \in T : \A y \in T : ~(y < x)
<1> DEFINE upTo(k) == 1 .. k
           R == StrictSubsetOrdering(Nat)
<1>1. \A k \in T : upTo(k) \in FiniteSubsetsOf(Nat)
  BY FS_Interval DEF FiniteSubsetsOf
<1>2. IsWellFoundedOn(R, FiniteSubsetsOf(Nat))
  BY FS_StrictSubsetOrderingWellFounded
<1>3. {upTo(k) : k \in T} \subseteq FiniteSubsetsOf(Nat) /\ {upTo(k) : k \in T} # {}
  BY <1>1
<1>4. PICK u \in {upTo(k) : k \in T} : \A v \in {upTo(k) : k \in T} : <<v, u>> \notin R
  <2> HIDE DEF upTo, R
  <2> QED
    BY <1>2, <1>3, WFMin
<1>5. PICK x \in T : u = upTo(x)
  BY <1>4
<1>6. ASSUME NEW y \in T, y < x PROVE FALSE
  <2>1. <<upTo(y), upTo(x)>> \in R
    BY <1>6 DEF StrictSubsetOrdering
  <2> QED
    BY <1>4, <1>5, <2>1
<1> QED
  BY <1>6

\* The record that is found by its id is the first one that has it.
LEMMA FirstIndexFinds ==
  ASSUME NEW m \in Seq(Records), NEW id, IsShown(m, id)
  PROVE  /\ FirstIndex(m, id) \in DOMAIN m /\ m[FirstIndex(m, id)].id = id
         /\ \A j \in 1 .. (FirstIndex(m, id) - 1) : m[j].id # id
<1> DEFINE T == {i \in DOMAIN m : m[i].id = id}
<1>1. DOMAIN m = 1 .. Len(m) /\ Len(m) \in Nat
  OBVIOUS
<1>2. T \subseteq Nat /\ T # {}
  BY <1>1 DEF IsShown
<1>3. PICK i \in T : \A j \in T : ~(j < i)
  BY <1>2, SmallestOf
<1>4. \A j \in 1 .. (i - 1) : m[j].id # id
  BY <1>1, <1>3
<1> QED
  BY <1>3, <1>4 DEF FirstIndex

LEMMA FirstIndexIs ==
  ASSUME NEW m \in Seq(Records), NEW id, NEW i \in DOMAIN m, m[i].id = id,
         \A j \in 1 .. (i - 1) : m[j].id # id
  PROVE  FirstIndex(m, id) = i
<1>1. IsShown(m, id)
  BY DEF IsShown
<1> DEFINE k == FirstIndex(m, id)
<1>2. k \in DOMAIN m /\ m[k].id = id /\ \A j \in 1 .. (k - 1) : m[j].id # id
  BY <1>1, FirstIndexFinds
<1>3. DOMAIN m = 1 .. Len(m) /\ Len(m) \in Nat
  OBVIOUS
<1> HIDE DEF k
<1>4. k = i
  BY <1>2, <1>3
<1> QED
  BY <1>4 DEF k

\* Records are added at the end.
LEMMA ShownInConcat ==
  ASSUME NEW m \in Seq(Records), NEW a \in Seq(Records), NEW id
  PROVE  /\ m \o a \in Seq(Records)
         /\ IsShown(m \o a, id) <=> IsShown(m, id) \/ IsShown(a, id)
         /\ IsShown(m, id) =>
              /\ FirstIndex(m \o a, id) = FirstIndex(m, id)
              /\ (m \o a)[FirstIndex(m, id)] = m[FirstIndex(m, id)]
         /\ ~IsShown(m, id) /\ IsShown(a, id) =>
              (m \o a)[FirstIndex(m \o a, id)] = a[FirstIndex(a, id)]
<1> DEFINE c == m \o a
<1>1. /\ c \in Seq(Records) /\ Len(c) = Len(m) + Len(a) /\ DOMAIN c = 1 .. Len(c)
      /\ Len(m) \in Nat /\ Len(a) \in Nat
      /\ DOMAIN m = 1 .. Len(m) /\ DOMAIN a = 1 .. Len(a)
      /\ \A i \in DOMAIN m : c[i] = m[i]
      /\ \A i \in DOMAIN a : c[Len(m) + i] = a[i]
  OBVIOUS
<1> HIDE DEF c
<1>2. IsShown(c, id) <=> IsShown(m, id) \/ IsShown(a, id)
  <2>1. ASSUME NEW i \in DOMAIN c, c[i].id = id PROVE IsShown(m, id) \/ IsShown(a, id)
    <3>1. CASE i \in DOMAIN m
      BY <1>1, <2>1, <3>1 DEF IsShown
    <3>2. CASE i \notin DOMAIN m
      <4>1. i - Len(m) \in DOMAIN a /\ c[Len(m) + (i - Len(m))] = a[i - Len(m)]
        BY <1>1, <3>2
      <4>2. Len(m) + (i - Len(m)) = i
        BY <1>1
      <4> QED
        BY <2>1, <4>1, <4>2 DEF IsShown
    <3> QED
      BY <3>1, <3>2
  <2>2. \A i \in DOMAIN m : i \in DOMAIN c
    BY <1>1
  <2>3. \A i \in DOMAIN a : Len(m) + i \in DOMAIN c
    BY <1>1
  <2> QED
    BY <1>1, <2>1, <2>2, <2>3 DEF IsShown
<1>3. ASSUME IsShown(m, id)
      PROVE  FirstIndex(c, id) = FirstIndex(m, id) /\ c[FirstIndex(m, id)] = m[FirstIndex(m, id)]
  <2> DEFINE k == FirstIndex(m, id)
  <2>1. k \in DOMAIN m /\ m[k].id = id /\ \A j \in 1 .. (k - 1) : m[j].id # id
    BY <1>3, FirstIndexFinds
  <2> HIDE DEF k
  <2>2. k \in DOMAIN c /\ c[k].id = id
    BY <1>1, <2>1
  <2>3. ASSUME NEW j \in 1 .. (k - 1) PROVE c[j].id # id
    <3>1. j \in DOMAIN m
      BY <1>1, <2>1
    <3> QED
      BY <1>1, <2>1, <3>1
  <2>4. FirstIndex(c, id) = k
    BY <1>1, <2>2, <2>3, FirstIndexIs
  <2> QED
    BY <1>1, <2>1, <2>4 DEF k
<1>4. ASSUME ~IsShown(m, id), IsShown(a, id)
      PROVE  c[FirstIndex(c, id)] = a[FirstIndex(a, id)]
  <2> DEFINE k == FirstIndex(a, id)
             n == Len(m) + k
  <2>1. k \in DOMAIN a /\ a[k].id = id /\ \A j \in 1 .. (k - 1) : a[j].id # id
    BY <1>4, FirstIndexFinds
  <2> HIDE DEF k
  <2>2. n \in DOMAIN c /\ c[n].id = id /\ c[n] = a[k]
    BY <1>1, <2>1
  <2>3. ASSUME NEW j \in 1 .. (n - 1) PROVE c[j].id # id
    <3>1. CASE j \in DOMAIN m
      BY <1>1, <1>4, <3>1 DEF IsShown
    <3>2. CASE j \notin DOMAIN m
      <4>1. /\ j - Len(m) \in 1 .. (k - 1) /\ j - Len(m) \in DOMAIN a
            /\ c[Len(m) + (j - Len(m))] = a[j - Len(m)]
        BY <1>1, <2>1, <3>2
      <4>2. Len(m) + (j - Len(m)) = j
        BY <1>1
      <4> QED
        BY <2>1, <4>1, <4>2
    <3> QED
      BY <3>1, <3>2
  <2> HIDE DEF n
  <2>4. FirstIndex(c, id) = n
    BY <1>1, <2>2, <2>3, FirstIndexIs
  <2> QED
    BY <2>2, <2>4 DEF k
<1> QED
  BY <1>1, <1>2, <1>3, <1>4 DEF c

\* In a history, whose ids differ, a record is the first one with its id.
LEMMA FirstOfHistory ==
  ASSUME NEW h \in Seq(Records), IdsDiffer(h), NEW i \in DOMAIN h
  PROVE  FirstIndex(h, h[i].id) = i /\ IsShown(h, h[i].id)
<1>1. DOMAIN h = 1 .. Len(h) /\ Len(h) \in Nat
  OBVIOUS
<1>2. \A j \in 1 .. (i - 1) : h[j].id # h[i].id
  BY <1>1 DEF IdsDiffer
<1> QED
  BY <1>2, FirstIndexIs DEF IsShown

\* Records with the same ids are found at the same places.
LEMMA SameIdsSamePlaces ==
  ASSUME NEW m \in Seq(Records), NEW n \in Seq(Records), DOMAIN n = DOMAIN m,
         \A i \in DOMAIN m : n[i].id = m[i].id, NEW id
  PROVE  /\ IsShown(n, id) <=> IsShown(m, id)
         /\ IsShown(m, id) => FirstIndex(n, id) = FirstIndex(m, id)
<1>1. IsShown(n, id) <=> IsShown(m, id)
  BY DEF IsShown
<1>2. ASSUME IsShown(m, id) PROVE FirstIndex(n, id) = FirstIndex(m, id)
  <2> DEFINE k == FirstIndex(m, id)
  <2>1. k \in DOMAIN m /\ m[k].id = id /\ \A j \in 1 .. (k - 1) : m[j].id # id
    BY <1>2, FirstIndexFinds
  <2>2. DOMAIN m = 1 .. Len(m) /\ Len(m) \in Nat
    OBVIOUS
  <2> HIDE DEF k
  <2>3. k \in DOMAIN n /\ n[k].id = id /\ \A j \in 1 .. (k - 1) : n[j].id # id
    BY <2>1, <2>2
  <2>4. FirstIndex(n, id) = k
    BY <2>3, FirstIndexIs
  <2> QED
    BY <2>4 DEF k
<1> QED
  BY <1>1, <1>2

\* What agrees is shown of the history only.
LEMMA ShownIsHistory ==
  ASSUME NEW h, NEW m, Agrees(h, m), NEW id, IsShown(m, id)
  PROVE  IsShown(h, id)
BY DEF Agrees, IsShown

\* Records that are added to the history are sent to the page.
LEMMA AddedAgree ==
  ASSUME NEW h \in Seq(Records), NEW m \in Seq(Records), NEW a \in Seq(Records),
         Agrees(h, m), IdsDiffer(h \o a)
  PROVE  Agrees(h \o a, m \o a) /\ (ShowsAll(h, m) => ShowsAll(h \o a, m \o a))
<1> DEFINE g == h \o a
           n == m \o a
<1>1. g \in Seq(Records) /\ n \in Seq(Records)
  BY ShownInConcat
<1>2. \A id : IsShown(g, id) <=> IsShown(h, id) \/ IsShown(a, id)
  BY ShownInConcat
<1>3. \A id : IsShown(n, id) <=> IsShown(m, id) \/ IsShown(a, id)
  BY ShownInConcat
<1>4. \A id : ~(IsShown(h, id) /\ IsShown(a, id))
  <2> SUFFICES ASSUME NEW i \in DOMAIN h, NEW j \in DOMAIN a, h[i].id = a[j].id
               PROVE  FALSE
    BY DEF IsShown
  <2>1. /\ i \in DOMAIN g /\ g[i] = h[i] /\ Len(h) + j \in DOMAIN g /\ g[Len(h) + j] = a[j]
        /\ i # Len(h) + j
    OBVIOUS
  <2> QED
    BY <2>1 DEF IdsDiffer
<1>5. ASSUME NEW i \in DOMAIN n PROVE IsShown(g, n[i].id)
  <2>1. IsShown(n, n[i].id)
    BY DEF IsShown
  <2> QED
    BY <1>2, <1>3, <2>1, ShownIsHistory
<1>6. ASSUME NEW i \in DOMAIN g, IsShown(n, g[i].id)
      PROVE  /\ n[FirstIndex(n, g[i].id)].content = g[i].content
             /\ n[FirstIndex(n, g[i].id)].state = g[i].state
  <2> DEFINE id == g[i].id
  <2>1. FirstIndex(g, id) = i /\ IsShown(g, id)
    BY <1>1, FirstOfHistory
  <2> HIDE DEF n
  <2>2. CASE IsShown(h, id)
    <3> DEFINE k == FirstIndex(h, id)
    <3>1. k \in DOMAIN h /\ h[k].id = id
      BY <2>2, FirstIndexFinds
    <3>2. g[i] = h[k]
      BY <2>1, <2>2, ShownInConcat
    <3>3. IsShown(m, id)
      BY <1>3, <1>4, <1>6, <2>2
    <3>4. n[FirstIndex(n, id)] = m[FirstIndex(m, id)]
      BY <3>3, ShownInConcat DEF n
    <3> HIDE DEF k, g
    <3>5. /\ m[FirstIndex(m, h[k].id)].content = h[k].content
          /\ m[FirstIndex(m, h[k].id)].state = h[k].state
      BY <3>1, <3>3 DEF Agrees
    <3> QED
      BY <3>1, <3>2, <3>4, <3>5
  <2>3. CASE ~IsShown(h, id)
    <3>1. ~IsShown(m, id) /\ IsShown(a, id)
      BY <1>2, <2>1, <2>3, ShownIsHistory
    <3>2. g[i] = a[FirstIndex(a, id)]
      BY <2>1, <2>3, <3>1, ShownInConcat
    <3> HIDE DEF id
    <3>3. n[FirstIndex(n, id)] = a[FirstIndex(a, id)]
      BY <3>1, ShownInConcat DEF n
    <3> QED
      BY <3>2, <3>3 DEF id
  <2> QED
    BY <2>2, <2>3
<1>7. ASSUME ShowsAll(h, m), NEW i \in DOMAIN g PROVE IsShown(n, g[i].id)
  <2>1. IsShown(g, g[i].id)
    BY DEF IsShown
  <2>2. \A id : IsShown(h, id) => IsShown(m, id)
    BY <1>7 DEF ShowsAll, IsShown
  <2> QED
    BY <1>2, <1>3, <2>1, <2>2
<1> HIDE DEF g, n
<1>8. Agrees(g, n)
  BY <1>5, <1>6 DEF Agrees
<1>9. ShowsAll(h, m) => ShowsAll(g, n)
  BY <1>7 DEF ShowsAll
<1> QED
  BY <1>8, <1>9 DEF g, n

\* The whole history is sent to a page that may show some of it.
LEMMA RestoredAgree ==
  ASSUME NEW h \in Seq(Records), NEW m \in Seq(Records), Agrees(h, m), IdsDiffer(h)
  PROVE  Agrees(h, m \o h) /\ ShowsAll(h, m \o h)
<1> DEFINE n == m \o h
<1>1. \A id : IsShown(n, id) <=> IsShown(m, id) \/ IsShown(h, id)
  BY ShownInConcat
<1>2. ASSUME NEW i \in DOMAIN n PROVE IsShown(h, n[i].id)
  <2>1. IsShown(n, n[i].id)
    BY DEF IsShown
  <2> QED
    BY <1>1, <2>1, ShownIsHistory
<1>3. ASSUME NEW i \in DOMAIN h
      PROVE  /\ IsShown(n, h[i].id)
             /\ n[FirstIndex(n, h[i].id)].content = h[i].content
             /\ n[FirstIndex(n, h[i].id)].state = h[i].state
  <2> DEFINE id == h[i].id
  <2>1. FirstIndex(h, id) = i /\ IsShown(h, id)
    BY FirstOfHistory
  <2>2. CASE IsShown(m, id)
    <3>1. n[FirstIndex(n, id)] = m[FirstIndex(m, id)]
      BY <2>2, ShownInConcat
    <3> HIDE DEF n
    <3> QED
      BY <1>1, <2>1, <2>2, <3>1 DEF Agrees
  <2>3. CASE ~IsShown(m, id)
    <3>1. n[FirstIndex(n, id)] = h[FirstIndex(h, id)]
      BY <2>1, <2>3, ShownInConcat
    <3> HIDE DEF n
    <3> QED
      BY <1>1, <2>1, <3>1
  <2> QED
    BY <2>2, <2>3
<1> HIDE DEF n
<1>4. Agrees(h, n) /\ ShowsAll(h, n)
  BY <1>2, <1>3 DEF Agrees, ShowsAll
<1> QED
  BY <1>4 DEF n

\* One record of the history is another, and the page that shows it is told so.
LEMMA UpdatedAgree ==
  ASSUME NEW h \in Seq(Records), NEW m \in Seq(Records), Agrees(h, m), IdsDiffer(h),
         NEW i \in DOMAIN h, NEW record \in Records, record.id = h[i].id,
         IsShown(m, record.id)
  PROVE  LET n == [m EXCEPT ![FirstIndex(m, record.id)] = record]
             g == [h EXCEPT ![i] = record]
         IN Agrees(g, n) /\ (ShowsAll(h, m) => ShowsAll(g, n))
<1> DEFINE k == FirstIndex(m, record.id)
           n == [m EXCEPT ![k] = record]
           g == [h EXCEPT ![i] = record]
<1>1. k \in DOMAIN m /\ m[k].id = record.id
  BY FirstIndexFinds
<1> HIDE DEF k
<1>2. /\ n \in Seq(Records) /\ DOMAIN n = DOMAIN m /\ n[k] = record
      /\ \A j \in DOMAIN m : j # k => n[j] = m[j]
  BY <1>1
<1>3. /\ g \in Seq(Records) /\ DOMAIN g = DOMAIN h /\ g[i] = record
      /\ \A j \in DOMAIN h : j # i => g[j] = h[j]
  OBVIOUS
<1> HIDE DEF n, g
<1>4. (\A j \in DOMAIN m : n[j].id = m[j].id) /\ (\A j \in DOMAIN h : g[j].id = h[j].id)
  BY <1>1, <1>2, <1>3
<1>5. \A id : IsShown(n, id) <=> IsShown(m, id)
  BY <1>2, <1>4, SameIdsSamePlaces
<1>6. \A id : IsShown(m, id) => FirstIndex(n, id) = FirstIndex(m, id)
  BY <1>2, <1>4, SameIdsSamePlaces
<1>7. \A id : IsShown(g, id) <=> IsShown(h, id)
  BY <1>3, <1>4, SameIdsSamePlaces
<1>8. ASSUME NEW j \in DOMAIN n PROVE IsShown(g, n[j].id)
  BY <1>2, <1>4, <1>7 DEF Agrees
<1>9. ASSUME NEW j \in DOMAIN g, IsShown(n, g[j].id)
      PROVE  /\ n[FirstIndex(n, g[j].id)].content = g[j].content
             /\ n[FirstIndex(n, g[j].id)].state = g[j].state
  <2>1. CASE j = i
    <3>1. FirstIndex(n, g[j].id) = k
      BY <1>3, <1>5, <1>6, <1>9, <2>1 DEF k
    <3> QED
      BY <1>2, <1>3, <2>1, <3>1
  <2>2. CASE j # i
    <3> DEFINE l == FirstIndex(m, h[j].id)
    <3>1. g[j] = h[j] /\ j \in DOMAIN h /\ IsShown(m, h[j].id)
      BY <1>3, <1>5, <1>9, <2>2
    <3>2. l \in DOMAIN m /\ m[l].id = h[j].id
      BY <3>1, FirstIndexFinds
    <3>3. FirstIndex(n, h[j].id) = l
      BY <1>6, <3>1
    <3>4. m[l].content = h[j].content /\ m[l].state = h[j].state
      BY <3>1 DEF Agrees
    <3> HIDE DEF l
    <3>5. l # k
      BY <1>1, <2>2, <3>1, <3>2 DEF IdsDiffer
    <3> QED
      BY <1>2, <3>1, <3>2, <3>3, <3>4, <3>5
  <2> QED
    BY <2>1, <2>2
<1>10. Agrees(g, n)
  BY <1>8, <1>9 DEF Agrees
<1>11. ShowsAll(h, m) => ShowsAll(g, n)
  BY <1>3, <1>4, <1>5 DEF ShowsAll
<1> QED
  BY <1>10, <1>11 DEF n, g, k

\* A copy of a record that is shown follows it, with what its context holds.
LEMMA CopiedAgree ==
  ASSUME NEW h \in Seq(Records), NEW m \in Seq(Records), NEW a \in Seq(Records), Agrees(h, m),
         NEW g \in Seq(Records), DOMAIN g = DOMAIN h,
         \A j \in DOMAIN h : /\ g[j].id = h[j].id /\ g[j].content = h[j].content
                             /\ g[j].state = h[j].state,
         \A j \in DOMAIN a : IsShown(m, a[j].id)
  PROVE  Agrees(g, m \o a) /\ (ShowsAll(h, m) => ShowsAll(g, m \o a))
<1> DEFINE n == m \o a
<1>1. \A id : IsShown(g, id) <=> IsShown(h, id)
  BY SameIdsSamePlaces
<1>2. \A id : IsShown(n, id) <=> IsShown(m, id)
  <2>1. \A id : IsShown(n, id) <=> IsShown(m, id) \/ IsShown(a, id)
    BY ShownInConcat
  <2>2. \A id : IsShown(a, id) => IsShown(m, id)
    <3>1. \A id : IsShown(a, id) => \E j \in DOMAIN a : a[j].id = id
      BY DEF IsShown
    <3> QED
      BY <3>1
  <2> QED
    BY <2>1, <2>2
<1>3. \A id : IsShown(m, id) => /\ FirstIndex(n, id) = FirstIndex(m, id)
                               /\ n[FirstIndex(m, id)] = m[FirstIndex(m, id)]
  BY ShownInConcat
<1> HIDE DEF n
<1>4. ASSUME NEW j \in DOMAIN n PROVE IsShown(g, n[j].id)
  <2>1. IsShown(n, n[j].id)
    BY DEF IsShown
  <2> QED
    BY <1>1, <1>2, <2>1, ShownIsHistory
<1>5. Agrees(g, n)
  BY <1>2, <1>3, <1>4 DEF Agrees
<1>6. ShowsAll(h, m) => ShowsAll(g, n)
  BY <1>2 DEF ShowsAll
<1> QED
  BY <1>5, <1>6 DEF n

\* What AnswerIsFinal says of one step.
StaysFinal ==
  \A i \in DOMAIN history :
    (/\ history[i].content = FullText
     /\ i \in DOMAIN history'
     /\ history'[i].id = history[i].id)
    => history'[i].content = FullText

\* The page, if only its selection changes.
LEMMA SelectionFollows ==
  ASSUME ChatInv, page' = PageSelects(page, selected') \/ UNCHANGED <<page, selected>>
  PROVE  /\ page' = [listening |-> page'.listening, messages |-> page'.messages,
                     selections |-> page'.selections, asked |-> page'.asked]
         /\ page'.messages = page.messages /\ page'.listening = page.listening
         /\ page.listening => page'.selections = selected'
<1>1. /\ page = [listening |-> page.listening, messages |-> page.messages,
                 selections |-> page.selections, asked |-> page.asked]
      /\ page.listening => page.selections = selected
  BY DEF ChatInv, ChatTypes, PageAgrees
<1>2. CASE page.listening /\ page' = PageSelects(page, selected')
  <2>1. page' = [listening |-> page.listening, messages |-> page.messages,
                 selections |-> selected', asked |-> page.asked]
    BY <1>1, <1>2 DEF PageSelects
  <2> QED
    BY <1>2, <2>1
<1>3. CASE UNCHANGED page /\ (~page.listening \/ UNCHANGED selected)
  BY <1>1, <1>3
<1> QED
  BY <1>2, <1>3 DEF PageSelects

\* A step that leaves the history and the messages of the page as they are.
LEMMA QuietKeeps ==
  ASSUME ChatInv,
         stage' \in [Prompts -> {"idle", "context", "subscribing", "sending", "failed", "done"}],
         cable' \in [Prompts -> {"none", "open", "failed", "closed"}],
         \A p \in Prompts : stage[p] = "done" => stage'[p] = "done" /\ cable'[p] = cable[p],
         CablesFollow', UNCHANGED <<kind, fullSeen, polls, history, restoring, displaced>>,
         page' = [listening |-> page'.listening, messages |-> page'.messages,
                  selections |-> page'.selections, asked |-> page'.asked],
         page'.messages = page.messages, page'.listening = page.listening,
         page.listening => page'.selections = selected'
  PROVE  ChatInv' /\ StaysFinal
<1>1. ChatTypes'
  BY DEF ChatInv, ChatTypes
<1>2. /\ \A i \in DOMAIN history : history[i].id \in RecordIds
      /\ \A id \in RecordIds : id[2] \in Prompts
  <2>1. \A i \in DOMAIN history : history[i] \in Records
    BY DEF ChatInv, ChatTypes
  <2> QED
    BY <2>1 DEF Records, RecordIds
<1>3. \A i \in DOMAIN history : stage[history[i].id[2]] = "done" /\ history[i].id[2] \in Prompts
  BY <1>2 DEF ChatInv, RecordsAreOfPrompts
<1>4. \A id \in polls : stage[id[2]] = "done" /\ cable[id[2]] = "failed" /\ id[2] \in Prompts
  BY <1>2 DEF ChatInv, ChatTypes, RecordsAreOfPrompts
<1>5. RecordsAreOfPrompts'
  BY <1>3, <1>4 DEF ChatInv, RecordsAreOfPrompts
<1>6. FullTextsAreKnown'
  <2> SUFFICES ASSUME NEW i \in DOMAIN history, NEW p \in Prompts,
                      history[i].id = Assistant(p), history[i].content = FullText
               PROVE  fullSeen[p] \/ (cable'[p] = "failed" /\ Assistant(p) \notin polls)
    BY DEF FullTextsAreKnown
  <2>1. Assistant(p)[2] = p
    BY DEF Assistant
  <2>2. stage[p] = "done"
    BY <1>3, <2>1
  <2> QED
    BY <2>2 DEF ChatInv, FullTextsAreKnown
<1>7. PageAgrees'
  BY DEF ChatInv, PageAgrees
<1> QED
  BY <1>1, <1>5, <1>6, <1>7 DEF ChatInv, StaysFinal

LEMMA StagesKeep ==
  ASSUME ChatInv, NEW p \in Prompts,
         NewPrompt(p) \/ BuildRecord(p) \/ Subscribe(p) \/ ServerAccepts(p) \/ ActionFails(p)
  PROVE  ChatInv' /\ StaysFinal
<1>1. /\ stage \in [Prompts -> {"idle", "context", "subscribing", "sending", "failed", "done"}]
      /\ cable \in [Prompts -> {"none", "open", "failed", "closed"}]
  BY DEF ChatInv, ChatTypes
<1>2. UNCHANGED <<kind, fullSeen, polls, history, restoring, displaced>>
  BY DEF NewPrompt, BuildRecord, Subscribe, ServerAccepts, ActionFails
<1>3. page' = PageSelects(page, selected') \/ UNCHANGED <<page, selected>>
  BY DEF NewPrompt, BuildRecord, Subscribe, ServerAccepts, ActionFails, ClearSelectedContextItems
<1>4. stage' \in [Prompts -> {"idle", "context", "subscribing", "sending", "failed", "done"}]
  BY <1>1 DEF NewPrompt, BuildRecord, Subscribe, ServerAccepts, ActionFails
<1>5. cable' \in [Prompts -> {"none", "open", "failed", "closed"}]
  BY <1>1 DEF NewPrompt, BuildRecord, Subscribe, ServerAccepts, ActionFails, Disconnected
<1>6. \A q \in Prompts : stage[q] = "done" => stage'[q] = "done" /\ cable'[q] = cable[q]
  <2>1. stage[p] # "done"
    BY DEF NewPrompt, BuildRecord, Subscribe, ServerAccepts, ActionFails
  <2>2. \A q \in Prompts \ {p} : stage'[q] = stage[q] /\ cable'[q] = cable[q]
    BY <1>1 DEF NewPrompt, BuildRecord, Subscribe, ServerAccepts, ActionFails, Disconnected
  <2> QED
    BY <2>1, <2>2
<1>7. CablesFollow'
  <2>1. CablesFollow /\ fullSeen' = fullSeen
    BY <1>2 DEF ChatInv
  <2>2. ASSUME NEW q \in Prompts, q # p
        PROVE  stage'[q] = stage[q] /\ cable'[q] = cable[q]
    BY <1>1, <2>2 DEF NewPrompt, BuildRecord, Subscribe, ServerAccepts, ActionFails,
                      Disconnected
  <2>3. /\ stage'[p] \in {"idle", "context", "subscribing"} => cable'[p] = "none"
        /\ fullSeen[p] => cable'[p] = "closed"
    BY <1>1, <2>1 DEF CablesFollow, NewPrompt, BuildRecord, Subscribe, ServerAccepts,
                      ActionFails, Disconnected
  <2> QED
    BY <2>1, <2>2, <2>3 DEF CablesFollow
<1> QED
  BY <1>2, <1>3, <1>4, <1>5, <1>6, <1>7, SelectionFollows, QuietKeeps

LEMMA SelectingKeeps ==
  ASSUME ChatInv,
         \/ ClearChat \/ CancelPrompt
         \/ \E c : AddContextItem(c) \/ RemoveContextItem(c)
  PROVE  ChatInv' /\ StaysFinal
<1>1. /\ stage \in [Prompts -> {"idle", "context", "subscribing", "sending", "failed", "done"}]
      /\ cable \in [Prompts -> {"none", "open", "failed", "closed"}]
  BY DEF ChatInv, ChatTypes
<1>2. UNCHANGED <<kind, stage, cable, fullSeen, polls, history, restoring, displaced>>
  BY DEF ClearChat, CancelPrompt, AddContextItem, RemoveContextItem
<1>3. CablesFollow'
  BY <1>2 DEF ChatInv, CablesFollow
<1>4. CASE CancelPrompt
  <2>1. /\ page = [listening |-> page.listening, messages |-> page.messages,
                   selections |-> page.selections, asked |-> page.asked]
        /\ page.listening => page.selections = selected
    BY DEF ChatInv, ChatTypes, PageAgrees
  <2>2. PICK x : page' = [page EXCEPT !.asked = x] /\ selected' = selected
    BY <1>4, <2>1 DEF CancelPrompt
  <2>3. /\ page' = [listening |-> page'.listening, messages |-> page'.messages,
                    selections |-> page'.selections, asked |-> page'.asked]
        /\ page'.messages = page.messages /\ page'.listening = page.listening
        /\ page.listening => page'.selections = selected'
    BY <2>1, <2>2
  <2> QED
    BY <1>1, <1>2, <1>3, <2>3, QuietKeeps
<1>5. CASE ~CancelPrompt
  <2>1. page' = PageSelects(page, selected')
    BY <1>5 DEF ClearChat, ClearSelectedContextItems, AddContextItem, RemoveContextItem
  <2> QED
    BY <1>1, <1>2, <1>3, <2>1, SelectionFollows, QuietKeeps
<1> QED
  BY <1>4, <1>5

LEMMA AppReadyKeeps ==
  ASSUME ChatInv, AppReady
  PROVE  ChatInv' /\ StaysFinal
<1>1. /\ ~page.listening /\ restoring' = TRUE
      /\ UNCHANGED <<kind, stage, cable, fullSeen, polls, history, selected, displaced>>
  BY DEF AppReady
<1>2. /\ page'.listening = TRUE /\ page'.messages = <<>> /\ page'.selections = selected
      /\ page' = [listening |-> page'.listening, messages |-> page'.messages,
                  selections |-> page'.selections, asked |-> page'.asked]
  <2>1. /\ page = [listening |-> page.listening, messages |-> page.messages,
                   selections |-> page.selections, asked |-> page.asked]
        /\ page.messages = <<>>
    BY <1>1 DEF ChatInv, ChatTypes, PageAgrees
  <2>2. page' = [page EXCEPT !.listening = TRUE, !.selections = selected]
    BY DEF AppReady
  <2>3. page' = [listening |-> TRUE, messages |-> <<>>, selections |-> selected,
                 asked |-> page.asked]
    BY <2>1, <2>2
  <2> QED
    BY <2>3
<1>3. ChatTypes'
  <2>1. <<>> \in Seq(Records)
    BY EmptySeq
  <2> QED
    BY <1>1, <1>2, <2>1 DEF ChatInv, ChatTypes
<1>4. RecordsAreOfPrompts' /\ CablesFollow' /\ FullTextsAreKnown'
  BY <1>1 DEF ChatInv, RecordsAreOfPrompts, CablesFollow, FullTextsAreKnown
<1>5. Agrees(history, <<>>)
  BY DEF Agrees, IsShown
<1>6. PageAgrees'
  BY <1>1, <1>2, <1>5 DEF PageAgrees
<1> QED
  BY <1>1, <1>3, <1>4, <1>6 DEF ChatInv, StaysFinal

\* Records sent to the page, which hears them or does not.
LEMMA PageHears ==
  ASSUME ChatTypes, NEW added \in Seq(Records), NEW q, q = PageAdds(page, added)
  PROVE  /\ q = [listening |-> q.listening, messages |-> q.messages,
                 selections |-> q.selections, asked |-> q.asked]
         /\ q.listening = page.listening /\ q.selections = page.selections
         /\ q.messages \in Seq(Records)
         /\ q.messages = IF page.listening THEN page.messages \o added ELSE page.messages
<1>1. /\ page = [listening |-> page.listening, messages |-> page.messages,
                 selections |-> page.selections, asked |-> page.asked]
      /\ page.messages \in Seq(Records)
  BY DEF ChatTypes
<1>2. CASE page.listening
  <2>1. q = [listening |-> page.listening, messages |-> page.messages \o added,
             selections |-> page.selections, asked |-> page.asked]
    BY <1>1, <1>2 DEF PageAdds
  <2>2. page.messages \o added \in Seq(Records)
    BY <1>1
  <2> QED
    BY <1>2, <2>1, <2>2
<1>3. CASE ~page.listening
  BY <1>1, <1>3 DEF PageAdds
<1> QED
  BY <1>2, <1>3

LEMMA RestoreHistoryKeeps ==
  ASSUME ChatInv, RestoreHistory
  PROVE  ChatInv' /\ StaysFinal
<1>1. /\ restoring /\ restoring' = FALSE
      /\ UNCHANGED <<kind, stage, cable, fullSeen, polls, history, selected, displaced>>
  BY DEF RestoreHistory
<1> DEFINE q == PageAdds(page, history)
<1>2. page.listening /\ history \in Seq(Records)
  BY <1>1 DEF ChatInv, ChatTypes, PageAgrees
<1>3. /\ q = [listening |-> q.listening, messages |-> q.messages,
              selections |-> q.selections, asked |-> q.asked]
      /\ q.listening = page.listening /\ q.messages \in Seq(Records)
      /\ q.messages = page.messages \o history
  BY <1>2, PageHears DEF ChatInv
<1>4. page' = PageSelects(q, selected)
  BY DEF RestoreHistory
<1> HIDE DEF q
<1>5. /\ page' = [listening |-> page'.listening, messages |-> page'.messages,
                  selections |-> page'.selections, asked |-> page'.asked]
      /\ page'.listening = page.listening /\ page'.selections = selected
      /\ page'.messages = page.messages \o history /\ page'.messages \in Seq(Records)
  <2>1. page' = [listening |-> q.listening, messages |-> q.messages,
                 selections |-> selected, asked |-> q.asked]
    BY <1>2, <1>3, <1>4 DEF PageSelects
  <2> QED
    BY <1>3, <2>1
<1>6. ChatTypes'
  BY <1>1, <1>5 DEF ChatInv, ChatTypes
<1>7. RecordsAreOfPrompts' /\ CablesFollow' /\ FullTextsAreKnown'
  BY <1>1 DEF ChatInv, RecordsAreOfPrompts, CablesFollow, FullTextsAreKnown
<1>8. PageAgrees'
  <2>1. ~displaced => Agrees(history, page.messages)
    BY <1>2 DEF ChatInv, PageAgrees
  <2>2. IdsDiffer(history) /\ page.messages \in Seq(Records)
    BY DEF ChatInv, ChatTypes, RecordsAreOfPrompts
  <2>3. ~displaced => /\ Agrees(history, page.messages \o history)
                      /\ ShowsAll(history, page.messages \o history)
    BY <1>2, <2>1, <2>2, RestoredAgree
  <2> QED
    BY <1>1, <1>2, <1>5, <2>3 DEF PageAgrees
<1> QED
  BY <1>1, <1>6, <1>7, <1>8 DEF ChatInv, StaysFinal

\* What is added when the mutation returns.
LEMMA RecordsOfPrompt ==
  ASSUME NEW p \in Prompts, NEW asks \in {p, NoRequestId}, NEW added,
         LET question == NewRecord(User(p), asks, "ready", FullText)
             answer == NewRecord(Assistant(p), asks, "pending", NoContent)
         IN added = <<question>> \/ added = <<question, answer>>
  PROVE  /\ added \in Seq(Records)
         /\ \A i \in DOMAIN added :
              /\ added[i].id \in {User(p), Assistant(p)} /\ added[i].request \in {NoRequestId, p}
              /\ ~(added[i].id = Assistant(p) /\ added[i].content = FullText)
         /\ IdsDiffer(added)
<1> DEFINE question == NewRecord(User(p), asks, "ready", FullText)
           answer == NewRecord(Assistant(p), asks, "pending", NoContent)
<1>1. /\ question \in Records /\ answer \in Records
      /\ question.id = User(p) /\ answer.id = Assistant(p)
      /\ question.request = asks /\ answer.request = asks
      /\ answer.content # FullText
  BY DEF NewRecord, Records, RecordIds, User, Assistant, NoContent, FullText
<1>2. User(p) # Assistant(p)
  BY DEF User, Assistant
<1>3. added = <<question>> \/ added = <<question, answer>>
  OBVIOUS
<1> HIDE DEF question, answer
<1>4. CASE added = <<question>>
  BY <1>1, <1>2, <1>4 DEF IdsDiffer
<1>5. CASE added = <<question, answer>>
  <2>1. added \in Seq(Records) /\ DOMAIN added = {1, 2} /\ added[1] = question /\ added[2] = answer
    BY <1>1, <1>5
  <2> QED
    BY <1>1, <1>2, <2>1 DEF IdsDiffer
<1> QED
  BY <1>3, <1>4, <1>5

LEMMA ActionReturnsKeeps ==
  ASSUME ChatInv, NEW p \in Prompts, ActionReturns(p)
  PROVE  ChatInv' /\ StaysFinal
<1> DEFINE asks == IF p \in answering THEN p ELSE NoRequestId
           question == NewRecord(User(p), asks, "ready", FullText)
           answer == NewRecord(Assistant(p), asks, "pending", NoContent)
           added == IF kind[p] = "reset" THEN <<question>> ELSE <<question, answer>>
<1>1. /\ stage[p] = "sending" /\ stage' = [stage EXCEPT ![p] = "done"]
      /\ history' = history \o added /\ page' = PageAdds(page, added)
      /\ polls' = IF cable[p] = "failed" /\ kind[p] # "reset" /\ asks # NoRequestId
                  THEN polls \cup {question.id, answer.id}
                  ELSE polls
      /\ UNCHANGED <<kind, cable, fullSeen, selected, restoring, displaced>>
  BY DEF ActionReturns
<1>2. question.id = User(p) /\ answer.id = Assistant(p)
  BY DEF NewRecord
<1>3. /\ added \in Seq(Records)
      /\ \A i \in DOMAIN added :
           /\ added[i].id \in {User(p), Assistant(p)} /\ added[i].request \in {NoRequestId, p}
           /\ ~(added[i].id = Assistant(p) /\ added[i].content = FullText)
      /\ IdsDiffer(added)
  BY RecordsOfPrompt
<1>4. /\ polls' \subseteq polls \cup {User(p), Assistant(p)}
      /\ cable[p] # "failed" => polls' = polls
  BY <1>1, <1>2
<1> HIDE DEF asks, question, answer, added
<1>5. /\ User(p) \in RecordIds /\ Assistant(p) \in RecordIds
      /\ User(p)[2] = p /\ Assistant(p)[2] = p
      /\ \A q \in Prompts : Assistant(q)[2] = q
      /\ \A id \in RecordIds : id[2] \in Prompts
  BY DEF User, Assistant, RecordIds
<1>6. /\ history \in Seq(Records) /\ page.messages \in Seq(Records)
      /\ stage \in [Prompts -> {"idle", "context", "subscribing", "sending", "failed", "done"}]
      /\ ChatTypes
  BY DEF ChatInv, ChatTypes
<1>7. /\ history' \in Seq(Records) /\ DOMAIN history' = 1 .. (Len(history) + Len(added))
      /\ DOMAIN history = 1 .. Len(history) /\ DOMAIN added = 1 .. Len(added)
      /\ Len(history) \in Nat /\ Len(added) \in Nat
      /\ \A i \in DOMAIN history : history'[i] = history[i]
      /\ \A i \in DOMAIN added : history'[Len(history) + i] = added[i]
  BY <1>1, <1>3, <1>6
\* What is in the history is old or new, by its place.
<1>8. ASSUME NEW i \in DOMAIN history'
      PROVE  \/ i \in DOMAIN history /\ history'[i] = history[i]
             \/ \E j \in DOMAIN added : i = Len(history) + j /\ history'[i] = added[j]
  <2>1. CASE i \in DOMAIN history
    BY <1>7, <2>1
  <2>2. CASE i \notin DOMAIN history
    <3>1. i - Len(history) \in DOMAIN added /\ i = Len(history) + (i - Len(history))
      BY <1>7, <2>2
    <3> QED
      BY <1>7, <3>1
  <2> QED
    BY <2>1, <2>2
<1>9. /\ \A i \in DOMAIN history : /\ history[i].id \in RecordIds
                                  /\ stage[history[i].id[2]] = "done"
                                  /\ history[i].request \in {NoRequestId, history[i].id[2]}
      /\ \A i \in DOMAIN history : history[i].id[2] # p
  <2>1. \A i \in DOMAIN history : history[i] \in Records
    BY <1>6
  <2>2. \A i \in DOMAIN history : history[i].id \in RecordIds
    BY <2>1 DEF Records
  <2>3. \A i \in DOMAIN history : /\ stage[history[i].id[2]] = "done"
                                  /\ history[i].request \in {NoRequestId, history[i].id[2]}
    BY DEF ChatInv, RecordsAreOfPrompts
  <2> QED
    BY <1>1, <2>2, <2>3
<1>10. IdsDiffer(history')
  <2> SUFFICES ASSUME NEW i \in DOMAIN history', NEW j \in DOMAIN history',
                      history'[i].id = history'[j].id
               PROVE  i = j
    BY DEF IdsDiffer
  <2>1. \A k \in DOMAIN added : added[k].id[2] = p
    BY <1>3, <1>5
  <2>2. CASE i \in DOMAIN history
    <3>1. j \in DOMAIN history
      BY <1>7, <1>8, <1>9, <2>1, <2>2
    <3> QED
      BY <1>7, <2>2, <3>1 DEF ChatInv, RecordsAreOfPrompts, IdsDiffer
  <2>3. CASE i \notin DOMAIN history
    <3>1. PICK k \in DOMAIN added : i = Len(history) + k /\ history'[i] = added[k]
      BY <1>8, <2>3
    <3>2. j \notin DOMAIN history
      BY <1>7, <1>9, <2>1, <3>1
    <3>3. PICK l \in DOMAIN added : j = Len(history) + l /\ history'[j] = added[l]
      BY <1>8, <3>2
    <3> QED
      BY <1>3, <3>1, <3>3 DEF IdsDiffer
  <2> QED
    BY <2>2, <2>3
<1>11. RecordsAreOfPrompts'
  <2>1. stage'[p] = "done" /\ \A q \in Prompts : stage[q] = "done" => stage'[q] = "done"
    BY <1>1, <1>6
  <2>2. ASSUME NEW i \in DOMAIN history'
        PROVE  /\ stage'[history'[i].id[2]] = "done"
               /\ history'[i].request \in {NoRequestId, history'[i].id[2]}
    <3>1. CASE i \in DOMAIN history
      BY <1>5, <1>7, <1>9, <2>1, <3>1
    <3>2. CASE i \notin DOMAIN history
      <4>1. PICK j \in DOMAIN added : history'[i] = added[j]
        BY <1>8, <3>2
      <4> QED
        BY <1>3, <1>5, <2>1, <4>1
    <3> QED
      BY <3>1, <3>2
  <2>3. ASSUME NEW id \in polls' PROVE stage'[id[2]] = "done" /\ cable'[id[2]] = "failed"
    <3>1. CASE id \in polls
      <4>1. stage[id[2]] = "done" /\ cable[id[2]] = "failed" /\ id[2] \in Prompts
        BY <1>5, <3>1 DEF ChatInv, ChatTypes, RecordsAreOfPrompts
      <4> QED
        BY <1>1, <2>1, <4>1
    <3>2. CASE id \notin polls
      <4>1. id[2] = p /\ cable[p] = "failed"
        BY <1>4, <1>5, <3>2
      <4> QED
        BY <1>1, <2>1, <4>1
    <3> QED
      BY <3>1, <3>2
  <2> QED
    BY <1>10, <2>2, <2>3 DEF RecordsAreOfPrompts
<1>12. FullTextsAreKnown'
  <2> SUFFICES ASSUME NEW i \in DOMAIN history', NEW q \in Prompts,
                      history'[i].id = Assistant(q), history'[i].content = FullText
               PROVE  fullSeen[q] \/ (cable[q] = "failed" /\ Assistant(q) \notin polls')
    BY <1>1 DEF FullTextsAreKnown
  <2>1. i \in DOMAIN history /\ history'[i] = history[i]
    <3>1. ASSUME NEW j \in DOMAIN added, history'[i] = added[j] PROVE FALSE
      <4>1. added[j].id = Assistant(p)
        BY <1>3, <3>1 DEF User, Assistant
      <4> QED
        BY <1>3, <3>1, <4>1
    <3> QED
      BY <1>8, <3>1
  <2>2. q # p
    BY <1>5, <1>9, <2>1
  <2>3. fullSeen[q] \/ (cable[q] = "failed" /\ Assistant(q) \notin polls)
    BY <2>1 DEF ChatInv, FullTextsAreKnown
  <2>4. Assistant(q) \notin {User(p), Assistant(p)}
    BY <1>5, <2>2
  <2> QED
    BY <1>4, <2>3, <2>4
<1>13. /\ page' = [listening |-> page'.listening, messages |-> page'.messages,
                   selections |-> page'.selections, asked |-> page'.asked]
       /\ page'.listening = page.listening /\ page'.selections = page.selections
       /\ page'.messages \in Seq(Records)
       /\ page'.messages = IF page.listening THEN page.messages \o added ELSE page.messages
  BY <1>1, <1>3, <1>6, PageHears
<1>14. ChatTypes'
  <2>1. polls' \subseteq RecordIds
    BY <1>4, <1>5 DEF ChatInv, ChatTypes
  <2>2. stage' \in [Prompts -> {"idle", "context", "subscribing", "sending", "failed", "done"}]
    BY <1>1, <1>6
  <2> QED
    BY <1>1, <1>7, <1>13, <2>1, <2>2 DEF ChatInv, ChatTypes
<1>15. PageAgrees'
  <2>1. ASSUME page.listening, ~displaced
        PROVE  /\ Agrees(history', page'.messages)
               /\ ~restoring => ShowsAll(history', page'.messages)
    <3>1. Agrees(history, page.messages) /\ (~restoring => ShowsAll(history, page.messages))
      BY <2>1 DEF ChatInv, PageAgrees
    <3>2. /\ Agrees(history \o added, page.messages \o added)
          /\ ShowsAll(history, page.messages) =>
               ShowsAll(history \o added, page.messages \o added)
      BY <1>1, <1>3, <1>6, <1>10, <3>1, AddedAgree
    <3> QED
      BY <1>1, <1>13, <2>1, <3>1, <3>2
  <2> QED
    BY <1>1, <1>13, <2>1 DEF ChatInv, PageAgrees
<1>16. StaysFinal
  BY <1>7 DEF StaysFinal
<1>17. CablesFollow'
  BY <1>1, <1>6 DEF ChatInv, CablesFollow
<1> QED
  BY <1>11, <1>12, <1>14, <1>15, <1>16, <1>17 DEF ChatInv

\* The page after an update of a record, whether it shows it or not.
LEMMA PageIsUpdated ==
  ASSUME ChatTypes, NEW record \in Records, SendUpdate(record)
  PROVE  /\ page' = [listening |-> page'.listening, messages |-> page'.messages,
                     selections |-> page'.selections, asked |-> page'.asked]
         /\ page'.listening = page.listening /\ page'.selections = page.selections
         /\ page'.messages \in Seq(Records) /\ displaced' \in BOOLEAN
         /\ ~page.listening => page'.messages = page.messages
         /\ displaced => displaced'
         /\ page.listening /\ ~IsShown(page.messages, record.id) => displaced'
         /\ page.listening /\ IsShown(page.messages, record.id) =>
              page'.messages =
                [page.messages EXCEPT ![FirstIndex(page.messages, record.id)] = record]
<1> DEFINE m == page.messages
           n == IF IsShown(m, record.id) THEN [m EXCEPT ![FirstIndex(m, record.id)] = record]
                ELSE IF m = <<>> THEN <<record>>
                ELSE [m EXCEPT ![Len(m)] = record]
<1>1. /\ page = [listening |-> page.listening, messages |-> page.messages,
                 selections |-> page.selections, asked |-> page.asked]
      /\ m \in Seq(Records) /\ page.listening \in BOOLEAN /\ displaced \in BOOLEAN
  BY DEF ChatTypes
<1>2. n \in Seq(Records)
  <2>1. CASE IsShown(m, record.id)
    <3>1. FirstIndex(m, record.id) \in DOMAIN m
      BY <1>1, <2>1, FirstIndexFinds
    <3> HIDE DEF m
    <3> QED
      BY <1>1, <2>1, <3>1
  <2>2. CASE ~IsShown(m, record.id)
    <3> HIDE DEF m
    <3>1. m # <<>> => [m EXCEPT ![Len(m)] = record] \in Seq(Records)
      BY <1>1
    <3> QED
      BY <2>2, <3>1
  <2> QED
    BY <2>1, <2>2
<1>3. /\ page' = PageUpdates(page, record)
      /\ displaced' = (displaced \/ (page.listening /\ ~IsShown(page.messages, record.id)))
  BY DEF SendUpdate
<1>4. CASE page.listening
  <2>1. page' = [page EXCEPT !.messages = n]
    BY <1>1, <1>3, <1>4 DEF PageUpdates
  <2> HIDE DEF n
  <2>2. page' = [listening |-> page.listening, messages |-> n,
                 selections |-> page.selections, asked |-> page.asked]
    BY <1>1, <2>1
  <2>3. page'.messages = n
    BY <2>2
  <2>4. IsShown(m, record.id) => n = [m EXCEPT ![FirstIndex(m, record.id)] = record]
    BY DEF n
  <2>5. /\ page' = [listening |-> page'.listening, messages |-> page'.messages,
                    selections |-> page'.selections, asked |-> page'.asked]
        /\ page'.listening = page.listening /\ page'.selections = page.selections
    BY <2>2
  <2>6. page'.messages \in Seq(Records)
    BY <1>2, <2>3
  <2>7. displaced' \in BOOLEAN /\ (displaced => displaced')
    BY <1>1, <1>3
  <2>8. ~IsShown(page.messages, record.id) => displaced'
    BY <1>3, <1>4
  <2>9. IsShown(page.messages, record.id) =>
          page'.messages =
            [page.messages EXCEPT ![FirstIndex(page.messages, record.id)] = record]
    BY <2>3, <2>4
  <2> HIDE DEF m
  <2> QED
    BY <1>4, <2>5, <2>6, <2>7, <2>8, <2>9
<1>5. CASE ~page.listening
  <2>1. page' = page
    BY <1>3, <1>5 DEF PageUpdates
  <2> QED
    BY <1>1, <1>3, <1>5, <2>1
<1> QED
  BY <1>1, <1>4, <1>5

\* A record of the history that gets another content.
LEMMA UpdateKeeps ==
  ASSUME ChatInv, NEW i \in DOMAIN history, NEW record \in Records,
         record.id = history[i].id, record.request \in {NoRequestId, record.id[2]},
         history' = [history EXCEPT ![i] = record], SendUpdate(record),
         UNCHANGED <<kind, stage, selected, restoring>>
  PROVE  /\ history' \in Seq(Records)
         /\ page' = [listening |-> page'.listening, messages |-> page'.messages,
                     selections |-> page'.selections, asked |-> page'.asked]
         /\ page'.messages \in Seq(Records) /\ page'.listening \in BOOLEAN
         /\ displaced' \in BOOLEAN
         /\ DOMAIN history' = DOMAIN history /\ history'[i] = record
         /\ \A j \in DOMAIN history : j # i => history'[j] = history[j]
         /\ \A j \in DOMAIN history : history'[j].id = history[j].id
         /\ IdsDiffer(history')
         /\ \A j \in DOMAIN history' :
              /\ stage'[history'[j].id[2]] = "done"
              /\ history'[j].request \in {NoRequestId, history'[j].id[2]}
         /\ PageAgrees'
<1>1. /\ ChatTypes /\ history \in Seq(Records) /\ page.messages \in Seq(Records)
      /\ page.listening \in BOOLEAN /\ IdsDiffer(history)
      /\ \A j \in DOMAIN history :
           /\ stage[history[j].id[2]] = "done"
           /\ history[j].request \in {NoRequestId, history[j].id[2]}
  BY DEF ChatInv, ChatTypes, RecordsAreOfPrompts
<1>2. /\ history' \in Seq(Records) /\ DOMAIN history' = DOMAIN history /\ history'[i] = record
      /\ \A j \in DOMAIN history : j # i => history'[j] = history[j]
  BY <1>1
<1>3. \A j \in DOMAIN history : history'[j].id = history[j].id
  BY <1>2
<1>4. IdsDiffer(history')
  BY <1>1, <1>2, <1>3 DEF IdsDiffer
<1>5. \A j \in DOMAIN history' : /\ stage'[history'[j].id[2]] = "done"
                                /\ history'[j].request \in {NoRequestId, history'[j].id[2]}
  BY <1>1, <1>2, <1>3
<1>6. /\ page' = [listening |-> page'.listening, messages |-> page'.messages,
                  selections |-> page'.selections, asked |-> page'.asked]
      /\ page'.listening = page.listening /\ page'.selections = page.selections
      /\ page'.messages \in Seq(Records) /\ displaced' \in BOOLEAN
      /\ ~page.listening => page'.messages = page.messages
      /\ displaced => displaced'
      /\ page.listening /\ ~IsShown(page.messages, record.id) => displaced'
      /\ page.listening /\ IsShown(page.messages, record.id) =>
           page'.messages =
             [page.messages EXCEPT ![FirstIndex(page.messages, record.id)] = record]
  BY <1>1, PageIsUpdated
<1>7. ASSUME page.listening, ~displaced'
      PROVE  /\ Agrees(history', page'.messages)
             /\ ~restoring => ShowsAll(history', page'.messages)
  <2>1. ~displaced /\ IsShown(page.messages, record.id)
    BY <1>6, <1>7
  <2>2. Agrees(history, page.messages) /\ (~restoring => ShowsAll(history, page.messages))
    BY <1>7, <2>1 DEF ChatInv, PageAgrees
  <2> DEFINE n == [page.messages EXCEPT ![FirstIndex(page.messages, record.id)] = record]
             g == [history EXCEPT ![i] = record]
  <2>3. Agrees(g, n) /\ (ShowsAll(history, page.messages) => ShowsAll(g, n))
    BY <1>1, <2>1, <2>2, UpdatedAgree
  <2>4. history' = g /\ page'.messages = n
    BY <1>6, <1>7, <2>1
  <2> HIDE DEF n, g
  <2> QED
    BY <2>2, <2>3, <2>4
<1>8. PageAgrees'
  BY <1>6, <1>7 DEF ChatInv, PageAgrees
<1> QED
  BY <1>1, <1>2, <1>3, <1>4, <1>5, <1>6, <1>8

\* A message for an answer changes nothing, or the one record of the answer.
LEMMA UpdateRecordFinds ==
  ASSUME ChatInv, NEW p \in Prompts, NEW content \in Int, UpdateRecord(p, content)
  PROVE  \/ UNCHANGED <<history, page, displaced>>
         \/ \E i \in DOMAIN history : \E record \in Records :
              /\ history[i].id = Assistant(p) /\ record.id = Assistant(p)
              /\ record.content = content /\ record.request = p
              /\ history' = [history EXCEPT ![i] = record]
              /\ SendUpdate(record)
<1> DEFINE found == FindRecord(p, "assistant")
<1>1. CASE found = {}
  BY <1>1 DEF UpdateRecord
<1>2. CASE found # {}
  <2> DEFINE i == CHOOSE j \in found : \A k \in found : j <= k
             record == [history[i] EXCEPT !.content = content, !.state = "ready"]
  <2>1. history' = [history EXCEPT ![i] = record] /\ SendUpdate(record)
    BY <1>2 DEF UpdateRecord
  <2>2. found \subseteq DOMAIN history /\ history \in Seq(Records)
    BY DEF FindRecord, ChatInv, ChatTypes
  <2>3. \A j \in found : history[j].id = Assistant(p) /\ history[j].request = p
    <3> SUFFICES ASSUME NEW j \in found
                 PROVE  history[j].id = Assistant(p) /\ history[j].request = p
      OBVIOUS
    <3>1. history[j].request = p /\ history[j].id[1] = "assistant"
      BY DEF FindRecord
    <3>2. history[j].request \in {NoRequestId, history[j].id[2]}
      BY <2>2 DEF ChatInv, RecordsAreOfPrompts
    <3>3. history[j].id[2] = p
      BY <3>1, <3>2, NoRequestIsNoPrompt
    <3>4. history[j] \in Records
      BY <2>2
    <3>5. history[j].id \in RecordIds
      BY <3>4 DEF Records
    <3> QED
      BY <3>1, <3>3, <3>5 DEF RecordIds, Assistant
  <2>4. \A j, k \in found : j = k /\ j <= k
    <3>1. \A j, k \in found : j = k
      BY <2>2, <2>3 DEF ChatInv, RecordsAreOfPrompts, IdsDiffer
    <3>2. \A j \in found : j \in Nat
      BY <2>2
    <3> QED
      BY <3>1, <3>2
  <2>5. i \in found
    BY <1>2, <2>4
  <2> HIDE DEF i, found
  <2>6. history[i] \in Records /\ i \in DOMAIN history
    BY <2>2, <2>5
  <2>7. record \in Records /\ record.content = content /\ record.id = history[i].id
        /\ record.request = history[i].request
    BY <2>6 DEF Records
  <2> HIDE DEF record
  <2> QED
    BY <2>1, <2>3, <2>5, <2>6, <2>7
<1> QED
  BY <1>1, <1>2

LEMMA ReceiveChunkKeeps ==
  ASSUME ChatInv, NEW p \in Prompts, NEW k \in 1 .. MaxChunks, ReceiveChunk(p, k)
  PROVE  ChatInv' /\ StaysFinal
<1>1. /\ cable[p] \in {"open", "closed"} /\ k \in Int /\ k # FullText
      /\ UNCHANGED <<kind, stage, cable, fullSeen, polls, selected, restoring>>
  BY DEF ReceiveChunk, FullText
<1>2. CASE UNCHANGED <<history, page, displaced>>
  BY <1>1, <1>2 DEF ChatInv, ChatTypes, RecordsAreOfPrompts, CablesFollow, FullTextsAreKnown,
                    PageAgrees, StaysFinal
<1>3. CASE ~UNCHANGED <<history, page, displaced>>
  <2>1. ~fullSeen[p] /\ UpdateRecord(p, k)
    BY <1>3 DEF ReceiveChunk
  <2>2. PICK i \in DOMAIN history, record \in Records :
          /\ history[i].id = Assistant(p) /\ record.id = Assistant(p)
          /\ record.content = k /\ record.request = p
          /\ history' = [history EXCEPT ![i] = record]
          /\ SendUpdate(record)
    BY <1>1, <1>3, <2>1, UpdateRecordFinds
  <2>3. record.request \in {NoRequestId, record.id[2]}
    BY <2>2 DEF Assistant
  <2>4. /\ history' \in Seq(Records)
        /\ page' = [listening |-> page'.listening, messages |-> page'.messages,
                    selections |-> page'.selections, asked |-> page'.asked]
        /\ page'.messages \in Seq(Records) /\ page'.listening \in BOOLEAN
        /\ displaced' \in BOOLEAN
        /\ DOMAIN history' = DOMAIN history /\ history'[i] = record
        /\ \A j \in DOMAIN history : j # i => history'[j] = history[j]
        /\ IdsDiffer(history')
        /\ \A j \in DOMAIN history' : /\ stage'[history'[j].id[2]] = "done"
                                      /\ history'[j].request \in {NoRequestId, history'[j].id[2]}
        /\ PageAgrees'
    BY <1>1, <2>2, <2>3, UpdateKeeps
  <2>5. ChatTypes' /\ RecordsAreOfPrompts' /\ CablesFollow'
    BY <1>1, <2>4 DEF ChatInv, ChatTypes, RecordsAreOfPrompts, CablesFollow
  <2>6. FullTextsAreKnown'
    BY <1>1, <2>2, <2>4 DEF ChatInv, FullTextsAreKnown
  <2>7. history[i].content # FullText
    BY <1>1, <2>1, <2>2 DEF ChatInv, FullTextsAreKnown
  <2>8. StaysFinal
    BY <2>4, <2>7 DEF StaysFinal
  <2> QED
    BY <2>4, <2>5, <2>6, <2>8 DEF ChatInv
<1> QED
  BY <1>2, <1>3

LEMMA ReceiveFullKeeps ==
  ASSUME ChatInv, NEW p \in Prompts, ReceiveFull(p)
  PROVE  ChatInv' /\ StaysFinal
<1>1. /\ cable[p] = "open" /\ UNCHANGED <<kind, stage, polls, selected, restoring>>
      /\ cable \in [Prompts -> {"none", "open", "failed", "closed"}]
      /\ fullSeen \in [Prompts -> BOOLEAN]
  BY DEF ReceiveFull, ChatInv, ChatTypes
<1>2. cable' = [cable EXCEPT ![p] = "closed"] /\ fullSeen' = [fullSeen EXCEPT ![p] = TRUE]
  BY <1>1 DEF ReceiveFull, Disconnected, seenFull
<1>3. /\ fullSeen' \in [Prompts -> BOOLEAN] /\ fullSeen'[p] /\ cable'[p] = "closed"
      /\ cable' \in [Prompts -> {"none", "open", "failed", "closed"}]
      /\ \A q \in Prompts \ {p} : fullSeen'[q] = fullSeen[q] /\ cable'[q] = cable[q]
  BY <1>1, <1>2
<1>4. CablesFollow'
  <2>1. stage[p] \notin {"idle", "context", "subscribing"}
    BY <1>1 DEF ChatInv, CablesFollow
  <2> QED
    BY <1>1, <1>3, <2>1 DEF ChatInv, CablesFollow
<1>5. \A id \in polls : stage'[id[2]] = "done" /\ cable'[id[2]] = "failed"
  <2>1. \A id \in polls : id[2] \in Prompts
    BY DEF ChatInv, ChatTypes, RecordIds
  <2> QED
    BY <1>1, <1>3, <2>1 DEF ChatInv, RecordsAreOfPrompts
<1>6. \A q \in Prompts : fullSeen[q] \/ (cable[q] = "failed" /\ Assistant(q) \notin polls) =>
        fullSeen'[q] \/ (cable'[q] = "failed" /\ Assistant(q) \notin polls)
  BY <1>1, <1>3
<1>7. CASE UNCHANGED <<history, page, displaced>>
  <2>1. FullTextsAreKnown'
    BY <1>1, <1>6, <1>7 DEF ChatInv, FullTextsAreKnown
  <2> QED
    BY <1>1, <1>3, <1>4, <1>5, <1>7, <2>1
       DEF ChatInv, ChatTypes, RecordsAreOfPrompts, PageAgrees, StaysFinal
<1>8. CASE ~UNCHANGED <<history, page, displaced>>
  <2>1. UpdateRecord(p, FullText) /\ FullText \in Int
    BY <1>8 DEF ReceiveFull, FullText
  <2>2. PICK i \in DOMAIN history, record \in Records :
          /\ history[i].id = Assistant(p) /\ record.id = Assistant(p)
          /\ record.content = FullText /\ record.request = p
          /\ history' = [history EXCEPT ![i] = record]
          /\ SendUpdate(record)
    BY <1>8, <2>1, UpdateRecordFinds
  <2>3. record.request \in {NoRequestId, record.id[2]}
    BY <2>2 DEF Assistant
  <2>4. /\ history' \in Seq(Records)
        /\ page' = [listening |-> page'.listening, messages |-> page'.messages,
                    selections |-> page'.selections, asked |-> page'.asked]
        /\ page'.messages \in Seq(Records) /\ page'.listening \in BOOLEAN
        /\ displaced' \in BOOLEAN
        /\ DOMAIN history' = DOMAIN history /\ history'[i] = record
        /\ \A j \in DOMAIN history : j # i => history'[j] = history[j]
        /\ IdsDiffer(history')
        /\ \A j \in DOMAIN history' : /\ stage'[history'[j].id[2]] = "done"
                                      /\ history'[j].request \in {NoRequestId, history'[j].id[2]}
        /\ PageAgrees'
    BY <1>1, <2>2, <2>3, UpdateKeeps
  <2>5. ChatTypes' /\ RecordsAreOfPrompts'
    BY <1>1, <1>3, <1>5, <2>4 DEF ChatInv, ChatTypes, RecordsAreOfPrompts
  <2>6. FullTextsAreKnown'
    <3> SUFFICES ASSUME NEW j \in DOMAIN history', NEW q \in Prompts,
                        history'[j].id = Assistant(q), history'[j].content = FullText
                 PROVE  fullSeen'[q] \/ (cable'[q] = "failed" /\ Assistant(q) \notin polls)
      BY <1>1 DEF FullTextsAreKnown
    <3>1. CASE j = i
      <4>1. q = p
        BY <2>2, <2>4, <3>1 DEF Assistant
      <4> QED
        BY <1>3, <4>1
    <3>2. CASE j # i
      BY <1>6, <2>4, <3>2 DEF ChatInv, FullTextsAreKnown
    <3> QED
      BY <3>1, <3>2
  <2>7. StaysFinal
    BY <2>2, <2>4 DEF StaysFinal
  <2> QED
    BY <1>4, <2>4, <2>5, <2>6, <2>7 DEF ChatInv
<1> QED
  BY <1>7, <1>8

\* A record that was pulled, whether it still is in the history or not.
LEMMA RefreshedKeeps ==
  ASSUME ChatInv, NEW id \in polls, NEW content \in PulledContents(id), Refreshed(id, content),
         polls' = polls \ {id},
         UNCHANGED <<kind, stage, cable, fullSeen, selected, restoring>>
  PROVE  ChatInv' /\ StaysFinal
<1> DEFINE record == NewRecord(id, id[2], "ready", content)
<1>1. /\ history' = [i \in DOMAIN history |-> IF history[i].id = id THEN record ELSE history[i]]
      /\ SendUpdate(record)
  BY DEF Refreshed
<1>2. id \in RecordIds /\ id[2] \in Prompts /\ stage[id[2]] = "done" /\ cable[id[2]] = "failed"
  BY DEF ChatInv, ChatTypes, RecordsAreOfPrompts, RecordIds
<1>3. content \in Int /\ (id[1] = "user" => content = FullText)
  BY DEF PulledContents, FullText, NoContent
<1>4. record \in Records /\ record.id = id /\ record.request = id[2] /\ record.content = content
  BY <1>2, <1>3 DEF NewRecord, Records
<1> HIDE DEF record
<1>5. ChatTypes /\ history \in Seq(Records) /\ IdsDiffer(history) /\ polls' \subseteq polls
  BY DEF ChatInv, ChatTypes, RecordsAreOfPrompts
<1>6. \A p \in Prompts : fullSeen[p] \/ (cable[p] = "failed" /\ Assistant(p) \notin polls) =>
        fullSeen'[p] \/ (cable'[p] = "failed" /\ Assistant(p) \notin polls')
  BY <1>5
<1>7. CASE ~IsShown(history, id)
  <2>1. history' = history
    BY <1>1, <1>5, <1>7 DEF IsShown
  <2>2. /\ page' = [listening |-> page'.listening, messages |-> page'.messages,
                    selections |-> page'.selections, asked |-> page'.asked]
        /\ page'.listening = page.listening /\ page'.selections = page.selections
        /\ page'.messages \in Seq(Records) /\ displaced' \in BOOLEAN
        /\ ~page.listening => page'.messages = page.messages
        /\ displaced => displaced'
        /\ page.listening /\ ~IsShown(page.messages, record.id) => displaced'
    BY <1>1, <1>4, <1>5, PageIsUpdated
  <2>3. ~(page.listening /\ ~displaced')
    <3> SUFFICES ASSUME page.listening, ~displaced' PROVE FALSE
      OBVIOUS
    <3>1. ~displaced /\ IsShown(page.messages, id)
      BY <1>4, <2>2
    <3>2. Agrees(history, page.messages)
      BY <3>1 DEF ChatInv, PageAgrees
    <3> QED
      BY <1>7, <3>1, <3>2, ShownIsHistory
  <2>4. PageAgrees'
    BY <2>2, <2>3 DEF ChatInv, PageAgrees
  <2>5. ChatTypes' /\ RecordsAreOfPrompts' /\ CablesFollow'
    BY <1>5, <2>1, <2>2 DEF ChatInv, ChatTypes, RecordsAreOfPrompts, CablesFollow
  <2>6. FullTextsAreKnown' /\ StaysFinal
    BY <1>6, <2>1 DEF ChatInv, FullTextsAreKnown, StaysFinal
  <2> QED
    BY <2>4, <2>5, <2>6 DEF ChatInv
<1>8. CASE IsShown(history, id)
  <2>1. PICK i \in DOMAIN history : history[i].id = id
    BY <1>8 DEF IsShown
  <2>2. history' = [history EXCEPT ![i] = record]
    <3>1. \A j \in DOMAIN history : history[j].id = id <=> j = i
      BY <1>5, <2>1 DEF IdsDiffer
    <3> QED
      BY <1>1, <1>5, <3>1
  <2>3. /\ history' \in Seq(Records)
        /\ page' = [listening |-> page'.listening, messages |-> page'.messages,
                    selections |-> page'.selections, asked |-> page'.asked]
        /\ page'.messages \in Seq(Records) /\ page'.listening \in BOOLEAN
        /\ displaced' \in BOOLEAN
        /\ DOMAIN history' = DOMAIN history /\ history'[i] = record
        /\ \A j \in DOMAIN history : j # i => history'[j] = history[j]
        /\ IdsDiffer(history')
        /\ \A j \in DOMAIN history' : /\ stage'[history'[j].id[2]] = "done"
                                      /\ history'[j].request \in {NoRequestId, history'[j].id[2]}
        /\ PageAgrees'
    BY <1>1, <1>4, <2>1, <2>2, UpdateKeeps
  <2>4. ChatTypes' /\ RecordsAreOfPrompts' /\ CablesFollow'
    BY <1>5, <2>3 DEF ChatInv, ChatTypes, RecordsAreOfPrompts, CablesFollow
  <2>5. FullTextsAreKnown'
    <3> SUFFICES ASSUME NEW j \in DOMAIN history', NEW p \in Prompts,
                        history'[j].id = Assistant(p), history'[j].content = FullText
                 PROVE  fullSeen'[p] \/ (cable'[p] = "failed" /\ Assistant(p) \notin polls')
      BY DEF FullTextsAreKnown
    <3>1. CASE j = i
      <4>1. id = Assistant(p)
        BY <1>4, <2>3, <3>1
      <4>2. Assistant(p)[2] = p
        BY DEF Assistant
      <4> QED
        BY <1>2, <4>1, <4>2
    <3>2. CASE j # i
      BY <1>6, <2>3, <3>2 DEF ChatInv, FullTextsAreKnown
    <3> QED
      BY <3>1, <3>2
  \* The answer of a prompt without a cable is pulled only once.
  <2>6. history[i].content = FullText => content = FullText
    <3> SUFFICES ASSUME history[i].content = FullText, id[1] = "assistant" PROVE FALSE
      BY <1>2, <1>3 DEF RecordIds
    <3>1. id = Assistant(id[2])
      BY <1>2 DEF RecordIds, Assistant
    <3>2. fullSeen[id[2]]
      BY <1>2, <2>1, <3>1 DEF ChatInv, FullTextsAreKnown
    <3> QED
      BY <1>2, <3>2 DEF ChatInv, CablesFollow
  <2>7. StaysFinal
    BY <1>4, <2>3, <2>6 DEF StaysFinal
  <2> QED
    BY <2>3, <2>4, <2>5, <2>7 DEF ChatInv
<1> QED
  BY <1>7, <1>8

LEMMA RefreshRecordKeeps ==
  ASSUME ChatInv, NEW id, RefreshRecord(id)
  PROVE  ChatInv' /\ StaysFinal
<1>1. /\ id \in polls /\ polls' = polls \ {id}
      /\ UNCHANGED <<kind, stage, cable, fullSeen, selected, restoring>>
  BY DEF RefreshRecord
<1>2. CASE UNCHANGED <<history, page, displaced>>
  BY <1>1, <1>2 DEF ChatInv, ChatTypes, RecordsAreOfPrompts, CablesFollow, FullTextsAreKnown,
                    PageAgrees, StaysFinal
<1>3. CASE ~UNCHANGED <<history, page, displaced>>
  <2>1. PICK content \in PulledContents(id) : Refreshed(id, content)
    BY <1>3 DEF RefreshRecord
  <2> QED
    BY <1>1, <2>1, RefreshedKeeps
<1> QED
  BY <1>2, <1>3

LEMMA ChatClearedKeeps ==
  ASSUME ChatInv, ChatCleared
  PROVE  ChatInv' /\ StaysFinal
<1>1. UNCHANGED <<kind, stage, cable, fullSeen, polls, selected, restoring, displaced>>
  BY DEF ChatCleared
<1>2. CASE UNCHANGED <<history, page>>
  BY <1>1, <1>2 DEF ChatInv, ChatTypes, RecordsAreOfPrompts, CablesFollow, FullTextsAreKnown,
                    PageAgrees, StaysFinal
<1>3. CASE history' = <<>> /\ page' = PageClears(page)
  <2>1. /\ page = [listening |-> page.listening, messages |-> page.messages,
                   selections |-> page.selections, asked |-> page.asked]
        /\ ~page.listening => page.messages = <<>>
    BY DEF ChatInv, ChatTypes, PageAgrees
  <2>2. page' = [listening |-> page.listening, messages |-> <<>>,
                 selections |-> page.selections, asked |-> page.asked]
    BY <1>3, <2>1 DEF PageClears
  <2>3. /\ page' = [listening |-> page'.listening, messages |-> page'.messages,
                    selections |-> page'.selections, asked |-> page'.asked]
        /\ page'.listening = page.listening /\ page'.messages = <<>>
        /\ page'.selections = page.selections
    BY <2>2
  <2>4. <<>> \in Seq(Records)
    BY EmptySeq
  <2>5. ChatTypes'
    BY <1>1, <1>3, <2>3, <2>4 DEF ChatInv, ChatTypes
  <2>6. Agrees(<<>>, <<>>) /\ ShowsAll(<<>>, <<>>)
    BY DEF Agrees, ShowsAll
  <2>7. PageAgrees'
    BY <1>1, <1>3, <2>3, <2>6 DEF ChatInv, PageAgrees
  <2>8. DOMAIN history' = {}
    BY <1>3
  <2>9. RecordsAreOfPrompts' /\ CablesFollow' /\ FullTextsAreKnown'
    BY <1>1, <2>8 DEF ChatInv, RecordsAreOfPrompts, IdsDiffer, CablesFollow, FullTextsAreKnown
  <2> QED
    BY <2>5, <2>7, <2>8, <2>9 DEF ChatInv, StaysFinal
<1> QED
  BY <1>2, <1>3 DEF ChatCleared, forgetHistory

LEMMA GetContextItemContentKeeps ==
  ASSUME ChatInv, NEW i, GetContextItemContent(i)
  PROVE  ChatInv' /\ StaysFinal
<1>1. PICK j \in DOMAIN history :
        /\ history[j].id = page.messages[i].id
        /\ history' = [history EXCEPT ![j].hydrated = TRUE]
        /\ page' = PageAdds(page, <<history'[j]>>)
  BY DEF GetContextItemContent
<1>2. /\ i \in DOMAIN page.messages
      /\ UNCHANGED <<kind, stage, cable, fullSeen, polls, selected, restoring, displaced>>
  BY DEF GetContextItemContent
<1>3. ChatTypes /\ history \in Seq(Records) /\ page.messages \in Seq(Records)
  BY DEF ChatInv, ChatTypes
<1> DEFINE record == [history[j] EXCEPT !.hydrated = TRUE]
<1>4. history[j] \in Records
  BY <1>3
<1>5. /\ record \in Records /\ record.id = history[j].id /\ record.request = history[j].request
      /\ record.content = history[j].content /\ record.state = history[j].state
  BY <1>4 DEF Records
<1>6. history' = [history EXCEPT ![j] = record]
  BY <1>1
<1> HIDE DEF record
<1>7. /\ history' \in Seq(Records) /\ DOMAIN history' = DOMAIN history /\ history'[j] = record
      /\ \A k \in DOMAIN history : k # j => history'[k] = history[k]
  BY <1>3, <1>5, <1>6
<1>8. \A k \in DOMAIN history :
        /\ history'[k].id = history[k].id /\ history'[k].content = history[k].content
        /\ history'[k].state = history[k].state /\ history'[k].request = history[k].request
  BY <1>5, <1>7
<1> DEFINE added == <<record>>
<1>9. /\ added \in Seq(Records) /\ DOMAIN added = {1} /\ added[1] = record
      /\ page' = PageAdds(page, added)
  <2>1. page' = PageAdds(page, added)
    BY <1>1, <1>7
  <2>2. added \in Seq(Records) /\ DOMAIN added = {1} /\ added[1] = record
    BY <1>5
  <2> QED
    BY <2>1, <2>2
<1> HIDE DEF added
<1>10. /\ page' = [listening |-> page'.listening, messages |-> page'.messages,
                   selections |-> page'.selections, asked |-> page'.asked]
       /\ page'.listening = page.listening /\ page'.selections = page.selections
       /\ page'.messages \in Seq(Records)
       /\ page'.messages = IF page.listening THEN page.messages \o added ELSE page.messages
  BY <1>3, <1>9, PageHears
<1>11. ChatTypes'
  BY <1>2, <1>7, <1>10 DEF ChatInv, ChatTypes
<1>12. RecordsAreOfPrompts' /\ CablesFollow' /\ FullTextsAreKnown'
  BY <1>2, <1>7, <1>8
     DEF ChatInv, RecordsAreOfPrompts, IdsDiffer, CablesFollow, FullTextsAreKnown
<1>13. PageAgrees'
  <2>1. ASSUME page.listening, ~displaced
        PROVE  /\ Agrees(history', page'.messages)
               /\ ~restoring => ShowsAll(history', page'.messages)
    <3>1. Agrees(history, page.messages) /\ (~restoring => ShowsAll(history, page.messages))
      BY <2>1 DEF ChatInv, PageAgrees
    <3>2. \A k \in DOMAIN added : IsShown(page.messages, added[k].id)
      BY <1>1, <1>2, <1>5, <1>9 DEF IsShown
    <3>3. /\ Agrees(history', page.messages \o added)
          /\ ShowsAll(history, page.messages) => ShowsAll(history', page.messages \o added)
      BY <1>3, <1>7, <1>8, <1>9, <3>1, <3>2, CopiedAgree
    <3> QED
      BY <1>10, <2>1, <3>1, <3>3
  <2> QED
    BY <1>2, <1>10, <2>1 DEF ChatInv, PageAgrees
<1>14. StaysFinal
  BY <1>8 DEF StaysFinal
<1> QED
  BY <1>11, <1>12, <1>13, <1>14 DEF ChatInv

LEMMA ChatInitInv == ChatInit => ChatInv
<1> SUFFICES ASSUME ChatInit PROVE ChatInv
  OBVIOUS
<1>1. /\ history = <<>> /\ polls = {} /\ restoring = FALSE /\ displaced = FALSE
      /\ page = [listening |-> FALSE, messages |-> <<>>, selections |-> {}, asked |-> {}]
      /\ kind \in [Prompts -> {"page", "extension", "reset"}]
      /\ stage = [p \in Prompts |-> "idle"] /\ cable = [p \in Prompts |-> "none"]
      /\ fullSeen = [p \in Prompts |-> FALSE]
  BY DEF ChatInit
<1>2. /\ page.listening = FALSE /\ page.messages = <<>>
      /\ page = [listening |-> page.listening, messages |-> page.messages,
                 selections |-> page.selections, asked |-> page.asked]
  BY <1>1
<1>3. <<>> \in Seq(Records) /\ DOMAIN history = {}
  BY <1>1, EmptySeq
<1>4. ChatTypes
  BY <1>1, <1>2, <1>3 DEF ChatTypes
<1>5. RecordsAreOfPrompts /\ FullTextsAreKnown
  BY <1>1, <1>3 DEF RecordsAreOfPrompts, IdsDiffer, FullTextsAreKnown
<1>6. CablesFollow
  BY <1>1 DEF CablesFollow
<1>7. PageAgrees
  BY <1>1, <1>2 DEF PageAgrees
<1> QED
  BY <1>4, <1>5, <1>6, <1>7 DEF ChatInv

LEMMA ChatStepKeeps == ChatInv /\ [ChatNext]_chatVars => ChatInv' /\ [StaysFinal]_chatVars
<1> SUFFICES ASSUME ChatInv, [ChatNext]_chatVars PROVE ChatInv' /\ (StaysFinal \/ UNCHANGED chatVars)
  OBVIOUS
<1>1. CASE AppReady
  BY <1>1, AppReadyKeeps
<1>2. CASE RestoreHistory
  BY <1>2, RestoreHistoryKeeps
<1>3. CASE ChatCleared
  BY <1>3, ChatClearedKeeps
<1>4. CASE \/ ClearChat \/ CancelPrompt
           \/ \E c \in ContextItems : AddContextItem(c) \/ RemoveContextItem(c)
  BY <1>4, SelectingKeeps
<1>5. ASSUME NEW p \in Prompts,
             NewPrompt(p) \/ BuildRecord(p) \/ Subscribe(p) \/ ServerAccepts(p) \/ ActionFails(p)
      PROVE  ChatInv' /\ StaysFinal
  BY <1>5, StagesKeep
<1>6. ASSUME NEW p \in Prompts, ActionReturns(p) PROVE ChatInv' /\ StaysFinal
  BY <1>6, ActionReturnsKeeps
<1>7. ASSUME NEW p \in Prompts, ReceiveFull(p) PROVE ChatInv' /\ StaysFinal
  BY <1>7, ReceiveFullKeeps
<1>8. ASSUME NEW p \in Prompts, NEW k \in 1 .. MaxChunks, ReceiveChunk(p, k)
      PROVE  ChatInv' /\ StaysFinal
  BY <1>8, ReceiveChunkKeeps
<1>9. ASSUME NEW id, RefreshRecord(id) PROVE ChatInv' /\ StaysFinal
  BY <1>9, RefreshRecordKeeps
<1>10. ASSUME NEW i, GetContextItemContent(i) PROVE ChatInv' /\ StaysFinal
  BY <1>10, GetContextItemContentKeeps
<1>11. CASE UNCHANGED chatVars
  BY <1>11 DEF chatVars, ChatInv, ChatTypes, RecordsAreOfPrompts, CablesFollow,
               FullTextsAreKnown, PageAgrees
<1> QED
  BY <1>1, <1>2, <1>3, <1>4, <1>5, <1>6, <1>7, <1>8, <1>9, <1>10, <1>11 DEF ChatNext

\* Whatever prompts there are, and in whatever order the mutations return, messages arrive,
\* records are pulled and the user clears: a page that has been sent the history shows it,
\* unless it was sent an update of a record that it did not show.
THEOREM PageShowsHistoryCorrect == ChatSpec => []PageShowsHistory
<1>1. ChatInv => PageShowsHistory
  BY DEF ChatInv, PageAgrees, Agrees, ShowsAll, PageShowsHistory
<1> QED
  BY <1>1, ChatInitInv, ChatStepKeeps, PTL DEF ChatSpec

\* Whatever prompts there are, the full text of an answer is not replaced by a chunk or by
\* what is pulled, in whatever order they arrive.
THEOREM AnswerIsFinalCorrect == ChatSpec => AnswerIsFinal
<1>1. ChatInv /\ [ChatNext]_chatVars => [StaysFinal]_chatVars
  BY ChatStepKeeps
<1>2. ChatSpec => [][StaysFinal]_chatVars
  BY <1>1, ChatInitInv, ChatStepKeeps, PTL DEF ChatSpec
<1> QED
  BY <1>2 DEF AnswerIsFinal, StaysFinal

-----------------------------------------------------------------------------
(* The intent.                                                             *)

\* The text of a tree: the comment of a row, the rows with anything, and the last of them
\* up to a row.
commentsOn(t, r) == {c \in t.comments : r \in rowsOf(c)}
textOf(t) == t.code \cup {r \in Rows : commentsOn(t, r) # {}}
lastUpTo(t, row) == {r \in textOf(t) : r <= row /\ \A q \in textOf(t) : q <= row => q <= r}
commentsAfter(t, row) ==
  IF row \in textOf(t) THEN {} ELSE UNION {commentsOn(t, r) : r \in lastUpTo(t, row)}

LEMMA TreeParts ==
  ASSUME NEW t \in Trees
  PROVE  /\ Rows \subseteq Nat /\ t.code \subseteq Rows /\ t.blanks \subseteq Rows
         /\ \A c \in t.comments : /\ c.from \in Rows /\ c.to \in Rows /\ c.from <= c.to
                                  /\ rowsOf(c) \subseteq Rows
         /\ \A f \in t.functions : f.from \in Rows /\ f.to \in Rows /\ f.from <= f.to
         /\ \A f, g \in t.functions : f = g
         /\ wellFormed(t)
<1>1. Rows \subseteq Nat /\ Cardinality(Rows) \in Nat /\ Rows = 1 .. Cardinality(Rows)
  BY RowsAssumption, FS_CardinalityType
<1>2. /\ t.code \subseteq Rows /\ t.blanks \subseteq Rows /\ wellFormed(t)
      /\ t.comments \in UNION {kSubset(k, Comments) : k \in 0 .. MaxComments}
      /\ t.functions \in {{}} \cup {{f} : f \in Functions}
  BY DEF Trees
<1>3. t.comments \subseteq Comments
  BY <1>2 DEF kSubset
<1>4. ASSUME NEW c \in t.comments
      PROVE  c.from \in Rows /\ c.to \in Rows /\ c.from <= c.to /\ rowsOf(c) \subseteq Rows
  <2>1. c.from \in Rows /\ c.to \in Rows /\ c.from <= c.to
    BY <1>3 DEF Comments
  <2> QED
    BY <1>1, <2>1 DEF rowsOf
<1>5. \A f \in t.functions : f.from \in Rows /\ f.to \in Rows /\ f.from <= f.to
  BY <1>2 DEF Functions
<1>6. \A f, g \in t.functions : f = g
  BY <1>2
<1> QED
  BY <1>1, <1>2, <1>4, <1>5, <1>6

\* A comment at the cursor is the only one on its row.
LEMMA AtTheCursor ==
  ASSUME NEW t \in Trees, NEW row \in Rows
  PROVE  commentAtCursor(t, row) = commentsOn(t, row)
<1>1. \A c, d \in commentsOn(t, row) : c = d
  BY TreeParts DEF commentsOn, wellFormed
<1>2. \A c \in commentsOn(t, row) : c.to \in Int
  BY TreeParts DEF commentsOn
<1> QED
  BY <1>1, <1>2 DEF commentAtCursor, getLastComment, commentsOn

\* A comment after which only empty rows come is found, whatever function it is in.
LEMMA AfterIsAbove ==
  ASSUME NEW t \in Trees, NEW row \in Rows, commentsOn(t, row) = {},
         NEW c \in commentsAfter(t, row)
  PROVE  c \in getCommentForCursor(t, row)
<1>1. PICK r \in lastUpTo(t, row) : c \in commentsOn(t, r)
  BY DEF commentsAfter
<1>2. /\ row \notin textOf(t) /\ r \in textOf(t) /\ r <= row
      /\ \A q \in textOf(t) : q <= row => q <= r
      /\ c \in t.comments /\ c.from <= r /\ r <= c.to
  BY <1>1 DEF commentsAfter, lastUpTo, commentsOn, rowsOf
<1>3. /\ row \in Nat /\ r \in Nat /\ c.from \in Nat /\ c.to \in Nat /\ textOf(t) \subseteq Rows
      /\ Rows \subseteq Nat /\ c.from <= c.to
  BY <1>2, TreeParts DEF textOf
<1>4. c.to \in textOf(t)
  BY <1>2, <1>3, TreeParts DEF textOf, commentsOn, rowsOf
<1>5. c.to = r /\ r < row
  <2>1. CASE c.to > row
    <3>1. row \in rowsOf(c)
      BY <1>2, <1>3, <2>1 DEF rowsOf
    <3> QED
      BY <1>2, <3>1 DEF commentsOn
  <2>2. CASE c.to <= row
    <3>1. c.to <= r
      BY <1>2, <1>4, <2>2
    <3>2. r # row
      BY <1>2
    <3> QED
      BY <1>2, <1>3, <3>1, <3>2
  <2> QED
    BY <1>3, <2>1, <2>2
<1>6. c \in commentAboveCursor(t, row)
  <2>1. ASSUME NEW d \in t.comments, d.to < row PROVE d.to <= c.to
    <3>1. d.to \in textOf(t) /\ d.to \in Nat
      BY TreeParts DEF textOf, commentsOn, rowsOf
    <3> QED
      BY <1>2, <1>3, <1>5, <2>1, <3>1
  <2> QED
    BY <1>2, <1>3, <1>5, <2>1 DEF commentAboveCursor, getLastComment
<1>7. row \in parentRows(c, t)
  <2>1. ASSUME NEW f \in functionAround(c, t) PROVE row \in rowsOf(f)
    <3>1. f \in t.functions /\ f.from <= c.from /\ c.to < f.to /\ f.to \in t.code
      BY <1>2, TreeParts DEF functionAround, inside, wellFormed
    <3>2. f.from \in Nat /\ f.to \in Nat /\ f.to \in textOf(t)
      BY <1>3, <3>1, TreeParts DEF textOf
    <3>3. ~(f.to <= row)
      BY <1>2, <1>3, <1>5, <3>1, <3>2
    <3> QED
      BY <1>3, <1>5, <3>1, <3>2, <3>3 DEF rowsOf
  <2> QED
    BY <2>1 DEF parentRows
<1>8. ~hasNodeBetweenCursorAndComment(c, t, row)
  <2> SUFFICES ASSUME NEW start \in directChildren(c, t), c.to < start, start <= row
               PROVE  FALSE
    BY DEF hasNodeBetweenCursorAndComment
  <2>1. start \in t.code \/ \E d \in t.comments : start = d.from
    BY DEF directChildren
  <2>2. start \in textOf(t)
    BY <2>1, TreeParts DEF textOf, commentsOn, rowsOf
  <2>3. start <= r
    BY <1>2, <2>2
  <2>4. start \in Nat
    BY <1>3, <2>2
  <2> QED
    BY <1>3, <1>5, <2>3, <2>4
<1> QED
  BY <1>2, <1>6, <1>7, <1>8 DEF getCommentForCursor, isPositionInNode

\* Of a comment that is found no text is between it and the cursor.
LEMMA AboveIsAfter ==
  ASSUME NEW t \in Trees, NEW row \in Rows, commentsOn(t, row) = {},
         NEW c \in getCommentForCursor(t, row)
  PROVE  c \in commentsAfter(t, row)
<1>1. /\ c \in t.comments /\ c.to < row /\ \A d \in t.comments : d.to < row => d.to <= c.to
      /\ row \in parentRows(c, t)
      /\ \A start \in directChildren(c, t) : ~(c.to < start /\ start <= row)
  BY DEF getCommentForCursor, commentAboveCursor, getLastComment, isPositionInNode,
         hasNodeBetweenCursorAndComment
<1>2. /\ row \in Nat /\ c.from \in Nat /\ c.to \in Nat /\ textOf(t) \subseteq Rows
      /\ Rows \subseteq Nat /\ c.from <= c.to
  BY <1>1, TreeParts DEF textOf
<1>3. ASSUME NEW x \in t.code, c.to < x, x <= row PROVE FALSE
  <2>1. x \in Nat
    BY TreeParts
  <2>2. CASE functionAround(c, t) # {}
    <3>1. PICK f \in functionAround(c, t) : row \in rowsOf(f)
      BY <1>1, <2>2 DEF parentRows
    <3>2. f \in t.functions /\ f.from <= c.from /\ f.from \in Nat /\ f.to \in Nat
      BY <3>1, TreeParts DEF functionAround, inside
    <3>3. x \in rowsOf(f)
      BY <1>2, <1>3, <2>1, <3>1, <3>2 DEF rowsOf
    <3>4. x \in directChildren(c, t)
      BY <2>2, <3>1, <3>3 DEF directChildren, parentRows
    <3> QED
      BY <1>1, <1>3, <3>4
  <2>3. CASE functionAround(c, t) = {}
    <3>1. CASE \A f \in t.functions : x \notin within(f)
      <4>1. x \in directChildren(c, t)
        BY <2>3, <3>1 DEF directChildren
      <4> QED
        BY <1>1, <1>3, <4>1
    <3>2. ASSUME NEW f \in t.functions, x \in within(f) PROVE FALSE
      <4>1. /\ f.from \in Nat /\ f.to \in Nat /\ f.from < x /\ x <= f.to /\ f.from \in t.code
        BY <2>1, <3>2, TreeParts DEF within, wellFormed
      <4>2. ~inside(c, f)
        BY <2>3 DEF functionAround
      <4>3. c.from < f.from
        BY <1>2, <1>3, <2>1, <4>1, <4>2 DEF inside
      <4>4. c.to < f.from
        <5> SUFFICES ASSUME f.from <= c.to PROVE FALSE
          BY <1>2, <4>1
        <5>1. f.from \in t.code \cap rowsOf(c)
          BY <1>2, <4>1, <4>3 DEF rowsOf
        <5>2. f.from = c.from
          BY <1>1, <5>1, TreeParts DEF wellFormed
        <5> QED
          BY <1>2, <4>3, <5>2
      <4>5. \A g \in t.functions : f.from \notin within(g)
        <5>1. f.from \notin within(f)
          BY <4>1 DEF within
        <5> QED
          BY <5>1, TreeParts
      <4>6. f.from \in directChildren(c, t)
        BY <2>3, <4>1, <4>5 DEF directChildren
      <4> QED
        BY <1>1, <1>2, <1>3, <2>1, <4>1, <4>4, <4>6
    <3> QED
      BY <3>1, <3>2
  <2> QED
    BY <2>2, <2>3
<1>4. ASSUME NEW x \in textOf(t), c.to < x, x <= row PROVE FALSE
  <2>1. CASE x \in t.code
    BY <1>3, <1>4, <2>1
  <2>2. ASSUME NEW d \in commentsOn(t, x) PROVE FALSE
    <3>1. d \in t.comments /\ d.from <= x /\ x <= d.to /\ d.from \in Nat /\ d.to \in Nat
      <4>1. d \in t.comments /\ d.from <= x /\ x <= d.to
        BY <2>2 DEF commentsOn, rowsOf
      <4> QED
        BY <1>2, <4>1, TreeParts
    <3>2. ~(d.from <= row /\ row <= d.to)
      BY <1>2, <3>1 DEF commentsOn, rowsOf
    <3>3. x \in Nat
      BY <1>2
    <3>4. d.to < row
      BY <1>2, <1>4, <3>1, <3>2, <3>3
    <3> QED
      BY <1>1, <1>2, <1>4, <3>1, <3>3, <3>4
  <2> QED
    BY <2>1, <2>2 DEF textOf
<1>5. c.to \in textOf(t) /\ c \in commentsOn(t, c.to)
  BY <1>1, <1>2, TreeParts DEF textOf, commentsOn, rowsOf
<1>6. c.to \in lastUpTo(t, row)
  <2>1. ASSUME NEW q \in textOf(t), q <= row PROVE q <= c.to
    <3>1. q \in Nat /\ ~(c.to < q)
      BY <1>2, <1>4, <2>1
    <3> QED
      BY <1>2, <3>1
  <2> QED
    BY <1>1, <1>2, <1>5, <2>1 DEF lastUpTo
<1>7. row \notin textOf(t)
  BY <1>1, <1>2, <1>4
<1> QED
  BY <1>5, <1>6, <1>7 DEF commentsAfter

\* The size that decides: what is left of the code, without the blanks in comments.
LEMMA SizeOfTheText ==
  ASSUME NEW d \in Documents, d.language # "vue"
  PROVE  LET codeOnly == {r \in d.tree.code : commentsOn(d.tree, r) = {}}
         IN  /\ isSmallFile(d) <=>
                  Cardinality(codeOnly) - Cardinality(d.tree.blanks) < MinLines
             /\ Cardinality(d.tree.code) < MinLines => isSmallFile(d)
<1> DEFINE t == d.tree
           codeOnly == {r \in t.code : commentsOn(t, r) = {}}
           commented == UNION {rowsOf(c) : c \in t.comments}
           blanks == t.blanks
<1>1. t \in Trees
  BY DEF Documents
<1>2. /\ commented \subseteq Rows /\ t.code \subseteq Rows /\ blanks \subseteq Rows
      /\ Rows \subseteq Nat
  BY <1>1, TreeParts
<1>3. blanks \subseteq commented /\ blanks \cap t.code = {}
  <2> SUFFICES ASSUME NEW r \in blanks PROVE r \in commented /\ r \notin t.code
    OBVIOUS
  <2>1. PICK c \in t.comments : r \in (c.from + 1) .. (c.to - 1)
    BY <1>1, TreeParts DEF wellFormed
  <2>2. c.from \in Nat /\ c.to \in Nat
    BY <1>1, <1>2, TreeParts
  <2>3. r \in rowsOf(c) /\ r # c.from
    BY <2>1, <2>2 DEF rowsOf
  <2>4. t.code \cap rowsOf(c) \subseteq {c.from}
    BY <1>1, TreeParts DEF wellFormed
  <2> QED
    BY <2>3, <2>4
<1>4. /\ IsFiniteSet(commented) /\ IsFiniteSet(codeOnly) /\ IsFiniteSet(t.code)
      /\ IsFiniteSet(blanks)
  <2>1. codeOnly \subseteq Rows
    BY <1>2
  <2> QED
    BY <1>2, <2>1, RowsAssumption, FS_Subset
<1>5. t.code \cup commented = codeOnly \cup commented /\ codeOnly \cap commented = {}
  BY DEF commentsOn
<1> DEFINE N(S) == Cardinality(S)
<1>6. N(codeOnly \cup commented) = N(codeOnly) + N(commented)
  <2>1. N(codeOnly \cap commented) = 0
    BY <1>5, FS_EmptySet
  <2>2. N(codeOnly) \in Nat /\ N(commented) \in Nat
    BY <1>4, FS_CardinalityType
  <2> HIDE DEF codeOnly, commented
  <2>3. N(codeOnly \cup commented) = N(codeOnly) + N(commented) - N(codeOnly \cap commented)
    BY <1>4, FS_Union
  <2> QED
    BY <2>1, <2>2, <2>3
<1>7. N((t.code \cup commented) \ blanks) = N(codeOnly) + N(commented) - N(blanks)
  <2>1. (codeOnly \cup commented) \cap blanks = blanks
    BY <1>3
  <2> HIDE DEF codeOnly, commented, blanks
  <2>2. IsFiniteSet(codeOnly \cup commented)
    BY <1>4, FS_Union
  <2>3. N((codeOnly \cup commented) \ blanks) = N(codeOnly \cup commented) - N(blanks)
    BY <2>1, <2>2, FS_Difference
  <2>4. (t.code \cup commented) \ blanks = (codeOnly \cup commented) \ blanks
    BY <1>5
  <2>5. N((t.code \cup commented) \ blanks) = N((codeOnly \cup commented) \ blanks)
    BY <2>4
  <2>6. N(codeOnly) \in Nat /\ N(commented) \in Nat /\ N(blanks) \in Nat
    BY <1>4, FS_CardinalityType
  <2> HIDE DEF t, N
  <2> QED
    BY <1>6, <2>3, <2>5, <2>6
<1>8. isSmallFile(d) <=> N(codeOnly) - N(blanks) < MinLines
  <2>1. /\ N(codeOnly) \in Nat /\ N(commented) \in Nat /\ N(blanks) \in Nat
    BY <1>4, FS_CardinalityType
  <2>2. /\ getTotalCommentLines(t) = N(commented)
        /\ getTotalNonEmptyLines(d) = N((t.code \cup commented) \ blanks)
    BY DEF getTotalCommentLines, getTotalNonEmptyLines, linesOfText
  <2>3. isSmallFile(d) <=> getTotalNonEmptyLines(d) - getTotalCommentLines(t) < MinLines
    BY DEF isSmallFile
  <2> HIDE DEF codeOnly, commented, blanks, t
  <2> QED
    BY <1>7, <2>1, <2>2, <2>3, RowsAssumption
<1>9. N(t.code) < MinLines => isSmallFile(d)
  <2>1. codeOnly \subseteq t.code
    OBVIOUS
  <2>2. N(codeOnly) <= N(t.code)
    BY <1>4, <2>1, FS_Subset
  <2>3. N(codeOnly) \in Nat /\ N(blanks) \in Nat /\ N(t.code) \in Nat
    BY <1>4, FS_CardinalityType
  <2> HIDE DEF codeOnly, blanks, t
  <2> QED
    BY <1>8, <2>2, <2>3, RowsAssumption
<1> QED
  BY <1>8, <1>9

-----------------------------------------------------------------------------
\* What was asked is about a document, and the answer is the intent found there.
IntentInv ==
  parsing # NoRequest =>
    /\ parsing.stage \in {"unknown", "parsed", "loading", "resolved"}
    /\ parsing.document \in Documents
    /\ \E row \in Rows : parsing.cursor.row = row + parsing.document.above
    /\ parsing.stage = "resolved" =>
         resolution = getIntent(parsing.document, positionIn(parsing.document, parsing.cursor))

LEMMA IntentStep == IntentInv /\ [IntentNext]_intentVars => IntentInv'
<1> SUFFICES ASSUME IntentInv, [IntentNext]_intentVars PROVE IntentInv'
  OBVIOUS
<1>1. ASSUME NEW d \in Documents, NEW column \in Columns, NEW row \in Rows,
             ParseFile(d, [row |-> row + d.above, column |-> column])
      PROVE  IntentInv'
  BY <1>1 DEF ParseFile, IntentInv
<1>2. CASE LanguageLoaded
  BY <1>2 DEF LanguageLoaded, IntentInv, NoRequest
<1>3. CASE LoadFails
  BY <1>3 DEF LoadFails, IntentInv, NoRequest
<1>4. CASE Resolve
  BY <1>4 DEF Resolve, IntentInv, NoRequest
<1>5. CASE UNCHANGED intentVars
  BY <1>5 DEF intentVars, IntentInv
<1> QED
  BY <1>1, <1>2, <1>3, <1>4, <1>5 DEF IntentNext

\* For every tree of any size: the queries find the intent that reading the text row by
\* row gives.
THEOREM IntentFollowsTheTextCorrect == IntentSpec => []IntentFollowsTheText
<1>1. IntentInit => IntentInv
  BY DEF IntentInit, IntentInv
<1>2. IntentInv => IntentFollowsTheText
  <2> SUFFICES ASSUME IntentInv, parsing.stage = "resolved",
                      parsing.document.language # "vue"
               PROVE  IntentFollowsTheText
    BY DEF IntentFollowsTheText
  <2> DEFINE d == parsing.document
             t == d.tree
             row == parsing.cursor.row
             codeOnly == {r \in t.code : commentsOn(t, r) = {}}
  <2>1. d \in Documents /\ t \in Trees /\ d.above = 0 /\ resolution = getIntent(d, parsing.cursor)
    BY DEF IntentInv, NoRequest, Documents, positionIn
  <2>2. row \in Rows
    <3>1. PICK r \in Rows : row = r + d.above
      BY DEF IntentInv, NoRequest
    <3>2. r \in Nat
      BY <2>1, TreeParts
    <3> QED
      BY <2>1, <3>1, <3>2
  <2>3. commentAtCursor(t, row) = commentsOn(t, row)
    BY <2>1, <2>2, AtTheCursor
  <2>4. commentsOn(t, row) = {} => getCommentForCursor(t, row) = commentsAfter(t, row)
    BY <2>1, <2>2, AfterIsAbove, AboveIsAfter
  <2>5. /\ isSmallFile(d) <=> Cardinality(codeOnly) - Cardinality(t.blanks) < MinLines
        /\ Cardinality(t.code) < MinLines => isSmallFile(d)
    BY <2>1, SizeOfTheText
  <2>6. commentsOn(t, row) # {} => resolution = Completion
    BY <2>1, <2>3 DEF getIntent
  <2>7. commentsOn(t, row) = {} /\ commentsAfter(t, row) # {} =>
          resolution = IF \E c \in commentsAfter(t, row) : c.empty
                       THEN Completion ELSE Generation("comment")
    BY <2>1, <2>3, <2>4 DEF getIntent
  <2>8. commentsOn(t, row) = {} /\ commentsAfter(t, row) = {} =>
          /\ resolution.generationType # "comment" /\ resolution # Completion
          /\ isSmallFile(d) <=> resolution = Generation("small_file")
    BY <2>1, <2>3, <2>4 DEF getIntent, Generation, Completion, Undefined
  <2> HIDE DEF d
  <2> QED
    BY <2>5, <2>6, <2>7, <2>8
    DEF IntentFollowsTheText, commentsAfter, lastUpTo, textOf, commentsOn, d
<1> QED
  BY <1>1, <1>2, IntentStep, PTL DEF IntentSpec

-----------------------------------------------------------------------------
(* The chat of a workflow.  What the page knows are the texts of its       *)
(* checkpoint.  It shows each of them, and as long as no older checkpoint  *)
(* has arrived it shows nothing else, and each at most as often as the     *)
(* checkpoint says it: a later checkpoint says all of an earlier one, and  *)
(* what is added are the texts that are not known, as often as they are    *)
(* said.  The first lemmas count the members of a filtered sequence, whose *)
(* n-th member is found at the n-th index that is kept.                    *)

\* A one-to-one map onto a set leaves the number of members as it is.
LEMMA SameSize ==
  ASSUME NEW S, NEW T, IsFiniteSet(S), NEW f \in [S -> T],
         \A x, y \in S : f[x] = f[y] => x = y,
         \A z \in T : \E x \in S : f[x] = z
  PROVE  IsFiniteSet(T) /\ Cardinality(T) = Cardinality(S)
<1>1. f \in Bijection(S, T)
  BY DEF Bijection, Injection, Surjection, IsInjective
<1>2. ExistsBijection(S, T)
  BY <1>1 DEF ExistsBijection
<1> QED
  BY <1>2, FS_Bijection

LEMMA KeptIsFinite ==
  ASSUME NEW last \in Nat, NEW kept, kept \subseteq 1 .. last
  PROVE  IsFiniteSet(kept) /\ Cardinality(kept) \in Nat
<1>1. IsFiniteSet(1 .. last)
  BY FS_Interval
<1> QED
  BY <1>1, FS_Subset, FS_CardinalityType

\* The n-th index is one of them: the first up to which there are n; and every
\* index is the n-th of them for the n up to it.
LEMMA NthIsOne ==
  ASSUME NEW last \in Nat, NEW kept, kept \subseteq 1 .. last,
         NEW n \in 1 .. Cardinality(kept)
  PROVE  nth(kept, n) \in kept /\ Cardinality(kept \cap (1 .. nth(kept, n))) = n
<1> DEFINE upTo(i) == kept \cap (1 .. i)
           Reached == {i \in Nat : Cardinality(upTo(i)) >= n}
<1>1. \A i \in Nat : IsFiniteSet(upTo(i)) /\ Cardinality(upTo(i)) \in Nat
  <2>1. IsFiniteSet(kept)
    BY KeptIsFinite
  <2> QED
    BY <2>1, FS_Subset, FS_CardinalityType
<1>2. upTo(last) = kept
  OBVIOUS
<1>3. PICK i \in Reached : \A j \in Reached : ~(j < i)
  <2>1. last \in Reached
    BY <1>1, <1>2
  <2> HIDE DEF Reached
  <2>2. Reached \subseteq Nat
    BY DEF Reached
  <2> QED
    BY <2>1, <2>2, SmallestOf
<1>4. i # 0
  <2> SUFFICES ASSUME i = 0 PROVE FALSE
    OBVIOUS
  <2>1. upTo(0) = {}
    OBVIOUS
  <2> QED
    BY <1>3, <2>1, FS_EmptySet
<1>5. i - 1 \in Nat /\ Cardinality(upTo(i - 1)) < n
  <2>1. i - 1 \in Nat /\ i - 1 < i
    BY <1>3, <1>4
  <2>2. i - 1 \notin Reached
    BY <1>3, <2>1
  <2> HIDE DEF upTo
  <2> QED
    BY <1>1, <2>1, <2>2
<1>6. i \in kept
  <2> SUFFICES ASSUME i \notin kept PROVE FALSE
    OBVIOUS
  <2>1. upTo(i) = upTo(i - 1)
    BY <1>3, <1>4
  <2> HIDE DEF upTo
  <2> QED
    BY <1>1, <1>3, <1>4, <1>5, <2>1
<1>7. Cardinality(upTo(i)) = n
  <2>1. upTo(i) = upTo(i - 1) \cup {i} /\ i \notin upTo(i - 1)
    BY <1>3, <1>4, <1>6
  <2>2. Cardinality(upTo(i)) = Cardinality(upTo(i - 1)) + 1
    <3> HIDE DEF upTo
    <3> QED
      BY <1>1, <1>5, <2>1, FS_AddElement
  <2> HIDE DEF upTo
  <2> QED
    BY <1>1, <1>3, <1>5, <2>2
<1> QED
  BY <1>6, <1>7 DEF nth

LEMMA EveryIsNth ==
  ASSUME NEW last \in Nat, NEW kept, kept \subseteq 1 .. last, NEW i \in kept
  PROVE  \E n \in 1 .. Cardinality(kept) : nth(kept, n) = i
<1> DEFINE upTo(j) == kept \cap (1 .. j)
           n == Cardinality(upTo(i))
<1>1. IsFiniteSet(kept) /\ Cardinality(kept) \in Nat
  BY KeptIsFinite
<1>2. \A j \in Nat : IsFiniteSet(upTo(j)) /\ Cardinality(upTo(j)) \in Nat
                     /\ Cardinality(upTo(j)) <= Cardinality(kept)
  BY <1>1, FS_Subset, FS_CardinalityType
<1>3. i \in Nat /\ i \in upTo(i)
  OBVIOUS
<1>4. n \in 1 .. Cardinality(kept)
  <2>1. n # 0
    BY <1>2, <1>3, FS_EmptySet
  <2> QED
    BY <1>1, <1>2, <1>3, <2>1
<1>5. ASSUME NEW a \in kept, NEW b \in kept, a < b
      PROVE  Cardinality(upTo(a)) < Cardinality(upTo(b))
  <2>1. upTo(a) \subseteq upTo(b) \ {b} /\ b \in upTo(b) /\ a \in Nat /\ b \in Nat
    BY <1>5
  <2>2. IsFiniteSet(upTo(b) \ {b}) /\ Cardinality(upTo(b) \ {b}) = Cardinality(upTo(b)) - 1
    <3> HIDE DEF upTo
    <3> QED
      BY <1>2, <2>1, FS_RemoveElement
  <2>3. Cardinality(upTo(a)) <= Cardinality(upTo(b) \ {b})
    BY <2>1, <2>2, FS_Subset
  <2> HIDE DEF upTo
  <2> QED
    BY <1>2, <2>1, <2>2, <2>3
<1>6. nth(kept, n) \in kept /\ Cardinality(upTo(nth(kept, n))) = n
  BY <1>4, NthIsOne
<1>7. nth(kept, n) = i
  <2>1. PICK j : j = nth(kept, n)
    OBVIOUS
  <2>2. j \in kept /\ Cardinality(upTo(j)) = Cardinality(upTo(i)) /\ Cardinality(upTo(i)) \in Nat
    BY <1>2, <1>3, <1>6, <2>1
  <2>3. i \in Nat /\ j \in Nat
    BY <2>2
  <2> HIDE DEF upTo
  <2>4. ~(j < i) /\ ~(i < j)
    BY <1>5, <2>2
  <2> QED
    BY <2>1, <2>3, <2>4
<1> QED
  BY <1>4, <1>7

\* Of the members that are kept, those at the indices of `these` are as many.
LEMMA OnlyCounts ==
  ASSUME NEW last \in Nat, NEW kept, kept \subseteq 1 .. last, NEW these, these \subseteq kept
  PROVE  Cardinality({n \in 1 .. Cardinality(kept) : nth(kept, n) \in these}) = Cardinality(these)
<1> DEFINE S == {n \in 1 .. Cardinality(kept) : nth(kept, n) \in these}
           f == [n \in S |-> nth(kept, n)]
<1>1. IsFiniteSet(kept) /\ Cardinality(kept) \in Nat
  BY KeptIsFinite
<1>2. IsFiniteSet(S)
  <2>1. IsFiniteSet(1 .. Cardinality(kept))
    BY <1>1, FS_Interval
  <2> QED
    BY <2>1, FS_Subset
<1>3. \A m, n \in S : f[m] = f[n] => m = n
  BY NthIsOne
<1>4. \A i \in these : \E n \in S : f[n] = i
  BY EveryIsNth
<1>5. f \in [S -> these]
  OBVIOUS
<1> HIDE DEF S, f
<1>6. Cardinality(these) = Cardinality(S)
  BY <1>2, <1>3, <1>4, <1>5, SameSize
<1> QED
  BY <1>6 DEF S

\* What is left of a sequence has the texts of what is kept, each as often.
membersAt(s, kept) == {s[i] : i \in kept}
textsAt(s, kept) == {s[i].text : i \in kept}
saying(s, kept, text) == {i \in kept : s[i].text = text}

LEMMA OnlyKeeps ==
  ASSUME NEW s, NEW last \in Nat, NEW kept, kept \subseteq 1 .. last
  PROVE  /\ Cardinality(kept) \in Nat
         /\ only(s, kept) \in [1 .. Cardinality(kept) -> membersAt(s, kept)]
         /\ textsOf(only(s, kept)) = textsAt(s, kept)
         /\ \A text : timesSaid(text, only(s, kept)) = Cardinality(saying(s, kept, text))
<1>1. IsFiniteSet(kept) /\ Cardinality(kept) \in Nat
  BY KeptIsFinite
<1>2. only(s, kept) \in [1 .. Cardinality(kept) -> membersAt(s, kept)]
  BY NthIsOne DEF only, membersAt
<1>3. textsOf(only(s, kept)) = textsAt(s, kept)
  <2>1. \A i \in kept : \E n \in DOMAIN only(s, kept) : only(s, kept)[n] = s[i]
    BY EveryIsNth DEF only
  <2>2. \A n \in DOMAIN only(s, kept) : \E i \in kept : only(s, kept)[n] = s[i]
    BY <1>2 DEF membersAt
  <2> HIDE DEF only
  <2> QED
    BY <2>1, <2>2 DEF textsOf, textsAt
<1>4. ASSUME NEW text
      PROVE  timesSaid(text, only(s, kept)) = Cardinality(saying(s, kept, text))
  <2> DEFINE these == {i \in kept : s[i].text = text}
  <2>1. {n \in 1 .. Cardinality(kept) : nth(kept, n) \in these}
          = {n \in DOMAIN only(s, kept) : only(s, kept)[n].text = text}
    BY NthIsOne DEF only
  <2>2. Cardinality({n \in 1 .. Cardinality(kept) : nth(kept, n) \in these}) = Cardinality(these)
    <3>1. these \subseteq kept
      OBVIOUS
    <3> QED
      BY <3>1, OnlyCounts
  <2> QED
    BY <2>1, <2>2 DEF timesSaid, saying
<1> QED
  BY <1>1, <1>2, <1>3, <1>4

\* Of indices up to p + q, those up to p and those after it.
frontOf(I, p) == {i \in 1 .. p : i \in I}
backOf(I, p, q) == {i \in 1 .. q : p + i \in I}

LEMMA TwoPartsCount ==
  ASSUME NEW p \in Nat, NEW q \in Nat, NEW I, I \subseteq 1 .. (p + q)
  PROVE  Cardinality(I) = Cardinality(frontOf(I, p)) + Cardinality(backOf(I, p, q))
<1> DEFINE A == {i \in 1 .. p : i \in I}
           B == {i \in 1 .. q : p + i \in I}
           C == {i \in I : i > p}
           f == [i \in B |-> p + i]
<1>1. IsFiniteSet(I) /\ IsFiniteSet(A) /\ IsFiniteSet(B) /\ IsFiniteSet(C)
  <2>1. IsFiniteSet(1 .. (p + q)) /\ IsFiniteSet(1 .. q)
    BY FS_Interval
  <2> QED
    BY <2>1, FS_Subset
<1>2. f \in [B -> C]
  OBVIOUS
<1>3. \A x, y \in B : f[x] = f[y] => x = y
  OBVIOUS
<1>4. ASSUME NEW z \in C PROVE \E x \in B : f[x] = z
  <2>1. z - p \in B /\ p + (z - p) = z
    OBVIOUS
  <2> QED
    BY <2>1
<1>5. I = A \cup C /\ A \cap C = {}
  <2>1. \A i \in I : i \in 1 .. p \/ i > p
    OBVIOUS
  <2>2. \A i \in 1 .. p : ~(i > p)
    OBVIOUS
  <2> QED
    BY <2>1, <2>2
<1> HIDE DEF A, B, C, f
<1>6. Cardinality(C) = Cardinality(B)
  BY <1>1, <1>2, <1>3, <1>4, SameSize
<1>7. Cardinality(A \cup C) = Cardinality(A) + Cardinality(C) - Cardinality(A \cap C)
  BY <1>1, FS_Union
<1>8. Cardinality(A) \in Nat /\ Cardinality(C) \in Nat /\ Cardinality(A \cap C) = 0
  BY <1>1, <1>5, FS_CardinalityType, FS_EmptySet
<1>9. Cardinality(I) = Cardinality(A \cup C)
  BY <1>5
<1> QED
  BY <1>6, <1>7, <1>8, <1>9 DEF A, B, frontOf, backOf

-----------------------------------------------------------------------------
Uses == {Conversation[i] : i \in DOMAIN Conversation}
ChatMessages == [content : {use.text : use \in Uses} \cup {"user's"},
                 role : {"user", "assistant", "system"}, highlight : BOOLEAN]

Told(messages) == {messages[i].content : i \in {j \in DOMAIN messages : messages[j].role # "user"}}

\* Which message is highlighted changes nothing else of the messages.
highlightedAs(m, h) == [i \in DOMAIN m |-> [m[i] EXCEPT !.highlight = h[i]]]

LEMMA HighlightsKeep ==
  ASSUME NEW m \in Seq(ChatMessages), NEW h \in [DOMAIN m -> BOOLEAN],
         NEW next, next = highlightedAs(m, h)
  PROVE  /\ next \in Seq(ChatMessages) /\ Len(next) = Len(m)
         /\ Told(next) = Told(m)
         /\ \A text : timesShown(text, next) = timesShown(text, m)
<1>1. DOMAIN m = 1 .. Len(m) /\ Len(m) \in Nat /\ \A i \in DOMAIN m : m[i] \in ChatMessages
  OBVIOUS
<1>2. DOMAIN next = DOMAIN m
  BY DEF highlightedAs
<1>3. ASSUME NEW i \in DOMAIN m
      PROVE  /\ next[i] \in ChatMessages
             /\ next[i].content = m[i].content /\ next[i].role = m[i].role
  <2>1. next[i] = [m[i] EXCEPT !.highlight = h[i]] /\ h[i] \in BOOLEAN
    BY <1>3 DEF highlightedAs
  <2>2. m[i] \in ChatMessages
    BY <1>1
  <2> QED
    BY <2>1, <2>2 DEF ChatMessages
<1>4. next \in [1 .. Len(m) -> ChatMessages]
  <2>1. next = [i \in DOMAIN m |-> next[i]]
    BY DEF highlightedAs
  <2> QED
    BY <1>1, <1>3, <2>1
<1>5. next \in Seq(ChatMessages) /\ Len(next) = Len(m)
  BY <1>1, <1>4
<1>6. Told(next) = Told(m)
  BY <1>2, <1>3 DEF Told
<1>7. ASSUME NEW text PROVE timesShown(text, next) = timesShown(text, m)
  <2>1. {i \in DOMAIN next : next[i].content = text /\ next[i].role # "user"}
          = {i \in DOMAIN m : m[i].content = text /\ m[i].role # "user"}
    BY <1>2, <1>3
  <2> QED
    BY <2>1 DEF timesShown
<1> QED
  BY <1>5, <1>6, <1>7

\* The messages of more tool uses are shown as often as they are said.
LEMMA MoreIsShown ==
  ASSUME NEW m \in Seq(ChatMessages), NEW uses \in Seq(Uses),
         NEW next, next = m \o [i \in DOMAIN uses |-> toMessage(uses[i])]
  PROVE  /\ next \in Seq(ChatMessages)
         /\ Told(next) = Told(m) \cup textsOf(uses)
         /\ \A text : timesShown(text, next) = timesShown(text, m) + timesSaid(text, uses)
<1> DEFINE more == [i \in DOMAIN uses |-> toMessage(uses[i])]
           p == Len(m)  q == Len(uses)
<1>1. p \in Nat /\ q \in Nat /\ DOMAIN m = 1 .. p /\ DOMAIN uses = 1 .. q
      /\ \A i \in 1 .. q : uses[i] \in Uses
  OBVIOUS
<1>2. \A i \in 1 .. q : /\ more[i] \in ChatMessages /\ more[i].content = uses[i].text
                        /\ more[i].role # "user"
  BY <1>1 DEF toMessage, setRole, isUserInputRequest, ChatMessages
<1>3. more \in Seq(ChatMessages) /\ Len(more) = q
  <2>1. more \in [1 .. q -> ChatMessages]
    BY <1>1, <1>2
  <2>2. q \in Nat
    BY <1>1
  <2> HIDE DEF more, q
  <2> QED
    BY <2>1, <2>2
<1> HIDE DEF more, p, q
<1>4. /\ next \in Seq(ChatMessages) /\ DOMAIN next = 1 .. (p + q)
      /\ \A i \in 1 .. p : next[i] = m[i]
      /\ \A i \in 1 .. q : next[p + i] = more[i]
  BY <1>1, <1>3 DEF more, p
<1>5. ASSUME NEW i \in 1 .. q
      PROVE  /\ p + i \in DOMAIN next
             /\ next[p + i].content = uses[i].text
             /\ next[p + i].role # "user"
  <2>1. p + i \in 1 .. (p + q)
    BY <1>1
  <2>2. next[p + i] = more[i]
    BY <1>4
  <2> QED
    BY <1>2, <1>4, <2>1, <2>2
<1>6. Told(next) = Told(m) \cup textsOf(uses)
  <2>1. \A i \in 1 .. (p + q) : i \in 1 .. p \/ \E j \in 1 .. q : i = p + j
    <3> SUFFICES ASSUME NEW i \in 1 .. (p + q), i \notin 1 .. p
                 PROVE  \E j \in 1 .. q : i = p + j
      OBVIOUS
    <3>1. i - p \in 1 .. q /\ i = p + (i - p)
      BY <1>1
    <3> QED
      BY <3>1
  <2>3. \A j \in 1 .. p : j \in 1 .. (p + q)
    BY <1>1
  <2>4. Told(next) \subseteq Told(m) \cup textsOf(uses)
    <3> SUFFICES ASSUME NEW i \in DOMAIN next, next[i].role # "user"
                 PROVE  next[i].content \in Told(m) \cup textsOf(uses)
      BY DEF Told
    <3>1. CASE i \in 1 .. p
      BY <1>1, <1>4, <3>1 DEF Told
    <3>2. CASE i \notin 1 .. p
      <4>1. PICK j \in 1 .. q : i = p + j
        BY <1>4, <2>1, <3>2
      <4> QED
        BY <1>1, <1>5, <4>1 DEF textsOf
    <3> QED
      BY <3>1, <3>2
  <2>5. Told(m) \subseteq Told(next)
    BY <1>1, <1>4, <2>3 DEF Told
  <2>6. textsOf(uses) \subseteq Told(next)
    BY <1>1, <1>5 DEF Told, textsOf
  <2> QED
    BY <2>4, <2>5, <2>6
<1>7. ASSUME NEW text
      PROVE  timesShown(text, next) = timesShown(text, m) + timesSaid(text, uses)
  <2> DEFINE I == {i \in DOMAIN next : next[i].content = text /\ next[i].role # "user"}
  <2>1. frontOf(I, p) = {i \in DOMAIN m : m[i].content = text /\ m[i].role # "user"}
    BY <1>1, <1>4 DEF frontOf
  <2>2. backOf(I, p, q) = {i \in DOMAIN uses : uses[i].text = text}
    BY <1>1, <1>5 DEF backOf
  <2>3. I \subseteq 1 .. (p + q) /\ p \in Nat /\ q \in Nat
    BY <1>1, <1>4
  <2>4. Cardinality(I) = Cardinality(frontOf(I, p)) + Cardinality(backOf(I, p, q))
    <3> HIDE DEF I
    <3> QED
      BY <2>3, TwoPartsCount
  <2> QED
    BY <2>1, <2>2, <2>4 DEF timesShown, timesSaid
<1> QED
  BY <1>4, <1>6, <1>7

\* A message of the user tells nothing of the workflow.
LEMMA UserTellsNothing ==
  ASSUME NEW m \in Seq(ChatMessages), NEW own \in ChatMessages, own.role = "user",
         NEW next, next = Append(m, own)
  PROVE  /\ next \in Seq(ChatMessages)
         /\ Told(next) = Told(m)
         /\ \A text : timesShown(text, next) = timesShown(text, m)
<1>1. /\ DOMAIN m = 1 .. Len(m) /\ Len(m) \in Nat
      /\ next \in Seq(ChatMessages) /\ DOMAIN next = 1 .. (Len(m) + 1)
      /\ next[Len(m) + 1] = own /\ \A i \in DOMAIN m : next[i] = m[i]
  OBVIOUS
<1>2. \A i \in DOMAIN next : i \in DOMAIN m \/ i = Len(m) + 1
  BY <1>1
<1>3. DOMAIN m \subseteq DOMAIN next
  BY <1>1
<1>4. {i \in DOMAIN next : next[i].role # "user"} = {i \in DOMAIN m : m[i].role # "user"}
  BY <1>1, <1>2, <1>3
<1>5. Told(next) = Told(m)
  BY <1>1, <1>2, <1>3 DEF Told
<1>6. ASSUME NEW text PROVE timesShown(text, next) = timesShown(text, m)
  <2>1. {i \in DOMAIN next : next[i].content = text /\ next[i].role # "user"}
          = {i \in DOMAIN m : m[i].content = text /\ m[i].role # "user"}
    BY <1>1, <1>2, <1>3
  <2> QED
    BY <2>1 DEF timesShown
<1> QED
  BY <1>1, <1>5, <1>6

LEMMA ShownIsTold ==
  ASSUME NEW m \in Seq(ChatMessages), NEW text
  PROVE  timesShown(text, m) \in Nat /\ (timesShown(text, m) > 0 <=> text \in Told(m))
<1> DEFINE I == {i \in DOMAIN m : m[i].content = text /\ m[i].role # "user"}
<1>1. IsFiniteSet(I)
  <2>1. IsFiniteSet(1 .. Len(m))
    BY FS_Interval
  <2> QED
    BY <2>1, FS_Subset
<1>2. I # {} <=> text \in Told(m)
  BY DEF Told
<1> HIDE DEF I
<1>3. Cardinality(I) \in Nat /\ (Cardinality(I) = 0 <=> I = {})
  BY <1>1, FS_CardinalityType, FS_EmptySet
<1> QED
  BY <1>2, <1>3 DEF timesShown, I

\* The messages of a checkpoint, and that a later one has them all.
LEMMA CheckpointsAreSequences ==
  ASSUME NEW c \in 0 .. Len(Conversation)
  PROVE  /\ getChatMessages(c) \in Seq(Uses)
         /\ \A text : timesSaid(text, getChatMessages(c)) \in Nat
<1> DEFINE kept == {i \in 1 .. c : hasMessage(Conversation[i])}
<1>1. kept \subseteq 1 .. c /\ c \in Nat
  BY ConversationIsSequence
<1>2. membersAt(Conversation, kept) \subseteq Uses
  BY ConversationIsSequence DEF Uses, membersAt
<1> HIDE DEF kept
<1>3. /\ Cardinality(kept) \in Nat
      /\ only(Conversation, kept) \in [1 .. Cardinality(kept) -> membersAt(Conversation, kept)]
      /\ \A text : timesSaid(text, only(Conversation, kept))
                     = Cardinality(saying(Conversation, kept, text))
  BY <1>1, OnlyKeeps
<1>4. only(Conversation, kept) \in [1 .. Cardinality(kept) -> Uses]
  BY <1>2, <1>3
<1>5. ASSUME NEW text PROVE Cardinality(saying(Conversation, kept, text)) \in Nat
  <2>1. saying(Conversation, kept, text) \subseteq 1 .. c
    BY <1>1 DEF saying
  <2> QED
    BY <1>1, <2>1, KeptIsFinite
<1>6. only(Conversation, kept) \in Seq(Uses)
  BY <1>3, <1>4
<1> QED
  BY <1>3, <1>5, <1>6 DEF getChatMessages, kept

LEMMA CheckpointsGrow ==
  ASSUME NEW c \in 0 .. Len(Conversation), NEW d \in 0 .. Len(Conversation), c <= d
  PROVE  /\ textsOf(getChatMessages(c)) \subseteq textsOf(getChatMessages(d))
         /\ \A text : timesSaid(text, getChatMessages(c)) <= timesSaid(text, getChatMessages(d))
<1> DEFINE kept(n) == {i \in 1 .. n : hasMessage(Conversation[i])}
<1>1. \A n \in 0 .. Len(Conversation) : n \in Nat /\ kept(n) \subseteq 1 .. n
  BY ConversationIsSequence
<1>2. kept(c) \subseteq kept(d)
  BY <1>1
<1>3. \A n : getChatMessages(n) = only(Conversation, kept(n))
  BY DEF getChatMessages
<1> HIDE DEF kept
<1>4. ASSUME NEW n \in 0 .. Len(Conversation)
      PROVE  /\ textsOf(getChatMessages(n)) = textsAt(Conversation, kept(n))
             /\ \A text : timesSaid(text, getChatMessages(n))
                            = Cardinality(saying(Conversation, kept(n), text))
  BY <1>1, <1>3, OnlyKeeps
<1>5. ASSUME NEW text
      PROVE  Cardinality(saying(Conversation, kept(c), text))
               <= Cardinality(saying(Conversation, kept(d), text))
  <2>1. saying(Conversation, kept(d), text) \subseteq 1 .. d /\ d \in Nat
    BY <1>1 DEF saying
  <2>2. IsFiniteSet(saying(Conversation, kept(d), text))
    BY <2>1, KeptIsFinite
  <2>3. saying(Conversation, kept(c), text) \subseteq saying(Conversation, kept(d), text)
    BY <1>2 DEF saying
  <2> QED
    BY <2>2, <2>3, FS_Subset
<1>6. textsOf(getChatMessages(c)) \subseteq textsOf(getChatMessages(d))
  BY <1>2, <1>4 DEF textsAt
<1> QED
  BY <1>4, <1>5, <1>6

\* What is new is what the known texts do not have, as often as it is said.
LEMMA NewIsUnknown ==
  ASSUME NEW known, NEW uses \in Seq(Uses)
  PROVE  LET new == newMessages(known, uses) IN
         /\ new \in Seq(Uses)
         /\ textsOf(new) = textsOf(uses) \ known
         /\ \A text : timesSaid(text, new) = IF text \in known THEN 0 ELSE timesSaid(text, uses)
<1> DEFINE kept == {i \in DOMAIN uses : uses[i].text \notin known}
<1>1. kept \subseteq 1 .. Len(uses) /\ Len(uses) \in Nat /\ DOMAIN uses = 1 .. Len(uses)
  OBVIOUS
<1>2. membersAt(uses, kept) \subseteq Uses
  BY <1>1 DEF membersAt
<1>3. /\ Cardinality(kept) \in Nat
      /\ only(uses, kept) \in [1 .. Cardinality(kept) -> membersAt(uses, kept)]
      /\ textsOf(only(uses, kept)) = textsAt(uses, kept)
      /\ \A text : timesSaid(text, only(uses, kept)) = Cardinality(saying(uses, kept, text))
  <2> HIDE DEF kept
  <2> QED
    BY <1>1, OnlyKeeps
<1>4. only(uses, kept) \in Seq(Uses)
  <2>1. only(uses, kept) \in [1 .. Cardinality(kept) -> Uses]
    BY <1>2, <1>3
  <2> QED
    BY <1>3, <2>1
<1>5. textsAt(uses, kept) = textsOf(uses) \ known
  BY DEF textsOf, textsAt
<1>6. ASSUME NEW text
      PROVE  Cardinality(saying(uses, kept, text))
               = IF text \in known THEN 0 ELSE timesSaid(text, uses)
  <2>1. CASE text \in known
    <3>1. saying(uses, kept, text) = {}
      BY <2>1 DEF saying
    <3> QED
      BY <2>1, <3>1, FS_EmptySet
  <2>2. CASE text \notin known
    <3>1. saying(uses, kept, text) = {i \in DOMAIN uses : uses[i].text = text}
      BY <2>2 DEF saying
    <3> QED
      BY <2>2, <3>1 DEF timesSaid
  <2> QED
    BY <2>1, <2>2
<1> HIDE DEF kept
<1> QED
  BY <1>3, <1>4, <1>5, <1>6 DEF newMessages, kept

-----------------------------------------------------------------------------
\* What the page shows of a checkpoint c: all of its texts and, unless an older
\* checkpoint has arrived after a newer one, nothing that c does not say.
Shows(c, messages, older) ==
  /\ textsOf(getChatMessages(c)) \subseteq Told(messages)
  /\ ~older =>
       /\ Told(messages) \subseteq textsOf(getChatMessages(c))
       /\ \A text \in textsOf(getChatMessages(c)) :
            timesShown(text, messages) <= timesSaid(text, getChatMessages(c))

WorkflowChatInv ==
  /\ execution.made \in 0 .. Len(Conversation)
  /\ feed = [stage |-> feed.stage, found |-> feed.found, status |-> feed.status]
  /\ feed.found \in 0 .. Len(Conversation)
  /\ shownChat = [checkpoint |-> shownChat.checkpoint, status |-> shownChat.status,
                  known |-> shownChat.known, messages |-> shownChat.messages,
                  older |-> shownChat.older]
  /\ shownChat.checkpoint \in 0 .. Len(Conversation)
  /\ shownChat.messages \in Seq(ChatMessages) /\ shownChat.older \in BOOLEAN
  /\ shownChat.known = textsOf(getChatMessages(shownChat.checkpoint))
  /\ Shows(shownChat.checkpoint, shownChat.messages, shownChat.older)

LEMMA NoCheckpointSaysNothing == getChatMessages(0) = <<>> /\ textsOf(<<>>) = {}
<1>1. {i \in 1 .. 0 : hasMessage(Conversation[i])} = {}
  OBVIOUS
<1>2. only(Conversation, {}) = <<>>
  BY FS_EmptySet DEF only
<1> QED
  BY <1>1, <1>2 DEF getChatMessages, textsOf

LEMMA WorkflowChatInitInv == WorkflowChatInit => WorkflowChatInv
<1> SUFFICES ASSUME WorkflowChatInit PROVE WorkflowChatInv
  OBVIOUS
<1>1. 0 \in 0 .. Len(Conversation)
  BY ConversationIsSequence
<1>2. <<>> \in Seq(ChatMessages) /\ Told(<<>>) = {}
  BY DEF Told
<1>3. Shows(0, <<>>, FALSE)
  BY <1>2, NoCheckpointSaysNothing DEF Shows
<1> QED
  BY <1>1, <1>2, <1>3, NoCheckpointSaysNothing DEF WorkflowChatInit, WorkflowChatInv

\* A checkpoint arrives: what it says and the page does not know is added.
LEMMA TakeShows ==
  ASSUME WorkflowChatInv, NEW checkpoint \in 0 .. Len(Conversation), NEW status,
         Take(checkpoint, status)
  PROVE  /\ shownChat' = [checkpoint |-> checkpoint, status |-> shownChat'.status,
                          known |-> shownChat'.known, messages |-> shownChat'.messages,
                          older |-> shownChat'.older]
         /\ shownChat'.messages \in Seq(ChatMessages) /\ shownChat'.older \in BOOLEAN
         /\ shownChat'.known = textsOf(getChatMessages(checkpoint))
         /\ Shows(checkpoint, shownChat'.messages, shownChat'.older)
<1> DEFINE c == shownChat.checkpoint
           m == shownChat.messages
           known == shownChat.known
           messages == getChatMessages(checkpoint)
           new == newMessages(known, messages)
           more == m \o [i \in DOMAIN new |-> toMessage(new[i])]
           next == lastHighlighted(more)
           older == shownChat.older \/ checkpoint < c
<1>1. shownChat' = [checkpoint |-> checkpoint, status |-> status, known |-> textsOf(messages),
                    messages |-> next, older |-> older]
  BY DEF Take
<1>2. /\ c \in 0 .. Len(Conversation) /\ m \in Seq(ChatMessages)
      /\ known = textsOf(getChatMessages(c)) /\ Shows(c, m, shownChat.older)
      /\ shownChat.older \in BOOLEAN
  BY DEF WorkflowChatInv
<1>3. messages \in Seq(Uses) /\ \A text : timesSaid(text, messages) \in Nat
  BY CheckpointsAreSequences
<1>4. /\ new \in Seq(Uses)
      /\ textsOf(new) = textsOf(messages) \ known
      /\ \A text : timesSaid(text, new) = IF text \in known THEN 0 ELSE timesSaid(text, messages)
  <2> HIDE DEF known, messages
  <2> QED
    BY <1>3, NewIsUnknown
<1>5. /\ more \in Seq(ChatMessages)
      /\ Told(more) = Told(m) \cup textsOf(new)
      /\ \A text : timesShown(text, more) = timesShown(text, m) + timesSaid(text, new)
  <2> HIDE DEF new, m
  <2> QED
    BY <1>2, <1>4, MoreIsShown
<1>6. /\ next \in Seq(ChatMessages) /\ Told(next) = Told(more)
      /\ \A text : timesShown(text, next) = timesShown(text, more)
  <2> DEFINE h == [i \in DOMAIN more |-> more[i].highlight
                     /\ \A j \in DOMAIN more : more[j].highlight => j <= i]
  <2>1. next = highlightedAs(more, h)
    <3> HIDE DEF more
    <3> QED
      BY DEF lastHighlighted, highlightedAs
  <2>2. h \in [DOMAIN more -> BOOLEAN]
    OBVIOUS
  <2> HIDE DEF more, next, h
  <2> QED
    BY <1>5, <2>1, <2>2, HighlightsKeep
<1>7. textsOf(messages) \subseteq Told(next)
  BY <1>2, <1>4, <1>5, <1>6 DEF Shows
<1>8. ASSUME ~older
      PROVE  /\ Told(next) \subseteq textsOf(messages)
             /\ \A text \in textsOf(messages) : timesShown(text, next) <= timesSaid(text, messages)
  <2>1. ~shownChat.older /\ c <= checkpoint
    BY <1>2, <1>8, ConversationIsSequence
  <2>2. /\ known \subseteq textsOf(messages)
        /\ \A text : timesSaid(text, getChatMessages(c)) <= timesSaid(text, messages)
    BY <1>2, <2>1, CheckpointsGrow
  <2>3. Told(m) \subseteq known
    BY <1>2, <2>1 DEF Shows
  <2>4. Told(next) \subseteq textsOf(messages)
    BY <1>4, <1>5, <1>6, <2>2, <2>3
  <2>5. ASSUME NEW text \in textsOf(messages)
        PROVE  timesShown(text, next) <= timesSaid(text, messages)
    <3>1. timesShown(text, m) \in Nat /\ (timesShown(text, m) > 0 <=> text \in Told(m))
      BY <1>2, ShownIsTold
    <3>2. CASE text \in known
      <4>1. timesShown(text, m) <= timesSaid(text, getChatMessages(c))
        BY <1>2, <2>1, <3>2 DEF Shows
      <4>2. timesSaid(text, getChatMessages(c)) \in Nat
        BY <1>2, CheckpointsAreSequences
      <4>3. timesShown(text, next) = timesShown(text, m)
        BY <1>4, <1>5, <1>6, <3>1, <3>2
      <4> QED
        BY <1>3, <2>2, <3>1, <4>1, <4>2, <4>3
    <3>3. CASE text \notin known
      <4>1. timesShown(text, m) = 0
        BY <2>3, <3>1, <3>3
      <4>2. timesSaid(text, new) = timesSaid(text, messages) /\ timesSaid(text, messages) \in Nat
        BY <1>3, <1>4, <3>3
      <4>3. timesShown(text, next) = timesShown(text, m) + timesSaid(text, new)
        BY <1>5, <1>6
      <4> HIDE DEF next, m, new, messages
      <4> QED
        BY <4>1, <4>2, <4>3
    <3> QED
      BY <3>2, <3>3
  <2> QED
    BY <2>4, <2>5
<1>9. Shows(checkpoint, next, older)
  BY <1>7, <1>8 DEF Shows
<1> HIDE DEF next, older, messages
<1>10. older \in BOOLEAN
  BY DEF older
<1> QED
  BY <1>1, <1>6, <1>9, <1>10 DEF messages

LEMMA OnChatSendKeeps == WorkflowChatInv /\ OnChatSend => WorkflowChatInv'
<1> SUFFICES ASSUME WorkflowChatInv, OnChatSend PROVE WorkflowChatInv'
  OBVIOUS
<1> DEFINE m == shownChat.messages
           quiet == [i \in DOMAIN m |-> [m[i] EXCEPT !.highlight = FALSE]]
           own == [content |-> "user's", role |-> "user", highlight |-> FALSE]
           next == Append(quiet, own)
<1>1. shownChat' = [shownChat EXCEPT !.messages = next] /\ UNCHANGED <<execution, feed>>
  BY DEF OnChatSend
<1>2. m \in Seq(ChatMessages)
  BY DEF WorkflowChatInv
<1>3. /\ quiet \in Seq(ChatMessages) /\ Told(quiet) = Told(m)
      /\ \A text : timesShown(text, quiet) = timesShown(text, m)
  <2> DEFINE h == [i \in DOMAIN m |-> FALSE]
  <2>1. quiet = highlightedAs(m, h) /\ h \in [DOMAIN m -> BOOLEAN]
    BY DEF highlightedAs
  <2> HIDE DEF m, quiet, h
  <2> QED
    BY <1>2, <2>1, HighlightsKeep
<1>4. own \in ChatMessages /\ own.role = "user"
  BY DEF ChatMessages
<1>5. /\ next \in Seq(ChatMessages) /\ Told(next) = Told(m)
      /\ \A text : timesShown(text, next) = timesShown(text, m)
  <2>1. next = Append(quiet, own)
    OBVIOUS
  <2> HIDE DEF quiet, own, next
  <2>2. /\ next \in Seq(ChatMessages) /\ Told(next) = Told(quiet)
        /\ \A text : timesShown(text, next) = timesShown(text, quiet)
    BY <1>3, <1>4, <2>1, UserTellsNothing
  <2> QED
    BY <1>3, <2>2
<1> HIDE DEF next
<1>6. /\ shownChat' = [checkpoint |-> shownChat'.checkpoint, status |-> shownChat'.status,
                       known |-> shownChat'.known, messages |-> shownChat'.messages,
                       older |-> shownChat'.older]
      /\ shownChat'.checkpoint = shownChat.checkpoint /\ shownChat'.known = shownChat.known
      /\ shownChat'.older = shownChat.older /\ shownChat'.messages = next
  BY <1>1 DEF WorkflowChatInv
<1>7. Shows(shownChat.checkpoint, next, shownChat.older)
  BY <1>5 DEF WorkflowChatInv, Shows
<1> QED
  BY <1>1, <1>5, <1>6, <1>7 DEF WorkflowChatInv

LEMMA WorkflowChatStep ==
  WorkflowChatInv /\ [WorkflowChatNext]_chatPageVars => WorkflowChatInv'
<1> SUFFICES ASSUME WorkflowChatInv, [WorkflowChatNext]_chatPageVars PROVE WorkflowChatInv'
  OBVIOUS
<1>1. CASE Query
  BY <1>1 DEF Query, WorkflowChatInv, Shows
<1>2. CASE SubscribeToUpdates
  BY <1>2 DEF SubscribeToUpdates, WorkflowChatInv, Shows
<1>3. CASE WorkflowArrives
  <2>1. /\ feed' = [feed EXCEPT !.stage = IF @ = "subscribed" THEN "following" ELSE "over"]
        /\ Take(feed.found, feed.status) /\ UNCHANGED execution
    BY <1>3 DEF WorkflowArrives
  <2>2. /\ feed' = [stage |-> feed'.stage, found |-> feed'.found, status |-> feed'.status]
        /\ feed'.found = feed.found /\ feed.found \in 0 .. Len(Conversation)
    BY <2>1 DEF WorkflowChatInv
  <2> QED
    BY <2>1, <2>2, TakeShows DEF WorkflowChatInv
<1>4. CASE \E more \in 0 .. 1, status \in Statuses : CheckpointIsMade(more, status)
  <2> PICK more \in 0 .. 1, status \in Statuses : CheckpointIsMade(more, status)
    BY <1>4
  <2>1. /\ execution.made + more \in 0 .. Len(Conversation)
        /\ execution'.made = execution.made + more
    BY ConversationIsSequence DEF CheckpointIsMade, WorkflowChatInv
  <2>2. CASE subscribed
    BY <2>1, <2>2, TakeShows DEF CheckpointIsMade, WorkflowChatInv
  <2>3. CASE ~subscribed
    BY <2>1, <2>3 DEF CheckpointIsMade, WorkflowChatInv, Shows
  <2> QED
    BY <2>2, <2>3
<1>5. CASE StopWorkflow \/ TogglePause \/ ChatResume
  BY <1>5 DEF StopWorkflow, TogglePause, ChatResume, send, WorkflowChatInv, Shows
<1>6. CASE OnChatSend
  BY <1>6, OnChatSendKeeps
<1>7. CASE UNCHANGED chatPageVars
  BY <1>7 DEF chatPageVars, WorkflowChatInv, Shows
<1> QED
  BY <1>1, <1>2, <1>3, <1>4, <1>5, <1>6, <1>7 DEF WorkflowChatNext

\* The page shows what the checkpoints say (Take): the invariant that relates what is
\* known, what is shown and what is said.
THEOREM ChatShowsCheckpoints == WorkflowChatSpec => []WorkflowChatInv
<1> QED
  BY WorkflowChatInitInv, WorkflowChatStep, PTL DEF WorkflowChatSpec

\* No text of a checkpoint is missing on the page, and none is shown more often than
\* the workflow has said it, unless the answer of the query came late.
THEOREM ChatFollowsTheWorkflowCorrect == WorkflowChatSpec => []ChatFollowsTheWorkflow
<1>1. WorkflowChatInv => ChatFollowsTheWorkflow
  <2> SUFFICES ASSUME WorkflowChatInv,
                      NEW text \in textsOf(getChatMessages(shownChat.checkpoint))
               PROVE  /\ timesShown(text, shownChat.messages) > 0
                      /\ \/ timesShown(text, shownChat.messages)
                              <= timesSaid(text, getChatMessages(shownChat.checkpoint))
                         \/ shownChat.older
    BY DEF ChatFollowsTheWorkflow
  <2>1. shownChat.messages \in Seq(ChatMessages)
    BY DEF WorkflowChatInv
  <2> QED
    BY <2>1, ShownIsTold DEF WorkflowChatInv, Shows
<1> QED
  BY <1>1, ChatShowsCheckpoints, PTL

-----------------------------------------------------------------------------
(* Container.  A call of the sort has to do what is not sorted of its      *)
(* interface, and all that the class it is at depends on is sorted, up to  *)
(* the dependency that it awaits.  So nothing is sorted before what it     *)
(* depends on, nor built.                                                  *)

Call == [of : Interfaces, todo : SUBSET Nat, next : Nat \ {0}]
ContainerTypes ==
  /\ classes \in Applications /\ given \subseteq Interfaces
  /\ calls \in Seq(Call) /\ roots \in Nat \ {0} /\ order \in Seq(DOMAIN classes)
  /\ instances \in [Interfaces -> Seq(Nat)] /\ DOMAIN arguments = DOMAIN classes

\* Classes that are sorted, built or not.
awaited(c, k) == implementing(classes[c].dependencies[k].of)

\* What call p is about and has done.
callIsOf(p) == calls[p].todo = unprocessed(calls[p].of)
callHasSorted(p) ==
  calls[p].todo # {} =>
    \A k \in DOMAIN classes[Min(calls[p].todo)].dependencies : k < calls[p].next =>
      \/ awaited(Min(calls[p].todo), k) \subseteq ToSet(order)
      \/ /\ p + 1 \in DOMAIN calls /\ k = calls[p].next - 1
         /\ calls[p + 1].of = classes[Min(calls[p].todo)].dependencies[k].of

CallsFollow ==
  /\ \A p, q \in DOMAIN calls : calls[p].of = calls[q].of => p = q
  /\ \A p \in DOMAIN calls : callIsOf(p) /\ callHasSorted(p)

RootsAreSorted ==
  \A c \in 1..(roots - 1) : c \in DOMAIN classes =>
    c \in ToSet(order) \/ (calls # <<>> /\ c = roots - 1 /\ calls[1].of = classes[c].id)

\* While nothing is built yet; and once the order is there.
SortIsUnderWay == startup \in {"validating", "sorting"} => CallsFollow /\ RootsAreSorted /\ Built = {}
SortIsOver == startup \in {"building", "built"} => DOMAIN classes \subseteq ToSet(order) \cup Built

\* Nothing comes twice, or before what it depends on.
OrderIsSorted ==
  /\ \A m, l \in DOMAIN order : order[m] = order[l] => m = l
  /\ \A m \in DOMAIN order : order[m] \notin Built
  /\ \A m \in DOMAIN order : \A k \in DOMAIN classes[order[m]].dependencies :
       \A d \in awaited(order[m], k) : d \in Built \/ \E l \in 1..(m - 1) : order[l] = d

\* An instance of an interface is of one of its classes or was added before.
sourcesOf(i) == implementing(i) \cup IF i \in given THEN {0} ELSE {}
InstancesAreBuilt ==
  \A i \in Interfaces :
    /\ i \in given => instances[i] # <<>>
    /\ \A k \in DOMAIN instances[i] : instances[i][k] \in sourcesOf(i)
    /\ \A k, m \in DOMAIN instances[i] : instances[i][k] = instances[i][m] => k = m

ArgumentsHaveAll ==
  \A c \in Built : \A k \in DOMAIN classes[c].dependencies :
    awaited(c, k) \subseteq ToSet(arguments[c][k])
SeveralIfAmbiguous ==
  startup = "ambiguous" => \E i \in Interfaces :
    Cardinality(implementing(i)) + (IF i \in given THEN 1 ELSE 0) > 1

AllIsPresent == startup \in {"sorting", "building"} => dependenciesArePresent

ContainerInv ==
  /\ ContainerTypes /\ SortIsUnderWay /\ SortIsOver /\ OrderIsSorted
  /\ InstancesAreBuilt /\ ArgumentsHaveAll /\ SeveralIfAmbiguous
  /\ AllIsPresent /\ (startup = "built" => order = <<>>)

LEMMA ClassFacts ==
  ASSUME classes \in Applications
  PROVE  /\ Len(classes) \in Nat /\ DOMAIN classes = 1..Len(classes)
         /\ \A c \in DOMAIN classes :
              /\ classes[c].id \in Interfaces /\ Len(classes[c].dependencies) \in Nat
              /\ DOMAIN classes[c].dependencies = 1..Len(classes[c].dependencies)
              /\ \A k \in DOMAIN classes[c].dependencies : classes[c].dependencies[k].of \in Interfaces
         /\ \A i : implementing(i) \subseteq DOMAIN classes
BY ApplicationsAreClasses DEF implementing

LEMMA MinIsMember ==
  ASSUME NEW S, S \subseteq Nat, S # {}
  PROVE  Min(S) \in S
<1>1. PICK x \in S : \A y \in S : ~(y < x)
  BY SmallestOf
<1>2. \A y \in S : x <= y
  BY <1>1
<1> QED
  BY <1>1, <1>2 DEF Min

\* The calls around the innermost one, alone, with one and with two more.
LEMMA OuterCalls ==
  ASSUME calls \in Seq(Call), calls # <<>>
  PROVE  /\ Len(calls) \in Nat \ {0} /\ DOMAIN calls = 1..Len(calls) /\ top \in Call
         /\ outer \in Seq(Call) /\ DOMAIN outer = 1..(Len(calls) - 1) /\ Len(outer) = Len(calls) - 1
         /\ \A p \in 1..(Len(calls) - 1) : outer[p] = calls[p]
<1> DEFINE n == Len(calls)
<1>1. n \in Nat \ {0} /\ DOMAIN calls = 1..n
  OBVIOUS
<1>2. top \in Call
  BY <1>1 DEF top
<1>3. SubSeq(calls, 1, n - 1) \in Seq(Call) /\ Len(SubSeq(calls, 1, n - 1)) = n - 1
  BY <1>1
<1>4. \A p \in 1..(n - 1) : SubSeq(calls, 1, n - 1)[p] = calls[p]
  BY <1>1
<1>5. outer = SubSeq(calls, 1, n - 1)
  BY DEF outer
<1>6. DOMAIN outer = 1..(n - 1)
  BY <1>3, <1>5
<1> QED
  BY <1>1, <1>2, <1>3, <1>4, <1>5, <1>6

LEMMA OneMoreCall ==
  ASSUME calls \in Seq(Call), calls # <<>>, NEW f \in Call
  PROVE  LET s == outer \o <<f>> IN
         /\ s \in Seq(Call) /\ DOMAIN s = 1..Len(calls) /\ s # <<>> /\ s[Len(calls)] = f
         /\ \A p \in 1..(Len(calls) - 1) : s[p] = calls[p]
<1>1. Len(outer) = Len(calls) - 1 /\ outer \in Seq(Call) /\ Len(calls) \in Nat \ {0}
  BY OuterCalls
<1> DEFINE s == outer \o <<f>>
<1>2. s \in Seq(Call) /\ Len(s) = Len(calls) /\ s[Len(calls)] = f
  BY <1>1
<1>3. \A p \in 1..(Len(calls) - 1) : s[p] = outer[p]
  BY <1>1
<1>4. DOMAIN s = 1..Len(calls) /\ s # <<>>
  BY <1>1, <1>2
<1> QED
  BY <1>2, <1>3, <1>4, OuterCalls

LEMMA TwoMoreCalls ==
  ASSUME calls \in Seq(Call), calls # <<>>, NEW f \in Call, NEW g \in Call
  PROVE  LET s == outer \o <<f, g>> IN
         /\ s \in Seq(Call) /\ DOMAIN s = 1..(Len(calls) + 1) /\ s # <<>>
         /\ s[Len(calls)] = f /\ s[Len(calls) + 1] = g
         /\ \A p \in 1..(Len(calls) - 1) : s[p] = calls[p]
<1>1. Len(outer) = Len(calls) - 1 /\ outer \in Seq(Call) /\ Len(calls) \in Nat \ {0}
  BY OuterCalls
<1> DEFINE s == outer \o <<f, g>>
<1>2. s \in Seq(Call) /\ Len(s) = Len(calls) + 1
  BY <1>1
<1>3. s[Len(calls)] = f /\ s[Len(calls) + 1] = g
  BY <1>1
<1>4. \A p \in 1..(Len(calls) - 1) : s[p] = outer[p]
  BY <1>1
<1>5. DOMAIN s = 1..(Len(calls) + 1) /\ s # <<>>
  BY <1>1, <1>2
<1> QED
  BY <1>2, <1>3, <1>4, <1>5, OuterCalls

\* What the class at the top of the calls is.
LEMMA CurrentFacts ==
  ASSUME ContainerInv, startup = "sorting", calls # <<>>, top.todo # {}
  PROVE  /\ currentClass \in DOMAIN classes /\ currentClass \in top.todo /\ currentClass \notin ToSet(order)
         /\ classes[currentClass].id = top.of /\ top.todo = unprocessed(top.of)
         /\ sortedBefore(currentClass) = classes[currentClass].dependencies
<1>1. top \in Call /\ Len(calls) \in DOMAIN calls /\ top = calls[Len(calls)]
  BY OuterCalls DEF ContainerInv, ContainerTypes, top
<1>2. top.todo = unprocessed(top.of)
  BY <1>1 DEF ContainerInv, SortIsUnderWay, CallsFollow, callIsOf
<1>3. top.todo \subseteq Nat
  BY <1>1 DEF Call
<1>4. currentClass \in top.todo
  BY <1>3, MinIsMember DEF currentClass
<1>5. currentClass \in DOMAIN classes /\ currentClass \notin ToSet(order) /\ classes[currentClass].id = top.of
  BY <1>2, <1>4 DEF unprocessed, implementing
<1> QED
  BY <1>2, <1>4, <1>5 DEF sortedBefore

\* What no step of the sort changes.
LEMMA NothingIsBuilt ==
  ASSUME ContainerInv, UNCHANGED <<classes, given, instances, arguments>>
  PROVE  /\ Built' = Built /\ InstancesAreBuilt' /\ ArgumentsHaveAll'
         /\ \A i : implementing(i)' = implementing(i)
         /\ \A c, k : awaited(c, k)' = awaited(c, k)
         /\ dependenciesArePresent' = dependenciesArePresent
<1>1. Built' = Built
  BY DEF Built
<1>2. \A i : implementing(i)' = implementing(i)
  BY DEF implementing
<1>3. \A c, k : awaited(c, k)' = awaited(c, k)
  BY <1>2 DEF awaited, implementing
<1>4. InstancesAreBuilt'
  BY <1>2 DEF ContainerInv, InstancesAreBuilt, sourcesOf
<1>5. ArgumentsHaveAll'
  BY <1>1, <1>3 DEF ContainerInv, ArgumentsHaveAll
<1>6. dependenciesArePresent' = dependenciesArePresent
  BY DEF dependenciesArePresent, present, implementing
<1> QED
  BY <1>1, <1>2, <1>3, <1>4, <1>5, <1>6

LEMMA OrderStays ==
  ASSUME ContainerInv, UNCHANGED <<classes, given, instances, arguments>>, order' = order
  PROVE  OrderIsSorted'
BY NothingIsBuilt DEF ContainerInv, OrderIsSorted

LEMMA CallsStay ==
  ASSUME CallsFollow, classes' = classes, calls' = calls, order' = order
  PROVE  CallsFollow'
<1>1. \A p : callIsOf(p)' = callIsOf(p)
  BY DEF callIsOf, unprocessed, implementing
<1>2. \A p : callHasSorted(p)' = callHasSorted(p)
  BY DEF callHasSorted, awaited, implementing
<1> QED
  BY <1>1, <1>2 DEF CallsFollow

LEMMA ContainerInitInv == ContainerInit => ContainerInv
<1> SUFFICES ASSUME ContainerInit PROVE ContainerInv
  OBVIOUS
<1> USE DEF ContainerInit
<1>1. /\ \A i \in Interfaces : instances[i] = IF i \in given THEN <<0>> ELSE <<>>
      /\ classes \in Applications /\ order = <<>> /\ calls = <<>> /\ roots = 1
      /\ startup = "validating" /\ given \subseteq Interfaces
  OBVIOUS
<1>2. Built = {}
  <2>1. SUFFICES ASSUME NEW c \in DOMAIN classes, NEW k \in DOMAIN instances[classes[c].id],
                        instances[classes[c].id][k] = c
                 PROVE  FALSE
    BY DEF Built
  <2>2. c \in 1..Len(classes) /\ Len(classes) \in Nat /\ classes[c].id \in Interfaces
    BY <1>1, ClassFacts
  <2>3. instances[classes[c].id] \in {<<0>>, <<>>}
    BY <1>1, <2>2
  <2>4. instances[classes[c].id][k] = 0
    BY <2>3
  <2> QED
    BY <2>1, <2>2, <2>4
<1>3. ContainerTypes
  <2>1. instances \in [Interfaces -> Seq(Nat)]
    BY <1>1
  <2> QED
    BY <1>1, <2>1 DEF ContainerTypes
<1>4. CallsFollow /\ RootsAreSorted /\ OrderIsSorted
  BY <1>1 DEF CallsFollow, RootsAreSorted, OrderIsSorted
<1>5. InstancesAreBuilt
  <2> SUFFICES ASSUME NEW i \in Interfaces
               PROVE  /\ i \in given => instances[i] # <<>>
                      /\ \A k \in DOMAIN instances[i] : instances[i][k] \in sourcesOf(i)
                      /\ \A k, m \in DOMAIN instances[i] : instances[i][k] = instances[i][m] => k = m
    BY DEF InstancesAreBuilt
  <2>1. CASE i \in given
    BY <1>1, <2>1 DEF sourcesOf
  <2>2. CASE i \notin given
    BY <1>1, <2>2 DEF sourcesOf
  <2> QED
    BY <2>1, <2>2
<1> QED
  BY <1>1, <1>2, <1>3, <1>4, <1>5
     DEF ContainerInv, SortIsUnderWay, SortIsOver, ArgumentsHaveAll, SeveralIfAmbiguous, AllIsPresent

LEMMA ValidateKeeps ==
  ASSUME ContainerInv, Validate
  PROVE  ContainerInv'
<1>1. /\ UNCHANGED <<classes, given, instances, arguments>> /\ UNCHANGED <<calls, roots, order>>
      /\ startup = "validating"
      /\ startup' \in {"unmet", "circular", "dependency missing", "sorting"}
      /\ startup' = "sorting" => dependenciesArePresent
  BY DEF Validate, sortVars
<1>2. CallsFollow' /\ RootsAreSorted' /\ Built' = {}
  <2>1. CallsFollow /\ RootsAreSorted /\ Built = {}
    BY <1>1 DEF ContainerInv, SortIsUnderWay
  <2>2. Built' = Built
    BY <1>1, NothingIsBuilt
  <2>3. CallsFollow'
    BY <1>1, <2>1, CallsStay
  <2>4. RootsAreSorted'
    BY <1>1, <2>1 DEF RootsAreSorted
  <2> QED
    BY <2>1, <2>2, <2>3, <2>4
<1>3. OrderIsSorted'
  BY <1>1, OrderStays
<1>4. ContainerTypes'
  BY <1>1 DEF ContainerInv, ContainerTypes
<1> QED
  BY <1>1, <1>2, <1>3, <1>4, NothingIsBuilt
     DEF ContainerInv, SortIsUnderWay, SortIsOver, SeveralIfAmbiguous, AllIsPresent

\* What a step of the sort that goes on has to show.
LEMMA SortGoesOn ==
  ASSUME ContainerInv, startup = "sorting", startup' = "sorting",
         UNCHANGED <<classes, given, instances, arguments>>,
         ContainerTypes', CallsFollow', RootsAreSorted', OrderIsSorted'
  PROVE  ContainerInv'
<1>1. Built = {}
  BY DEF ContainerInv, SortIsUnderWay
<1> QED
  BY <1>1, NothingIsBuilt
     DEF ContainerInv, SortIsUnderWay, SortIsOver, SeveralIfAmbiguous, AllIsPresent

LEMMA CallsOfInterfaces ==
  ASSUME ContainerInv, NEW i \in Interfaces
  PROVE  callFor(i) \in Call
<1>1. unprocessed(i) \subseteq Nat
  BY ClassFacts DEF ContainerInv, ContainerTypes, unprocessed, implementing
<1> QED
  BY <1>1 DEF callFor, Call

LEMMA SortFromKeeps ==
  ASSUME ContainerInv, SortFrom
  PROVE  ContainerInv'
<1>1. /\ UNCHANGED <<classes, given, instances, arguments>> /\ UNCHANGED <<startup, order>>
      /\ startup = "sorting" /\ calls = <<>> /\ roots <= Len(classes)
      /\ calls' = <<callFor(classes[roots].id)>> /\ roots' = roots + 1
  BY DEF SortFrom
<1>2. classes[roots].id \in Interfaces /\ roots \in Nat \ {0}
  BY <1>1, ClassFacts DEF ContainerInv, ContainerTypes
<1>3. callFor(classes[roots].id) \in Call
  BY <1>2, CallsOfInterfaces
<1>4. ContainerTypes'
  BY <1>1, <1>2, <1>3 DEF ContainerInv, ContainerTypes
<1>5. DOMAIN calls' = {1} /\ calls'[1] = callFor(classes[roots].id)
  BY <1>1
<1>6. CallsFollow'
  <2>1. callIsOf(1)'
    BY <1>1, <1>5 DEF callIsOf, callFor, unprocessed, implementing
  <2>2. callHasSorted(1)'
    <3>1. calls'[1].next = 1
      BY <1>5 DEF callFor
    <3>2. \A c \in DOMAIN classes : \A k \in DOMAIN classes[c].dependencies : ~(k < 1)
      BY ClassFacts DEF ContainerInv, ContainerTypes
    <3>3. calls'[1].todo # {} => Min(calls'[1].todo) \in DOMAIN classes
      <4>1. calls'[1].todo \subseteq DOMAIN classes
        BY <1>5 DEF callFor, unprocessed, implementing
      <4>2. DOMAIN classes \subseteq Nat
        BY ClassFacts DEF ContainerInv, ContainerTypes
      <4> QED
        BY <4>1, <4>2, MinIsMember
    <3> QED
      BY <1>1, <3>1, <3>2, <3>3 DEF callHasSorted
  <2> QED
    BY <1>5, <2>1, <2>2 DEF CallsFollow
<1>7. RootsAreSorted'
  <2> SUFFICES ASSUME NEW c \in 1..(roots' - 1), c \in DOMAIN classes'
               PROVE  \/ c \in ToSet(order')
                      \/ calls' # <<>> /\ c = roots' - 1 /\ calls'[1].of = classes'[c].id
    BY DEF RootsAreSorted
  <2>1. CASE c = roots
    BY <1>1, <1>2, <1>5, <2>1 DEF callFor
  <2>2. CASE c # roots
    <3>1. c \in 1..(roots - 1)
      BY <1>1, <1>2, <2>2
    <3> QED
      BY <1>1, <3>1 DEF ContainerInv, SortIsUnderWay, RootsAreSorted
  <2> QED
    BY <2>1, <2>2
<1>8. OrderIsSorted'
  BY <1>1, OrderStays
<1> QED
  BY <1>1, <1>4, <1>6, <1>7, <1>8, SortGoesOn

LEMMA SortReturnsKeeps ==
  ASSUME ContainerInv, SortReturns
  PROVE  ContainerInv'
<1> DEFINE n == Len(calls)
<1>1. /\ UNCHANGED <<classes, given, instances, arguments>> /\ UNCHANGED <<startup, roots, order>>
      /\ startup = "sorting" /\ calls # <<>> /\ top.todo = {} /\ calls' = outer
  BY DEF SortReturns
<1>2. calls \in Seq(Call) /\ CallsFollow /\ RootsAreSorted
  BY <1>1 DEF ContainerInv, ContainerTypes, SortIsUnderWay
<1>3. /\ n \in Nat \ {0} /\ DOMAIN calls = 1..n /\ top = calls[n]
      /\ outer \in Seq(Call) /\ DOMAIN calls' = 1..(n - 1)
      /\ \A p \in 1..(n - 1) : calls'[p] = calls[p]
  BY <1>1, <1>2, OuterCalls DEF top
<1>4. implementing(calls[n].of) \subseteq ToSet(order)
  <2>1. calls[n].todo = unprocessed(calls[n].of)
    BY <1>2, <1>3 DEF CallsFollow, callIsOf
  <2> QED
    BY <1>1, <1>3, <2>1 DEF unprocessed
<1>5. ContainerTypes'
  BY <1>1, <1>3 DEF ContainerInv, ContainerTypes
<1>6. ASSUME NEW p \in DOMAIN calls' PROVE callIsOf(p)' /\ callHasSorted(p)'
  <2>1. p \in 1..(n - 1) /\ p \in DOMAIN calls /\ calls'[p] = calls[p]
    BY <1>3
  <2>2. callIsOf(p)'
    BY <1>1, <1>2, <2>1 DEF CallsFollow, callIsOf, unprocessed, implementing
  <2>3. ASSUME calls[p].todo # {}, NEW k \in DOMAIN classes[Min(calls[p].todo)].dependencies,
               k < calls[p].next
        PROVE  \/ awaited(Min(calls[p].todo), k) \subseteq ToSet(order)
               \/ /\ p + 1 \in DOMAIN calls' /\ k = calls[p].next - 1
                  /\ calls'[p + 1].of = classes[Min(calls[p].todo)].dependencies[k].of
    <3>1. \/ awaited(Min(calls[p].todo), k) \subseteq ToSet(order)
          \/ /\ p + 1 \in DOMAIN calls /\ k = calls[p].next - 1
             /\ calls[p + 1].of = classes[Min(calls[p].todo)].dependencies[k].of
      BY <1>2, <2>1, <2>3 DEF CallsFollow, callHasSorted
    <3>2. CASE p + 1 = n /\ calls[p + 1].of = classes[Min(calls[p].todo)].dependencies[k].of
      BY <1>4, <3>2 DEF awaited
    <3>3. CASE p + 1 # n
      <4>1. p + 1 \in DOMAIN calls => p + 1 \in 1..(n - 1)
        BY <1>3, <2>1, <3>3
      <4> QED
        BY <1>3, <3>1, <4>1
    <3> QED
      BY <3>1, <3>2, <3>3
  <2>4. callHasSorted(p)'
    BY <1>1, <2>1, <2>3 DEF callHasSorted, awaited, implementing
  <2> QED
    BY <2>2, <2>4
<1>7. CallsFollow'
  <2>1. \A p, q \in DOMAIN calls' : calls'[p].of = calls'[q].of => p = q
    BY <1>2, <1>3 DEF CallsFollow
  <2> QED
    BY <1>6, <2>1 DEF CallsFollow
<1>8. RootsAreSorted'
  <2> SUFFICES ASSUME NEW c \in 1..(roots - 1), c \in DOMAIN classes
               PROVE  \/ c \in ToSet(order)
                      \/ calls' # <<>> /\ c = roots - 1 /\ calls'[1].of = classes[c].id
    BY <1>1 DEF RootsAreSorted
  <2>1. c \in ToSet(order) \/ (c = roots - 1 /\ calls[1].of = classes[c].id)
    BY <1>2 DEF RootsAreSorted
  <2>2. CASE n = 1
    BY <1>4, <2>1, <2>2 DEF implementing
  <2>3. CASE n # 1
    <3>1. 1 \in 1..(n - 1) /\ calls' # <<>>
      BY <1>3, <2>3
    <3> QED
      BY <1>3, <2>1, <3>1
  <2> QED
    BY <2>2, <2>3
<1>9. OrderIsSorted'
  BY <1>1, OrderStays
<1> QED
  BY <1>1, <1>5, <1>7, <1>8, <1>9, SortGoesOn

LEMMA SortDependencyKeeps ==
  ASSUME ContainerInv, SortDependency
  PROVE  ContainerInv'
<1> DEFINE n == Len(calls)
           deps == classes[currentClass].dependencies
           i == deps[top.next].of
           f == [top EXCEPT !.next = @ + 1]
<1>1. /\ UNCHANGED <<classes, given, instances, arguments>> /\ UNCHANGED <<roots, order>>
      /\ startup = "sorting" /\ calls # <<>> /\ top.todo # {}
      /\ top.next <= Len(sortedBefore(currentClass))
  BY DEF SortDependency
<1>2. calls \in Seq(Call) /\ CallsFollow /\ RootsAreSorted /\ Built = {}
  BY <1>1 DEF ContainerInv, ContainerTypes, SortIsUnderWay
<1>3. /\ n \in Nat \ {0} /\ DOMAIN calls = 1..n /\ top = calls[n] /\ top \in Call
  BY <1>1, <1>2, OuterCalls DEF top
<1>4. currentClass \in DOMAIN classes /\ sortedBefore(currentClass) = deps
  BY <1>1, CurrentFacts
<1>5. top.next \in DOMAIN deps /\ i \in Interfaces /\ DOMAIN deps = 1..Len(deps)
  <2>1. top.next \in Nat \ {0}
    BY <1>3 DEF Call
  <2>2. Len(deps) \in Nat /\ DOMAIN deps = 1..Len(deps) /\ \A k \in DOMAIN deps : deps[k].of \in Interfaces
    BY <1>4, ClassFacts DEF ContainerInv, ContainerTypes
  <2>3. top.next <= Len(deps)
    BY <1>1, <1>4
  <2>4. top.next \in DOMAIN deps
    BY <2>1, <2>2, <2>3
  <2> QED
    BY <2>2, <2>4
<1>6. CASE \E p \in DOMAIN calls : calls[p].of = i
  <2>1. startup' = "stack overflow" /\ calls' = calls
    BY <1>4, <1>6 DEF SortDependency
  <2>2. ContainerTypes'
    BY <1>1, <2>1 DEF ContainerInv, ContainerTypes
  <2>3. OrderIsSorted'
    BY <1>1, OrderStays
  <2> QED
    BY <1>1, <2>1, <2>2, <2>3, NothingIsBuilt
       DEF ContainerInv, SortIsUnderWay, SortIsOver, SeveralIfAmbiguous, AllIsPresent
<1>7. CASE \A p \in DOMAIN calls : calls[p].of # i
  <2>1. startup' = "sorting" /\ calls' = outer \o <<f, callFor(i)>>
    BY <1>1, <1>4, <1>7 DEF SortDependency
  <2>2. /\ f \in Call /\ f.of = top.of /\ f.todo = top.todo /\ f.next = top.next + 1
    BY <1>3 DEF Call
  <2>3. callFor(i) \in Call
    BY <1>5, CallsOfInterfaces
  <2>4. /\ calls' \in Seq(Call) /\ DOMAIN calls' = 1..(n + 1) /\ calls' # <<>>
        /\ calls'[n] = f /\ calls'[n + 1] = callFor(i)
        /\ \A p \in 1..(n - 1) : calls'[p] = calls[p]
    <3> HIDE DEF f, i
    <3> QED
      BY <1>1, <1>2, <2>1, <2>2, <2>3, TwoMoreCalls
  <2> HIDE DEF f, i
  <2>5. ContainerTypes'
    BY <1>1, <2>4 DEF ContainerInv, ContainerTypes
  <2>6. \A p \in DOMAIN calls' : p \in 1..(n - 1) \/ p = n \/ p = n + 1
    BY <1>3, <2>4
  <2>7. \A p \in 1..n : calls'[p].of = calls[p].of /\ calls'[p].todo = calls[p].todo
    <3>1. n \in Nat \ {0}
      BY <1>3
    <3> HIDE DEF n
    <3>2. \A p \in 1..n : p \in 1..(n - 1) \/ p = n
      BY <3>1
    <3> QED
      BY <1>3, <2>2, <2>4, <3>2
  <2>8. callFor(i).of = i /\ callFor(i).next = 1 /\ callFor(i).todo = unprocessed(i)
    BY DEF callFor
  <2>9. ASSUME NEW p \in DOMAIN calls' PROVE callIsOf(p)'
    <3>1. CASE p = n + 1
      BY <1>1, <2>4, <2>8, <3>1 DEF callIsOf, unprocessed, implementing
    <3>2. CASE p # n + 1
      <4>1. p \in 1..n /\ p \in DOMAIN calls
        BY <1>3, <2>4, <3>2
      <4> QED
        BY <1>1, <1>2, <2>7, <4>1 DEF CallsFollow, callIsOf, unprocessed, implementing
    <3> QED
      BY <3>1, <3>2
  <2>10. ASSUME NEW p \in DOMAIN calls' PROVE callHasSorted(p)'
    <3> DEFINE c == Min(calls'[p].todo)
    <3> SUFFICES ASSUME calls'[p].todo # {}, NEW k \in DOMAIN classes[c].dependencies,
                        k < calls'[p].next
                 PROVE  \/ awaited(c, k) \subseteq ToSet(order)
                        \/ /\ p + 1 \in DOMAIN calls' /\ k = calls'[p].next - 1
                           /\ calls'[p + 1].of = classes[c].dependencies[k].of
      BY <1>1 DEF callHasSorted, awaited, implementing
    <3>1. CASE p = n + 1
      <4>1. calls'[p].todo \subseteq DOMAIN classes /\ DOMAIN classes \subseteq Nat
        BY <2>4, <2>8, <3>1, ClassFacts DEF ContainerInv, ContainerTypes, unprocessed, implementing
      <4>2. c \in DOMAIN classes
        BY <4>1, MinIsMember
      <4>3. k \in 1..Len(classes[c].dependencies)
        BY <4>2, ClassFacts DEF ContainerInv, ContainerTypes
      <4> QED
        BY <2>4, <2>8, <3>1, <4>3
    <3>2. CASE p = n
      <4>1. c = currentClass /\ calls[n].todo # {}
        BY <1>1, <1>3, <2>2, <2>4, <3>2 DEF currentClass
      <4>2. k \in 1..Len(deps) /\ k < top.next + 1 /\ top.next \in Nat
        BY <1>3, <1>5, <2>2, <2>4, <3>2, <4>1 DEF Call
      <4>3. CASE k = top.next
        <5>1. p + 1 \in DOMAIN calls' /\ calls'[p + 1].of = i
          BY <1>3, <2>4, <2>8, <3>2
        <5>2. calls'[p].next = k + 1 /\ k = (k + 1) - 1
          BY <2>2, <2>4, <3>2, <4>2, <4>3
        <5>3. i = classes[c].dependencies[k].of
          BY <4>1, <4>3 DEF i
        <5> QED
          BY <5>1, <5>2, <5>3
      <4>4. CASE k # top.next
        <5>1. k < calls[n].next /\ n \in DOMAIN calls
          BY <1>3, <4>2, <4>4
        <5>2. n + 1 \notin DOMAIN calls
          BY <1>3
        <5>3. Min(calls[n].todo) = currentClass
          BY <1>3 DEF currentClass
        <5>4. awaited(currentClass, k) \subseteq ToSet(order)
          BY <1>2, <4>1, <5>1, <5>2, <5>3 DEF CallsFollow, callHasSorted
        <5> QED
          BY <4>1, <5>4
      <4> QED
        BY <4>3, <4>4
    <3>3. CASE p \in 1..(n - 1)
      <4>1. p \in DOMAIN calls /\ p + 1 \in 1..n /\ p + 1 \in DOMAIN calls' /\ calls'[p] = calls[p]
        BY <1>3, <2>4, <3>3
      <4>2. calls'[p + 1].of = calls[p + 1].of
        BY <2>7, <4>1
      <4> QED
        BY <1>2, <4>1, <4>2 DEF CallsFollow, callHasSorted
    <3> QED
      BY <2>6, <3>1, <3>2, <3>3
  <2>11. \A p, q \in DOMAIN calls' : calls'[p].of = calls'[q].of => p = q
    <3>1. \A p \in DOMAIN calls' : p \in 1..n \/ p = n + 1
      BY <1>3, <2>4
    <3>2. \A p \in 1..n : p \in DOMAIN calls /\ calls'[p].of = calls[p].of /\ calls[p].of # i
      BY <1>3, <1>7, <2>7
    <3>3. calls'[n + 1].of = i
      BY <2>4, <2>8
    <3> QED
      BY <1>2, <3>1, <3>2, <3>3 DEF CallsFollow
  <2>12. CallsFollow'
    BY <2>9, <2>10, <2>11 DEF CallsFollow
  <2>13. RootsAreSorted'
    <3>1. calls'[1].of = calls[1].of
      BY <1>3, <2>7
    <3> QED
      BY <1>1, <1>2, <2>4, <3>1 DEF RootsAreSorted
  <2>14. OrderIsSorted'
    BY <1>1, OrderStays
  <2> QED
    BY <1>1, <2>1, <2>5, <2>12, <2>13, <2>14, SortGoesOn
<1> QED
  BY <1>6, <1>7

LEMMA SortClassKeeps ==
  ASSUME ContainerInv, SortClass
  PROVE  ContainerInv'
<1> DEFINE n == Len(calls)
           deps == classes[currentClass].dependencies
           f == [top EXCEPT !.todo = @ \ {currentClass}, !.next = 1]
<1>1. /\ UNCHANGED <<classes, given, instances, arguments>> /\ UNCHANGED <<startup, roots>>
      /\ startup = "sorting" /\ calls # <<>> /\ top.todo # {}
      /\ top.next > Len(sortedBefore(currentClass))
      /\ order' = Append(order, currentClass) /\ calls' = outer \o <<f>>
  BY DEF SortClass
<1>2. /\ calls \in Seq(Call) /\ CallsFollow /\ RootsAreSorted /\ Built = {}
      /\ order \in Seq(DOMAIN classes) /\ OrderIsSorted
  BY <1>1 DEF ContainerInv, ContainerTypes, SortIsUnderWay
<1>3. /\ n \in Nat \ {0} /\ DOMAIN calls = 1..n /\ top = calls[n] /\ top \in Call
  BY <1>1, <1>2, OuterCalls DEF top
<1>4. /\ currentClass \in DOMAIN classes /\ sortedBefore(currentClass) = deps /\ currentClass \notin ToSet(order)
      /\ classes[currentClass].id = top.of /\ top.todo = unprocessed(top.of)
  BY <1>1, CurrentFacts
<1>5. f \in Call /\ f.of = top.of /\ f.todo = top.todo \ {currentClass} /\ f.next = 1
  <2>1. top = [of |-> top.of, todo |-> top.todo, next |-> top.next] /\ top.of \in Interfaces
        /\ top.todo \in SUBSET Nat
    BY <1>3 DEF Call
  <2> DEFINE u == [top EXCEPT !.todo = @ \ {currentClass}]
             v == [u EXCEPT !.next = 1]
  <2>2. ASSUME NEW x, NEW y, NEW z, NEW o, NEW t, NEW m, NEW e, NEW k,
               x = [of |-> o, todo |-> t, next |-> m],
               y = [x EXCEPT !.todo = e], z = [y EXCEPT !.next = k]
        PROVE  z = [of |-> o, todo |-> e, next |-> k]
    <3>1. y = [of |-> o, todo |-> e, next |-> m]
      BY <2>2
    <3> QED
      BY <2>2, <3>1
  <2>3. u = [top EXCEPT !.todo = top.todo \ {currentClass}] /\ v = [u EXCEPT !.next = 1] /\ f = v
    BY <2>1
  <2> HIDE DEF u, v, f
  <2>4. f = [of |-> top.of, todo |-> top.todo \ {currentClass}, next |-> 1]
    BY <2>1, <2>2, <2>3
  <2> QED
    BY <2>1, <2>4 DEF Call
<1>6. /\ calls' \in Seq(Call) /\ DOMAIN calls' = 1..n /\ calls' # <<>> /\ calls'[n] = f
      /\ \A p \in 1..(n - 1) : calls'[p] = calls[p]
  <2> HIDE DEF f
  <2> QED
    BY <1>1, <1>2, <1>5, OneMoreCall
<1> HIDE DEF f
<1>7. /\ order' \in Seq(DOMAIN classes) /\ DOMAIN order' = 1..(Len(order) + 1) /\ Len(order) \in Nat
      /\ order'[Len(order) + 1] = currentClass /\ \A m \in DOMAIN order : order'[m] = order[m]
      /\ DOMAIN order = 1..Len(order)
  BY <1>1, <1>2, <1>4
<1>8. ToSet(order') = ToSet(order) \cup {currentClass}
  <2>1. \A m \in DOMAIN order' : m \in DOMAIN order \/ m = Len(order) + 1
    BY <1>7
  <2>2. DOMAIN order \subseteq DOMAIN order' /\ Len(order) + 1 \in DOMAIN order'
    BY <1>7
  <2> QED
    BY <1>7, <2>1, <2>2 DEF ToSet
<1>9. ContainerTypes'
  BY <1>1, <1>6, <1>7 DEF ContainerInv, ContainerTypes
<1>10. \A p \in DOMAIN calls' : p \in 1..(n - 1) \/ p = n
  BY <1>3, <1>6
<1>11. \A p \in DOMAIN calls' : p \in DOMAIN calls /\ calls'[p].of = calls[p].of
  BY <1>3, <1>5, <1>6, <1>10
<1>12. ASSUME NEW p \in DOMAIN calls' PROVE callIsOf(p)'
  <2>1. CASE p = n
    BY <1>1, <1>3, <1>4, <1>5, <1>6, <1>8, <2>1 DEF callIsOf, unprocessed, implementing
  <2>2. CASE p \in 1..(n - 1)
    <3>1. p \in DOMAIN calls /\ n \in DOMAIN calls /\ p # n /\ calls'[p] = calls[p]
      BY <1>3, <1>6, <2>2
    <3>2. calls[p].of # top.of
      BY <1>2, <1>3, <3>1 DEF CallsFollow
    <3>3. currentClass \notin implementing(calls[p].of)
      BY <1>4, <3>2 DEF implementing
    <3>4. calls[p].todo = unprocessed(calls[p].of)
      BY <1>2, <3>1 DEF CallsFollow, callIsOf
    <3>5. implementing(calls[p].of)' = implementing(calls'[p].of)
      BY <1>1 DEF implementing
    <3> QED
      BY <1>8, <3>1, <3>3, <3>4, <3>5 DEF callIsOf, unprocessed
  <2> QED
    BY <1>10, <2>1, <2>2
<1>13. ASSUME NEW p \in DOMAIN calls' PROVE callHasSorted(p)'
  <2> DEFINE c == Min(calls'[p].todo)
  <2> SUFFICES ASSUME calls'[p].todo # {}, NEW k \in DOMAIN classes[c].dependencies,
                      k < calls'[p].next
               PROVE  \/ awaited(c, k) \subseteq ToSet(order')
                      \/ /\ p + 1 \in DOMAIN calls' /\ k = calls'[p].next - 1
                         /\ calls'[p + 1].of = classes[c].dependencies[k].of
    BY <1>1 DEF callHasSorted, awaited, implementing
  <2>1. CASE p = n
    <3>1. calls'[p].todo \subseteq DOMAIN classes /\ DOMAIN classes \subseteq Nat
      BY <1>4, <1>5, <1>6, <2>1, ClassFacts DEF ContainerInv, ContainerTypes, unprocessed, implementing
    <3>2. c \in DOMAIN classes
      BY <3>1, MinIsMember
    <3>3. k \in 1..Len(classes[c].dependencies)
      BY <3>2, ClassFacts DEF ContainerInv, ContainerTypes
    <3> QED
      BY <1>5, <1>6, <2>1, <3>3
  <2>2. CASE p \in 1..(n - 1)
    <3>1. p \in DOMAIN calls /\ p + 1 \in DOMAIN calls' /\ calls'[p] = calls[p]
      BY <1>3, <1>6, <2>2
    <3>2. calls'[p + 1].of = calls[p + 1].of
      BY <1>11, <3>1
    <3> QED
      BY <1>2, <1>8, <3>1, <3>2 DEF CallsFollow, callHasSorted
  <2> QED
    BY <1>10, <2>1, <2>2
<1>14. CallsFollow'
  <2>1. \A p, q \in DOMAIN calls' : calls'[p].of = calls'[q].of => p = q
    BY <1>2, <1>11 DEF CallsFollow
  <2> QED
    BY <1>12, <1>13, <2>1 DEF CallsFollow
<1>15. RootsAreSorted'
  <2>1. calls'[1].of = calls[1].of
    BY <1>3, <1>6, <1>11
  <2> QED
    BY <1>1, <1>2, <1>6, <1>8, <2>1 DEF RootsAreSorted
<1>16. ASSUME NEW k \in DOMAIN deps PROVE awaited(currentClass, k) \subseteq ToSet(order)
  <2>1. k < calls[n].next /\ n \in DOMAIN calls /\ n + 1 \notin DOMAIN calls
    <3>1. k \in 1..Len(deps) /\ Len(deps) \in Nat
      BY <1>4, ClassFacts DEF ContainerInv, ContainerTypes
    <3>2. calls[n].next \in Nat /\ calls[n].next > Len(deps)
      BY <1>1, <1>3, <1>4 DEF Call
    <3> QED
      BY <1>3, <3>1, <3>2
  <2>2. Min(calls[n].todo) = currentClass /\ calls[n].todo # {}
    BY <1>1, <1>3 DEF currentClass
  <2> QED
    BY <1>2, <2>1, <2>2 DEF CallsFollow, callHasSorted
<1>17. OrderIsSorted'
  <2>1. Built' = {} /\ \A c, k : awaited(c, k)' = awaited(c, k)
    BY <1>1, <1>2, NothingIsBuilt
  <2>2. \A m \in DOMAIN order' : m \in DOMAIN order \/ m = Len(order) + 1
    BY <1>7
  <2>3. \A m \in DOMAIN order : order[m] # currentClass
    BY <1>4 DEF ToSet
  <2>4. \A m, l \in DOMAIN order' : order'[m] = order'[l] => m = l
    BY <1>2, <1>7, <2>2, <2>3 DEF OrderIsSorted
  <2>5. ASSUME NEW m \in DOMAIN order', NEW k \in DOMAIN classes[order'[m]].dependencies,
               NEW d \in awaited(order'[m], k)
        PROVE  \E l \in 1..(m - 1) : order'[l] = d
    <3>1. CASE m = Len(order) + 1
      <4>1. d \in ToSet(order)
        BY <1>7, <1>16, <2>5, <3>1
      <4>2. PICK l \in DOMAIN order : order[l] = d
        BY <4>1 DEF ToSet
      <4> QED
        BY <1>7, <3>1, <4>2
    <3>2. CASE m \in DOMAIN order
      <4>1. order'[m] = order[m]
        BY <1>7, <3>2
      <4>2. PICK l \in 1..(m - 1) : order[l] = d
        BY <1>2, <2>5, <3>2, <4>1 DEF OrderIsSorted
      <4>3. l \in DOMAIN order
        BY <1>7, <3>2
      <4> QED
        BY <1>7, <4>2, <4>3
    <3> QED
      BY <2>2, <3>1, <3>2
  <2>6. \A m \in DOMAIN order' : \A k \in DOMAIN classes'[order'[m]].dependencies :
          \A d \in awaited(order[m], k)' : d \in Built' \/ \E l \in 1..(m - 1) : order'[l] = d
    <3> SUFFICES ASSUME NEW m \in DOMAIN order', NEW k \in DOMAIN classes'[order'[m]].dependencies,
                        NEW d \in awaited(order[m], k)'
                 PROVE  \E l \in 1..(m - 1) : order'[l] = d
      OBVIOUS
    <3>1. awaited(order[m], k)' = awaited(order'[m], k)
      BY <1>1 DEF awaited, implementing
    <3>2. k \in DOMAIN classes[order'[m]].dependencies
      BY <1>1
    <3>3. d \in awaited(order'[m], k)
      BY <3>1
    <3> QED
      BY <2>5, <3>2, <3>3
  <2> QED
    BY <2>1, <2>4, <2>6 DEF OrderIsSorted
<1> QED
  BY <1>1, <1>9, <1>14, <1>15, <1>17, SortGoesOn

LEMMA SortEndsKeeps ==
  ASSUME ContainerInv, SortEnds
  PROVE  ContainerInv'
<1>1. /\ UNCHANGED <<classes, given, instances, arguments>> /\ calls' = calls
      /\ roots' = roots /\ order' = order
      /\ startup = "sorting" /\ calls = <<>> /\ roots > Len(classes)
      /\ startup' \in {"built", "building"} /\ (startup' = "built" => order = <<>>)
  BY DEF SortEnds, sortVars
<1>2. DOMAIN classes \subseteq ToSet(order)
  <2>1. \A c \in DOMAIN classes : c \in 1..(roots - 1)
    BY <1>1, ClassFacts DEF ContainerInv, ContainerTypes
  <2> QED
    BY <1>1, <2>1 DEF ContainerInv, SortIsUnderWay, RootsAreSorted
<1>3. ContainerTypes'
  BY <1>1 DEF ContainerInv, ContainerTypes
<1>4. OrderIsSorted'
  BY <1>1, OrderStays
<1> QED
  BY <1>1, <1>2, <1>3, <1>4, NothingIsBuilt
     DEF ContainerInv, SortIsUnderWay, SortIsOver, SeveralIfAmbiguous, AllIsPresent

\* What is built of an interface is among its instances.
LEMMA BuiltIsInstance ==
  ASSUME NEW i, NEW d \in implementing(i), d \in Built
  PROVE  d \in ToSet(instances[i])
BY DEF Built, implementing, ToSet

\* All that the first class of the order depends on is built.
LEMMA FirstHasAll ==
  ASSUME ContainerInv, order # <<>>, NEW k \in DOMAIN classes[Head(order)].dependencies
  PROVE  /\ awaited(Head(order), k) \subseteq Built
         /\ awaited(Head(order), k) \subseteq ToSet(instances[classes[Head(order)].dependencies[k].of])
<1>1. 1 \in DOMAIN order /\ order[1] = Head(order)
  BY DEF ContainerInv, ContainerTypes
<1>2. awaited(Head(order), k) \subseteq Built
  <2>1. \A d \in awaited(order[1], k) : d \in Built \/ \E l \in 1..(1 - 1) : order[l] = d
    BY <1>1 DEF ContainerInv, OrderIsSorted
  <2> QED
    BY <1>1, <2>1
<1> QED
  BY <1>2, BuiltIsInstance DEF awaited

LEMMA BuildKeeps ==
  ASSUME ContainerInv, Build
  PROVE  ContainerInv'
<1> DEFINE c == Head(order)
           deps == classes[c].dependencies
           i == classes[c].id
<1>1. /\ startup = "building" /\ order # <<>> /\ order' = Tail(order)
      /\ arguments' = [arguments EXCEPT ![c] = [k \in DOMAIN deps |-> instances[deps[k].of]]]
      /\ instances' = [instances EXCEPT ![i] = Append(@, c)]
      /\ startup' \in {"built", "building"} /\ (startup' = "built" => order' = <<>>)
      /\ classes' = classes /\ given' = given /\ calls' = calls /\ roots' = roots
  BY DEF Build
<1>2. /\ order \in Seq(DOMAIN classes) /\ DOMAIN order = 1..Len(order) /\ Len(order) \in Nat \ {0}
      /\ c = order[1] /\ 1 \in DOMAIN order /\ c \in DOMAIN classes
      /\ Tail(order) \in Seq(DOMAIN classes) /\ DOMAIN Tail(order) = 1..(Len(order) - 1)
      /\ \A m \in 1..(Len(order) - 1) : Tail(order)[m] = order[m + 1]
  BY <1>1 DEF ContainerInv, ContainerTypes
<1>3. i \in Interfaces /\ c \in implementing(i) /\ c \in Nat
  BY <1>2, ClassFacts DEF ContainerInv, ContainerTypes, implementing
<1>4. c \notin Built
  BY <1>2 DEF ContainerInv, OrderIsSorted
<1>5. /\ instances \in [Interfaces -> Seq(Nat)] /\ instances[i] \in Seq(Nat)
  BY <1>3 DEF ContainerInv, ContainerTypes
<1>6. /\ instances' \in [Interfaces -> Seq(Nat)] /\ instances'[i] = Append(instances[i], c)
      /\ \A j \in Interfaces \ {i} : instances'[j] = instances[j]
  BY <1>1, <1>3, <1>5
<1> DEFINE n == Len(instances[i])
<1>7. /\ n \in Nat /\ DOMAIN instances[i] = 1..n /\ DOMAIN instances'[i] = 1..(n + 1)
      /\ instances'[i][n + 1] = c /\ \A k \in 1..n : instances'[i][k] = instances[i][k]
  BY <1>3, <1>5, <1>6
<1>8. \A j : implementing(j)' = implementing(j)
  BY <1>1 DEF implementing
<1>9. \A d, k : awaited(d, k)' = awaited(d, k)
  BY <1>1, <1>8 DEF awaited, implementing
<1> HIDE DEF c, i, n
<1>10. \A d \in DOMAIN classes : d \in Built' <=> d \in Built \/ d = c
  <2> SUFFICES ASSUME NEW d \in DOMAIN classes PROVE d \in Built' <=> d \in Built \/ d = c
    OBVIOUS
  <2>1. classes[d].id \in Interfaces
    BY ClassFacts DEF ContainerInv, ContainerTypes
  <2>2. CASE classes[d].id # i
    <3>1. d # c
      BY <2>2 DEF i
    <3>2. instances'[classes[d].id] = instances[classes[d].id]
      BY <1>6, <2>1, <2>2
    <3> QED
      BY <1>1, <3>1, <3>2 DEF Built
  <2>3. CASE classes[d].id = i
    <3>1. d \in Built' <=> \E k \in 1..(n + 1) : instances'[i][k] = d
      BY <1>1, <1>7, <2>3 DEF Built
    <3>2. d \in Built <=> \E k \in 1..n : instances[i][k] = d
      BY <1>7, <2>3 DEF Built
    <3>3. \A k \in 1..(n + 1) : k \in 1..n \/ k = n + 1
      BY <1>7
    <3>4. n + 1 \in 1..(n + 1) /\ 1..n \subseteq 1..(n + 1)
      BY <1>7
    <3> QED
      BY <1>7, <3>1, <3>2, <3>3, <3>4
  <2> QED
    BY <2>2, <2>3
<1>11. Built \subseteq DOMAIN classes /\ Built' \subseteq DOMAIN classes
  BY <1>1 DEF Built
<1>12. ContainerTypes'
  <2>1. DOMAIN arguments' = DOMAIN classes
    BY <1>1 DEF ContainerInv, ContainerTypes
  <2> QED
    BY <1>1, <1>2, <1>6, <2>1 DEF ContainerInv, ContainerTypes
<1>13. SortIsUnderWay'
  BY <1>1 DEF SortIsUnderWay
<1>14. SortIsOver'
  <2>1. \A d \in ToSet(order) : d = c \/ d \in ToSet(order')
    <3>1. ASSUME NEW m \in DOMAIN order, m # 1 PROVE order[m] \in ToSet(order')
      <4>1. m - 1 \in 1..(Len(order) - 1) /\ (m - 1) + 1 = m
        BY <1>2, <3>1
      <4> QED
        BY <1>1, <1>2, <4>1 DEF ToSet
    <3> QED
      BY <1>2, <3>1 DEF ToSet
  <2> QED
    BY <1>1, <1>2, <1>10, <2>1 DEF ContainerInv, SortIsOver
<1>15. OrderIsSorted'
  <2>1. \A m \in DOMAIN order' : m + 1 \in DOMAIN order /\ m + 1 # 1 /\ order'[m] = order[m + 1] /\ m \in Nat
    BY <1>1, <1>2
  <2>2. \A m, l \in DOMAIN order' : order'[m] = order'[l] => m = l
    <3> SUFFICES ASSUME NEW m \in DOMAIN order', NEW l \in DOMAIN order', order'[m] = order'[l]
                 PROVE  m = l
      OBVIOUS
    <3>1. m + 1 = l + 1
      BY <2>1 DEF ContainerInv, OrderIsSorted
    <3> QED
      BY <2>1, <3>1
  <2>3. \A m \in DOMAIN order' : order'[m] \notin Built'
    <3> SUFFICES ASSUME NEW m \in DOMAIN order' PROVE order'[m] \notin Built'
      OBVIOUS
    <3>1. order[m + 1] \notin Built /\ order[m + 1] # c
      BY <1>2, <2>1 DEF ContainerInv, OrderIsSorted
    <3> QED
      BY <1>10, <1>11, <2>1, <3>1
  <2>4. \A m \in DOMAIN order' : \A k \in DOMAIN classes'[order'[m]].dependencies :
          \A d \in awaited(order[m], k)' : d \in Built' \/ \E l \in 1..(m - 1) : order'[l] = d
    <3> SUFFICES ASSUME NEW m \in DOMAIN order', NEW k \in DOMAIN classes'[order'[m]].dependencies,
                        NEW d \in awaited(order[m], k)'
                 PROVE  d \in Built' \/ \E l \in 1..(m - 1) : order'[l] = d
      OBVIOUS
    <3>1. awaited(order[m], k)' = awaited(order'[m], k)
      BY <1>1 DEF awaited, implementing
    <3>2. k \in DOMAIN classes[order[m + 1]].dependencies /\ d \in awaited(order[m + 1], k)
      BY <1>1, <2>1, <3>1
    <3>3. d \in Built \/ \E l \in 1..((m + 1) - 1) : order[l] = d
      BY <2>1, <3>2 DEF ContainerInv, OrderIsSorted
    <3>4. d \in DOMAIN classes
      BY <3>2, ClassFacts DEF ContainerInv, ContainerTypes, awaited
    <3>5. CASE d \in Built
      BY <1>10, <3>4, <3>5
    <3>6. ASSUME NEW l \in 1..((m + 1) - 1), order[l] = d
          PROVE  d \in Built' \/ \E q \in 1..(m - 1) : order'[q] = d
      <4>1. CASE l = 1
        BY <1>2, <1>10, <3>4, <3>6, <4>1
      <4>2. CASE l # 1
        <5>1. l - 1 \in 1..(m - 1) /\ l - 1 \in 1..(Len(order) - 1) /\ (l - 1) + 1 = l
          BY <1>2, <2>1, <4>2
        <5> QED
          BY <1>1, <1>2, <3>6, <5>1
      <4> QED
        BY <4>1, <4>2
    <3> QED
      BY <3>3, <3>5, <3>6
  <2> QED
    BY <2>2, <2>3, <2>4 DEF OrderIsSorted
<1>16. InstancesAreBuilt'
  <2>1. \A j : sourcesOf(j)' = sourcesOf(j)
    BY <1>1, <1>8 DEF sourcesOf
  <2> SUFFICES ASSUME NEW j \in Interfaces
               PROVE  /\ j \in given => instances'[j] # <<>>
                      /\ \A k \in DOMAIN instances'[j] : instances'[j][k] \in sourcesOf(j)
                      /\ \A k, m \in DOMAIN instances'[j] : instances'[j][k] = instances'[j][m] => k = m
    BY <1>1, <2>1 DEF InstancesAreBuilt
  <2>2. CASE j # i
    BY <1>6, <2>2 DEF ContainerInv, InstancesAreBuilt
  <2>3. CASE j = i
    <3>1. \A k \in DOMAIN instances'[i] : k \in 1..n \/ k = n + 1
      BY <1>7
    <3>2. \A k \in 1..n : instances[i][k] # c
      BY <1>2, <1>4, <1>7 DEF Built, i
    <3>3. \A k \in 1..n : instances[i][k] \in sourcesOf(i)
      BY <1>3, <1>7 DEF ContainerInv, InstancesAreBuilt
    <3>4. c \in sourcesOf(i)
      BY <1>3 DEF sourcesOf
    <3>5. instances'[i] # <<>>
      BY <1>7
    <3>6. \A k, m \in 1..n : instances[i][k] = instances[i][m] => k = m
      BY <1>3, <1>7 DEF ContainerInv, InstancesAreBuilt
    <3> QED
      BY <1>7, <2>3, <3>1, <3>2, <3>3, <3>4, <3>5, <3>6
  <2> QED
    BY <2>2, <2>3
<1>17. ArgumentsHaveAll'
  <2> SUFFICES ASSUME NEW d \in Built', NEW k \in DOMAIN classes[d].dependencies
               PROVE  awaited(d, k) \subseteq ToSet(arguments'[d][k])
    BY <1>1, <1>9 DEF ArgumentsHaveAll
  <2>1. DOMAIN arguments = DOMAIN classes
    BY DEF ContainerInv, ContainerTypes
  <2>2. CASE d = c
    <3>1. arguments'[c] = [q \in DOMAIN deps |-> instances[deps[q].of]]
      BY <1>1, <1>2, <2>1
    <3>2. arguments'[c][k] = instances[classes[c].dependencies[k].of]
      BY <2>2, <3>1
    <3> QED
      BY <1>1, <2>2, <3>2, FirstHasAll DEF c
  <2>3. CASE d # c
    <3>1. d \in Built
      BY <1>10, <1>11, <2>3
    <3>2. arguments'[d] = arguments[d]
      BY <1>1, <1>11, <2>1, <2>3, <3>1
    <3> QED
      BY <3>1, <3>2 DEF ContainerInv, ArgumentsHaveAll
  <2> QED
    BY <2>2, <2>3
<1>18. AllIsPresent' /\ SeveralIfAmbiguous'
  <2>1. dependenciesArePresent' = dependenciesArePresent
    BY <1>1 DEF dependenciesArePresent, present, implementing
  <2> QED
    BY <1>1, <2>1 DEF ContainerInv, AllIsPresent, SeveralIfAmbiguous
<1> QED
  BY <1>1, <1>12, <1>13, <1>14, <1>15, <1>16, <1>17, <1>18 DEF ContainerInv

LEMMA AmbiguousKeeps ==
  ASSUME ContainerInv, Ambiguous
  PROVE  ContainerInv'
<1>1. /\ UNCHANGED <<classes, given, instances, arguments>> /\ calls' = calls
      /\ roots' = roots /\ order' = order
      /\ startup = "building" /\ order # <<>> /\ startup' = "ambiguous"
  BY DEF Ambiguous, sortVars
<1> DEFINE c == Head(order)
<1>2. PICK k \in DOMAIN classes[c].dependencies : ~resolvable(classes[c].dependencies[k])
  BY DEF Ambiguous
<1> DEFINE i == classes[c].dependencies[k].of
<1>3. /\ c \in DOMAIN classes /\ i \in Interfaces /\ DOMAIN classes \subseteq Nat
      /\ DOMAIN classes = 1..Len(classes) /\ Len(classes) \in Nat
      /\ implementing(i) \subseteq DOMAIN classes
  <2>1. c \in DOMAIN classes
    BY <1>1 DEF ContainerInv, ContainerTypes
  <2> QED
    BY <1>2, <2>1, ClassFacts DEF ContainerInv, ContainerTypes
<1>4. Len(instances[i]) # 1 /\ instances[i] \in Seq(Nat) /\ classes[c].dependencies[k].kind # "all"
  BY <1>2, <1>3 DEF ContainerInv, ContainerTypes, resolvable
<1>5. instances[i] # <<>>
  <2>1. i \in given \/ implementing(i) # {}
    BY <1>1, <1>2, <1>3, <1>4 DEF ContainerInv, AllIsPresent, dependenciesArePresent, present
  <2>2. implementing(i) \subseteq ToSet(instances[i])
    BY <1>1, <1>2, FirstHasAll DEF awaited
  <2>3. ToSet(<<>>) = {}
    BY DEF ToSet
  <2> HIDE DEF i
  <2> QED
    BY <1>3, <2>1, <2>2, <2>3 DEF ContainerInv, InstancesAreBuilt
<1>6. 1 \in DOMAIN instances[i] /\ 2 \in DOMAIN instances[i]
  <2>1. ASSUME NEW s \in Seq(Nat), s # <<>>, Len(s) # 1
        PROVE  1 \in DOMAIN s /\ 2 \in DOMAIN s
    <3>1. Len(s) \in Nat /\ DOMAIN s = 1..Len(s) /\ (Len(s) = 0 => s = <<>>)
      BY EmptySeq, LenProperties
    <3>2. Len(s) > 1
      BY <2>1, <3>1
    <3> QED
      BY <3>1, <3>2
  <2> HIDE DEF i
  <2> QED
    BY <1>4, <1>5, <2>1
<1>7. /\ instances[i][1] \in sourcesOf(i) /\ instances[i][2] \in sourcesOf(i)
      /\ instances[i][1] # instances[i][2]
  BY <1>3, <1>6 DEF ContainerInv, InstancesAreBuilt
<1> HIDE DEF i, c
<1>8. IsFiniteSet(implementing(i)) /\ 0 \notin implementing(i) /\ Cardinality(implementing(i)) \in Nat
  <2>1. IsFiniteSet(1..Len(classes))
    BY <1>3, FS_Interval
  <2>2. IsFiniteSet(implementing(i))
    BY <1>3, <2>1, FS_Subset
  <2> QED
    BY <1>3, <2>2, FS_CardinalityType
<1>9. Cardinality(implementing(i)) + (IF i \in given THEN 1 ELSE 0) > 1
  <2> DEFINE x == instances[i][1]
             y == instances[i][2]
  <2>1. IsFiniteSet(sourcesOf(i)) /\ Cardinality(sourcesOf(i))
          = Cardinality(implementing(i)) + (IF i \in given THEN 1 ELSE 0)
    <3>1. CASE i \in given
      <4>1. sourcesOf(i) = implementing(i) \cup {0}
        BY <3>1 DEF sourcesOf
      <4>2. IsFiniteSet(implementing(i) \cup {0})
              /\ Cardinality(implementing(i) \cup {0}) = Cardinality(implementing(i)) + 1
        BY <1>8, FS_AddElement
      <4> QED
        BY <3>1, <4>1, <4>2
    <3>2. CASE i \notin given
      <4>1. sourcesOf(i) = implementing(i)
        BY <3>2 DEF sourcesOf
      <4> QED
        BY <1>8, <3>2, <4>1
    <3> QED
      BY <3>1, <3>2
  <2>2. {x, y} \subseteq sourcesOf(i) /\ x # y
    BY <1>7
  <2> HIDE DEF x, y
  <2>3. IsFiniteSet({x}) /\ Cardinality({x}) = 1
    BY FS_Singleton
  <2>4. Cardinality({x} \cup {y}) = 2
    <3>1. y \notin {x}
      BY <2>2
    <3>2. Cardinality({x} \cup {y}) = Cardinality({x}) + 1
      BY <2>3, <3>1, FS_AddElement
    <3> QED
      BY <2>3, <3>2
  <2>5. Cardinality({x} \cup {y}) <= Cardinality(sourcesOf(i))
    BY <2>1, <2>2, FS_Subset
  <2>6. Cardinality(sourcesOf(i)) \in Nat
    BY <2>1, FS_CardinalityType
  <2> QED
    BY <2>1, <2>4, <2>5, <2>6
<1>10. SeveralIfAmbiguous'
  <2>1. \E j \in Interfaces : Cardinality(implementing(j)) + (IF j \in given THEN 1 ELSE 0) > 1
    BY <1>3, <1>9
  <2>2. \A j : implementing(j)' = implementing(j)
    BY <1>1, NothingIsBuilt
  <2> QED
    BY <1>1, <2>1, <2>2 DEF SeveralIfAmbiguous
<1>11. ContainerTypes'
  BY <1>1 DEF ContainerInv, ContainerTypes
<1>12. OrderIsSorted'
  BY <1>1, OrderStays
<1> QED
  BY <1>1, <1>10, <1>11, <1>12, NothingIsBuilt
     DEF ContainerInv, SortIsUnderWay, SortIsOver, AllIsPresent

LEMMA ContainerStep == ContainerInv /\ [ContainerNext]_containerVars => ContainerInv'
<1> SUFFICES ASSUME ContainerInv, [ContainerNext]_containerVars PROVE ContainerInv'
  OBVIOUS
<1>1. CASE Validate
  BY <1>1, ValidateKeeps
<1>2. CASE SortFrom
  BY <1>2, SortFromKeeps
<1>3. CASE SortDependency
  BY <1>3, SortDependencyKeeps
<1>4. CASE SortClass
  BY <1>4, SortClassKeeps
<1>5. CASE SortReturns
  BY <1>5, SortReturnsKeeps
<1>6. CASE SortEnds
  BY <1>6, SortEndsKeeps
<1>7. CASE Build
  BY <1>7, BuildKeeps
<1>8. CASE Ambiguous
  BY <1>8, AmbiguousKeeps
<1>9. CASE UNCHANGED containerVars
  <2>1. /\ UNCHANGED <<classes, given, instances, arguments>> /\ calls' = calls
        /\ roots' = roots /\ order' = order /\ startup' = startup
    BY <1>9 DEF containerVars, sortVars
  <2>2. ContainerTypes'
    BY <2>1 DEF ContainerInv, ContainerTypes
  <2>3. OrderIsSorted'
    BY <2>1, OrderStays
  <2>4. CallsFollow => CallsFollow'
    BY <2>1, CallsStay
  <2>5. RootsAreSorted => RootsAreSorted'
    BY <2>1 DEF RootsAreSorted
  <2>6. SeveralIfAmbiguous'
    BY <2>1, NothingIsBuilt DEF ContainerInv, SeveralIfAmbiguous
  <2> QED
    BY <2>1, <2>2, <2>3, <2>4, <2>5, <2>6, NothingIsBuilt
       DEF ContainerInv, SortIsUnderWay, SortIsOver, AllIsPresent
<1> QED
  BY <1>1, <1>2, <1>3, <1>4, <1>5, <1>6, <1>7, <1>8, <1>9 DEF ContainerNext

\* The recursion of topologicalSort leaves a class to the order only after all that it
\* depends on, and calls itself for an interface that is not being sorted yet.
THEOREM SortFollowsDependencies == ContainerSpec => []ContainerInv
<1> QED
  BY ContainerInitInv, ContainerStep, PTL DEF ContainerSpec

\* Every class is built with all that it depends on, collections included, whatever the
\* classes and the order in which instantiate() is given them; it fails for an
\* interface that should have one instance only if there are several.
THEOREM DependenciesComeFirstCorrect == ContainerSpec => []DependenciesComeFirst
<1>1. ContainerInv => DependenciesComeFirst
  <2> SUFFICES ASSUME ContainerInv PROVE DependenciesComeFirst
    OBVIOUS
  <2>1. \A c \in Built : \A k \in DOMAIN classes[c].dependencies :
          implementing(classes[c].dependencies[k].of) \subseteq ToSet(arguments[c][k])
    BY DEF ContainerInv, ArgumentsHaveAll, awaited
  <2>2. \A c \in DOMAIN classes : startup = "built" => c \in Built
    <3>1. ToSet(<<>>) = {}
      BY DEF ToSet
    <3> QED
      BY <3>1 DEF ContainerInv, SortIsOver
  <2> QED
    BY <2>1, <2>2 DEF ContainerInv, SeveralIfAmbiguous, DependenciesComeFirst
<1> QED
  BY <1>1, SortFollowsDependencies, PTL

=============================================================================
