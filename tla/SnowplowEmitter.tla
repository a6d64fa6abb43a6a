--------------------------- MODULE SnowplowEmitter ---------------------------
(***************************************************************************)
(* The Snowplow service and its emitter (src/common/tracking/snowplow),    *)
(* with the trackers of quick chat and of security scans, which the client *)
(* notifies.  Events wait in the queue of an emitter until its timer       *)
(* fires, the queue is full or the emitter is stopped, and are posted as   *)
(* one batch.                                                              *)
(*                                                                         *)
(* A new tracking URL stops the emitter, waits for its last batch and      *)
(* starts another one.  Until then events still go to the stopped emitter, *)
(* which sends them only if they fill its queue; and a second URL in the   *)
(* meantime starts a second emitter: one of the two is not tracked with    *)
(* any more, and its timer runs on.                                        *)
(***************************************************************************)
EXTENDS Naturals, Sequences, FiniteSets

CONSTANTS
  TrackedEvents,    \* notifications of the client
  NoticeOf,         \* [TrackedEvents -> [category, action, given]]; given is
                    \* the trigger, or the first word of the message
  Urls, FirstUrl,   \* client.telemetry.trackingUrl
  MaxItems,         \* of a batch
  MaxEmitters       \* bound

VARIABLES
  emitters,     \* oldest first: [state, timer, queue]
  emitter,      \* #emitter, an index of emitters
  url,          \* #options.endpoint
  batches,      \* being posted: [events, from, by]; by is what waits for it
  telemetry,    \* #options.enabled()
  unresolved,   \* #disabled
  posted,       \* history: [event -> how many batches held it]
  tracked,      \* events added
  missed        \* history: those added to an emitter that was stopped

emitterVars == <<emitters, emitter, url, batches, telemetry, unresolved, posted, tracked, missed>>

-----------------------------------------------------------------------------
(* The trackers.  None asks whether telemetry is enabled: the service does *)
(* when it posts.  The contexts they add are taken to be valid.            *)

NoLabel == "none"

getMessageSentEventLabel(prefix) ==
  IF prefix \in {"/explain", "/refactor", "/fix", "/tests"} THEN prefix
  ELSE IF prefix \in {"/reset", "/clear", "/clean"} THEN NoLabel
  ELSE "general_message"

getEventContext(notice) ==
  IF notice.action = "message_sent" THEN getMessageSentEventLabel(notice.given)
  ELSE IF notice.action = "open_quick_chat" THEN notice.given
  ELSE NoLabel

\* DefaulQuickChatSnowplowTracker.trackEvent drops what has no label,
\* DefaultSecurityDiagnosticsTracker.trackEvent nothing.
quickChatTracks(notice) ==
  notice.category = "gitlab_quick_chat" /\ getEventContext(notice) # NoLabel
securityTracks(notice) == notice.category = "sast_security_diagnostics"

\* Their part of the notification handler: what gets to the service.
notificationHandler ==
  {x \in TrackedEvents : quickChatTracks(NoticeOf[x]) \/ securityTracks(NoticeOf[x])}

-----------------------------------------------------------------------------
(* The service and the emitter.                                            *)

Started == [state |-> "STARTED", timer |-> "armed", queue |-> {}]

EmitterInit ==
  /\ emitters = <<Started>> /\ emitter = 1 /\ url = FirstUrl
  /\ batches = {} /\ telemetry = TRUE /\ unresolved = FALSE
  /\ posted = [e \in notificationHandler |-> 0] /\ tracked = {} /\ missed = {}

\* #drainQueue up to the callback's await, of emitter e, which is the i-th.
drain(i, e, by) ==
  LET batch == [events |-> e.queue, from |-> i, by |-> by]
  IN  /\ emitters' = [emitters EXCEPT ![i] = [e EXCEPT !.queue = {}]]
      /\ batches' = batches \cup {batch}
      /\ posted' = [x \in DOMAIN posted |-> IF x \in e.queue THEN posted[x] + 1 ELSE posted[x]]

\* trackStructuredEvent: tracker and #emitter.add of an event.
Add(x) ==
  LET e == [emitters[emitter] EXCEPT !.queue = @ \cup {x}]
  IN  /\ x \notin tracked /\ tracked' = tracked \cup {x}
      /\ missed' = IF e.state = "STARTED" THEN missed ELSE missed \cup {x}
      /\ IF Cardinality(e.queue) >= MaxItems
         THEN drain(emitter, e, "add")
         ELSE /\ emitters' = [emitters EXCEPT ![emitter] = e]
              /\ UNCHANGED <<batches, posted>>
      /\ UNCHANGED <<emitter, url, telemetry, unresolved>>

\* Mutant: the timer is not set again.
startOnce(e) == [e EXCEPT !.timer = "none"]
startAgain(e) ==
  IF e.state = "STOPPING" THEN [e EXCEPT !.timer = "none"]
  ELSE [e EXCEPT !.state = "STARTED", !.timer = "armed"]

\* The callback of setTimeout in start().
TimerFires(i) ==
  /\ emitters[i].timer = "armed"
  /\ emitters[i].queue # {}
  /\ drain(i, [emitters[i] EXCEPT !.timer = "draining"], "timer")
  /\ UNCHANGED <<emitter, url, telemetry, unresolved, tracked, missed>>

\* #configure: a new emitter, which is the one that is tracked with.
configure(to) ==
  /\ emitters' = Append(emitters, Started)
  /\ emitter' = Len(emitters) + 1 /\ url' = to

stopped(e) == [e EXCEPT !.state = "STOPPING", !.timer = IF @ = "armed" THEN "none" ELSE @]

\* onConfigChange and #reconfigure: nothing, when the URL is the same.
TrackingUrlChanges(to) ==
  /\ to # url
  /\ Len(emitters) + Cardinality({b \in batches : b.by \in Urls}) < MaxEmitters
  /\ IF emitters[emitter].queue = {}
     THEN /\ emitters' = Append([emitters EXCEPT ![emitter] = stopped(@)], Started)
          /\ emitter' = Len(emitters) + 1 /\ url' = to
          /\ UNCHANGED <<batches, posted>>
     ELSE /\ drain(emitter, stopped(emitters[emitter]), to)
          /\ UNCHANGED <<emitter, url>>
  /\ UNCHANGED <<telemetry, unresolved, tracked, missed>>

\* DefaultSnowplowService.stop, when the server shuts down.
StopService ==
  /\ emitters[emitter].state = "STARTED"
  /\ IF emitters[emitter].queue = {}
     THEN /\ emitters' = [emitters EXCEPT ![emitter] = stopped(@)]
          /\ UNCHANGED <<batches, posted>>
     ELSE drain(emitter, stopped(emitters[emitter]), "stop")
  /\ UNCHANGED <<emitter, url, telemetry, unresolved, tracked, missed>>

\* #sendEvent ends: posted, failed, or not sent at all when telemetry is off or
\* the host was not found before.  No failure is thrown.
BatchEnds(b) ==
  /\ batches' = batches \ {b}
  /\ unresolved' \in {unresolved, unresolved \/ telemetry}
  /\ \/ /\ b.by \in Urls /\ configure(b.by)
     \/ /\ b.by = "timer"
        /\ emitters' = [emitters EXCEPT ![b.from] = startAgain(@)]
        /\ UNCHANGED <<emitter, url>>
     \/ /\ b.by \in {"add", "stop"}
        /\ UNCHANGED <<emitters, emitter, url>>
  /\ UNCHANGED <<telemetry, posted, tracked, missed>>

TelemetrySwitched ==
  /\ telemetry' = ~telemetry
  /\ UNCHANGED <<emitters, emitter, url, batches, unresolved, posted, tracked, missed>>

EmitterNext ==
  \/ \E x \in notificationHandler : Add(x)
  \/ \E i \in DOMAIN emitters : TimerFires(i)
  \/ \E to \in Urls : TrackingUrlChanges(to)
  \/ \E b \in batches : BatchEnds(b)
  \/ StopService \/ TelemetrySwitched

\* Timers fire and requests end.
EmitterProceeds ==
  \/ \E i \in DOMAIN emitters : TimerFires(i)
  \/ \E b \in batches : BatchEnds(b)

-----------------------------------------------------------------------------
\* Every event goes into one batch sooner or later, across full queues, new
\* URLs and the stop of the service, unless it came when its emitter had
\* already been stopped.
TrackedEventsAreSent ==
  \A x \in notificationHandler : x \in tracked ~> posted[x] > 0 \/ x \in missed

=============================================================================
