-------------------------- MODULE StreamingHandler --------------------------
(***************************************************************************)
(* src/common/suggestion/streaming_handler.ts: code generation streamed    *)
(* to the client, with the telemetry tracker and the circuit breaker it    *)
(* shares with every other request.  A stream is also its tracking id.     *)
(*                                                                         *)
(* JavaScript runs to completion between two awaits, so an action is what  *)
(* one callback does.  The awaits are where others interleave: the next    *)
(* item of the response, the post-processors, the notification of the      *)
(* client, the queue becoming idle.  A buffer is the number of chunks with *)
(* visible content in it.                                                  *)
(***************************************************************************)
EXTENDS CodeSuggestionsTelemetry, RequestBreaker, Sequences, FiniteSets, SequencesExt

CONSTANTS
  Streams,     \* their tracking ids
  MaxItems     \* bound: items of one response

ASSUME StreamsAssumption == Streams \subseteq Suggestions

VARIABLES
  stream,      \* what startStream's frame and closures hold, by stream
  tracker,     \* the Snowplow tracker
  client       \* history: the notifications the client got, by stream; a
               \* completion is the buffer it was made from
\* The breaker of RequestBreaker is SuggestionApiErrorCheck.

vars == <<stream, tracker, breaker, client>>

NewStream ==
  [phase       |-> "none",
   sse         |-> FALSE,   \* item.serverSentEvents
   items       |-> 0,
   cancellable |-> FALSE,   \* has an entry in #streamCancellations
   cancelled   |-> FALSE,   \* cancellationToken.isCancellationRequested
   stopped     |-> FALSE,   \* streamCancelledOrErrored
   started     |-> FALSE,   \* trackStreamStarted has run
   shown       |-> FALSE,   \* streamShown
   provided    |-> FALSE,   \* suggestionProvided
   buffer      |-> 0,       \* sseBuffer or legacyStreamBuffer
   waiting     |-> 0,       \* tasks in the queue
   running     |-> <<>>]    \* notifications being handled, oldest first

Init == /\ stream = [s \in Streams |-> NewStream]
        /\ tracker = NewTracker("snowplow")
        /\ RequestBreakerInit
        /\ client = [s \in Streams |-> [completion |-> 0, done |-> FALSE, late |-> 0]]

-----------------------------------------------------------------------------
\* The closures of startStream.  w holds the stream and the tracker.
World(s) == [st |-> stream[s], tr |-> tracker]

becomes(s, w) == /\ stream' = [stream EXCEPT ![s] = w.st]
                 /\ tracker' = w.tr

track(w, s, event) == [w EXCEPT !.tr = trackEvent(@, s, event)]

trackStreamStarted(w, s) ==
  IF w.st.started THEN w
  ELSE [track(w, s, "STREAM_STARTED") EXCEPT !.st.started = TRUE]

trackStreamShown(w, s) ==
  IF w.st.shown THEN w ELSE [track(w, s, "SHOWN") EXCEPT !.st.shown = TRUE]

shownIfVisible(w, s) ==
  IF w.st.buffer = 0 THEN w
  ELSE [trackStreamShown(w, s) EXCEPT !.st.provided = TRUE]

running(w, step) ==
  [w EXCEPT !.st.running = Append(@, [step |-> step, buffer |-> w.st.buffer])]

\* Mutant: a cancelled stream's notifications are still handled.
handleThoughCancelled(w, s) ==
  IF breaker.open THEN running(w, "finishing")
  ELSE running(trackStreamStarted(w, s), "processing")

\* #handleStreamNotification up to its first await.
handleStreamNotification(w, s) ==
  IF w.st.cancelled \/ breaker.open THEN running(w, "finishing")
  ELSE running(trackStreamStarted(w, s), "processing")

\* Mutant: the queue runs two tasks at a time.
ConcurrencyOfTwo == 2

Concurrency == 1

\* Mutant: a task only starts when another one ends.
enqueueWithoutStarting(w, s) == [w EXCEPT !.st.waiting = @ + 1]

\* queue.add: the task runs at once, up to its first await, if it may.
enqueue(w, s) == IF Len(w.st.running) < Concurrency
                 THEN handleStreamNotification(w, s)
                 ELSE [w EXCEPT !.st.waiting = @ + 1]

\* handleError; that the context gets the error's status is left out.
handleError(w, s) == [track(w, s, "ERRORED") EXCEPT !.st.stopped = TRUE]

tellDone(s) == client' = [client EXCEPT ![s].done = TRUE]

-----------------------------------------------------------------------------
\* #handleStreamingInlineCompletion of the suggestion service, which answers
\* the client at once and starts the stream in a timeout of its own.
Request(s) ==
  /\ stream[s].phase = "none" /\ ~breaker.open
  /\ stream' = [stream EXCEPT ![s].phase = "scheduled"]
  /\ UNCHANGED <<tracker, breaker, client>>

StartStream(s) ==
  /\ stream[s].phase = "scheduled"
  /\ \E sse \in BOOLEAN :
       stream' = [stream EXCEPT ![s].phase = "streaming", ![s].sse = sse,
                                ![s].cancellable = TRUE]
  /\ tracker' = setTrackingContext(tracker, s, TRUE, FALSE)
  /\ breaker' = breakerSuccess(breaker)
  /\ UNCHANGED client

\* An item of the response: readStream yields none once cancelled.
nextItem(s, sse) ==
  /\ stream[s].phase = "streaming" /\ ~stream[s].cancelled
  /\ stream[s].sse = sse /\ stream[s].items < MaxItems

counted(s) == [World(s) EXCEPT !.st.items = @ + 1]

\* onEvent: the model's metadata, in an update of the context.
StreamStartEvent(s) ==
  /\ nextItem(s, TRUE)
  /\ becomes(s, enqueue([counted(s) EXCEPT
                           !.tr = setTrackingContext(@, s, FALSE, FALSE)], s))
  /\ UNCHANGED <<breaker, client>>

\* streamCancelledOrErrored was passed to the parser as the value it had
\* before the first item, so it is not looked at here.
ContentChunkEvent(s) ==
  /\ nextItem(s, TRUE)
  /\ \E visible \in {0, 1} :
       becomes(s, enqueue(shownIfVisible([counted(s) EXCEPT !.st.buffer = @ + visible], s), s))
  /\ UNCHANGED <<breaker, client>>

StreamEndEvent(s) ==
  /\ nextItem(s, TRUE)
  /\ becomes(s, enqueue([counted(s) EXCEPT !.st.provided = TRUE], s))
  /\ UNCHANGED <<breaker, client>>

\* Data that is no JSON: handleError and endStream, and the loop goes on.
MalformedEvent(s) ==
  /\ nextItem(s, TRUE)
  /\ becomes(s, handleError(counted(s), s))
  /\ breaker' = breakerError(breaker)
  /\ tellDone(s)

\* The loop awaits each notification of a legacy stream itself.
LegacyItem(s) ==
  /\ nextItem(s, FALSE) /\ stream[s].running = <<>>
  /\ \E visible \in {0, 1} :
       becomes(s, handleStreamNotification([counted(s) EXCEPT !.st.buffer = @ + visible], s))
  /\ UNCHANGED <<breaker, client>>

-----------------------------------------------------------------------------
sendStreamingResponse(s, buffer) ==
  client' = [client EXCEPT ![s].completion = buffer,
                           ![s].late = IF stream[s].cancelled THEN @ + 1 ELSE @]

\* The post-processors are through, and what they made of the buffer is sent.
PostProcessed(s) ==
  \E i \in DOMAIN stream[s].running :
    LET task == stream[s].running[i]
    IN  /\ task.step = "processing"
        /\ stream' = [stream EXCEPT ![s].running[i].step = "finishing"]
        /\ sendStreamingResponse(s, task.buffer)
        /\ UNCHANGED <<tracker, breaker>>

\* A notification's task is over: the queue starts the next one, the loop over
\* a legacy stream goes on.
NotificationHandled(s) ==
  \E i \in DOMAIN stream[s].running :
    LET w == [World(s) EXCEPT !.st.running = RemoveAt(@, i)]
        next == IF w.st.waiting = 0 THEN w
                ELSE handleStreamNotification([w EXCEPT !.st.waiting = @ - 1], s)
    IN  /\ stream[s].running[i].step = "finishing"
        /\ becomes(s, IF stream[s].sse THEN next
                      ELSE IF stream[s].stopped THEN w ELSE shownIfVisible(w, s))
        /\ UNCHANGED <<breaker, client>>

\* Whether the loop is waiting for an item rather than for a notification.
awaitsItem(s) == /\ stream[s].phase = "streaming"
                 /\ stream[s].sse \/ stream[s].running = <<>>

\* The request fails, or the response breaks off.
StreamFails(s) ==
  /\ awaitsItem(s)
  /\ becomes(s, [handleError(World(s), s) EXCEPT !.st.phase = "draining"])
  /\ breaker' = breakerError(breaker)
  /\ UNCHANGED client

\* The response ends, or its next chunk arrives after a cancellation.
StreamOver(s) ==
  /\ awaitsItem(s)
  /\ stream' = [stream EXCEPT ![s].phase = "draining"]
  /\ UNCHANGED <<tracker, breaker, client>>

\* queue.onIdle(), then endStream up to its await.
QueueIdle(s) ==
  /\ stream[s].phase = "draining"
  /\ stream[s].running = <<>> /\ stream[s].waiting = 0
  /\ stream' = [stream EXCEPT ![s].phase = "ending"]
  /\ tellDone(s)
  /\ UNCHANGED <<tracker, breaker>>

\* Mutant: the completion is tracked only if nothing was provided.
completeIfNothingProvided(w, s) ==
  IF w.st.stopped \/ w.st.provided THEN w
  ELSE track(track(w, s, "STREAM_COMPLETED"), s, "NOT_PROVIDED")

\* endStream after its await.
complete(w, s) ==
  IF w.st.stopped THEN w
  ELSE LET completed == track(w, s, "STREAM_COMPLETED")
       IN  IF w.st.provided THEN completed ELSE track(completed, s, "NOT_PROVIDED")

StreamEnded(s) ==
  /\ stream[s].phase = "ending"
  /\ becomes(s, [complete(World(s), s) EXCEPT !.st.phase = "done", !.st.cancellable = FALSE])
  /\ UNCHANGED <<breaker, client>>

-----------------------------------------------------------------------------
\* cancelStreaming: dropped unless the stream has its handler registered.
Cancel(s) ==
  /\ stream[s].cancellable /\ ~stream[s].cancelled
  /\ becomes(s, [track(World(s), s, IF stream[s].shown THEN "REJECTED" ELSE "CANCELLED")
                   EXCEPT !.st.cancelled = TRUE, !.st.stopped = TRUE])
  /\ UNCHANGED <<breaker, client>>

\* $/gitlab/telemetry from the client, which knows the stream's tracking id.
ClientTracks(s) ==
  /\ stream[s].phase # "none"
  /\ \E event \in ClientActions, namesOption \in BOOLEAN :
       tracker' = clientTracks(tracker, s, event, namesOption)
  /\ UNCHANGED <<stream, breaker, client>>

\* The suggestions that are not streamed share the breaker.
OtherRequestFails ==
  /\ breaker' = breakerError(breaker)
  /\ UNCHANGED <<stream, tracker, client>>

OtherRequestSucceeds ==
  /\ breaker' = breakerSuccess(breaker)
  /\ UNCHANGED <<stream, tracker, client>>

BreakTimeOver ==
  /\ breaker.open /\ breaker' = breakTimeOver(breaker)
  /\ UNCHANGED <<stream, tracker, client>>

ServerItem(s) == \/ StreamStartEvent(s) \/ ContentChunkEvent(s) \/ StreamEndEvent(s)
                 \/ MalformedEvent(s) \/ LegacyItem(s)

Next ==
  \/ \E s \in Streams :
       \/ Request(s) \/ StartStream(s) \/ ServerItem(s)
       \/ PostProcessed(s) \/ NotificationHandled(s)
       \/ StreamFails(s) \/ StreamOver(s) \/ QueueIdle(s) \/ StreamEnded(s)
       \/ Cancel(s) \/ ClientTracks(s)
  \/ OtherRequestFails \/ OtherRequestSucceeds \/ BreakTimeOver

\* The event loop runs what is due, the post-processors and the connection to
\* the client answer, and every response ends or fails some time.
Fairness(s) ==
  /\ WF_vars(StartStream(s)) /\ WF_vars(PostProcessed(s))
  /\ WF_vars(NotificationHandled(s)) /\ WF_vars(StreamFails(s) \/ StreamOver(s))
  /\ WF_vars(QueueIdle(s)) /\ WF_vars(StreamEnded(s))

Spec == Init /\ [][Next]_vars /\ \A s \in Streams : Fairness(s)

-----------------------------------------------------------------------------
(* What the streaming handler promises its client and telemetry.           *)

\* "we've added a queue to ensure that the stream notifications are processed
\* in order": the completion a client shows never gets shorter, however long
\* the post-processors take.
NotificationsInOrder ==
  [][\A s \in Streams : client'[s].completion >= client[s].completion]_vars

\* After the client cancelled, it gets at most the one completion that was in
\* its post-processors.
AtMostOneLateCompletion == \A s \in Streams : client[s].late <= 1

\* A stream that ran to its end and had notifications to send is tracked as
\* completed, unless a later request or the client ended its suggestion.
CompletionIsTracked ==
  \A s \in Streams :
    stream[s].phase = "done" /\ stream[s].started /\ ~stream[s].stopped
      => tracker.state[s] \in {"STREAM_COMPLETED", "NOT_PROVIDED", "ACCEPTED", "REJECTED"}

\* The client waits for done: true.  It gets it whatever fails or is cancelled,
\* and the stream's cancellation handler is released.
EveryStreamEnds ==
  \A s \in Streams :
    stream[s].phase = "scheduled"
      ~> client[s].done /\ stream[s].phase = "done" /\ ~stream[s].cancellable

\* In order also means that done: true comes last.
DoneIsLast ==
  [][\A s \in Streams : client[s].done => client'[s] = client[s]]_vars

=============================================================================
