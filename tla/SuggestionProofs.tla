-------------------------- MODULE SuggestionProofs --------------------------
(***************************************************************************)
(* Proofs about suggestions: streamed ones, for any number of streams and  *)
(* items of a response, those that the cache offers again, for any lines   *)
(* and texts, and those that the service returns, for any requests.        *)
(*                                                                         *)
(* Of a stream the client gets one completion at most after it cancelled,  *)
(* completions never get shorter, and a stream that ran to its end is      *)
(* tracked as completed.  The first two rest on the queue, which handles   *)
(* one notification at a time: the buffer that a notification was made     *)
(* from is at least as long as what the client has, and a notification     *)
(* whose handling begins after the cancellation goes straight to its end.  *)
(* The third follows the state graph: what the tracker holds of a stream   *)
(* is bound to its phase.                                                  *)
(***************************************************************************)
EXTENDS StreamingHandler, SuggestionService, SuggestionsCacheUse, FiniteSetTheorems,
        SequenceTheorems, WellFoundedInduction, TLAPS

Task == [step : {"processing", "finishing"}, buffer : Nat]

Phases == {"none", "scheduled", "streaming", "draining", "ending", "done"}

StreamRecord ==
  [phase : Phases, sse : BOOLEAN, items : Nat, cancellable : BOOLEAN, cancelled : BOOLEAN,
   stopped : BOOLEAN, started : BOOLEAN, shown : BOOLEAN, provided : BOOLEAN, buffer : Nat,
   waiting : Int, running : Seq(Task)]

ClientRecord == [completion : Nat, done : BOOLEAN, late : Nat]

StreamTypes ==
  /\ stream \in [Streams -> StreamRecord]
  /\ client \in [Streams -> ClientRecord]

\* What a stream's frame st and the notifications c that its client got have
\* in common.
OneAtATime(st) == Len(st.running) <= 1
BuffersGrow(st, c) ==
  /\ c.completion <= st.buffer
  /\ \A i \in DOMAIN st.running :
       /\ st.running[i].buffer <= st.buffer
       /\ st.running[i].step = "processing" => c.completion <= st.running[i].buffer
LateIsLast(st, c) ==
  /\ c.late <= 1
  /\ ~st.cancelled => c.late = 0
  /\ c.late = 1 => \A i \in DOMAIN st.running : st.running[i].step = "finishing"

InStep(st, c) == OneAtATime(st) /\ BuffersGrow(st, c) /\ LateIsLast(st, c)

StreamInv == StreamTypes /\ \A s \in Streams : InStep(stream[s], client[s])

LEMMA TasksOfQueue ==
  ASSUME NEW q \in Seq(Task), NEW i \in DOMAIN q
  PROVE  q[i] \in Task
  OBVIOUS

\* The queue has one task at most.
LEMMA OneTask ==
  ASSUME NEW q \in Seq(Task), Len(q) <= 1, NEW i \in DOMAIN q
  PROVE  Len(q) = 1 /\ i = 1 /\ DOMAIN q = {1} /\ RemoveAt(q, i) = <<>>
<1>1. Len(q) = 1 /\ i = 1 /\ DOMAIN q = {1}
  <2>1. DOMAIN q = 1..Len(q) /\ Len(q) \in Nat
    BY LenProperties
  <2> QED BY <2>1
<1>2. SubSeq(q, 1, 0) = <<>> /\ SubSeq(q, 2, 1) = <<>>
  BY <1>1
<1> QED BY <1>1, <1>2 DEF RemoveAt

LEMMA OneTaskFinishes ==
  ASSUME NEW q \in Seq(Task), Len(q) = 1
  PROVE  /\ [q EXCEPT ![1].step = "finishing"] \in Seq(Task)
         /\ Len([q EXCEPT ![1].step = "finishing"]) = 1
         /\ [q EXCEPT ![1].step = "finishing"][1].step = "finishing"
         /\ [q EXCEPT ![1].step = "finishing"][1].buffer = q[1].buffer
<1> DEFINE r == [q EXCEPT ![1].step = "finishing"]
           task == [q[1] EXCEPT !.step = "finishing"]
<1>1. task \in Task /\ task.step = "finishing" /\ task.buffer = q[1].buffer
  BY TasksOfQueue DEF Task
<1>2. r = [q EXCEPT ![1] = task]
  OBVIOUS
<1> HIDE DEF r, task
<1>3. [q EXCEPT ![1] = task] \in Seq(Task)
  <2>1. q \in [1..1 -> Task]
    BY LenProperties
  <2>2. [q EXCEPT ![1] = task] \in [1..1 -> Task]
    BY <1>1, <2>1
  <2> QED BY <2>2
<1>4. Len([q EXCEPT ![1] = task]) = 1
  BY <1>1, ExceptSeq
<1>5. r \in Seq(Task) /\ Len(r) = 1 /\ r[1] = task
  BY <1>2, <1>3, <1>4
<1> QED BY <1>1, <1>5 DEF r

LEMMA StreamInitInv == Init => StreamInv
<1> SUFFICES ASSUME Init PROVE StreamInv
  OBVIOUS
<1>1. NewStream \in StreamRecord
  BY DEF NewStream, StreamRecord, Phases
<1>2. [completion |-> 0, done |-> FALSE, late |-> 0] \in ClientRecord
  BY DEF ClientRecord
<1>3. InStep(NewStream, [completion |-> 0, done |-> FALSE, late |-> 0])
  BY DEF NewStream, InStep, OneAtATime, BuffersGrow, LateIsLast
<1> QED BY <1>1, <1>2, <1>3 DEF Init, StreamInv, StreamTypes

-----------------------------------------------------------------------------
(* The closures.  A world holds a stream's frame and the tracker.          *)

IsWorld(w) == w \in [st : StreamRecord, tr : {w.tr}]

\* Two frames that agree on what InStep is about.
Alike(x, y) == x.running = y.running /\ x.buffer = y.buffer /\ x.cancelled = y.cancelled

LEMMA WorldOfStream ==
  ASSUME StreamTypes, NEW s \in Streams
  PROVE  IsWorld(World(s)) /\ World(s).st = stream[s]
  BY DEF StreamTypes, World, IsWorld

LEMMA TrackKeeps ==
  ASSUME NEW w, IsWorld(w), NEW s, NEW event
  PROVE  IsWorld(track(w, s, event)) /\ track(w, s, event).st = w.st
<1> DEFINE t == trackEvent(w.tr, s, event)
<1>1. track(w, s, event) = [w EXCEPT !.tr = t]
  BY DEF track, IsWorld
<1> HIDE DEF t
<1> QED BY <1>1 DEF IsWorld

LEMMA StartedKeeps ==
  ASSUME NEW w, IsWorld(w), NEW s
  PROVE  IsWorld(trackStreamStarted(w, s)) /\ Alike(trackStreamStarted(w, s).st, w.st)
<1> DEFINE v == track(w, s, "STREAM_STARTED")
           u == trackStreamStarted(w, s)
<1>1. IsWorld(v) /\ v.st = w.st
  BY TrackKeeps
<1>2. u = IF w.st.started THEN w ELSE [v EXCEPT !.st.started = TRUE]
  BY DEF trackStreamStarted
<1> HIDE DEF v, u
<1>3. IsWorld(u) /\ Alike(u.st, w.st)
  BY <1>1, <1>2 DEF IsWorld, StreamRecord, Alike
<1> QED BY <1>3 DEF u

LEMMA ShownKeeps ==
  ASSUME NEW w, IsWorld(w), NEW s
  PROVE  IsWorld(shownIfVisible(w, s)) /\ Alike(shownIfVisible(w, s).st, w.st)
<1> DEFINE v == track(w, s, "SHOWN")
           u == trackStreamShown(w, s)
           x == shownIfVisible(w, s)
<1>1. IsWorld(v) /\ v.st = w.st
  BY TrackKeeps
<1>2. u = IF w.st.shown THEN w ELSE [v EXCEPT !.st.shown = TRUE]
  BY DEF trackStreamShown
<1>3. x = IF w.st.buffer = 0 THEN w ELSE [u EXCEPT !.st.provided = TRUE]
  BY DEF shownIfVisible
<1> HIDE DEF v, u, x
<1>4. IsWorld(u) /\ Alike(u.st, w.st)
  BY <1>1, <1>2 DEF IsWorld, StreamRecord, Alike
<1>5. CASE w.st.buffer = 0
  <2>1. x = w
    BY <1>3, <1>5
  <2> QED BY <2>1 DEF Alike, x
<1>6. CASE w.st.buffer # 0
  <2>1. x = [u EXCEPT !.st.provided = TRUE]
    BY <1>3, <1>6
  <2>2. IsWorld(x) /\ Alike(x.st, w.st)
    BY <1>4, <2>1 DEF IsWorld, StreamRecord, Alike
  <2> QED BY <2>2 DEF x
<1> QED BY <1>5, <1>6

LEMMA AlikeInStep ==
  ASSUME NEW x, NEW y, NEW c, Alike(x, y), InStep(y, c)
  PROVE  InStep(x, c)
  BY DEF Alike, InStep, OneAtATime, BuffersGrow, LateIsLast

LEMMA ErrorKeeps ==
  ASSUME NEW w, IsWorld(w), NEW s
  PROVE  IsWorld(handleError(w, s)) /\ Alike(handleError(w, s).st, w.st)
<1> DEFINE v == track(w, s, "ERRORED")
           u == handleError(w, s)
<1>1. IsWorld(v) /\ v.st = w.st
  BY TrackKeeps
<1>2. u = [v EXCEPT !.st.stopped = TRUE]
  BY DEF handleError
<1> HIDE DEF v, u
<1>3. IsWorld(u) /\ Alike(u.st, w.st)
  BY <1>1, <1>2 DEF IsWorld, StreamRecord, Alike
<1> QED BY <1>3 DEF u

LEMMA CompleteKeeps ==
  ASSUME NEW w, IsWorld(w), NEW s
  PROVE  IsWorld(complete(w, s)) /\ complete(w, s).st = w.st
<1> DEFINE completed == track(w, s, "STREAM_COMPLETED")
<1>1. IsWorld(completed) /\ completed.st = w.st
  BY TrackKeeps
<1>2. /\ IsWorld(track(completed, s, "NOT_PROVIDED"))
      /\ track(completed, s, "NOT_PROVIDED").st = w.st
  BY <1>1, TrackKeeps
<1> QED BY <1>1, <1>2 DEF complete

LEMMA RunningKeeps ==
  ASSUME NEW w, IsWorld(w), NEW step \in {"processing", "finishing"}
  PROVE  /\ IsWorld(running(w, step))
         /\ running(w, step).st.running
              = Append(w.st.running, [step |-> step, buffer |-> w.st.buffer])
         /\ running(w, step).st.buffer = w.st.buffer
         /\ running(w, step).st.cancelled = w.st.cancelled
<1> DEFINE task == [step |-> step, buffer |-> w.st.buffer]
           u == running(w, step)
<1>1. w.st \in StreamRecord
  BY DEF IsWorld
<1>2. Append(w.st.running, task) \in Seq(Task)
  BY <1>1 DEF StreamRecord, Task
<1>3. u = [w EXCEPT !.st.running = Append(@, task)]
  BY DEF running
<1> HIDE DEF u, task
<1>4. /\ IsWorld(u) /\ u.st.running = Append(w.st.running, task)
      /\ u.st.buffer = w.st.buffer /\ u.st.cancelled = w.st.cancelled
  BY <1>2, <1>3 DEF IsWorld, StreamRecord
<1> QED BY <1>4 DEF u, task

\* A notification that starts being handled is made from the buffer as it is,
\* and goes straight to its end if the stream was cancelled.
LEMMA HandlingKeepsStep ==
  ASSUME NEW w, IsWorld(w), NEW s, NEW c \in ClientRecord,
         w.st.running = <<>>, InStep(w.st, c)
  PROVE  /\ IsWorld(handleStreamNotification(w, s))
         /\ InStep(handleStreamNotification(w, s).st, c)
<1> DEFINE v == trackStreamStarted(w, s)
           u == handleStreamNotification(w, s)
<1>1. IsWorld(v) /\ Alike(v.st, w.st)
  BY StartedKeeps
<1>2. PICK step \in {"processing", "finishing"} :
        /\ IsWorld(u)
        /\ u.st.running = Append(<<>>, [step |-> step, buffer |-> w.st.buffer])
        /\ u.st.buffer = w.st.buffer /\ u.st.cancelled = w.st.cancelled
        /\ step = "processing" => ~w.st.cancelled
  <2>1. CASE w.st.cancelled \/ breaker.open
    <3>1. u = running(w, "finishing")
      BY <2>1 DEF handleStreamNotification
    <3> QED BY <3>1, RunningKeeps
  <2>2. CASE ~(w.st.cancelled \/ breaker.open)
    <3>1. u = running(v, "processing")
      BY <2>2 DEF handleStreamNotification
    <3> HIDE DEF v, u
    <3>2. /\ IsWorld(running(v, "processing"))
          /\ running(v, "processing").st.running
               = Append(v.st.running, [step |-> "processing", buffer |-> v.st.buffer])
          /\ running(v, "processing").st.buffer = v.st.buffer
          /\ running(v, "processing").st.cancelled = v.st.cancelled
      BY <1>1, RunningKeeps
    <3> QED BY <1>1, <2>2, <3>1, <3>2 DEF Alike
  <2> QED BY <2>1, <2>2
<1> HIDE DEF v, u
<1>3. u.st.running = <<[step |-> step, buffer |-> w.st.buffer]>>
  BY <1>2
<1>4. /\ Len(u.st.running) = 1 /\ DOMAIN u.st.running = {1}
      /\ u.st.running[1].step = step /\ u.st.running[1].buffer = w.st.buffer
  BY <1>3
<1>5. w.st.buffer \in Nat /\ w.st.cancelled \in BOOLEAN
  BY DEF IsWorld, StreamRecord
<1>6. InStep(u.st, c)
  BY <1>2, <1>4, <1>5 DEF InStep, OneAtATime, BuffersGrow, LateIsLast, ClientRecord
<1> QED BY <1>2, <1>6 DEF u

LEMMA EnqueueKeepsStep ==
  ASSUME NEW w, IsWorld(w), NEW s, NEW c \in ClientRecord, InStep(w.st, c)
  PROVE  IsWorld(enqueue(w, s)) /\ InStep(enqueue(w, s).st, c)
<1>1. CASE Len(w.st.running) < Concurrency
  <2>1. w.st.running = <<>>
    BY <1>1 DEF IsWorld, StreamRecord, Concurrency
  <2> QED BY <1>1, <2>1, HandlingKeepsStep DEF enqueue
<1>2. CASE ~(Len(w.st.running) < Concurrency)
  <2> DEFINE u == enqueue(w, s)
  <2>1. u = [w EXCEPT !.st.waiting = @ + 1]
    BY <1>2 DEF enqueue
  <2> HIDE DEF u
  <2>2. IsWorld(u) /\ Alike(u.st, w.st)
    BY <2>1 DEF IsWorld, StreamRecord, Alike
  <2>3. InStep(u.st, c)
    BY <2>2, AlikeInStep
  <2> QED BY <2>2, <2>3 DEF u
<1> QED BY <1>1, <1>2

-----------------------------------------------------------------------------
(* The actions.                                                            *)

\* What a stream's action does to its frame and to its client.
LEMMA StreamMoves ==
  ASSUME StreamInv, NEW s \in Streams,
         NEW x \in StreamRecord, stream' = [stream EXCEPT ![s] = x],
         NEW c \in ClientRecord, client' = [client EXCEPT ![s] = c],
         InStep(x, c)
  PROVE  StreamInv'
<1>1. StreamTypes'
  BY DEF StreamInv, StreamTypes
<1>2. ASSUME NEW t \in Streams PROVE InStep(stream'[t], client'[t])
  <2>1. CASE t = s
    BY <2>1 DEF StreamInv, StreamTypes
  <2>2. CASE t # s
    BY <2>2 DEF StreamInv, StreamTypes
  <2> QED BY <2>1, <2>2
<1> QED BY <1>1, <1>2 DEF StreamInv

LEMMA FrameMoves ==
  ASSUME StreamInv, NEW s \in Streams,
         NEW x \in StreamRecord, stream' = [stream EXCEPT ![s] = x],
         InStep(x, client[s]), UNCHANGED client
  PROVE  StreamInv'
<1>1. client' = [client EXCEPT ![s] = client[s]] /\ client[s] \in ClientRecord
  BY DEF StreamInv, StreamTypes
<1> QED BY <1>1, StreamMoves

LEMMA WorldMoves ==
  ASSUME StreamInv, NEW s \in Streams, NEW w, IsWorld(w), becomes(s, w),
         InStep(w.st, client[s]), UNCHANGED client
  PROVE  StreamInv'
<1>1. stream' = [stream EXCEPT ![s] = w.st] /\ w.st \in StreamRecord
  BY DEF becomes, IsWorld
<1> QED BY <1>1, FrameMoves

LEMMA TellDoneMoves ==
  ASSUME StreamInv, NEW s \in Streams, NEW x \in StreamRecord,
         stream' = [stream EXCEPT ![s] = x], Alike(x, stream[s]), tellDone(s)
  PROVE  StreamInv'
<1> DEFINE c == [client[s] EXCEPT !.done = TRUE]
<1>1. /\ c \in ClientRecord /\ c.completion = client[s].completion
      /\ c.late = client[s].late
  BY DEF StreamInv, StreamTypes, ClientRecord
<1>2. client' = [client EXCEPT ![s] = c]
  BY DEF tellDone
<1> HIDE DEF c
<1>3. InStep(x, client[s])
  BY AlikeInStep DEF StreamInv
<1>4. InStep(x, c)
  BY <1>1, <1>3 DEF InStep, BuffersGrow, LateIsLast
<1> QED BY <1>1, <1>2, <1>4, StreamMoves

\* The item that arrived is counted, and what it carries is in the buffer.
LEMMA CountedKeeps ==
  ASSUME StreamInv, NEW s \in Streams
  PROVE  /\ IsWorld(counted(s)) /\ Alike(counted(s).st, stream[s])
         /\ InStep(counted(s).st, client[s])
<1> DEFINE w == World(s)
           v == counted(s)
<1>1. IsWorld(w) /\ w.st = stream[s]
  BY WorldOfStream DEF StreamInv
<1>2. v = [w EXCEPT !.st.items = @ + 1]
  BY DEF counted
<1> HIDE DEF v, w
<1>3. IsWorld(v) /\ Alike(v.st, stream[s])
  BY <1>1, <1>2 DEF IsWorld, StreamRecord, Alike
<1>4. InStep(v.st, client[s])
  BY <1>3, AlikeInStep DEF StreamInv
<1> QED BY <1>3, <1>4 DEF v

LEMMA BufferedKeeps ==
  ASSUME StreamInv, NEW s \in Streams, NEW visible \in {0, 1}
  PROVE  /\ IsWorld([counted(s) EXCEPT !.st.buffer = @ + visible])
         /\ InStep([counted(s) EXCEPT !.st.buffer = @ + visible].st, client[s])
         /\ [counted(s) EXCEPT !.st.buffer = @ + visible].st.running = stream[s].running
<1> DEFINE w == counted(s)
           v == [w EXCEPT !.st.buffer = @ + visible]
<1>1. IsWorld(w) /\ Alike(w.st, stream[s]) /\ InStep(w.st, client[s])
  BY CountedKeeps
<1> HIDE DEF w
<1>2. /\ IsWorld(v) /\ v.st.buffer = w.st.buffer + visible
      /\ v.st.running = stream[s].running /\ v.st.cancelled = w.st.cancelled
      /\ w.st.buffer \in Nat /\ w.st.running \in Seq(Task)
      /\ w.st.running = stream[s].running
  BY <1>1 DEF IsWorld, StreamRecord, Alike
<1>3. client[s] \in ClientRecord
  BY DEF StreamInv, StreamTypes
<1> HIDE DEF v
<1>4. \A i \in DOMAIN w.st.running : w.st.running[i].buffer \in Nat
  BY <1>2, TasksOfQueue DEF Task
<1>5. InStep(v.st, client[s])
  BY <1>1, <1>2, <1>3, <1>4 DEF InStep, OneAtATime, BuffersGrow, LateIsLast, ClientRecord
<1> QED BY <1>2, <1>5 DEF v, w

LEMMA StartStreamKeeps ==
  ASSUME StreamInv, NEW s \in Streams, StartStream(s)
  PROVE  StreamInv'
<1>1. PICK sse \in BOOLEAN :
        stream' = [stream EXCEPT ![s].phase = "streaming", ![s].sse = sse,
                                 ![s].cancellable = TRUE]
  BY DEF StartStream
<1> DEFINE x == [stream[s] EXCEPT !.phase = "streaming", !.sse = sse, !.cancellable = TRUE]
<1>2. x \in StreamRecord /\ Alike(x, stream[s])
  BY DEF StreamInv, StreamTypes, StreamRecord, Phases, Alike
<1>3. stream' = [stream EXCEPT ![s] = x]
  BY <1>1 DEF StreamInv, StreamTypes, StreamRecord
<1> HIDE DEF x
<1>4. InStep(x, client[s])
  BY <1>2, AlikeInStep DEF StreamInv
<1>5. UNCHANGED client
  BY DEF StartStream
<1> QED BY <1>2, <1>3, <1>4, <1>5, FrameMoves

\* An action that only changes the phase of the stream.
LEMMA PhaseKeeps ==
  ASSUME StreamInv, NEW s \in Streams, NEW phase \in Phases,
         stream' = [stream EXCEPT ![s].phase = phase]
  PROVE  UNCHANGED client \/ tellDone(s) => StreamInv'
<1> DEFINE x == [stream[s] EXCEPT !.phase = phase]
<1>1. x \in StreamRecord /\ Alike(x, stream[s])
  BY DEF StreamInv, StreamTypes, StreamRecord, Alike
<1>2. stream' = [stream EXCEPT ![s] = x]
  BY DEF StreamInv, StreamTypes, StreamRecord
<1> HIDE DEF x
<1>3. InStep(x, client[s])
  BY <1>1, AlikeInStep DEF StreamInv
<1> QED BY <1>1, <1>2, <1>3, FrameMoves, TellDoneMoves

LEMMA StreamStartEventKeeps ==
  ASSUME StreamInv, NEW s \in Streams, StreamStartEvent(s)
  PROVE  StreamInv'
<1> DEFINE w == counted(s)
           v == [w EXCEPT !.tr = setTrackingContext(@, s, FALSE, FALSE)]
<1>1. IsWorld(w) /\ InStep(w.st, client[s])
  BY CountedKeeps
<1> HIDE DEF w
<1>2. IsWorld(v) /\ v.st = w.st
  BY <1>1 DEF IsWorld
<1>3. becomes(s, enqueue(v, s)) /\ UNCHANGED client /\ client[s] \in ClientRecord
  BY DEF StreamStartEvent, StreamInv, StreamTypes, w
<1> HIDE DEF v
<1>4. IsWorld(enqueue(v, s)) /\ InStep(enqueue(v, s).st, client[s])
  BY <1>1, <1>2, <1>3, EnqueueKeepsStep
<1> QED BY <1>3, <1>4, WorldMoves

LEMMA ContentChunkEventKeeps ==
  ASSUME StreamInv, NEW s \in Streams, ContentChunkEvent(s)
  PROVE  StreamInv'
<1>1. PICK visible \in {0, 1} :
        becomes(s, enqueue(shownIfVisible([counted(s) EXCEPT !.st.buffer = @ + visible], s), s))
  BY DEF ContentChunkEvent
<1> DEFINE w == [counted(s) EXCEPT !.st.buffer = @ + visible]
           v == shownIfVisible(w, s)
<1>2. IsWorld(w) /\ InStep(w.st, client[s])
  BY BufferedKeeps
<1>3. becomes(s, enqueue(v, s)) /\ UNCHANGED client /\ client[s] \in ClientRecord
  BY <1>1 DEF ContentChunkEvent, StreamInv, StreamTypes
<1> HIDE DEF w
<1>4. IsWorld(v) /\ Alike(v.st, w.st)
  BY <1>2, ShownKeeps
<1> HIDE DEF v
<1>5. InStep(v.st, client[s])
  BY <1>2, <1>4, AlikeInStep
<1>6. IsWorld(enqueue(v, s)) /\ InStep(enqueue(v, s).st, client[s])
  BY <1>3, <1>4, <1>5, EnqueueKeepsStep
<1> QED BY <1>3, <1>6, WorldMoves

LEMMA StreamEndEventKeeps ==
  ASSUME StreamInv, NEW s \in Streams, StreamEndEvent(s)
  PROVE  StreamInv'
<1> DEFINE w == counted(s)
           v == [w EXCEPT !.st.provided = TRUE]
<1>1. IsWorld(w) /\ InStep(w.st, client[s])
  BY CountedKeeps
<1>2. becomes(s, enqueue(v, s)) /\ UNCHANGED client /\ client[s] \in ClientRecord
  BY DEF StreamEndEvent, StreamInv, StreamTypes
<1> HIDE DEF w
<1>3. IsWorld(v) /\ Alike(v.st, w.st)
  BY <1>1 DEF IsWorld, StreamRecord, Alike
<1> HIDE DEF v
<1>4. InStep(v.st, client[s])
  BY <1>1, <1>3, AlikeInStep
<1>5. IsWorld(enqueue(v, s)) /\ InStep(enqueue(v, s).st, client[s])
  BY <1>2, <1>3, <1>4, EnqueueKeepsStep
<1> QED BY <1>2, <1>5, WorldMoves

LEMMA MalformedEventKeeps ==
  ASSUME StreamInv, NEW s \in Streams, MalformedEvent(s)
  PROVE  StreamInv'
<1> DEFINE w == counted(s)
           v == handleError(w, s)
<1>1. IsWorld(w) /\ Alike(w.st, stream[s])
  BY CountedKeeps
<1>2. stream' = [stream EXCEPT ![s] = v.st] /\ tellDone(s)
  BY DEF MalformedEvent, becomes
<1> HIDE DEF w
<1>3. IsWorld(v) /\ Alike(v.st, w.st)
  BY <1>1, ErrorKeeps
<1> HIDE DEF v
<1>4. v.st \in StreamRecord /\ Alike(v.st, stream[s])
  BY <1>1, <1>3 DEF IsWorld, Alike
<1> QED BY <1>2, <1>4, TellDoneMoves

LEMMA LegacyItemKeeps ==
  ASSUME StreamInv, NEW s \in Streams, LegacyItem(s)
  PROVE  StreamInv'
<1>1. PICK visible \in {0, 1} :
        becomes(s, handleStreamNotification([counted(s) EXCEPT !.st.buffer = @ + visible], s))
  BY DEF LegacyItem
<1> DEFINE w == [counted(s) EXCEPT !.st.buffer = @ + visible]
<1>2. IsWorld(w) /\ InStep(w.st, client[s]) /\ w.st.running = stream[s].running
  BY BufferedKeeps
<1>3. /\ becomes(s, handleStreamNotification(w, s)) /\ UNCHANGED client
      /\ client[s] \in ClientRecord /\ stream[s].running = <<>>
  BY <1>1 DEF LegacyItem, StreamInv, StreamTypes
<1> HIDE DEF w
<1>4. /\ IsWorld(handleStreamNotification(w, s))
      /\ InStep(handleStreamNotification(w, s).st, client[s])
  BY <1>2, <1>3, HandlingKeepsStep
<1> QED BY <1>3, <1>4, WorldMoves

LEMMA PostProcessedKeeps ==
  ASSUME StreamInv, NEW s \in Streams, PostProcessed(s)
  PROVE  StreamInv' /\ client'[s].completion >= client[s].completion
<1> DEFINE q == stream[s].running
<1>1. PICK i \in DOMAIN q :
        /\ q[i].step = "processing"
        /\ stream' = [stream EXCEPT ![s].running[i].step = "finishing"]
        /\ sendStreamingResponse(s, q[i].buffer)
  BY DEF PostProcessed
<1>2. /\ stream[s] \in StreamRecord /\ client[s] \in ClientRecord
      /\ InStep(stream[s], client[s])
  BY DEF StreamInv, StreamTypes
<1>3. q \in Seq(Task) /\ Len(q) <= 1
  BY <1>2 DEF StreamRecord, InStep, OneAtATime
<1>4. i = 1 /\ Len(q) = 1 /\ DOMAIN q = {1} /\ q[1] \in Task
  BY <1>3, OneTask, TasksOfQueue
<1> DEFINE r == [q EXCEPT ![i].step = "finishing"]
           x == [stream[s] EXCEPT !.running = r]
           late == IF stream[s].cancelled THEN client[s].late + 1 ELSE client[s].late
           c == [client[s] EXCEPT !.completion = q[i].buffer, !.late = late]
<1>5. /\ r \in Seq(Task) /\ Len(r) = 1 /\ DOMAIN r = {1}
      /\ r[1].step = "finishing" /\ r[1].buffer = q[1].buffer
  BY <1>3, <1>4, OneTaskFinishes
<1>6. stream' = [stream EXCEPT ![s] = x]
  BY <1>1, <1>2 DEF StreamInv, StreamTypes, StreamRecord
<1>7. client' = [client EXCEPT ![s] = c]
  BY <1>1, <1>2 DEF sendStreamingResponse, StreamInv, StreamTypes
<1>8. q[1].buffer \in Nat /\ q[1].step = "processing"
  BY <1>1, <1>4 DEF Task
<1>9. c \in ClientRecord /\ c.completion = q[1].buffer /\ c.late = late
  <2>1. late \in Nat
    BY <1>2 DEF ClientRecord
  <2> HIDE DEF late
  <2> QED BY <1>2, <1>4, <1>8, <2>1 DEF ClientRecord
<1> HIDE DEF r, c
<1>10. /\ x \in StreamRecord /\ x.running = r /\ x.buffer = stream[s].buffer
       /\ x.cancelled = stream[s].cancelled /\ x.cancelled \in BOOLEAN
  BY <1>2, <1>5 DEF StreamRecord
<1>11. /\ client[s].late = 0 /\ q[1].buffer <= stream[s].buffer
       /\ client[s].completion <= q[1].buffer
  BY <1>2, <1>4, <1>8 DEF InStep, BuffersGrow, LateIsLast, ClientRecord
<1> HIDE DEF x, q, late
<1>12. InStep(x, c)
  <2>1. OneAtATime(x)
    BY <1>5, <1>10 DEF OneAtATime
  <2>2. BuffersGrow(x, c)
    BY <1>5, <1>9, <1>10, <1>11 DEF BuffersGrow
  <2>3. LateIsLast(x, c)
    BY <1>5, <1>9, <1>10, <1>11 DEF LateIsLast, late
  <2> QED BY <2>1, <2>2, <2>3 DEF InStep
<1>13. StreamInv'
  BY <1>6, <1>7, <1>9, <1>10, <1>12, StreamMoves
<1>14. client'[s] = c
  BY <1>7 DEF StreamInv, StreamTypes
<1> QED BY <1>2, <1>8, <1>9, <1>11, <1>13, <1>14 DEF ClientRecord

LEMMA NotificationHandledKeeps ==
  ASSUME StreamInv, NEW s \in Streams, NotificationHandled(s)
  PROVE  StreamInv'
<1> DEFINE q == stream[s].running
           v == World(s)
<1>1. PICK i \in DOMAIN q :
        LET w == [v EXCEPT !.st.running = RemoveAt(@, i)]
            next == IF w.st.waiting = 0 THEN w
                    ELSE handleStreamNotification([w EXCEPT !.st.waiting = @ - 1], s)
        IN  /\ becomes(s, IF stream[s].sse THEN next
                          ELSE IF stream[s].stopped THEN w ELSE shownIfVisible(w, s))
            /\ UNCHANGED client
  BY DEF NotificationHandled
<1> DEFINE w == [v EXCEPT !.st.running = RemoveAt(@, i)]
           u == [w EXCEPT !.st.waiting = @ - 1]
           next == IF w.st.waiting = 0 THEN w ELSE handleStreamNotification(u, s)
<1>2. becomes(s, IF stream[s].sse THEN next
                 ELSE IF stream[s].stopped THEN w ELSE shownIfVisible(w, s))
  BY <1>1
<1>3. /\ stream[s] \in StreamRecord /\ client[s] \in ClientRecord
      /\ InStep(stream[s], client[s]) /\ UNCHANGED client
  BY <1>1 DEF StreamInv, StreamTypes
<1>4. IsWorld(v) /\ v.st = stream[s]
  BY WorldOfStream DEF StreamInv
<1> HIDE DEF v
<1>5. RemoveAt(q, i) = <<>>
  <2>1. q \in Seq(Task) /\ Len(q) <= 1
    BY <1>3 DEF StreamRecord, InStep, OneAtATime
  <2> QED BY <2>1, OneTask
<1>6. w = [v EXCEPT !.st.running = <<>>]
  BY <1>4, <1>5
<1> HIDE DEF w
<1>7. /\ IsWorld(w) /\ w.st.running = <<>> /\ w.st.buffer = stream[s].buffer
      /\ w.st.cancelled = stream[s].cancelled
  <2>1. <<>> \in Seq(Task)
    OBVIOUS
  <2> QED BY <1>4, <1>6, <2>1 DEF IsWorld, StreamRecord
<1>8. InStep(w.st, client[s])
  BY <1>3, <1>7 DEF InStep, OneAtATime, BuffersGrow, LateIsLast
<1>9. IsWorld(u) /\ Alike(u.st, w.st)
  BY <1>7 DEF IsWorld, StreamRecord, Alike
<1> HIDE DEF u
<1>10. InStep(u.st, client[s]) /\ u.st.running = <<>>
  BY <1>7, <1>8, <1>9, AlikeInStep DEF Alike
<1>11. IsWorld(next) /\ InStep(next.st, client[s])
  BY <1>3, <1>7, <1>8, <1>9, <1>10, HandlingKeepsStep
<1> HIDE DEF next
<1>12. IsWorld(shownIfVisible(w, s)) /\ Alike(shownIfVisible(w, s).st, w.st)
  BY <1>7, ShownKeeps
<1>13. InStep(shownIfVisible(w, s).st, client[s])
  BY <1>8, <1>12, AlikeInStep
<1>14. CASE stream[s].sse
  BY <1>2, <1>3, <1>11, <1>14, WorldMoves
<1>15. CASE ~stream[s].sse /\ stream[s].stopped
  BY <1>2, <1>3, <1>7, <1>8, <1>15, WorldMoves
<1>16. CASE ~stream[s].sse /\ ~stream[s].stopped
  BY <1>2, <1>3, <1>12, <1>13, <1>16, WorldMoves
<1> QED BY <1>14, <1>15, <1>16

LEMMA StreamFailsKeeps ==
  ASSUME StreamInv, NEW s \in Streams, StreamFails(s)
  PROVE  StreamInv'
<1> DEFINE w == World(s)
           v == handleError(w, s)
           u == [v EXCEPT !.st.phase = "draining"]
<1>1. IsWorld(w) /\ w.st = stream[s]
  BY WorldOfStream DEF StreamInv
<1>2. becomes(s, u) /\ UNCHANGED client
  BY DEF StreamFails
<1> HIDE DEF w
<1>3. IsWorld(v) /\ Alike(v.st, w.st)
  BY <1>1, ErrorKeeps
<1> HIDE DEF v
<1>4. IsWorld(u) /\ Alike(u.st, stream[s])
  BY <1>1, <1>3 DEF IsWorld, StreamRecord, Phases, Alike
<1> HIDE DEF u
<1>5. InStep(u.st, client[s])
  BY <1>4, AlikeInStep DEF StreamInv
<1> QED BY <1>2, <1>4, <1>5, WorldMoves

LEMMA StreamEndedKeeps ==
  ASSUME StreamInv, NEW s \in Streams, StreamEnded(s)
  PROVE  StreamInv'
<1> DEFINE w == World(s)
           v == complete(w, s)
           u == [v EXCEPT !.st.phase = "done", !.st.cancellable = FALSE]
<1>1. IsWorld(w) /\ w.st = stream[s]
  BY WorldOfStream DEF StreamInv
<1>2. becomes(s, u) /\ UNCHANGED client
  BY DEF StreamEnded
<1> HIDE DEF w
<1>3. IsWorld(v) /\ v.st = w.st
  BY <1>1, CompleteKeeps
<1> HIDE DEF v
<1>4. IsWorld(u) /\ Alike(u.st, stream[s])
  BY <1>1, <1>3 DEF IsWorld, StreamRecord, Phases, Alike
<1> HIDE DEF u
<1>5. InStep(u.st, client[s])
  BY <1>4, AlikeInStep DEF StreamInv
<1> QED BY <1>2, <1>4, <1>5, WorldMoves

LEMMA CancelKeeps ==
  ASSUME StreamInv, NEW s \in Streams, Cancel(s)
  PROVE  StreamInv'
<1> DEFINE w == World(s)
           event == IF stream[s].shown THEN "REJECTED" ELSE "CANCELLED"
           v == track(w, s, event)
           u == [v EXCEPT !.st.cancelled = TRUE, !.st.stopped = TRUE]
<1>1. IsWorld(w) /\ w.st = stream[s]
  BY WorldOfStream DEF StreamInv
<1>2. becomes(s, u) /\ UNCHANGED client
  BY DEF Cancel
<1> HIDE DEF w, event
<1>3. IsWorld(v) /\ v.st = w.st
  BY <1>1, TrackKeeps
<1> HIDE DEF v
<1>4. /\ IsWorld(u) /\ u.st.running = stream[s].running /\ u.st.buffer = stream[s].buffer
      /\ u.st.cancelled
  BY <1>1, <1>3 DEF IsWorld, StreamRecord
<1> HIDE DEF u
<1>5. InStep(u.st, client[s])
  BY <1>4 DEF StreamInv, InStep, OneAtATime, BuffersGrow, LateIsLast
<1> QED BY <1>2, <1>4, <1>5, WorldMoves

LEMMA StepKeeps == StreamInv /\ [Next]_vars => StreamInv'
<1> SUFFICES ASSUME StreamInv, [Next]_vars PROVE StreamInv'
  OBVIOUS
<1>1. CASE UNCHANGED <<stream, client>>
  BY <1>1 DEF StreamInv, StreamTypes
<1>2. ASSUME NEW s \in Streams, Request(s) PROVE StreamInv'
  BY <1>2, PhaseKeeps DEF Request, Phases
<1>3. ASSUME NEW s \in Streams, ServerItem(s) PROVE StreamInv'
  BY <1>3, StreamStartEventKeeps, ContentChunkEventKeeps, StreamEndEventKeeps,
     MalformedEventKeeps, LegacyItemKeeps DEF ServerItem
<1>4. ASSUME NEW s \in Streams, StreamOver(s) PROVE StreamInv'
  BY <1>4, PhaseKeeps DEF StreamOver, Phases
<1>5. ASSUME NEW s \in Streams, QueueIdle(s) PROVE StreamInv'
  BY <1>5, PhaseKeeps DEF QueueIdle, Phases
<1>6. ASSUME NEW s \in Streams, ClientTracks(s) PROVE StreamInv'
  BY <1>1, <1>6 DEF ClientTracks
<1>7. CASE OtherRequestFails \/ OtherRequestSucceeds \/ BreakTimeOver
  BY <1>1, <1>7 DEF OtherRequestFails, OtherRequestSucceeds, BreakTimeOver
<1>8. CASE UNCHANGED vars
  BY <1>1, <1>8 DEF vars
<1> QED BY <1>2, <1>3, <1>4, <1>5, <1>6, <1>7, <1>8, StartStreamKeeps, PostProcessedKeeps,
           NotificationHandledKeeps, StreamFailsKeeps, StreamEndedKeeps, CancelKeeps DEF Next

-----------------------------------------------------------------------------
\* However many streams there are and however the queue, the post-processors
\* and cancelStreaming interleave, the stream's frame and what its client got
\* are of their types and in step.
THEOREM StreamsInStep == Spec => []StreamInv
  BY StreamInitInv, StepKeeps, PTL DEF Spec

\* #handleStreamNotification looks at the token before its await only: no
\* client is sent more than the one completion whose post-processors were
\* running when it cancelled.
THEOREM OneLateCompletionCorrect == Spec => []AtMostOneLateCompletion
<1>1. StreamInv => AtMostOneLateCompletion
  BY DEF StreamInv, InStep, LateIsLast, AtMostOneLateCompletion
<1> QED BY <1>1, StreamsInStep, PTL

\* The queue of concurrency one keeps the order of the notifications: a later
\* completion is made from a buffer that is at least as long.
THEOREM NotificationsInOrderCorrect == Spec => NotificationsInOrder
<1> DEFINE Longer == \A s \in Streams : client'[s].completion >= client[s].completion
<1>1. ASSUME StreamInv, [Next]_vars PROVE Longer
  <2>1. ASSUME NEW s \in Streams PROVE client[s].completion >= client[s].completion
    BY <1>1 DEF StreamInv, StreamTypes, ClientRecord
  <2>2. ASSUME NEW s \in Streams, PostProcessed(s) PROVE Longer
    <3>1. client'[s].completion >= client[s].completion
      BY <1>1, <2>2, PostProcessedKeeps
    <3>2. \A t \in Streams : t # s => client'[t] = client[t]
      BY <1>1, <2>2 DEF PostProcessed, sendStreamingResponse, StreamInv, StreamTypes
    <3> QED BY <2>1, <3>1, <3>2
  <2>3. ASSUME NEW s \in Streams, tellDone(s) PROVE Longer
    <3>1. \A t \in Streams : client'[t].completion = client[t].completion
      BY <1>1, <2>3 DEF tellDone, StreamInv, StreamTypes, ClientRecord
    <3> QED BY <2>1, <3>1
  <2>4. CASE UNCHANGED client
    BY <2>1, <2>4
  <2> QED BY <1>1, <2>2, <2>3, <2>4
          DEF Next, vars, Request, StartStream, ServerItem, StreamStartEvent, ContentChunkEvent,
              StreamEndEvent, MalformedEvent, LegacyItem, NotificationHandled, StreamFails,
              StreamOver, QueueIdle, StreamEnded, Cancel, ClientTracks, OtherRequestFails,
              OtherRequestSucceeds, BreakTimeOver
<1>2. StreamInv /\ [Next]_vars => [Longer]_vars
  BY <1>1
<1> QED BY <1>2, StreamsInStep, PTL DEF Spec, NotificationsInOrder

-----------------------------------------------------------------------------
(* The tracker.  What it holds of a stream that was not stopped follows    *)
(* from how far the stream is: no other stream's tracking and no event of  *)
(* the client, short of ending the suggestion, takes it anywhere else.     *)

States == Events \cup {Unknown}
Contexts == {NoContext, "plain", "streaming"}
IsTracker(t) ==
  t \in [kind : {"snowplow"}, state : [Suggestions -> States],
        context : [Suggestions -> Contexts]]

Begun(st) == st.phase \notin {"none", "scheduled"}
Busy(st) == st.phase \in {"streaming", "draining"}

Allowed(st) ==
  IF ~Begun(st) THEN {Unknown, "ACCEPTED"}
  ELSE IF ~st.started THEN {"REQUESTED", "ACCEPTED"}
  ELSE IF st.phase = "done" THEN {"STREAM_COMPLETED", "NOT_PROVIDED", "ACCEPTED", "REJECTED"}
  ELSE {"STREAM_STARTED", "SHOWN", "ACCEPTED", "REJECTED"}

HasContext(st, state, context) ==
  \/ ~Begun(st) /\ ~st.started /\ state = Unknown /\ context = NoContext
  \/ Begun(st) /\ context = "streaming"
  \/ state = "ACCEPTED" /\ context # NoContext

Tracked(st, state, context) ==
  /\ st.running # <<>> => Busy(st)
  /\ ~st.stopped => state \in Allowed(st) /\ HasContext(st, state, context)

TrackInv ==
  /\ StreamTypes /\ IsTracker(tracker)
  /\ \A s \in Streams : Tracked(stream[s], tracker.state[s], tracker.context[s])

LEMMA TrackInitInv == Init => TrackInv
<1> SUFFICES ASSUME Init PROVE TrackInv
  OBVIOUS
<1>1. StreamTypes
  BY StreamInitInv DEF StreamInv
<1>2. IsTracker(tracker) /\ \A s \in Streams : /\ tracker.state[s] = Unknown
                                               /\ tracker.context[s] = NoContext
  BY StreamsAssumption DEF Init, NewTracker, IsTracker, States, Contexts
<1>3. ASSUME NEW s \in Streams PROVE stream[s] = NewStream
  BY DEF Init
<1> QED BY <1>1, <1>2, <1>3 DEF TrackInv, Tracked, NewStream, Allowed, HasContext, Begun

LEMMA StreamingGraph ==
  /\ DOMAIN streamingSuggestionStateGraph
       = endStates \cup {"REQUESTED", "STREAM_STARTED", "SHOWN", "STREAM_COMPLETED"}
  /\ streamingSuggestionStateGraph["REQUESTED"] = {"STREAM_STARTED", "ERRORED", "CANCELLED"}
  /\ streamingSuggestionStateGraph["STREAM_STARTED"] = {"SHOWN", "ERRORED", "STREAM_COMPLETED"}
  /\ streamingSuggestionStateGraph["SHOWN"]
       = {"ERRORED", "STREAM_COMPLETED", "ACCEPTED", "REJECTED"}
  /\ streamingSuggestionStateGraph["STREAM_COMPLETED"]
       = {"ACCEPTED", "REJECTED", "NOT_PROVIDED"}
  /\ \A e \in endStates : streamingSuggestionStateGraph[e] = {}
  BY DEF streamingSuggestionStateGraph, endStates

LEMMA PlainGraph ==
  /\ DOMAIN nonStreamingSuggestionStateGraph
       = endStates \cup {"REQUESTED", "LOADED", "SHOWN"}
  /\ \A e \in endStates : nonStreamingSuggestionStateGraph[e] = {}
  BY DEF nonStreamingSuggestionStateGraph, endStates

\* What canUpdateState says of the states that matter here.
LEMMA StaysAccepted ==
  ASSUME NEW event \in Events \ {"REQUESTED"}, NEW isStreaming \in BOOLEAN,
         canUpdateState("ACCEPTED", event, isStreaming)
  PROVE  event = "ACCEPTED"
<1>1. "ACCEPTED" \in endStates
  BY DEF endStates
<1>2. stateGraph(isStreaming)["ACCEPTED"] = {}
  BY <1>1, StreamingGraph, PlainGraph DEF stateGraph
<1> QED BY <1>2 DEF canUpdateState

LEMMA UnknownStays ==
  ASSUME NEW event \in Events \ {"REQUESTED"}, NEW isStreaming \in BOOLEAN
  PROVE  ~canUpdateState(Unknown, event, isStreaming)
<1>1. Unknown \notin DOMAIN stateGraph(isStreaming)
  BY StreamingGraph, PlainGraph DEF stateGraph, Unknown, endStates
<1> QED BY <1>1 DEF canUpdateState

StreamStates == {"REQUESTED", "STREAM_STARTED", "SHOWN", "STREAM_COMPLETED", "NOT_PROVIDED",
                 "ACCEPTED", "REJECTED"}

LEMMA StreamingUpdates ==
  ASSUME NEW state \in StreamStates
  PROVE  /\ canUpdateState(state, "STREAM_STARTED", TRUE) <=> state = "REQUESTED"
         /\ canUpdateState(state, "SHOWN", TRUE) <=> state = "STREAM_STARTED"
         /\ canUpdateState(state, "STREAM_COMPLETED", TRUE)
              <=> state \in {"STREAM_STARTED", "SHOWN"}
         /\ canUpdateState(state, "REJECTED", TRUE) <=> state \in {"SHOWN", "STREAM_COMPLETED"}
         /\ canUpdateState(state, "NOT_PROVIDED", TRUE) <=> state = "STREAM_COMPLETED"
<1> DEFINE G == streamingSuggestionStateGraph
<1>1. state \in DOMAIN G
  BY StreamingGraph DEF StreamStates, endStates
<1>2. \A event : canUpdateState(state, event, TRUE)
                   = (event = "REQUESTED" \/ event = "ACCEPTED" \/ event \in G[state])
  BY <1>1 DEF canUpdateState, stateGraph
<1> HIDE DEF G
<1>3. CASE state \in {"NOT_PROVIDED", "ACCEPTED", "REJECTED"}
  <2>1. G[state] = {}
    BY <1>3, StreamingGraph DEF endStates, G
  <2> QED BY <1>2, <1>3, <2>1
<1>4. CASE state = "REQUESTED"
  <2>1. G[state] = {"STREAM_STARTED", "ERRORED", "CANCELLED"}
    BY <1>4, StreamingGraph DEF G
  <2> QED BY <1>2, <1>4, <2>1
<1>5. CASE state = "STREAM_STARTED"
  <2>1. G[state] = {"SHOWN", "ERRORED", "STREAM_COMPLETED"}
    BY <1>5, StreamingGraph DEF G
  <2> QED BY <1>2, <1>5, <2>1
<1>6. CASE state = "SHOWN"
  <2>1. G[state] = {"ERRORED", "STREAM_COMPLETED", "ACCEPTED", "REJECTED"}
    BY <1>6, StreamingGraph DEF G
  <2> QED BY <1>2, <1>6, <2>1
<1>7. CASE state = "STREAM_COMPLETED"
  <2>1. G[state] = {"ACCEPTED", "REJECTED", "NOT_PROVIDED"}
    BY <1>7, StreamingGraph DEF G
  <2> QED BY <1>2, <1>7, <2>1
<1> QED BY <1>3, <1>4, <1>5, <1>6, <1>7 DEF StreamStates

\* trackEvents, suggestion by suggestion.
LEMMA EventsTracked ==
  ASSUME NEW t, IsTracker(t), NEW ss, NEW event \in Events
  PROVE  /\ IsTracker(trackEvents(t, ss, event))
         /\ trackEvents(t, ss, event).context = t.context
         /\ \A u \in Suggestions :
              trackEvents(t, ss, event).state[u]
                = IF u \in ss /\ canUpdateState(t.state[u], event, t.context[u] = "streaming")
                  THEN event ELSE t.state[u]
<1> DEFINE state == [u \in Suggestions |-> IF u \in ss /\ tracks(t, u, event)
                                           THEN event ELSE t.state[u]]
           r == trackEvents(t, ss, event)
<1>1. r = [t EXCEPT !.state = state]
  BY DEF trackEvents
<1>2. state \in [Suggestions -> States]
  BY DEF IsTracker, States
<1>3. \A u \in Suggestions :
        state[u] = IF u \in ss /\ canUpdateState(t.state[u], event, t.context[u] = "streaming")
                   THEN event ELSE t.state[u]
  BY DEF tracks, isStreamingSuggestion, IsTracker
<1> HIDE DEF state, r
<1>4. IsTracker(r) /\ r.context = t.context /\ r.state = state
  BY <1>1, <1>2 DEF IsTracker
<1> QED BY <1>3, <1>4 DEF r

LEMMA EventTracked ==
  ASSUME NEW t, IsTracker(t), NEW s \in Streams, NEW event \in Events
  PROVE  /\ IsTracker(trackEvent(t, s, event))
         /\ trackEvent(t, s, event).context = t.context
         /\ trackEvent(t, s, event).state[s]
              = IF canUpdateState(t.state[s], event, t.context[s] = "streaming")
                THEN event ELSE t.state[s]
         /\ \A u \in Streams : u # s => trackEvent(t, s, event).state[u] = t.state[u]
<1>1. trackEvent(t, s, event) = trackEvents(t, {s}, event)
  BY DEF trackEvent
<1> QED BY <1>1, EventsTracked, StreamsAssumption

\* The events that a client may report, or that others cause, of any stream.
Harmless == {"SHOWN", "REJECTED", "NOT_PROVIDED", "ACCEPTED"}

LEMMA HarmlessEvents ==
  ASSUME NEW st, NEW state, NEW context \in Contexts, Tracked(st, state, context),
         NEW event \in Harmless, canUpdateState(state, event, context = "streaming")
  PROVE  Tracked(st, event, context)
<1>1. event \in Events \ {"REQUESTED"}
  BY DEF Harmless, Events
<1> SUFFICES ASSUME ~st.stopped PROVE event \in Allowed(st) /\ HasContext(st, event, context)
  BY DEF Tracked
<1>2. state \in Allowed(st) /\ HasContext(st, state, context)
  BY DEF Tracked
<1>3. CASE state = "ACCEPTED"
  <2>1. event = "ACCEPTED"
    BY <1>1, <1>3, StaysAccepted
  <2> QED BY <1>2, <1>3, <2>1
<1>4. CASE state = Unknown
  BY <1>1, <1>4, UnknownStays
<1>5. CASE state # "ACCEPTED" /\ state # Unknown
  <2>1. Begun(st) /\ context = "streaming"
    BY <1>2, <1>5 DEF HasContext
  <2>2. state \in StreamStates
    BY <1>2, <1>5, <2>1 DEF Allowed, StreamStates
  <2>3. event \in Allowed(st)
    BY <1>2, <2>1, <2>2, StreamingUpdates DEF Allowed, Harmless
  <2> QED BY <2>1, <2>3 DEF HasContext
<1> QED BY <1>3, <1>4, <1>5

LEMMA HarmlessTracked ==
  ASSUME NEW t, IsTracker(t), NEW ss, NEW event \in Harmless,
         NEW u \in Streams, NEW st, Tracked(st, t.state[u], t.context[u])
  PROVE  /\ IsTracker(trackEvents(t, ss, event))
         /\ trackEvents(t, ss, event).context = t.context
         /\ Tracked(st, trackEvents(t, ss, event).state[u], trackEvents(t, ss, event).context[u])
<1> DEFINE r == trackEvents(t, ss, event)
           happens == u \in ss /\ canUpdateState(t.state[u], event, t.context[u] = "streaming")
<1>1. event \in Events
  BY DEF Harmless, Events
<1>2. IsTracker(r) /\ r.context = t.context /\ r.state[u] = IF happens THEN event ELSE t.state[u]
  BY <1>1, EventsTracked, StreamsAssumption
<1>3. t.context[u] \in Contexts
  BY StreamsAssumption DEF IsTracker
<1>4. CASE happens
  <2>1. Tracked(st, event, t.context[u])
    BY <1>3, <1>4, HarmlessEvents
  <2> QED BY <1>2, <1>4, <2>1
<1>5. CASE ~happens
  BY <1>2, <1>5
<1> QED BY <1>4, <1>5, <1>2

LEMMA RejectTracked ==
  ASSUME NEW t, IsTracker(t), NEW u \in Streams, NEW st, Tracked(st, t.state[u], t.context[u])
  PROVE  /\ IsTracker(rejectOpenedSuggestions(t))
         /\ rejectOpenedSuggestions(t).context = t.context
         /\ Tracked(st, rejectOpenedSuggestions(t).state[u],
                        rejectOpenedSuggestions(t).context[u])
<1>1. "REJECTED" \in Harmless
  BY DEF Harmless
<1> QED BY <1>1, HarmlessTracked DEF rejectOpenedSuggestions

\* setTrackingContext of stream s, and what another stream u makes of it.
LEMMA ContextSet ==
  ASSUME NEW t, IsTracker(t), NEW s \in Streams, NEW isStreaming \in BOOLEAN,
         NEW u \in Streams, NEW st, Tracked(st, t.state[u], t.context[u])
  PROVE  LET r == setTrackingContext(t, s, isStreaming, FALSE)
         IN  /\ IsTracker(r)
             /\ t.context[s] # NoContext => r = t
             /\ t.context[s] = NoContext =>
                  /\ r.state[s] = "REQUESTED"
                  /\ r.context[s] = IF isStreaming THEN "streaming" ELSE "plain"
             /\ u # s => Tracked(st, r.state[u], r.context[u])
<1> DEFINE r == setTrackingContext(t, s, isStreaming, FALSE)
           context == IF isStreaming THEN "streaming" ELSE "plain"
           q == rejectOpenedSuggestions(t)
           stored == [q EXCEPT !.context[s] = context]
<1>1. t.kind = "snowplow"
  BY DEF IsTracker
<1>2. CASE t.context[s] # NoContext
  <2>1. r = t
    BY <1>1, <1>2 DEF setTrackingContext, updateCodeSuggestionsContext
  <2> QED BY <1>2, <2>1
<1>3. CASE t.context[s] = NoContext
  <2>1. r = trackEvent(stored, s, "REQUESTED")
    BY <1>1, <1>3 DEF setTrackingContext, setCodeSuggestionsContext
  <2>2. /\ IsTracker(q) /\ q.context = t.context
        /\ Tracked(st, q.state[u], q.context[u])
    BY RejectTracked
  <2>3. context \in Contexts
    BY DEF Contexts
  <2> HIDE DEF r, context, q
  <2>4. /\ IsTracker(stored) /\ stored.state = q.state /\ stored.context[s] = context
        /\ u # s => stored.context[u] = q.context[u]
    BY <2>2, <2>3, StreamsAssumption DEF IsTracker
  <2>5. "REQUESTED" \in Events
    BY DEF Events
  <2> HIDE DEF stored
  <2>6. /\ IsTracker(r) /\ r.context = stored.context
        /\ r.state[s] = "REQUESTED"
        /\ u # s => r.state[u] = stored.state[u]
    BY <2>1, <2>4, <2>5, EventTracked DEF canUpdateState
  <2>7. u # s => Tracked(st, r.state[u], r.context[u])
    BY <2>2, <2>4, <2>6
  <2>8. r.context[s] = context
    BY <2>4, <2>6
  <2> QED BY <1>3, <2>6, <2>7, <2>8 DEF r, context
<1> QED BY <1>2, <1>3

\* $/gitlab/telemetry, to a client that does not itself cancel suggestions.
NoClientCancels == "CANCELLED" \notin ClientActions

LEMMA ClientEventTracked ==
  ASSUME NoClientCancels, NEW t, IsTracker(t), NEW s \in Streams,
         NEW event \in ClientActions, NEW namesOption \in BOOLEAN,
         NEW u \in Streams, NEW st, Tracked(st, t.state[u], t.context[u])
  PROVE  /\ IsTracker(clientTracks(t, s, event, namesOption))
         /\ Tracked(st, clientTracks(t, s, event, namesOption).state[u],
                        clientTracks(t, s, event, namesOption).context[u])
<1> DEFINE names == event = "ACCEPTED" /\ namesOption
           q == IF names THEN setTrackingContext(t, s, FALSE, FALSE) ELSE t
           r == clientTracks(t, s, event, namesOption)
<1>1. r = IF event \in {"ACCEPTED", "REJECTED", "SHOWN", "NOT_PROVIDED"}
          THEN trackEvents(q, {s}, event) ELSE t
  BY DEF clientTracks, canClientTrackEvent, NoClientCancels, trackEvent
<1>2. /\ IsTracker(q)
      /\ t.context[s] # NoContext => q = t
      /\ names /\ t.context[s] = NoContext => q.context[s] = "plain" /\ q.state[s] = "REQUESTED"
      /\ ~names => q = t
      /\ u # s => Tracked(st, q.state[u], q.context[u])
  BY ContextSet
<1> HIDE DEF r
<1>3. CASE event \notin Harmless
  BY <1>1, <1>3 DEF Harmless, r
<1>4. CASE event \in Harmless /\ Tracked(st, q.state[u], q.context[u])
  <2>1. r = trackEvents(q, {s}, event)
    BY <1>1, <1>4 DEF Harmless
  <2> HIDE DEF q
  <2> QED BY <1>2, <1>4, <2>1, HarmlessTracked DEF r
<1>5. CASE event \in Harmless /\ ~Tracked(st, q.state[u], q.context[u])
  <2>1. u = s /\ names /\ t.context[s] = NoContext
    BY <1>2, <1>5
  <2>2. /\ r = trackEvents(q, {s}, "ACCEPTED")
        /\ q.context[s] = "plain" /\ q.state[s] = "REQUESTED"
    BY <1>1, <1>2, <2>1
  <2>3. canUpdateState("REQUESTED", "ACCEPTED", FALSE)
    BY PlainGraph DEF canUpdateState, stateGraph
  <2> HIDE DEF q, names
  <2>4. "ACCEPTED" \in Events
    BY DEF Events
  <2>5. IsTracker(r) /\ r.context[s] = "plain" /\ r.state[s] = "ACCEPTED"
    BY <1>2, <2>2, <2>3, <2>4, EventsTracked, StreamsAssumption
  <2>6. ~st.stopped => ~Begun(st)
    BY <2>1 DEF Tracked, HasContext, NoContext, Allowed
  <2>7. Tracked(st, "ACCEPTED", "plain")
    BY <2>6 DEF Tracked, Allowed, HasContext, NoContext
  <2> QED BY <2>1, <2>5, <2>7 DEF r
<1> QED BY <1>3, <1>4, <1>5

-----------------------------------------------------------------------------
(* The closures again, and what they make of every stream's tracking.      *)

\* Two frames that agree on what Tracked is about.
Same(x, y) == /\ x.phase = y.phase /\ x.running = y.running
              /\ x.stopped = y.stopped /\ x.started = y.started

\* A world of stream s whose tracker holds of every stream what it should.
Good(w, s) ==
  /\ IsWorld(w) /\ IsTracker(w.tr)
  /\ \A u \in Streams :
       Tracked(IF u = s THEN w.st ELSE stream[u], w.tr.state[u], w.tr.context[u])

LEMMA SameTracked ==
  ASSUME NEW x, NEW y, Same(x, y), NEW state, NEW context, Tracked(y, state, context)
  PROVE  Tracked(x, state, context)
  BY DEF Same, Tracked, Busy, Allowed, HasContext, Begun

LEMMA WorldGood ==
  ASSUME TrackInv, NEW s \in Streams
  PROVE  Good(World(s), s) /\ World(s).st = stream[s]
<1>1. IsWorld(World(s)) /\ World(s).st = stream[s]
  BY WorldOfStream DEF TrackInv
<1>2. World(s).tr = tracker
  BY DEF World
<1> QED BY <1>1, <1>2 DEF Good, TrackInv

LEMMA BecomesGood ==
  ASSUME TrackInv, NEW s \in Streams, NEW w, Good(w, s), becomes(s, w), StreamTypes'
  PROVE  TrackInv'
<1>1. stream' = [stream EXCEPT ![s] = w.st] /\ tracker' = w.tr
  BY DEF becomes
<1>2. \A u \in Streams : stream'[u] = IF u = s THEN w.st ELSE stream[u]
  BY <1>1 DEF TrackInv, StreamTypes
<1> QED BY <1>1, <1>2 DEF Good, TrackInv

\* A step of the frame, and a step that tracks an event.
LEMMA FrameGood ==
  ASSUME NEW s \in Streams, NEW w, Good(w, s), NEW v, IsWorld(v), v.tr = w.tr,
         Tracked(v.st, w.tr.state[s], w.tr.context[s])
  PROVE  Good(v, s)
  BY DEF Good

AfterEvent(t, s, event) ==
  IF canUpdateState(t.state[s], event, t.context[s] = "streaming") THEN event ELSE t.state[s]

LEMMA EventGood ==
  ASSUME NEW s \in Streams, NEW w, Good(w, s), NEW event \in Events,
         NEW v, IsWorld(v), v.tr = trackEvent(w.tr, s, event),
         Tracked(v.st, AfterEvent(w.tr, s, event), w.tr.context[s])
  PROVE  Good(v, s)
<1>1. /\ IsTracker(v.tr) /\ v.tr.context = w.tr.context
      /\ v.tr.state[s] = AfterEvent(w.tr, s, event)
      /\ \A u \in Streams : u # s => v.tr.state[u] = w.tr.state[u]
  BY EventTracked DEF Good, AfterEvent
<1>2. ASSUME NEW u \in Streams
      PROVE  Tracked(IF u = s THEN v.st ELSE stream[u], v.tr.state[u], v.tr.context[u])
  BY <1>1 DEF Good
<1> QED BY <1>1, <1>2 DEF Good

LEMMA AfterAccepted ==
  ASSUME NEW t, NEW s, t.state[s] = "ACCEPTED", NEW event \in Events \ {"REQUESTED"}
  PROVE  AfterEvent(t, s, event) = "ACCEPTED"
  BY StaysAccepted DEF AfterEvent

LEMMA StartedTracked ==
  ASSUME NEW x, NEW y, x.phase = y.phase, x.running = y.running, x.stopped = y.stopped,
         x.started, ~y.started, Busy(y),
         NEW t, NEW s, Tracked(y, t.state[s], t.context[s])
  PROVE  Tracked(x, AfterEvent(t, s, "STREAM_STARTED"), t.context[s])
<1> DEFINE after == AfterEvent(t, s, "STREAM_STARTED")
<1>1. x.running # <<>> => Busy(x)
  BY DEF Tracked, Busy
<1>2. Begun(y) /\ Begun(x) /\ x.phase # "done"
  BY DEF Begun, Busy
<1>3. ASSUME ~x.stopped PROVE after \in Allowed(x) /\ HasContext(x, after, t.context[s])
  <2>1. /\ t.state[s] \in {"REQUESTED", "ACCEPTED"}
        /\ \/ t.context[s] = "streaming"
           \/ t.state[s] = "ACCEPTED" /\ t.context[s] # NoContext
    <3>1. ~y.stopped
      BY <1>3
    <3>2. t.state[s] \in Allowed(y) /\ HasContext(y, t.state[s], t.context[s])
      BY <3>1 DEF Tracked
    <3> QED BY <1>2, <3>2 DEF Allowed, HasContext
  <2>2. CASE t.state[s] = "ACCEPTED"
    <3>1. after = "ACCEPTED"
      BY <2>2, AfterAccepted DEF Events
    <3> QED BY <1>2, <2>1, <3>1 DEF Allowed, HasContext
  <2>3. CASE t.state[s] = "REQUESTED"
    <3>1. after = "STREAM_STARTED" /\ t.context[s] = "streaming"
      BY <2>1, <2>3, StreamingUpdates DEF AfterEvent, StreamStates
    <3> QED BY <1>2, <3>1 DEF Allowed, HasContext
  <2> QED BY <2>1, <2>2, <2>3
<1> QED BY <1>1, <1>3 DEF Tracked

LEMMA TrackEvents ==
  ASSUME NEW w, IsWorld(w), NEW s, NEW event
  PROVE  track(w, s, event).tr = trackEvent(w.tr, s, event)
<1> DEFINE t == trackEvent(w.tr, s, event)
<1>1. track(w, s, event) = [w EXCEPT !.tr = t]
  BY DEF track, IsWorld
<1> HIDE DEF t
<1>2. track(w, s, event).tr = t
  BY <1>1 DEF IsWorld
<1> QED BY <1>2 DEF t

LEMMA StartedGood ==
  ASSUME NEW s \in Streams, NEW w, Good(w, s), Busy(w.st)
  PROVE  Good(trackStreamStarted(w, s), s) /\ Busy(trackStreamStarted(w, s).st)
<1> DEFINE v == trackStreamStarted(w, s)
           u == track(w, s, "STREAM_STARTED")
<1>1. CASE w.st.started
  BY <1>1 DEF trackStreamStarted
<1>2. CASE ~w.st.started
  <2>1. v = [u EXCEPT !.st.started = TRUE]
    BY <1>2 DEF trackStreamStarted
  <2>2. IsWorld(w) /\ IsWorld(u) /\ u.st = w.st /\ u.tr = trackEvent(w.tr, s, "STREAM_STARTED")
    BY TrackKeeps, TrackEvents DEF Good
  <2> HIDE DEF u, v
  <2>3. IsWorld(v) /\ v.tr = u.tr
    BY <2>1, <2>2 DEF IsWorld, StreamRecord
  <2>4. /\ v.st.started /\ v.st.phase = w.st.phase
        /\ v.st.running = w.st.running /\ v.st.stopped = w.st.stopped
    BY <2>1, <2>2 DEF IsWorld, StreamRecord
  <2>5. Tracked(w.st, w.tr.state[s], w.tr.context[s])
    BY DEF Good
  <2>6. Tracked(v.st, AfterEvent(w.tr, s, "STREAM_STARTED"), w.tr.context[s])
    BY <1>2, <2>4, <2>5, StartedTracked
  <2>7. "STREAM_STARTED" \in Events
    BY DEF Events
  <2>8. Good(v, s)
    BY <2>2, <2>3, <2>6, <2>7, EventGood
  <2> QED BY <2>4, <2>8 DEF Busy, v
<1> QED BY <1>1, <1>2

LEMMA RunningGood ==
  ASSUME NEW s \in Streams, NEW w, Good(w, s), Busy(w.st),
         NEW step \in {"processing", "finishing"}
  PROVE  Good(running(w, step), s)
<1> DEFINE v == running(w, step)
<1>1. IsWorld(w) /\ Tracked(w.st, w.tr.state[s], w.tr.context[s])
  BY DEF Good
<1>2. IsWorld(v)
  BY <1>1, RunningKeeps
<1>3. /\ v.tr = w.tr /\ v.st.phase = w.st.phase /\ v.st.stopped = w.st.stopped
      /\ v.st.started = w.st.started
  BY <1>1 DEF running, IsWorld, StreamRecord
<1> HIDE DEF v
<1>4. Tracked(v.st, w.tr.state[s], w.tr.context[s])
  BY <1>1, <1>3 DEF Tracked, Busy, Allowed, HasContext, Begun
<1> QED BY <1>2, <1>3, <1>4, FrameGood DEF v

LEMMA HandlingGood ==
  ASSUME NEW s \in Streams, NEW w, Good(w, s), Busy(w.st)
  PROVE  Good(handleStreamNotification(w, s), s)
<1>1. CASE w.st.cancelled \/ breaker.open
  BY <1>1, RunningGood DEF handleStreamNotification
<1>2. CASE ~(w.st.cancelled \/ breaker.open)
  <2>1. Good(trackStreamStarted(w, s), s) /\ Busy(trackStreamStarted(w, s).st)
    BY StartedGood
  <2> QED BY <1>2, <2>1, RunningGood DEF handleStreamNotification
<1> QED BY <1>1, <1>2

LEMMA EnqueueGood ==
  ASSUME NEW s \in Streams, NEW w, Good(w, s), Busy(w.st)
  PROVE  Good(enqueue(w, s), s)
<1>1. CASE Len(w.st.running) < Concurrency
  BY <1>1, HandlingGood DEF enqueue
<1>2. CASE ~(Len(w.st.running) < Concurrency)
  <2> DEFINE v == enqueue(w, s)
  <2>1. v = [w EXCEPT !.st.waiting = @ + 1]
    BY <1>2 DEF enqueue
  <2>2. IsWorld(w) /\ Tracked(w.st, w.tr.state[s], w.tr.context[s])
    BY DEF Good
  <2> HIDE DEF v
  <2>3. IsWorld(v) /\ v.tr = w.tr /\ Same(v.st, w.st)
    BY <2>1, <2>2 DEF IsWorld, StreamRecord, Same
  <2>4. Tracked(v.st, w.tr.state[s], w.tr.context[s])
    BY <2>2, <2>3, SameTracked
  <2> QED BY <2>3, <2>4, FrameGood DEF v
<1> QED BY <1>1, <1>2

LEMMA HarmlessAfter ==
  ASSUME NEW t, IsTracker(t), NEW s \in Streams, NEW event \in Harmless,
         NEW st, Tracked(st, t.state[s], t.context[s])
  PROVE  Tracked(st, AfterEvent(t, s, event), t.context[s])
<1>1. t.context[s] \in Contexts
  BY StreamsAssumption DEF IsTracker
<1> QED BY <1>1, HarmlessEvents DEF AfterEvent

LEMMA ShownGood ==
  ASSUME NEW s \in Streams, NEW w, Good(w, s)
  PROVE  /\ Good(shownIfVisible(w, s), s)
         /\ shownIfVisible(w, s).st.phase = w.st.phase
<1> DEFINE v == track(w, s, "SHOWN")
           u == trackStreamShown(w, s)
           x == shownIfVisible(w, s)
<1>1. /\ IsWorld(w) /\ IsTracker(w.tr) /\ Tracked(w.st, w.tr.state[s], w.tr.context[s])
  BY DEF Good
<1>2. IsWorld(v) /\ v.st = w.st /\ v.tr = trackEvent(w.tr, s, "SHOWN")
  BY <1>1, TrackKeeps, TrackEvents
<1>3. u = IF w.st.shown THEN w ELSE [v EXCEPT !.st.shown = TRUE]
  BY DEF trackStreamShown
<1>4. x = IF w.st.buffer = 0 THEN w ELSE [u EXCEPT !.st.provided = TRUE]
  BY DEF shownIfVisible
<1> HIDE DEF v, u, x
<1>5. IsWorld(u) /\ Same(u.st, w.st)
  BY <1>1, <1>2, <1>3 DEF IsWorld, StreamRecord, Same
<1>6. Good(u, s)
  <2>1. CASE w.st.shown
    BY <1>3, <2>1
  <2>2. CASE ~w.st.shown
    <3>1. u.tr = trackEvent(w.tr, s, "SHOWN")
      BY <1>2, <1>3, <2>2 DEF IsWorld
    <3>2. "SHOWN" \in Harmless /\ "SHOWN" \in Events
      BY DEF Harmless, Events
    <3>3. Tracked(u.st, AfterEvent(w.tr, s, "SHOWN"), w.tr.context[s])
      BY <1>1, <1>5, <3>2, HarmlessAfter, SameTracked
    <3> QED BY <1>5, <3>1, <3>2, <3>3, EventGood
  <2> QED BY <2>1, <2>2
<1>7. CASE w.st.buffer = 0
  BY <1>4, <1>7 DEF x
<1>8. CASE w.st.buffer # 0
  <2>1. x = [u EXCEPT !.st.provided = TRUE]
    BY <1>4, <1>8
  <2>2. IsWorld(x) /\ x.tr = u.tr
    BY <1>5, <2>1 DEF IsWorld, StreamRecord
  <2>3. Same(x.st, u.st)
    BY <1>5, <2>1 DEF IsWorld, StreamRecord, Same
  <2>4. Tracked(x.st, u.tr.state[s], u.tr.context[s])
    BY <1>6, <2>3, SameTracked DEF Good
  <2>5. Good(x, s)
    BY <1>6, <2>2, <2>4, FrameGood
  <2> QED BY <1>5, <2>3, <2>5 DEF Same, x
<1> QED BY <1>7, <1>8

\* Of a stream that was stopped nothing is promised.
LEMMA StoppedTracked ==
  ASSUME NEW x, x.stopped, x.running # <<>> => Busy(x), NEW state, NEW context
  PROVE  Tracked(x, state, context)
  BY DEF Tracked

LEMMA ErrorGood ==
  ASSUME NEW s \in Streams, NEW w, Good(w, s), Busy(w.st)
  PROVE  /\ Good(handleError(w, s), s)
         /\ handleError(w, s).st.phase = w.st.phase /\ handleError(w, s).st.stopped
<1> DEFINE v == track(w, s, "ERRORED")
           u == handleError(w, s)
<1>1. IsWorld(w)
  BY DEF Good
<1>2. IsWorld(v) /\ v.st = w.st /\ v.tr = trackEvent(w.tr, s, "ERRORED")
  BY <1>1, TrackKeeps, TrackEvents
<1>3. u = [v EXCEPT !.st.stopped = TRUE]
  BY DEF handleError
<1> HIDE DEF v, u
<1>4. IsWorld(u) /\ u.tr = v.tr /\ u.st.stopped /\ u.st.phase = w.st.phase
  BY <1>1, <1>2, <1>3 DEF IsWorld, StreamRecord
<1>5. Tracked(u.st, AfterEvent(w.tr, s, "ERRORED"), w.tr.context[s])
  BY <1>4, StoppedTracked DEF Busy
<1>6. "ERRORED" \in Events
  BY DEF Events
<1>7. Good(u, s)
  BY <1>2, <1>4, <1>5, <1>6, EventGood
<1> QED BY <1>4, <1>7 DEF u

LEMMA CompletedTracked ==
  ASSUME NEW x, NEW y, y.phase = "ending", x.phase = "done", x.running = y.running,
         x.stopped = y.stopped, x.started = y.started,
         NEW t, NEW s, Tracked(y, t.state[s], t.context[s])
  PROVE  Tracked(x, AfterEvent(t, s, "STREAM_COMPLETED"), t.context[s])
<1> DEFINE after == AfterEvent(t, s, "STREAM_COMPLETED")
<1>1. x.running = <<>> /\ Begun(x) /\ Begun(y) /\ y.phase # "done"
  BY DEF Tracked, Busy, Begun
<1>2. "STREAM_COMPLETED" \in Events \ {"REQUESTED"}
  BY DEF Events
<1>3. ASSUME ~x.stopped PROVE after \in Allowed(x) /\ HasContext(x, after, t.context[s])
  <2>1. t.state[s] \in Allowed(y) /\ HasContext(y, t.state[s], t.context[s])
    BY <1>3 DEF Tracked
  <2>2. CASE t.state[s] = "ACCEPTED"
    <3>1. after = "ACCEPTED"
      BY <1>2, <2>2, AfterAccepted
    <3> QED BY <1>1, <2>1, <2>2, <3>1 DEF Allowed, HasContext
  <2>3. CASE t.state[s] # "ACCEPTED"
    <3>1. t.context[s] = "streaming" /\ t.state[s] \in StreamStates
      BY <1>1, <2>1, <2>3 DEF Allowed, HasContext, StreamStates
    <3>2. after = IF t.state[s] \in {"STREAM_STARTED", "SHOWN"}
                  THEN "STREAM_COMPLETED" ELSE t.state[s]
      BY <3>1, StreamingUpdates DEF AfterEvent
    <3>3. after \in Allowed(x)
      BY <1>1, <2>1, <3>2 DEF Allowed
    <3> QED BY <1>1, <3>1, <3>3 DEF HasContext
  <2> QED BY <2>2, <2>3
<1> QED BY <1>1, <1>3 DEF Tracked

-----------------------------------------------------------------------------
(* The actions again.                                                      *)

LEMMA CountedGood ==
  ASSUME TrackInv, NEW s \in Streams
  PROVE  Good(counted(s), s) /\ counted(s).st.phase = stream[s].phase
<1> DEFINE w == World(s)
           v == counted(s)
<1>1. Good(w, s) /\ w.st = stream[s]
  BY WorldGood
<1>2. v = [w EXCEPT !.st.items = @ + 1]
  BY DEF counted
<1> HIDE DEF v, w
<1>3. IsWorld(v) /\ v.tr = w.tr /\ Same(v.st, w.st)
  BY <1>1, <1>2 DEF Good, IsWorld, StreamRecord, Same
<1>4. Tracked(v.st, w.tr.state[s], w.tr.context[s])
  BY <1>1, <1>3, SameTracked DEF Good
<1>5. Good(v, s)
  BY <1>1, <1>3, <1>4, FrameGood
<1> QED BY <1>1, <1>3, <1>5 DEF Same, v

LEMMA BufferedGood ==
  ASSUME TrackInv, NEW s \in Streams, NEW visible \in {0, 1}
  PROVE  /\ Good([counted(s) EXCEPT !.st.buffer = @ + visible], s)
         /\ [counted(s) EXCEPT !.st.buffer = @ + visible].st.phase = stream[s].phase
<1> DEFINE w == counted(s)
           v == [w EXCEPT !.st.buffer = @ + visible]
<1>1. Good(w, s) /\ w.st.phase = stream[s].phase
  BY CountedGood
<1> HIDE DEF w
<1>2. IsWorld(v) /\ v.tr = w.tr /\ Same(v.st, w.st)
  <2>1. IsWorld(w) /\ w.st.buffer + visible \in Nat
    BY <1>1 DEF Good, IsWorld, StreamRecord
  <2> DEFINE b == w.st.buffer + visible
  <2>2. v = [w EXCEPT !.st.buffer = b]
    OBVIOUS
  <2> HIDE DEF v, b
  <2>3. IsWorld(v) /\ v.tr = w.tr
    BY <2>1, <2>2 DEF IsWorld, StreamRecord, b
  <2>4. Same(v.st, w.st)
    BY <2>1, <2>2 DEF IsWorld, StreamRecord, Same
  <2> QED BY <2>3, <2>4
<1> HIDE DEF v
<1>3. Tracked(v.st, w.tr.state[s], w.tr.context[s])
  BY <1>1, <1>2, SameTracked DEF Good
<1>4. Good(v, s)
  BY <1>1, <1>2, <1>3, FrameGood
<1> QED BY <1>1, <1>2, <1>4 DEF Same, v, w

\* A stream that nobody accepted or cancelled before has no context yet.
LEMMA StartStreamTracks ==
  ASSUME TrackInv, NEW s \in Streams, StartStream(s), StreamTypes'
  PROVE  TrackInv'
<1>1. PICK sse \in BOOLEAN :
        stream' = [stream EXCEPT ![s].phase = "streaming", ![s].sse = sse,
                                 ![s].cancellable = TRUE]
  BY DEF StartStream
<1> DEFINE x == [stream[s] EXCEPT !.phase = "streaming", !.sse = sse, !.cancellable = TRUE]
<1>2. /\ stream[s] \in StreamRecord /\ stream[s].phase = "scheduled"
      /\ IsTracker(tracker) /\ Tracked(stream[s], tracker.state[s], tracker.context[s])
  BY DEF TrackInv, StreamTypes, StartStream
<1>3. \A u \in Streams : stream'[u] = IF u = s THEN x ELSE stream[u]
  BY <1>1 DEF TrackInv, StreamTypes, StreamRecord
<1>4. /\ x.phase = "streaming" /\ x.running = stream[s].running
      /\ x.stopped = stream[s].stopped /\ x.started = stream[s].started
  BY <1>2 DEF StreamRecord
<1> HIDE DEF x
<1> DEFINE r == setTrackingContext(tracker, s, TRUE, FALSE)
<1>5. /\ IsTracker(r)
      /\ tracker.context[s] # NoContext => r = tracker
      /\ tracker.context[s] = NoContext => r.state[s] = "REQUESTED" /\ r.context[s] = "streaming"
  BY <1>2, ContextSet
<1>6. ASSUME NEW u \in Streams, u # s PROVE Tracked(stream[u], r.state[u], r.context[u])
  BY <1>2, <1>6, ContextSet DEF TrackInv
<1>7. tracker' = r
  BY DEF StartStream
<1> HIDE DEF r
<1>8. ~Begun(stream[s]) /\ Begun(x) /\ x.running = <<>> /\ x.phase # "done"
  BY <1>2, <1>4 DEF Begun, Tracked, Busy
<1>9. Tracked(x, r.state[s], r.context[s])
  <2>1. SUFFICES ASSUME ~x.stopped
                 PROVE  r.state[s] \in Allowed(x) /\ HasContext(x, r.state[s], r.context[s])
    BY <1>8 DEF Tracked
  <2>2. HasContext(stream[s], tracker.state[s], tracker.context[s])
    BY <1>2, <1>4, <2>1 DEF Tracked
  <2>3. CASE tracker.context[s] = NoContext
    <3>1. ~x.started
      BY <1>4, <1>8, <2>2, <2>3 DEF HasContext
    <3> QED BY <1>5, <1>8, <2>3, <3>1 DEF Allowed, HasContext
  <2>4. CASE tracker.context[s] # NoContext
    <3>1. tracker.state[s] = "ACCEPTED" /\ r = tracker
      BY <1>5, <1>8, <2>2, <2>4 DEF HasContext
    <3> QED BY <1>8, <2>4, <3>1 DEF Allowed, HasContext
  <2> QED BY <2>3, <2>4
<1>10. ASSUME NEW u \in Streams PROVE Tracked(stream'[u], tracker'.state[u], tracker'.context[u])
  BY <1>3, <1>6, <1>7, <1>9
<1> QED BY <1>5, <1>7, <1>10 DEF TrackInv

LEMMA StreamStartEventTracks ==
  ASSUME TrackInv, NEW s \in Streams, StreamStartEvent(s), StreamTypes'
  PROVE  TrackInv'
<1> DEFINE w == counted(s)
           r == setTrackingContext(w.tr, s, FALSE, FALSE)
           v == [w EXCEPT !.tr = r]
<1>1. Good(w, s) /\ w.st.phase = "streaming"
  BY CountedGood DEF StreamStartEvent, nextItem
<1>2. becomes(s, enqueue(v, s))
  BY DEF StreamStartEvent
<1> HIDE DEF w
<1>3. IsWorld(w) /\ IsTracker(w.tr) /\ Tracked(w.st, w.tr.state[s], w.tr.context[s])
  BY <1>1 DEF Good
<1>4. /\ IsTracker(r)
      /\ w.tr.context[s] # NoContext => r = w.tr
      /\ \A u \in Streams : u # s => Tracked(stream[u], r.state[u], r.context[u])
  BY <1>1, <1>3, ContextSet DEF Good
<1> HIDE DEF r
<1>5. IsWorld(v) /\ v.st = w.st /\ v.tr = r
  BY <1>3 DEF IsWorld
<1> HIDE DEF v
<1>6. Busy(w.st) /\ Begun(w.st)
  BY <1>1 DEF Busy, Begun
<1>7. Tracked(w.st, r.state[s], r.context[s])
  <2>1. CASE w.tr.context[s] # NoContext
    BY <1>3, <1>4, <2>1
  <2>2. CASE w.tr.context[s] = NoContext
    <3>1. w.st.stopped
      BY <1>3, <1>6, <2>2 DEF Tracked, HasContext, NoContext
    <3> QED BY <1>6, <3>1, StoppedTracked
  <2> QED BY <2>1, <2>2
<1>8. Good(v, s) /\ Busy(v.st)
  BY <1>4, <1>5, <1>6, <1>7 DEF Good
<1>9. Good(enqueue(v, s), s)
  BY <1>8, EnqueueGood
<1> QED BY <1>2, <1>9, BecomesGood

LEMMA ContentChunkEventTracks ==
  ASSUME TrackInv, NEW s \in Streams, ContentChunkEvent(s), StreamTypes'
  PROVE  TrackInv'
<1>1. PICK visible \in {0, 1} :
        becomes(s, enqueue(shownIfVisible([counted(s) EXCEPT !.st.buffer = @ + visible], s), s))
  BY DEF ContentChunkEvent
<1> DEFINE w == [counted(s) EXCEPT !.st.buffer = @ + visible]
           v == shownIfVisible(w, s)
<1>2. Good(w, s) /\ w.st.phase = "streaming"
  BY BufferedGood DEF ContentChunkEvent, nextItem
<1>3. becomes(s, enqueue(v, s))
  BY <1>1
<1> HIDE DEF w
<1>4. Good(v, s) /\ v.st.phase = "streaming"
  BY <1>2, ShownGood
<1> HIDE DEF v
<1>5. Good(enqueue(v, s), s)
  BY <1>4, EnqueueGood DEF Busy
<1> QED BY <1>3, <1>5, BecomesGood

LEMMA StreamEndEventTracks ==
  ASSUME TrackInv, NEW s \in Streams, StreamEndEvent(s), StreamTypes'
  PROVE  TrackInv'
<1> DEFINE w == counted(s)
           v == [w EXCEPT !.st.provided = TRUE]
<1>1. Good(w, s) /\ w.st.phase = "streaming"
  BY CountedGood DEF StreamEndEvent, nextItem
<1>2. becomes(s, enqueue(v, s))
  BY DEF StreamEndEvent
<1> HIDE DEF w
<1>3. IsWorld(v) /\ v.tr = w.tr /\ Same(v.st, w.st)
  BY <1>1 DEF Good, IsWorld, StreamRecord, Same
<1> HIDE DEF v
<1>4. Tracked(v.st, w.tr.state[s], w.tr.context[s])
  BY <1>1, <1>3, SameTracked DEF Good
<1>5. Good(v, s) /\ Busy(v.st)
  BY <1>1, <1>3, <1>4, FrameGood DEF Same, Busy
<1> QED BY <1>2, <1>5, EnqueueGood, BecomesGood

LEMMA MalformedEventTracks ==
  ASSUME TrackInv, NEW s \in Streams, MalformedEvent(s), StreamTypes'
  PROVE  TrackInv'
<1>1. Good(counted(s), s) /\ Busy(counted(s).st)
  BY CountedGood DEF MalformedEvent, nextItem, Busy
<1>2. Good(handleError(counted(s), s), s) /\ becomes(s, handleError(counted(s), s))
  BY <1>1, ErrorGood DEF MalformedEvent
<1> QED BY <1>2, BecomesGood

LEMMA LegacyItemTracks ==
  ASSUME TrackInv, NEW s \in Streams, LegacyItem(s), StreamTypes'
  PROVE  TrackInv'
<1>1. PICK visible \in {0, 1} :
        becomes(s, handleStreamNotification([counted(s) EXCEPT !.st.buffer = @ + visible], s))
  BY DEF LegacyItem
<1> DEFINE w == [counted(s) EXCEPT !.st.buffer = @ + visible]
<1>2. Good(w, s) /\ w.st.phase = "streaming"
  BY BufferedGood DEF LegacyItem, nextItem
<1>3. becomes(s, handleStreamNotification(w, s))
  BY <1>1
<1> HIDE DEF w
<1>4. Good(handleStreamNotification(w, s), s)
  BY <1>2, HandlingGood DEF Busy
<1> QED BY <1>3, <1>4, BecomesGood

\* An action that leaves the tracker alone.
LEMMA FrameTracks ==
  ASSUME TrackInv, StreamTypes', NEW s \in Streams, NEW x,
         stream' = [stream EXCEPT ![s] = x], UNCHANGED tracker,
         Tracked(x, tracker.state[s], tracker.context[s])
  PROVE  TrackInv'
<1>1. \A u \in Streams : stream'[u] = IF u = s THEN x ELSE stream[u]
  BY DEF TrackInv, StreamTypes
<1>2. ASSUME NEW u \in Streams PROVE Tracked(stream'[u], tracker'.state[u], tracker'.context[u])
  BY <1>1 DEF TrackInv
<1> QED BY <1>2 DEF TrackInv

LEMMA PhaseTracks ==
  ASSUME TrackInv, StreamTypes', NEW s \in Streams, NEW phase,
         stream' = [stream EXCEPT ![s].phase = phase], UNCHANGED tracker,
         \/ stream[s].phase = "none" /\ phase = "scheduled"
         \/ stream[s].phase = "streaming" /\ phase = "draining"
         \/ stream[s].phase = "draining" /\ phase = "ending" /\ stream[s].running = <<>>
  PROVE  TrackInv'
<1> DEFINE x == [stream[s] EXCEPT !.phase = phase]
<1>1. stream[s] \in StreamRecord
  BY DEF TrackInv, StreamTypes
<1>2. /\ x.phase = phase /\ x.running = stream[s].running
      /\ x.stopped = stream[s].stopped /\ x.started = stream[s].started
  BY <1>1 DEF StreamRecord
<1>3. stream' = [stream EXCEPT ![s] = x]
  BY DEF TrackInv, StreamTypes
<1> HIDE DEF x
<1>4. Tracked(stream[s], tracker.state[s], tracker.context[s])
  BY DEF TrackInv
<1>5. Tracked(x, tracker.state[s], tracker.context[s])
  BY <1>2, <1>4 DEF Tracked, Busy, Allowed, HasContext, Begun
<1> QED BY <1>3, <1>5, FrameTracks

LEMMA PostProcessedTracks ==
  ASSUME StreamInv, TrackInv, NEW s \in Streams, PostProcessed(s), StreamTypes'
  PROVE  TrackInv'
<1> DEFINE q == stream[s].running
<1>1. PICK i \in DOMAIN q : stream' = [stream EXCEPT ![s].running[i].step = "finishing"]
  BY DEF PostProcessed
<1> DEFINE r == [q EXCEPT ![i].step = "finishing"]
           x == [stream[s] EXCEPT !.running = r]
<1>2. stream[s] \in StreamRecord /\ q # <<>>
  BY <1>1 DEF TrackInv, StreamTypes
<1>3. stream' = [stream EXCEPT ![s] = x]
  BY <1>1, <1>2 DEF TrackInv, StreamTypes, StreamRecord
<1> HIDE DEF r
<1>4. /\ x.phase = stream[s].phase /\ x.stopped = stream[s].stopped
      /\ x.started = stream[s].started
  BY <1>2 DEF StreamRecord
<1> HIDE DEF x
<1>5. Tracked(stream[s], tracker.state[s], tracker.context[s])
  BY DEF TrackInv
<1>6. Tracked(x, tracker.state[s], tracker.context[s])
  BY <1>2, <1>4, <1>5 DEF Tracked, Busy, Allowed, HasContext, Begun
<1>7. UNCHANGED tracker
  BY DEF PostProcessed
<1> QED BY <1>3, <1>6, <1>7, FrameTracks

LEMMA NotificationHandledTracks ==
  ASSUME StreamInv, TrackInv, NEW s \in Streams, NotificationHandled(s), StreamTypes'
  PROVE  TrackInv'
<1> DEFINE q == stream[s].running
           v == World(s)
<1>1. PICK i \in DOMAIN q :
        LET w == [v EXCEPT !.st.running = RemoveAt(@, i)]
            next == IF w.st.waiting = 0 THEN w
                    ELSE handleStreamNotification([w EXCEPT !.st.waiting = @ - 1], s)
        IN  becomes(s, IF stream[s].sse THEN next
                       ELSE IF stream[s].stopped THEN w ELSE shownIfVisible(w, s))
  BY DEF NotificationHandled
<1> DEFINE w == [v EXCEPT !.st.running = RemoveAt(@, i)]
           u == [w EXCEPT !.st.waiting = @ - 1]
           next == IF w.st.waiting = 0 THEN w ELSE handleStreamNotification(u, s)
<1>2. becomes(s, IF stream[s].sse THEN next
                 ELSE IF stream[s].stopped THEN w ELSE shownIfVisible(w, s))
  BY <1>1
<1>3. Good(v, s) /\ v.st = stream[s] /\ IsWorld(v)
  BY WorldGood DEF Good
<1> HIDE DEF v
<1>4. stream[s] \in StreamRecord /\ InStep(stream[s], client[s])
  BY DEF StreamInv, StreamTypes
<1>5. RemoveAt(q, i) = <<>> /\ q # <<>>
  <2>1. q \in Seq(Task) /\ Len(q) <= 1
    BY <1>4 DEF StreamRecord, InStep, OneAtATime
  <2> QED BY <2>1, OneTask
<1>6. w = [v EXCEPT !.st.running = <<>>]
  BY <1>3, <1>5
<1> HIDE DEF w
<1>7. /\ w.st.phase = v.st.phase /\ w.st.stopped = v.st.stopped
      /\ w.st.started = v.st.started /\ w.st.running = <<>>
  BY <1>3, <1>6 DEF IsWorld, StreamRecord
<1>8. IsWorld(w) /\ w.tr = v.tr
  <2>1. <<>> \in Seq(Task)
    OBVIOUS
  <2> QED BY <1>3, <1>6, <2>1 DEF IsWorld, StreamRecord
<1>9. Tracked(v.st, v.tr.state[s], v.tr.context[s])
  BY <1>3 DEF Good
<1>10. Busy(w.st)
  BY <1>3, <1>5, <1>7, <1>9 DEF Tracked, Busy
<1>11. Tracked(w.st, v.tr.state[s], v.tr.context[s])
  BY <1>7, <1>9 DEF Tracked, Busy, Allowed, HasContext, Begun
<1>12. Good(w, s)
  BY <1>3, <1>8, <1>11, FrameGood
<1>13. IsWorld(u) /\ u.tr = w.tr /\ Same(u.st, w.st)
  BY <1>8 DEF IsWorld, StreamRecord, Same
<1> HIDE DEF u
<1>14. Tracked(u.st, w.tr.state[s], w.tr.context[s])
  BY <1>12, <1>13, SameTracked DEF Good
<1>15. Good(u, s) /\ Busy(u.st)
  BY <1>10, <1>12, <1>13, <1>14, FrameGood DEF Same, Busy
<1>16. Good(next, s)
  BY <1>12, <1>15, HandlingGood
<1> HIDE DEF next
<1>17. Good(shownIfVisible(w, s), s)
  BY <1>12, ShownGood
<1>18. CASE stream[s].sse
  BY <1>2, <1>16, <1>18, BecomesGood
<1>19. CASE ~stream[s].sse /\ stream[s].stopped
  BY <1>2, <1>12, <1>19, BecomesGood
<1>20. CASE ~stream[s].sse /\ ~stream[s].stopped
  BY <1>2, <1>17, <1>20, BecomesGood
<1> QED BY <1>18, <1>19, <1>20

LEMMA StreamFailsTracks ==
  ASSUME TrackInv, NEW s \in Streams, StreamFails(s), StreamTypes'
  PROVE  TrackInv'
<1> DEFINE w == World(s)
           v == handleError(w, s)
           u == [v EXCEPT !.st.phase = "draining"]
<1>1. Good(w, s) /\ w.st.phase = "streaming"
  BY WorldGood DEF StreamFails, awaitsItem
<1>2. becomes(s, u)
  BY DEF StreamFails
<1> HIDE DEF w
<1>3. Good(v, s) /\ v.st.stopped /\ IsWorld(v)
  BY <1>1, ErrorGood DEF Busy, Good
<1> HIDE DEF v
<1>4. IsWorld(u) /\ u.tr = v.tr
  BY <1>3 DEF IsWorld, StreamRecord, Phases
<1>5. u.st.phase = "draining" /\ u.st.stopped
  BY <1>3 DEF IsWorld, StreamRecord
<1> HIDE DEF u
<1>6. Tracked(u.st, v.tr.state[s], v.tr.context[s])
  BY <1>5, StoppedTracked DEF Busy
<1>7. Good(u, s)
  BY <1>3, <1>4, <1>6, FrameGood
<1> QED BY <1>2, <1>7, BecomesGood

LEMMA StreamEndedTracks ==
  ASSUME TrackInv, NEW s \in Streams, StreamEnded(s), StreamTypes'
  PROVE  TrackInv'
<1> DEFINE w == World(s)
           completed == track(w, s, "STREAM_COMPLETED")
           provided == track(completed, s, "NOT_PROVIDED")
           v == complete(w, s)
           u == [v EXCEPT !.st.phase = "done", !.st.cancellable = FALSE]
<1>1. Good(w, s) /\ w.st.phase = "ending"
  BY WorldGood DEF StreamEnded
<1>2. becomes(s, u)
  BY DEF StreamEnded
<1>3. v = IF w.st.stopped THEN w ELSE IF w.st.provided THEN completed ELSE provided
  BY DEF complete
<1> HIDE DEF w
<1>4. IsWorld(w) /\ Tracked(w.st, w.tr.state[s], w.tr.context[s])
  BY <1>1 DEF Good
<1>5. /\ IsWorld(completed) /\ completed.tr = trackEvent(w.tr, s, "STREAM_COMPLETED")
      /\ completed.st = w.st
  BY <1>4, TrackKeeps, TrackEvents
<1> HIDE DEF completed
<1>6. /\ IsWorld(provided) /\ provided.tr = trackEvent(completed.tr, s, "NOT_PROVIDED")
      /\ provided.st = w.st
  BY <1>5, TrackKeeps, TrackEvents
<1> HIDE DEF provided
<1>7. IsWorld(v) /\ v.st = w.st
  BY <1>3, <1>4, <1>5, <1>6
<1> HIDE DEF v
<1>8. IsWorld(u) /\ u.tr = v.tr
  BY <1>7 DEF IsWorld, StreamRecord, Phases
<1>9. /\ u.st.phase = "done" /\ u.st.running = w.st.running /\ u.st.stopped = w.st.stopped
      /\ u.st.started = w.st.started
  BY <1>7 DEF IsWorld, StreamRecord
<1> HIDE DEF u
<1>10. Good(u, s)
  <2>1. CASE w.st.stopped
    <3>1. Tracked(u.st, w.tr.state[s], w.tr.context[s])
      BY <1>1, <1>4, <1>9, <2>1 DEF Tracked, Busy
    <3> QED BY <1>1, <1>3, <1>8, <2>1, <3>1, FrameGood
  <2>2. CASE ~w.st.stopped
    <3> DEFINE x == [st |-> u.st, tr |-> completed.tr]
    <3>1. IsWorld(x) /\ x.tr = completed.tr /\ x.st = u.st
      BY <1>8 DEF IsWorld
    <3>2. Tracked(u.st, AfterEvent(w.tr, s, "STREAM_COMPLETED"), w.tr.context[s])
      BY <1>1, <1>4, <1>9, CompletedTracked
    <3>3. "STREAM_COMPLETED" \in Events /\ "NOT_PROVIDED" \in Events
          /\ "NOT_PROVIDED" \in Harmless
      BY DEF Events, Harmless
    <3> HIDE DEF x
    <3>4. Good(x, s)
      BY <1>1, <1>5, <3>1, <3>2, <3>3, EventGood
    <3>5. CASE w.st.provided
      <4>1. u.tr = completed.tr
        BY <1>3, <1>8, <2>2, <3>5
      <4>2. Tracked(u.st, x.tr.state[s], x.tr.context[s])
        BY <3>1, <3>4 DEF Good
      <4> QED BY <1>8, <3>1, <3>4, <4>1, <4>2, FrameGood
    <3>6. CASE ~w.st.provided
      <4>1. u.tr = trackEvent(x.tr, s, "NOT_PROVIDED")
        BY <1>3, <1>6, <1>8, <2>2, <3>1, <3>6
      <4>2. IsTracker(x.tr) /\ Tracked(u.st, x.tr.state[s], x.tr.context[s])
        BY <3>1, <3>4 DEF Good
      <4>3. Tracked(u.st, AfterEvent(x.tr, s, "NOT_PROVIDED"), x.tr.context[s])
        BY <3>3, <4>2, HarmlessAfter
      <4> QED BY <1>8, <3>3, <3>4, <4>1, <4>3, EventGood
    <3> QED BY <3>5, <3>6
  <2> QED BY <2>1, <2>2
<1> QED BY <1>2, <1>10, BecomesGood

LEMMA CancelTracks ==
  ASSUME TrackInv, NEW s \in Streams, Cancel(s), StreamTypes'
  PROVE  TrackInv'
<1> DEFINE w == World(s)
           event == IF stream[s].shown THEN "REJECTED" ELSE "CANCELLED"
           v == track(w, s, event)
           u == [v EXCEPT !.st.cancelled = TRUE, !.st.stopped = TRUE]
<1>1. Good(w, s)
  BY WorldGood
<1>2. becomes(s, u) /\ event \in Events
  BY DEF Cancel, Events
<1> HIDE DEF w, event
<1>3. IsWorld(w) /\ Tracked(w.st, w.tr.state[s], w.tr.context[s])
  BY <1>1 DEF Good
<1>4. IsWorld(v) /\ v.st = w.st /\ v.tr = trackEvent(w.tr, s, event)
  BY <1>3, TrackKeeps, TrackEvents
<1> HIDE DEF v
<1>5. IsWorld(u) /\ u.tr = v.tr
  BY <1>4 DEF IsWorld, StreamRecord
<1>6. u.st.phase = w.st.phase /\ u.st.running = w.st.running /\ u.st.stopped
  BY <1>4 DEF IsWorld, StreamRecord
<1> HIDE DEF u
<1>7. Tracked(u.st, AfterEvent(w.tr, s, event), w.tr.context[s])
  BY <1>3, <1>6 DEF Tracked, Busy
<1>8. Good(u, s)
  BY <1>1, <1>2, <1>4, <1>5, <1>7, EventGood
<1> QED BY <1>2, <1>8, BecomesGood

LEMMA ClientTracksTracks ==
  ASSUME NoClientCancels, TrackInv, NEW s \in Streams, ClientTracks(s), StreamTypes'
  PROVE  TrackInv'
<1>1. PICK event \in ClientActions, namesOption \in BOOLEAN :
        tracker' = clientTracks(tracker, s, event, namesOption)
  BY DEF ClientTracks
<1>2. UNCHANGED stream
  BY DEF ClientTracks
<1>3. IsTracker(tracker')
  BY <1>1, ClientEventTracked DEF TrackInv
<1>4. ASSUME NEW u \in Streams PROVE Tracked(stream'[u], tracker'.state[u], tracker'.context[u])
  BY <1>1, <1>2, ClientEventTracked DEF TrackInv
<1> QED BY <1>3, <1>4 DEF TrackInv

LEMMA TrackStep ==
  ASSUME NoClientCancels, StreamInv, StreamInv', TrackInv, [Next]_vars
  PROVE  TrackInv'
<1>1. StreamTypes'
  BY DEF StreamInv
<1>2. CASE UNCHANGED <<stream, tracker>>
  BY <1>1, <1>2 DEF TrackInv
<1>3. ASSUME NEW s \in Streams, Request(s) PROVE TrackInv'
  BY <1>1, <1>3, PhaseTracks DEF Request
<1>4. ASSUME NEW s \in Streams, ServerItem(s) PROVE TrackInv'
  BY <1>1, <1>4, StreamStartEventTracks, ContentChunkEventTracks, StreamEndEventTracks,
     MalformedEventTracks, LegacyItemTracks DEF ServerItem
<1>5. ASSUME NEW s \in Streams, StreamOver(s) PROVE TrackInv'
  BY <1>1, <1>5, PhaseTracks DEF StreamOver, awaitsItem
<1>6. ASSUME NEW s \in Streams, QueueIdle(s) PROVE TrackInv'
  BY <1>1, <1>6, PhaseTracks DEF QueueIdle
<1>7. CASE OtherRequestFails \/ OtherRequestSucceeds \/ BreakTimeOver
  BY <1>2, <1>7 DEF OtherRequestFails, OtherRequestSucceeds, BreakTimeOver
<1>8. CASE UNCHANGED vars
  BY <1>2, <1>8 DEF vars
<1> QED BY <1>1, <1>3, <1>4, <1>5, <1>6, <1>7, <1>8, StartStreamTracks, PostProcessedTracks,
           NotificationHandledTracks, StreamFailsTracks, StreamEndedTracks, CancelTracks,
           ClientTracksTracks DEF Next

\* trackEvent ignores what the state graph forbids: a stream that ran to its
\* end, was started and was not stopped has been tracked as completed or as
\* what came of it, however many other suggestions the client opens and ends
\* meanwhile, unless the client itself may report cancellations.
THEOREM CompletionIsTrackedCorrect ==
  ASSUME NoClientCancels
  PROVE  Spec => []CompletionIsTracked
<1>1. Init => TrackInv
  BY TrackInitInv
<1>2. StreamInv /\ StreamInv' /\ TrackInv /\ [Next]_vars => TrackInv'
  BY TrackStep
<1>3. TrackInv => CompletionIsTracked
  BY DEF TrackInv, Tracked, Allowed, Begun, CompletionIsTracked
<1> QED BY <1>1, <1>2, <1>3, StreamsInStep, PTL DEF Spec

-----------------------------------------------------------------------------
(* The cache.  What is offered is the rest of a text after what was typed  *)
(* along; the options keep the order of the suggestions that fit.          *)

CacheEntries ==
  \A k \in DOMAIN cache : /\ cache[k].currentLine \in Seq(Characters)
                          /\ cache[k].suggestions \in Seq(Seq(Characters))

\* Among numbers there is a smallest one: the intervals up to them are finite sets.
LEMMA SmallestOf ==
  ASSUME NEW T, T \subseteq Nat, T # {}
  PROVE  \E x \in T : \A y \in T : ~(y < x)
<1> DEFINE upTo(k) == 1 .. k
           R == StrictSubsetOrdering(Nat)
<1>1. \A k \in T : upTo(k) \in FiniteSubsetsOf(Nat)
  BY FS_Interval DEF FiniteSubsetsOf
<1>2. IsWellFoundedOn(R, FiniteSubsetsOf(Nat))
  BY FS_StrictSubsetOrderingWellFounded
<1>3. {upTo(k) : k \in T} \subseteq FiniteSubsetsOf(Nat) /\ {upTo(k) : k \in T} # {}
  BY <1>1
<1>4. PICK u \in {upTo(k) : k \in T} : \A v \in {upTo(k) : k \in T} : <<v, u>> \notin R
  <2> HIDE DEF upTo, R
  <2> QED
    BY <1>2, <1>3, WFMin
<1>5. PICK x \in T : u = upTo(x)
  BY <1>4
<1>6. ASSUME NEW y \in T, y < x PROVE FALSE
  <2>1. <<upTo(y), upTo(x)>> \in R
    BY <1>6 DEF StrictSubsetOrdering
  <2> QED
    BY <1>4, <1>5, <2>1
<1> QED
  BY <1>6

\* The i-th index is one of them: the first up to which there are i.
LEMMA NthIsOne ==
  ASSUME NEW last \in Nat, NEW indices, indices \subseteq 1 .. last,
         NEW i \in 1 .. Cardinality(indices)
  PROVE  nth(indices, i) \in indices
<1> DEFINE upTo(n) == indices \cap (1 .. n)
           T == {n \in Nat : Cardinality(upTo(n)) >= i}
<1>1. \A n \in Nat : IsFiniteSet(upTo(n)) /\ Cardinality(upTo(n)) \in Nat
  <2>1. IsFiniteSet(indices)
    <3>1. IsFiniteSet(1 .. last)
      BY FS_Interval
    <3> QED
      BY <3>1, FS_Subset
  <2> QED
    BY <2>1, FS_Subset, FS_CardinalityType
<1>2. upTo(last) = indices
  OBVIOUS
<1>3. PICK n \in T : \A m \in T : ~(m < n)
  <2>1. last \in T
    BY <1>1, <1>2
  <2> HIDE DEF T
  <2>2. T \subseteq Nat
    BY DEF T
  <2> QED
    BY <2>1, <2>2, SmallestOf
<1>4. n # 0
  <2> SUFFICES ASSUME n = 0 PROVE FALSE
    OBVIOUS
  <2>1. upTo(0) = {}
    OBVIOUS
  <2> QED
    BY <1>3, <2>1, FS_EmptySet
<1>5. Cardinality(upTo(n - 1)) < i
  <2>1. n - 1 \in Nat /\ n - 1 < n
    BY <1>3, <1>4
  <2>2. n - 1 \notin T
    BY <1>3, <2>1
  <2> HIDE DEF upTo
  <2> QED
    BY <1>1, <2>1, <2>2
<1>6. n \in indices
  <2> SUFFICES ASSUME n \notin indices PROVE FALSE
    OBVIOUS
  <2>1. upTo(n) = upTo(n - 1)
    BY <1>3, <1>4
  <2> HIDE DEF upTo
  <2> QED
    BY <1>1, <1>3, <1>4, <1>5, <2>1
<1>7. Cardinality(upTo(n)) = i
  <2>1. upTo(n) = upTo(n - 1) \cup {n} /\ n \notin upTo(n - 1)
    BY <1>3, <1>4, <1>6
  <2>2. n - 1 \in Nat
    BY <1>3, <1>4
  <2>3. Cardinality(upTo(n)) = Cardinality(upTo(n - 1)) + 1
    <3> HIDE DEF upTo
    <3> QED
      BY <1>1, <2>1, <2>2, FS_AddElement
  <2> HIDE DEF upTo
  <2> QED
    BY <1>1, <1>3, <1>5, <2>2, <2>3
<1> QED
  BY <1>6, <1>7 DEF nth

LEMMA TwoPartsMake ==
  ASSUME NEW S, NEW front \in Seq(S), NEW back \in Seq(S), NEW whole \in Seq(S),
         Len(whole) = Len(front) + Len(back),
         \A i \in 1 .. Len(front) : whole[i] = front[i],
         \A i \in 1 .. Len(back) : whole[Len(front) + i] = back[i]
  PROVE  front \o back = whole
<1>1. /\ front \o back \in Seq(S) /\ Len(front \o back) = Len(whole)
      /\ \A i \in 1 .. Len(whole) :
           (front \o back)[i] = IF i <= Len(front) THEN front[i] ELSE back[i - Len(front)]
  BY ConcatProperties
<1>2. Len(front) \in Nat /\ Len(back) \in Nat /\ Len(whole) \in Nat
  OBVIOUS
<1>3. ASSUME NEW i \in 1 .. Len(whole) PROVE (front \o back)[i] = whole[i]
  <2>1. CASE i <= Len(front)
    BY <1>1, <1>2, <2>1
  <2>2. CASE ~(i <= Len(front))
    <3>1. i - Len(front) \in 1 .. Len(back) /\ Len(front) + (i - Len(front)) = i
      BY <1>2, <2>2
    <3> QED
      BY <1>1, <2>2, <3>1
  <2> QED
    BY <2>1, <2>2
<1> QED
  BY <1>1, <1>3, SeqEqual

\* What completes a line that is typed along gives the suggestion.
LEMMA RestCompletes ==
  ASSUME NEW known \in Seq(Characters), NEW text \in Seq(Characters),
         NEW diff \in Nat, diff < Len(text)
  PROVE  LET rest == SubSeq(text, diff + 1, Len(text))
         IN  rest # <<>> /\ (known \o SubSeq(text, 1, diff)) \o rest = known \o text
<1> DEFINE typed == SubSeq(text, 1, diff)
           rest == SubSeq(text, diff + 1, Len(text))
<1>1. typed \in Seq(Characters) /\ rest \in Seq(Characters)
  OBVIOUS
<1>2. Len(typed) = diff /\ Len(rest) = Len(text) - diff /\ Len(text) \in Nat
  OBVIOUS
<1>3. /\ \A i \in 1 .. diff : text[i] = typed[i]
      /\ \A i \in 1 .. Len(text) - diff : text[diff + i] = rest[i]
  OBVIOUS
<1> HIDE DEF typed, rest
<1>4. typed \o rest = text
  <2>1. /\ Len(text) = Len(typed) + Len(rest)
        /\ \A i \in 1 .. Len(typed) : text[i] = typed[i]
        /\ \A i \in 1 .. Len(rest) : text[Len(typed) + i] = rest[i]
    BY <1>2, <1>3
  <2> QED
    BY <1>1, <2>1, TwoPartsMake, Zenon
<1>5. (known \o typed) \o rest = known \o text
  <2>1. (known \o typed) \o rest = known \o (typed \o rest)
    <3>1. known \in Seq(Characters)
      OBVIOUS
    <3> QED
      BY <1>1, <3>1, ConcatAssociative, SMT
  <2> QED
    BY <2>1, <1>4
<1>6. rest # <<>>
  BY <1>2
<1> QED
  BY <1>5, <1>6 DEF typed, rest

LEMMA EntriesAreKept ==
  ASSUME CacheEntries, [CacheNext]_cacheVars
  PROVE  CacheEntries'
<1>1. ASSUME NEW place \in Places, NEW line \in Lines, GetCached(place, line)
      PROVE  CacheEntries'
  BY <1>1 DEF CacheEntries, GetCached, afterRetrieval, delete, Restrict
<1>2. ASSUME NEW place \in Places, NEW line \in Lines, NEW texts \in Responses,
             AddToCache(place, line, texts)
      PROVE  CacheEntries'
  BY <1>2, TextsAssumption DEF CacheEntries, AddToCache, addToSuggestionCache, Entry
<1>3. ASSUME NEW k \in DOMAIN cache, ExpireEntry(k)
      PROVE  CacheEntries'
  BY <1>3 DEF CacheEntries, ExpireEntry, delete, Restrict
<1>4. CASE SwitchCache \/ UNCHANGED cacheVars
  BY <1>4 DEF CacheEntries, SwitchCache, cacheVars
<1> QED
  BY <1>1, <1>2, <1>3, <1>4 DEF CacheNext

\* However lines, responses, retrievals and expiries follow each other: an offered
\* option completes the line to a suggestion for this place, with something.
THEOREM OffersCompleteTheSuggestionCorrect == CacheSpec => OffersCompleteTheSuggestion
<1>1. CacheInit => CacheEntries
  BY DEF CacheInit, NoEntries, CacheEntries
<1>2. ASSUME CacheEntries, NEW place \in Places, NEW line \in Lines, GetCached(place, line),
             NEW i \in DOMAIN offered'
      PROVE  LET entry == cache[suggestionKey(place, line)]
             IN  /\ offered'[i] # <<>>
                 /\ \E j \in DOMAIN entry.suggestions :
                      line \o offered'[i] = entry.currentLine \o entry.suggestions[j]
  <2> DEFINE k == suggestionKey(place, line)
             entry == cache[k]
             indices == fitting(entry, line)
             n == nth(indices, i)
             text == entry.suggestions[n]
             diff == Len(line) - Len(entry.currentLine)
  <2>1. k \in DOMAIN cache /\ offered' = optionsOf(entry, line)
    BY <1>2 DEF GetCached, cachedOptions
  <2>2. /\ entry.currentLine \in Seq(Characters) /\ entry.suggestions \in Seq(Seq(Characters))
        /\ line \in Seq(Characters)
    BY <1>2, <2>1, TextsAssumption DEF CacheEntries
  <2>3. /\ i \in 1 .. Cardinality(indices)
        /\ offered'[i] = SubSeq(text, diff + 1, Len(text))
    BY <1>2, <2>1 DEF optionsOf
  <2>4. n \in indices
    <3>1. indices \subseteq 1 .. Len(entry.suggestions) /\ Len(entry.suggestions) \in Nat
      BY <2>2 DEF fitting
    <3> HIDE DEF indices
    <3> QED
      BY <2>3, <3>1, NthIsOne
  <2>5. /\ n \in DOMAIN entry.suggestions /\ matches(entry, text, line)
    BY <2>4 DEF fitting
  <2>6. text \in Seq(Characters)
    BY <2>2, <2>5
  <2>7. /\ diff \in Nat /\ diff < Len(text)
        /\ line = entry.currentLine \o SubSeq(text, 1, diff)
    <3>1. /\ Len(line) >= Len(entry.currentLine) /\ diff < Len(text)
          /\ line = entry.currentLine \o SubSeq(text, 1, diff)
      BY <2>5 DEF matches
    <3>2. Len(line) \in Nat /\ Len(entry.currentLine) \in Nat
      BY <2>2
    <3>3. diff \in Nat
      <4> HIDE DEF entry
      <4> QED
        BY <3>1, <3>2
    <3> QED
      BY <3>1, <3>3
  <2>8. /\ SubSeq(text, diff + 1, Len(text)) # <<>>
        /\ line \o SubSeq(text, diff + 1, Len(text)) = entry.currentLine \o text
    <3> HIDE DEF diff, text
    <3> QED
      BY <2>2, <2>6, <2>7, RestCompletes
  <2> QED
    BY <2>3, <2>5, <2>8
<1>3. CacheEntries /\ [CacheNext]_cacheVars =>
        [\A place \in Places, line \in Lines : GetCached(place, line) =>
           \A i \in DOMAIN offered' :
             LET entry == cache[suggestionKey(place, line)]
             IN  /\ offered'[i] # <<>>
                 /\ \E j \in DOMAIN entry.suggestions :
                      line \o offered'[i] = entry.currentLine \o entry.suggestions[j]]_cacheVars
  BY <1>2
<1> QED
  BY <1>1, <1>3, EntriesAreKept, PTL DEF CacheSpec, OffersCompleteTheSuggestion

-----------------------------------------------------------------------------
(* The suggestion service: what an answered request leaves behind.         *)

\* What responses are tracked by are ids of suggestions.
TrackedIds == \A r \in Requests : network(r) \in Suggestions

IsPlainTracker(t) ==
  /\ t = [kind |-> "snowplow", state |-> t.state, context |-> t.context]
  /\ t.state \in [Suggestions -> Events \cup {Unknown}]
  /\ t.context \in [Suggestions -> {NoContext, "plain"}]

RequestPhases ==
  {"none", "debouncing", "resolving", "streamed", "loading", "processing", "done"}
IsRequest(q) ==
  /\ q = [phase |-> q.phase, invoked |-> q.invoked, cancelled |-> q.cancelled,
          place |-> q.place, line |-> q.line, hits |-> q.hits, choices |-> q.choices]
  /\ q.phase \in RequestPhases

\* The state and the context that the snowplow has of a response, by the phase of
\* its request and whether the client got the response's id.
Follows(phase, got, state, context) ==
  \/ /\ phase \in {"none", "debouncing", "resolving", "streamed", "done"}
     /\ state = Unknown /\ context = NoContext /\ ~got
  \/ phase = "loading" /\ state = "REQUESTED" /\ context = "plain" /\ ~got
  \/ phase = "processing" /\ state = "LOADED" /\ context = "plain" /\ ~got
  \/ phase = "done" /\ state \in Settled /\ context = "plain"

FollowsIn(t, ids, phase, n) == Follows(phase, n \in ids, t.state[n], t.context[n])

ServiceInv ==
  /\ request = [r \in Requests |-> request[r]]
  /\ \A r \in Requests : IsRequest(request[r])
  /\ IsPlainTracker(snowplow)
  /\ \A r \in Requests : FollowsIn(snowplow, returned, request[r].phase, network(r))

\* From t to u nothing happened to suggestion n, unless it was shown and is rejected
\* for another one.
Spares(t, u, n) ==
  /\ IsPlainTracker(u) /\ u.context[n] = t.context[n]
  /\ u.state[n] = t.state[n] \/ (t.state[n] = "SHOWN" /\ u.state[n] = "REJECTED")

LEMMA SparesTransitive ==
  ASSUME NEW t, NEW u, NEW v, NEW n, Spares(t, u, n), Spares(u, v, n)
  PROVE  Spares(t, v, n)
  BY DEF Spares

LEMMA SparedFollows ==
  ASSUME NEW t, NEW u, NEW n, Spares(t, u, n), NEW phase, NEW got,
         Follows(phase, got, t.state[n], t.context[n])
  PROVE  Follows(phase, got, u.state[n], u.context[n])
<1>1. "REJECTED" \in Settled
  BY DEF Settled
<1> QED BY <1>1 DEF Spares, Follows, Unknown

LEMMA IdsDiffer ==
  /\ \A r, q : r # q => network(r) # network(q)
  /\ \A r, q, n : \A i \in 1 .. n : network(r) # cached(q, i)
  BY DEF network, cached

\* What trackEvents leaves of each suggestion.
LEMMA PlainEventsTracked ==
  ASSUME NEW t, IsPlainTracker(t), NEW ss, NEW event \in Events
  PROVE  /\ IsPlainTracker(trackEvents(t, ss, event))
         /\ trackEvents(t, ss, event).context = t.context
         /\ \A n \in Suggestions :
              trackEvents(t, ss, event).state[n]
                = IF n \in ss /\ canUpdateState(t.state[n], event, FALSE)
                  THEN event ELSE t.state[n]
<1> DEFINE state == [n \in Suggestions |-> IF n \in ss /\ tracks(t, n, event)
                                           THEN event ELSE t.state[n]]
           u == trackEvents(t, ss, event)
<1>1. u = [kind |-> "snowplow", state |-> state, context |-> t.context]
  BY DEF IsPlainTracker, trackEvents
<1>2. \A n \in Suggestions : tracks(t, n, event) <=> canUpdateState(t.state[n], event, FALSE)
  BY DEF IsPlainTracker, tracks, isStreamingSuggestion, NoContext
<1>3. state \in [Suggestions -> Events \cup {Unknown}]
  BY DEF IsPlainTracker
<1>4. IsPlainTracker(u)
  BY <1>1, <1>3 DEF IsPlainTracker
<1>5. u.context = t.context /\ u.state = state
  BY <1>1
<1>6. ASSUME NEW n \in Suggestions
      PROVE  state[n] = IF n \in ss /\ canUpdateState(t.state[n], event, FALSE)
                        THEN event ELSE t.state[n]
  BY <1>2
<1> QED BY <1>4, <1>5, <1>6

LEMMA EventSpares ==
  ASSUME NEW t, IsPlainTracker(t), NEW s, NEW n \in Suggestions, n # s, NEW event \in Events
  PROVE  Spares(t, trackEvent(t, s, event), n)
  BY PlainEventsTracked DEF trackEvent, Spares

LEMMA RejectSpares ==
  ASSUME NEW t, IsPlainTracker(t), NEW n \in Suggestions
  PROVE  Spares(t, rejectOpenedSuggestions(t), n)
<1> DEFINE ss == getOpenedSuggestions(t)
<1>1. "REJECTED" \in Events
  BY DEF Events
<1>2. canUpdateState(t.state[n], "REJECTED", FALSE) => t.state[n] = "SHOWN"
  BY DEF canUpdateState, stateGraph, nonStreamingSuggestionStateGraph
<1>3. Spares(t, trackEvents(t, ss, "REJECTED"), n)
  BY <1>1, <1>2, PlainEventsTracked DEF Spares
<1>4. Spares(t, t, n)
  BY DEF Spares
<1> QED BY <1>3, <1>4 DEF rejectOpenedSuggestions

\* What updates make of a suggestion: one of others is spared, a new one is requested,
\* and one that has a context stays as it is.
LEMMA UpdateAllTracked ==
  ASSUME NEW t, IsPlainTracker(t), NEW ids, NEW n \in Suggestions
  PROVE  /\ n \notin ids => Spares(t, updateAll(t, ids), n)
         /\ IsPlainTracker(updateAll(t, ids))
<1> DEFINE new == {id \in ids : t.context[id] = NoContext}
           u == rejectOpenedSuggestions(t)
           context == [s \in Suggestions |-> IF s \in new THEN "plain" ELSE u.context[s]]
           v == [u EXCEPT !.context = context]
           w == trackEvents(v, new, "REQUESTED")
<1>1. Spares(t, u, n)
  BY RejectSpares
<1>2. v = [kind |-> "snowplow", state |-> u.state, context |-> context]
  BY <1>1 DEF Spares, IsPlainTracker
<1>3. IsPlainTracker(v)
  BY <1>1, <1>2 DEF Spares, IsPlainTracker
<1>4. n \notin ids => Spares(t, v, n)
  BY <1>1, <1>2, <1>3 DEF Spares
<1>5. "REQUESTED" \in Events
  BY DEF Events
<1> HIDE DEF u, v
<1>6. IsPlainTracker(w) /\ (n \notin ids => Spares(v, w, n))
  BY <1>3, <1>5, PlainEventsTracked DEF Spares
<1>7. n \notin ids => Spares(t, w, n)
  BY <1>4, <1>6, SparesTransitive
<1>8. updateAll(t, ids) = IF new = {} THEN t ELSE w
  BY Zenon DEF updateAll, u, v
<1>9. Spares(t, t, n)
  BY DEF Spares
<1> QED BY <1>6, <1>7, <1>8, <1>9

LEMMA UpdateOfAny ==
  ASSUME NEW t, IsPlainTracker(t), NEW s
  PROVE  IsPlainTracker(update(t, s))
<1> DEFINE u == rejectOpenedSuggestions(t)
           context == [u.context EXCEPT ![s] = "plain"]
           v == [u EXCEPT !.context[s] = "plain"]
<1>1. IsPlainTracker(u)
  BY PlainEventsTracked DEF rejectOpenedSuggestions, Events
<1>2. v = [kind |-> "snowplow", state |-> u.state, context |-> context]
  BY <1>1 DEF IsPlainTracker
<1>3. IsPlainTracker(v)
  BY <1>1, <1>2 DEF IsPlainTracker
<1>4. IsPlainTracker(trackEvent(v, s, "REQUESTED"))
  BY <1>3, PlainEventsTracked DEF trackEvent, Events
<1> QED BY <1>4 DEF update, setTrackingContext, updateCodeSuggestionsContext,
                    setCodeSuggestionsContext, IsPlainTracker

LEMMA UpdateTracked ==
  ASSUME NEW t, IsPlainTracker(t), NEW s, NEW n \in Suggestions
  PROVE  /\ n # s => Spares(t, update(t, s), n)
         /\ n = s /\ t.context[n] = "plain" => update(t, s) = t
         /\ n = s /\ t.context[n] = NoContext =>
              /\ update(t, s).state[n] = "REQUESTED" /\ update(t, s).context[n] = "plain"
         /\ IsPlainTracker(update(t, s))
<1> DEFINE u == rejectOpenedSuggestions(t)
           context == [u.context EXCEPT ![s] = "plain"]
           v == [u EXCEPT !.context[s] = "plain"]
           w == trackEvent(v, s, "REQUESTED")
<1>1. Spares(t, u, n)
  BY RejectSpares
<1>2. v = [kind |-> "snowplow", state |-> u.state, context |-> context]
  BY <1>1 DEF Spares, IsPlainTracker
<1>3. IsPlainTracker(v) /\ (n = s => v.context[n] = "plain")
  BY <1>1, <1>2 DEF Spares, IsPlainTracker
<1>4. n # s => Spares(t, v, n)
  BY <1>1, <1>2, <1>3 DEF Spares, IsPlainTracker
<1>5. "REQUESTED" \in Events
  BY DEF Events
<1>6. update(t, s) = IF t.context[s] # NoContext THEN t ELSE w
  BY DEF update, setTrackingContext, updateCodeSuggestionsContext, setCodeSuggestionsContext,
         IsPlainTracker
<1> HIDE DEF u, v
<1>7. w = trackEvents(v, {s}, "REQUESTED")
  BY DEF trackEvent
<1>8. canUpdateState(v.state[n], "REQUESTED", FALSE)
  BY DEF canUpdateState
<1>9. /\ IsPlainTracker(w) /\ w.context = v.context
      /\ w.state[n] = IF n \in {s} THEN "REQUESTED" ELSE v.state[n]
  <2> DEFINE x == trackEvents(v, {s}, "REQUESTED")
  <2>1. /\ IsPlainTracker(x) /\ x.context = v.context
        /\ x.state[n] = IF n \in {s} /\ canUpdateState(v.state[n], "REQUESTED", FALSE)
                        THEN "REQUESTED" ELSE v.state[n]
    BY <1>3, <1>5, PlainEventsTracked
  <2> HIDE DEF x
  <2>2. IF n \in {s} /\ canUpdateState(v.state[n], "REQUESTED", FALSE)
        THEN x.state[n] = "REQUESTED" ELSE x.state[n] = v.state[n]
    BY <2>1
  <2> QED BY <1>7, <1>8, <2>1, <2>2 DEF x
<1>10. n # s => Spares(v, w, n)
  BY <1>9 DEF Spares
<1>11. n # s => Spares(t, w, n)
  BY <1>4, <1>10, SparesTransitive
<1>12. Spares(t, t, n)
  BY DEF Spares
<1> QED BY <1>3, <1>6, <1>9, <1>11, <1>12 DEF NoContext

-----------------------------------------------------------------------------
\* Only request r goes on.
LEMMA OneGoesOn ==
  ASSUME ServiceInv, NEW r \in Requests, NEW q, IsRequest(q),
         request' = [request EXCEPT ![r] = q],
         \A p \in Requests \ {r} : Spares(snowplow, snowplow', network(p)),
         \A p \in Requests \ {r} : network(p) \in returned' <=> network(p) \in returned,
         IsPlainTracker(snowplow'), FollowsIn(snowplow', returned', q.phase, network(r))
  PROVE  ServiceInv'
<1>1. request' = [p \in Requests |-> IF p = r THEN q ELSE request[p]]
  BY DEF ServiceInv
<1>2. ASSUME NEW p \in Requests, p # r
      PROVE  FollowsIn(snowplow', returned', request'[p].phase, network(p))
  BY <1>1, <1>2, SparedFollows DEF ServiceInv, FollowsIn
<1>3. \A p \in Requests : FollowsIn(snowplow', returned', request'[p].phase, network(p))
  BY <1>1, <1>2
<1> QED BY <1>1, <1>3 DEF ServiceInv, FollowsIn

\* An answer, by the snowplow's state t before the contexts of its options are updated.
LEMMA AnsweredKeeps ==
  ASSUME TrackedIds, ServiceInv, NEW r \in Requests, NEW req, IsRequest(req),
         NEW t, IsPlainTracker(t), NEW options \in SUBSET {network(r)},
         \A p \in Requests \ {r} : Spares(snowplow, t, network(p)),
         FollowsIn(t, returned \cup options, "done", network(r)),
         answer(r, req, t, options)
  PROVE  ServiceInv'
<1> DEFINE ids == {cached(r, i) : i \in 1 .. req.hits}
           q == [req EXCEPT !.phase = "done"]
<1>1. /\ request' = [request EXCEPT ![r] = q] /\ returned' = (returned \cup ids) \cup options
      /\ snowplow' = IF req.invoked THEN updateAll(t, ids) ELSE t
  BY DEF answer, returns
<1>2. \A p \in Requests : network(p) \notin ids
  BY IdsDiffer
<1>3. IsRequest(q) /\ q.phase = "done"
  BY DEF IsRequest, RequestPhases
<1> HIDE DEF ids, q
<1>4. ASSUME NEW p \in Requests
      PROVE  Spares(t, snowplow', network(p))
  <2>1. Spares(t, t, network(p))
    BY DEF Spares
  <2>2. Spares(t, updateAll(t, ids), network(p))
    BY <1>2, UpdateAllTracked DEF TrackedIds
  <2> QED BY <1>1, <2>1, <2>2
<1>5. \A p \in Requests \ {r} : Spares(snowplow, snowplow', network(p))
  BY <1>4, SparesTransitive
<1>6. \A p \in Requests : network(p) \in returned' <=> network(p) \in returned \cup options
  BY <1>1, <1>2
<1>7. \A p \in Requests \ {r} : network(p) \in returned' <=> network(p) \in returned
  BY <1>6, IdsDiffer
<1>8. IsPlainTracker(snowplow')
  BY <1>4 DEF Spares
<1>9. FollowsIn(snowplow', returned', q.phase, network(r))
  BY <1>3, <1>4, <1>6, SparedFollows DEF FollowsIn
<1> QED BY <1>1, <1>3, <1>5, <1>7, <1>8, <1>9, OneGoesOn

LEMMA MovedKeeps ==
  ASSUME ServiceInv, NEW r \in Requests, NEW req, IsRequest(req), NEW phase \in RequestPhases,
         moves(r, req, phase),
         \A p \in Requests \ {r} : Spares(snowplow, snowplow', network(p)),
         IsPlainTracker(snowplow'), FollowsIn(snowplow', returned, phase, network(r))
  PROVE  ServiceInv'
<1> DEFINE q == [req EXCEPT !.phase = phase]
<1>1. request' = [request EXCEPT ![r] = q] /\ returned' = returned
  BY DEF moves
<1>2. IsRequest(q) /\ q.phase = phase
  BY DEF IsRequest
<1> HIDE DEF q
<1> QED BY <1>1, <1>2, OneGoesOn

\* Where the snowplow knows nothing of r's response yet.
Fresh(r) == Follows("none", network(r) \in returned, snowplow.state[network(r)],
                    snowplow.context[network(r)])

LEMMA SparesSelf ==
  ASSUME NEW t, IsPlainTracker(t) PROVE \A n : Spares(t, t, n)
  BY DEF Spares

LEMMA LoadingFollows ==
  ASSUME TrackedIds, ServiceInv, NEW r \in Requests, NEW req, IsRequest(req),
         NEW t, \A p \in Requests : Spares(snowplow, t, network(p)),
         Fresh(r), getSuggestions(r, req, t)
  PROVE  ServiceInv'
<1>1. IsPlainTracker(t)
  BY DEF Spares
<1>2. Follows("none", network(r) \in returned, t.state[network(r)], t.context[network(r)])
  BY SparedFollows DEF Fresh
<1>3. CASE answer(r, req, t, {})
  <2>1. FollowsIn(t, returned \cup {}, "done", network(r))
    BY <1>2 DEF FollowsIn, Follows
  <2> QED BY <1>1, <1>3, <2>1, AnsweredKeeps
<1>4. CASE moves(r, req, "loading") /\ snowplow' = update(t, network(r))
  <2>1. /\ snowplow'.state[network(r)] = "REQUESTED"
        /\ snowplow'.context[network(r)] = "plain" /\ IsPlainTracker(snowplow')
    BY <1>1, <1>2, <1>4, UpdateTracked DEF TrackedIds, Follows, NoContext
  <2>2. ASSUME NEW p \in Requests \ {r} PROVE Spares(snowplow, snowplow', network(p))
    <3>1. network(p) # network(r) /\ network(p) \in Suggestions
      BY IdsDiffer DEF TrackedIds
    <3>2. Spares(t, snowplow', network(p))
      BY <1>1, <1>4, <3>1, UpdateTracked
    <3> QED BY <3>2, SparesTransitive
  <2>3. FollowsIn(snowplow', returned, "loading", network(r))
    BY <1>2, <2>1 DEF FollowsIn, Follows
  <2> QED BY <1>4, <2>1, <2>2, <2>3, MovedKeeps DEF RequestPhases
<1> QED BY <1>3, <1>4 DEF getSuggestions

\* Of the suggestionsCache's options nothing is tracked as a response.
LEMMA CachedSpares ==
  ASSUME TrackedIds, ServiceInv, NEW r, NEW hits, NEW p \in Requests
  PROVE  Spares(snowplow, useAndTrackCachedSuggestions(snowplow, r, hits), network(p))
<1> DEFINE id == cached(r, 1)
           u == update(snowplow, id)
           v == trackEvent(u, id, "LOADED")
           w == trackEvent(v, id, "SHOWN")
<1>1. network(p) # id /\ network(p) \in Suggestions /\ IsPlainTracker(snowplow)
  BY DEF TrackedIds, network, cached, ServiceInv
<1>2. "LOADED" \in Events /\ "SHOWN" \in Events
  BY DEF Events
<1> HIDE DEF id
<1>3. Spares(snowplow, u, network(p)) /\ IsPlainTracker(u)
  BY <1>1, UpdateTracked
<1> HIDE DEF u
<1>4. Spares(u, v, network(p)) /\ IsPlainTracker(v)
  BY <1>1, <1>2, <1>3, EventSpares DEF Spares
<1> HIDE DEF v
<1>5. Spares(v, w, network(p))
  BY <1>1, <1>2, <1>4, EventSpares
<1>6. Spares(snowplow, v, network(p)) /\ Spares(snowplow, w, network(p))
  BY <1>3, <1>4, <1>5, SparesTransitive
<1>7. trackShowIfNeeded(v, id) \in {v, w}
  BY DEF trackShowIfNeeded
<1>8. useAndTrackCachedSuggestions(snowplow, r, hits) \in {snowplow, v, w}
  BY <1>7 DEF useAndTrackCachedSuggestions, id, u, v
<1> QED BY <1>1, <1>6, <1>8, SparesSelf

LEMMA FreshBefore ==
  ASSUME ServiceInv, NEW r \in Requests,
         request[r].phase \in {"none", "debouncing", "resolving"}
  PROVE  Fresh(r)
  BY DEF ServiceInv, FollowsIn, Follows, Fresh

LEMMA FreshAnswer ==
  ASSUME TrackedIds, ServiceInv, NEW r \in Requests, NEW req, IsRequest(req), Fresh(r),
         NEW t, \A p \in Requests : Spares(snowplow, t, network(p)), answer(r, req, t, {})
  PROVE  ServiceInv'
<1>1. Follows("none", network(r) \in returned, t.state[network(r)], t.context[network(r)])
  BY SparedFollows DEF Fresh
<1>2. FollowsIn(t, returned \cup {}, "done", network(r)) /\ IsPlainTracker(t)
  BY <1>1 DEF FollowsIn, Follows, Spares
<1> QED BY <1>2, AnsweredKeeps

LEMMA FreshMove ==
  ASSUME TrackedIds, ServiceInv, NEW r \in Requests, NEW req, IsRequest(req), Fresh(r),
         \A p \in Requests : Spares(snowplow, snowplow', network(p)),
         NEW phase \in {"debouncing", "resolving", "streamed"}, moves(r, req, phase)
  PROVE  ServiceInv'
<1>1. Follows("none", network(r) \in returned, snowplow'.state[network(r)],
              snowplow'.context[network(r)])
  BY SparedFollows DEF Fresh
<1>2. /\ FollowsIn(snowplow', returned, phase, network(r)) /\ IsPlainTracker(snowplow')
      /\ phase \in RequestPhases
  BY <1>1 DEF FollowsIn, Follows, Spares, RequestPhases
<1> QED BY <1>2, MovedKeeps

LEMMA RequestFollows ==
  ASSUME TrackedIds, ServiceInv, NEW r \in Requests, NEW place, NEW line,
         RequestOptions(r, place, line)
  PROVE  ServiceInv'
<1> DEFINE hits == Len(cachedOptions(suggestionsCache, place, line))
           t == useAndTrackCachedSuggestions(snowplow, r, hits)
<1>1. PICK invoked \in BOOLEAN :
        LET req == [NewRequest EXCEPT !.invoked = invoked, !.hits = hits,
                                      !.place = place, !.line = line]
        IN  /\ request[r].phase = "none"
            /\ \/ getSuggestions(r, req, t)
               \/ answer(r, req, t, {})
               \/ moves(r, req, "debouncing") /\ snowplow' = t
  BY DEF RequestOptions
<1> DEFINE req == [NewRequest EXCEPT !.invoked = invoked, !.hits = hits,
                                     !.place = place, !.line = line]
<1> HIDE DEF hits
<1>2. IsRequest(req)
  <2>1. IsRequest(NewRequest)
    BY DEF IsRequest, NewRequest, RequestPhases
  <2>2. ASSUME NEW q, IsRequest(q), NEW x
        PROVE  /\ IsRequest([q EXCEPT !.invoked = x]) /\ IsRequest([q EXCEPT !.hits = x])
               /\ IsRequest([q EXCEPT !.place = x]) /\ IsRequest([q EXCEPT !.line = x])
    BY <2>2 DEF IsRequest
  <2> DEFINE a == [NewRequest EXCEPT !.invoked = invoked]
             b == [a EXCEPT !.hits = hits]
             c == [b EXCEPT !.place = place]
             d == [c EXCEPT !.line = line]
  <2>3. IsRequest(a)
    BY <2>1, <2>2
  <2> HIDE DEF a
  <2>4. IsRequest(b)
    BY <2>2, <2>3
  <2> HIDE DEF b
  <2>5. IsRequest(c)
    BY <2>2, <2>4
  <2> HIDE DEF c
  <2>6. IsRequest(d)
    BY <2>2, <2>5
  <2>7. req = d
    BY DEF a, b, c
  <2> QED BY <2>6, <2>7
<1>3. Fresh(r)
  BY <1>1, FreshBefore
<1>4. \A p \in Requests : Spares(snowplow, t, network(p))
  BY CachedSpares
<1> HIDE DEF t, req
<1> QED BY <1>1, <1>2, <1>3, <1>4, LoadingFollows, FreshAnswer, FreshMove DEF req

LEMMA EarlyFollows ==
  ASSUME TrackedIds, ServiceInv, NEW r \in Requests,
         RequestElsewhere(r) \/ Debounced(r) \/ Resolved(r)
  PROVE  ServiceInv'
<1>1. IsPlainTracker(snowplow) /\ IsRequest(request[r]) /\ IsRequest(NewRequest)
  BY DEF ServiceInv, IsRequest, NewRequest, RequestPhases
<1>2. \A p \in Requests : Spares(snowplow, snowplow, network(p))
  BY <1>1, SparesSelf
<1>3. CASE RequestElsewhere(r)
  BY <1>1, <1>2, <1>3, FreshBefore, FreshAnswer DEF RequestElsewhere
<1>4. CASE Debounced(r)
  <2>1. Fresh(r)
    BY <1>4, FreshBefore DEF Debounced
  <2>2. CASE answer(r, request[r], snowplow, {})
    BY <1>1, <1>2, <2>1, <2>2, FreshAnswer
  <2>3. CASE moves(r, request[r], "resolving") /\ UNCHANGED snowplow
    BY <1>1, <1>2, <2>1, <2>3, FreshMove
  <2> QED BY <1>4, <2>2, <2>3 DEF Debounced
<1>5. CASE Resolved(r)
  <2>1. Fresh(r)
    BY <1>5, FreshBefore DEF Resolved
  <2>2. CASE getSuggestions(r, request[r], snowplow)
    BY <1>1, <1>2, <2>1, <2>2, LoadingFollows
  <2>3. CASE answer(r, request[r], snowplow, {})
    BY <1>1, <1>2, <2>1, <2>3, FreshAnswer
  <2>4. CASE moves(r, request[r], "streamed") /\ UNCHANGED snowplow
    BY <1>1, <1>2, <2>1, <2>4, FreshMove
  <2> QED BY <1>5, <2>2, <2>3, <2>4 DEF Resolved
<1> QED BY <1>3, <1>4, <1>5

\* One event about the response of r.
LEMMA EventOfResponse ==
  ASSUME TrackedIds, ServiceInv, NEW r \in Requests, NEW t, IsPlainTracker(t),
         \A p \in Requests \ {r} : Spares(snowplow, t, network(p)), NEW event \in Events
  PROVE  LET u == trackEvent(t, network(r), event)
         IN  /\ IsPlainTracker(u) /\ u.context = t.context
             /\ canUpdateState(t.state[network(r)], event, FALSE) => u.state[network(r)] = event
             /\ u.state[network(r)] \in {event, t.state[network(r)]}
             /\ \A p \in Requests \ {r} : Spares(snowplow, u, network(p))
<1> DEFINE n == network(r)
           u == trackEvents(t, {n}, event)
<1>1. n \in Suggestions
  BY DEF TrackedIds
<1> HIDE DEF n
<1>2. /\ IsPlainTracker(u) /\ u.context = t.context
      /\ u.state[n] = IF n \in {n} /\ canUpdateState(t.state[n], event, FALSE)
                      THEN event ELSE t.state[n]
  BY <1>1, PlainEventsTracked
<1>3. ASSUME NEW p \in Requests \ {r} PROVE Spares(snowplow, u, network(p))
  <2>1. network(p) # n /\ network(p) \in Suggestions
    BY IdsDiffer DEF TrackedIds, n
  <2>2. Spares(t, u, network(p))
    BY <2>1, EventSpares DEF trackEvent
  <2> QED BY <2>2, SparesTransitive
<1>4. u = trackEvent(t, n, event)
  BY DEF trackEvent
<1> HIDE DEF u
<1> QED BY <1>2, <1>3, <1>4 DEF n

\* An update of the context of a response under way changes nothing.
LEMMA UpdateOfResponse ==
  ASSUME TrackedIds, ServiceInv, NEW r \in Requests,
         request[r].phase \in {"loading", "processing"}
  PROVE  /\ update(snowplow, network(r)) = snowplow /\ IsPlainTracker(snowplow)
         /\ \A p \in Requests \ {r} : Spares(snowplow, snowplow, network(p))
         /\ snowplow.context[network(r)] = "plain" /\ network(r) \notin returned
         /\ IsRequest(request[r])
         /\ request[r].phase = "loading" => snowplow.state[network(r)] = "REQUESTED"
         /\ request[r].phase = "processing" => snowplow.state[network(r)] = "LOADED"
<1>1. /\ FollowsIn(snowplow, returned, request[r].phase, network(r))
      /\ IsPlainTracker(snowplow) /\ IsRequest(request[r])
  BY DEF ServiceInv
<1>2. snowplow.context[network(r)] = "plain"
  BY <1>1 DEF FollowsIn, Follows
<1>3. update(snowplow, network(r)) = snowplow
  BY <1>1, <1>2, UpdateTracked DEF TrackedIds
<1> QED BY <1>1, <1>2, <1>3, SparesSelf DEF FollowsIn, Follows

LEMMA LoadedFollows ==
  ASSUME TrackedIds, ServiceInv, NEW r \in Requests, ResponseFails(r) \/ Responded(r)
  PROVE  ServiceInv'
<1> DEFINE n == network(r)
<1>1. request[r].phase = "loading"
  BY DEF ResponseFails, Responded
<1>2. /\ update(snowplow, n) = snowplow /\ IsPlainTracker(snowplow)
      /\ \A p \in Requests \ {r} : Spares(snowplow, snowplow, network(p))
      /\ snowplow.context[n] = "plain" /\ n \notin returned /\ IsRequest(request[r])
      /\ snowplow.state[n] = "REQUESTED"
  BY <1>1, UpdateOfResponse
<1>3. "ERRORED" \in Events /\ "LOADED" \in Events
  BY DEF Events
<1>4. canUpdateState(snowplow.state[n], "ERRORED", FALSE)
      /\ canUpdateState(snowplow.state[n], "LOADED", FALSE)
  BY <1>2 DEF canUpdateState, stateGraph, nonStreamingSuggestionStateGraph
<1>5. CASE ResponseFails(r)
  <2> DEFINE u == trackEvent(snowplow, n, "ERRORED")
  <2>1. /\ IsPlainTracker(u) /\ u.context = snowplow.context /\ u.state[n] = "ERRORED"
        /\ \A p \in Requests \ {r} : Spares(snowplow, u, network(p))
    BY <1>2, <1>3, <1>4, EventOfResponse
  <2>2. answer(r, request[r], u, {})
    BY <1>2, <1>5 DEF ResponseFails
  <2> HIDE DEF u
  <2>3. FollowsIn(u, returned \cup {}, "done", n)
    BY <1>2, <2>1 DEF FollowsIn, Follows, Settled
  <2> QED BY <1>2, <2>1, <2>2, <2>3, AnsweredKeeps
<1>6. CASE Responded(r)
  <2> DEFINE u == trackEvent(snowplow, n, "LOADED")
  <2>1. /\ IsPlainTracker(u) /\ u.context = snowplow.context /\ u.state[n] = "LOADED"
        /\ \A p \in Requests \ {r} : Spares(snowplow, u, network(p))
    BY <1>2, <1>3, <1>4, EventOfResponse
  <2>2. snowplow' = u
    BY <1>2, <1>6 DEF Responded
  <2> HIDE DEF u
  <2>3. PICK choices : moves(r, [request[r] EXCEPT !.choices = choices], "processing")
    BY <1>6 DEF Responded
  <2>4. IsRequest([request[r] EXCEPT !.choices = choices])
    BY <1>2 DEF IsRequest
  <2>5. FollowsIn(u, returned, "processing", n)
    BY <1>2, <2>1 DEF FollowsIn, Follows
  <2> QED BY <2>1, <2>2, <2>3, <2>4, <2>5, MovedKeeps DEF RequestPhases
<1> QED BY <1>5, <1>6

LEMMA ProcessedFollows ==
  ASSUME TrackedIds, ServiceInv, NEW r \in Requests, OptionsProcessed(r)
  PROVE  ServiceInv'
<1> DEFINE n == network(r)
           req == request[r]
<1>1. request[r].phase = "processing"
  BY DEF OptionsProcessed
<1>2. /\ update(snowplow, n) = snowplow /\ IsPlainTracker(snowplow)
      /\ \A p \in Requests \ {r} : Spares(snowplow, snowplow, network(p))
      /\ snowplow.context[n] = "plain" /\ n \notin returned /\ IsRequest(req)
      /\ snowplow.state[n] = "LOADED"
  BY <1>1, UpdateOfResponse
<1>3. outcome(r) \in {"CANCELLED", "NOT_PROVIDED", "SHOWN"} /\ outcome(r) \in Events
  BY DEF outcome, Events
<1>4. canUpdateState(snowplow.state[n], outcome(r), FALSE)
  BY <1>2, <1>3 DEF canUpdateState, stateGraph, nonStreamingSuggestionStateGraph
<1> DEFINE u == trackEvent(snowplow, n, outcome(r))
<1>5. /\ IsPlainTracker(u) /\ u.context = snowplow.context /\ u.state[n] = outcome(r)
      /\ \A p \in Requests \ {r} : Spares(snowplow, u, network(p))
  BY <1>2, <1>3, <1>4, EventOfResponse
<1>6. PICK options \in SUBSET {n}, t \in {snowplow, u} :
        /\ answer(r, req, t, options)
        /\ t = snowplow => canClientTrackEvent("SHOWN")
  <2>1. PICK texts \in processed(req.choices) :
          IF outcome(r) = "SHOWN"
          THEN answer(r, req, trackShowIfNeeded(update(snowplow, n), n),
                      IF texts = req.choices THEN {n} ELSE {})
          ELSE answer(r, req, u, {})
    BY DEF OptionsProcessed
  <2>2. CASE outcome(r) = "SHOWN"
    <3>1. trackShowIfNeeded(update(snowplow, n), n)
            = IF canClientTrackEvent("SHOWN") THEN snowplow ELSE u
      BY <1>2, <2>2 DEF trackShowIfNeeded
    <3>2. ASSUME NEW t, trackShowIfNeeded(update(snowplow, n), n) = t
          PROVE  \E options \in SUBSET {n} : answer(r, req, t, options)
      <4> DEFINE options == IF texts = req.choices THEN {n} ELSE {}
      <4>1. answer(r, req, t, options)
        BY <2>1, <2>2, <3>2
      <4>2. options \in SUBSET {n}
        OBVIOUS
      <4> HIDE DEF options, n, req
      <4> QED BY <4>1, <4>2
    <3>3. \E options \in SUBSET {n} :
            answer(r, req, IF canClientTrackEvent("SHOWN") THEN snowplow ELSE u, options)
      BY <3>1, <3>2
    <3>4. u # snowplow
      BY <1>2, <1>5, <2>2
    <3>5. IF canClientTrackEvent("SHOWN")
          THEN \E options \in SUBSET {n} : answer(r, req, snowplow, options)
          ELSE \E options \in SUBSET {n} : answer(r, req, u, options)
      BY <3>3
    <3> HIDE DEF n, u, req
    <3> QED BY <3>4, <3>5
  <2>3. CASE outcome(r) # "SHOWN"
    <3>1. u # snowplow
      BY <1>2, <1>3, <1>5
    <3> HIDE DEF n, u, req
    <3> QED BY <2>1, <2>3, <3>1
  <2> QED BY <2>2, <2>3
<1> HIDE DEF u
<1>7. FollowsIn(t, returned \cup options, "done", n) /\ IsPlainTracker(t)
      /\ \A p \in Requests \ {r} : Spares(snowplow, t, network(p))
  BY <1>2, <1>3, <1>5, <1>6 DEF FollowsIn, Follows, Settled
<1> QED BY <1>2, <1>6, <1>7, AnsweredKeeps

\* What the client may track, it may track of any response that it got.
LEMMA ClientFollows ==
  ASSUME TrackedIds, ServiceInv, NEW id, NEW event, ClientTracksOption(id, event)
  PROVE  ServiceInv'
<1>1. PICK namesOption \in BOOLEAN : snowplow' = clientTracks(snowplow, id, event, namesOption)
  BY DEF ClientTracksOption
<1> DEFINE v == IF event = "ACCEPTED" /\ namesOption THEN update(snowplow, id) ELSE snowplow
           ends == {"ACCEPTED", "REJECTED", "CANCELLED", "SHOWN", "NOT_PROVIDED"}
<1>2. snowplow' = snowplow \/ (event \in ends /\ snowplow' = trackEvent(v, id, event))
  BY <1>1 DEF clientTracks, update
<1>3. IsPlainTracker(snowplow) /\ id \in returned
  BY DEF ServiceInv, ClientTracksOption
<1>4. ASSUME NEW r \in Requests, network(r) # id
      PROVE  Spares(snowplow, snowplow', network(r))
  <2>1. Spares(snowplow, v, network(r)) /\ IsPlainTracker(v)
    BY <1>3, <1>4, UpdateTracked, SparesSelf DEF TrackedIds
  <2> HIDE DEF v
  <2>2. event \in ends => Spares(v, trackEvent(v, id, event), network(r))
    BY <1>4, <2>1, EventSpares DEF TrackedIds, Events
  <2> QED BY <1>2, <1>3, <2>1, <2>2, SparesSelf, SparesTransitive
<1>5. ASSUME NEW r \in Requests, network(r) = id
      PROVE  /\ FollowsIn(snowplow', returned, request[r].phase, network(r))
             /\ IsPlainTracker(snowplow')
  <2>1. /\ request[r].phase = "done" /\ snowplow.state[id] \in Settled
        /\ snowplow.context[id] = "plain"
    BY <1>3, <1>5 DEF ServiceInv, FollowsIn, Follows
  <2>2. v = snowplow
    BY <1>3, <1>5, <2>1, UpdateTracked DEF TrackedIds
  <2>3. event \in ends =>
          /\ IsPlainTracker(trackEvent(snowplow, id, event))
          /\ trackEvent(snowplow, id, event).context = snowplow.context
          /\ trackEvent(snowplow, id, event).state[id] \in {event, snowplow.state[id]}
    <3>1. event \in ends => event \in Events
      BY DEF Events
    <3>2. \A p \in Requests \ {r} : Spares(snowplow, snowplow, network(p))
      BY <1>3, SparesSelf
    <3>3. ASSUME event \in Events
          PROVE  LET u == trackEvent(snowplow, network(r), event)
                 IN  /\ IsPlainTracker(u) /\ u.context = snowplow.context
                     /\ u.state[network(r)] \in {event, snowplow.state[network(r)]}
      BY <1>3, <3>2, <3>3, EventOfResponse
    <3> QED BY <1>5, <3>1, <3>3
  <2>4. ends \subseteq Settled
    BY DEF Settled
  <2> QED BY <1>2, <1>3, <1>5, <2>1, <2>2, <2>3, <2>4 DEF FollowsIn, Follows
<1>6. UNCHANGED <<request, returned>>
  BY DEF ClientTracksOption
<1>7. ASSUME NEW r \in Requests
      PROVE  FollowsIn(snowplow', returned, request[r].phase, network(r))
  <2>1. CASE network(r) # id
    BY <1>4, <2>1, SparedFollows DEF ServiceInv, FollowsIn
  <2> QED BY <1>5, <2>1
<1>8. IsPlainTracker(snowplow')
  <2>1. IsPlainTracker(v) /\ (event \in ends => event \in Events)
    BY <1>3, UpdateOfAny DEF Events
  <2> HIDE DEF v
  <2> QED BY <1>2, <1>3, <2>1, PlainEventsTracked DEF trackEvent
<1> QED BY <1>6, <1>7, <1>8 DEF ServiceInv, FollowsIn

LEMMA ServiceInitInv == TrackedIds /\ ServiceInit => ServiceInv
<1> SUFFICES ASSUME TrackedIds, ServiceInit PROVE ServiceInv
  OBVIOUS
<1>1. IsPlainTracker(snowplow) /\ \A n \in Suggestions : /\ snowplow.state[n] = Unknown
                                                   /\ snowplow.context[n] = NoContext
  BY DEF ServiceInit, NewTracker, IsPlainTracker
<1>2. IsRequest(NewRequest) /\ NewRequest.phase = "none"
  BY DEF IsRequest, NewRequest, RequestPhases
<1>3. request = [r \in Requests |-> NewRequest] /\ returned = {}
  BY DEF ServiceInit
<1> QED BY <1>1, <1>2, <1>3 DEF ServiceInv, FollowsIn, Follows, TrackedIds

LEMMA ServiceStep ==
  TrackedIds /\ ServiceInv /\ [ServiceNext]_serviceVars => ServiceInv'
<1> SUFFICES ASSUME TrackedIds, ServiceInv, [ServiceNext]_serviceVars PROVE ServiceInv'
  OBVIOUS
<1>1. ASSUME NEW r \in Requests, CancelRequest(r) PROVE ServiceInv'
  <2>1. /\ request' = [request EXCEPT ![r].cancelled = TRUE] /\ UNCHANGED <<snowplow, returned>>
    BY <1>1 DEF CancelRequest
  <2>2. request' = [request EXCEPT ![r] = [request[r] EXCEPT !.cancelled = TRUE]]
    BY <2>1
  <2>3. /\ IsRequest([request[r] EXCEPT !.cancelled = TRUE])
        /\ [request[r] EXCEPT !.cancelled = TRUE].phase = request[r].phase
    <3>1. IsRequest(request[r])
      BY DEF ServiceInv
    <3>2. ASSUME NEW q, IsRequest(q), NEW x
          PROVE  /\ IsRequest([q EXCEPT !.cancelled = x])
                 /\ [q EXCEPT !.cancelled = x].phase = q.phase
      BY <3>2 DEF IsRequest
    <3> QED BY <3>1, <3>2
  <2>4. IsPlainTracker(snowplow') /\ \A p \in Requests : Spares(snowplow, snowplow', network(p))
    BY <2>1, SparesSelf DEF ServiceInv
  <2> QED BY <2>1, <2>2, <2>3, <2>4, OneGoesOn DEF ServiceInv
<1>2. ASSUME UNCHANGED <<request, snowplow, returned>> PROVE ServiceInv'
  BY <1>2 DEF ServiceInv, FollowsIn
<1>3. ASSUME NEW k, Expire(k) PROVE ServiceInv'
  BY <1>2, <1>3 DEF Expire
<1>4. CASE StreamReports \/ BreakerCloses \/ UNCHANGED serviceVars
  BY <1>2, <1>4 DEF StreamReports, BreakerCloses, serviceVars
<1> QED BY <1>1, <1>3, <1>4, RequestFollows, EarlyFollows, LoadedFollows, ProcessedFollows,
           ClientFollows DEF ServiceNext

\* Whatever fails, is cancelled or overlaps with it, and however many requests and ids
\* there are: a request that was answered leaves no suggestion half way.
THEOREM AnsweredIsSettledCorrect ==
  ASSUME TrackedIds
  PROVE  ServiceSpec => []AnsweredIsSettled
<1>1. ServiceInit => ServiceInv
  BY ServiceInitInv
<1>2. ServiceInv /\ [ServiceNext]_serviceVars => ServiceInv'
  BY ServiceStep
<1>3. ServiceInv => AnsweredIsSettled
  BY DEF ServiceInv, FollowsIn, Follows, AnsweredIsSettled
<1> QED BY <1>1, <1>2, <1>3, PTL DEF ServiceSpec

=============================================================================
