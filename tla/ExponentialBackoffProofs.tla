---------------------- MODULE ExponentialBackoffProofs ----------------------
(***************************************************************************)
(* Proofs about the exponential backoff breaker, for every choice of the   *)
(* constants: its timer, the length of its pauses, and that it implements  *)
(* the safety part of CircuitBreaker.                                      *)
(***************************************************************************)
EXTENDS ExponentialBackoffCircuitBreaker, SequenceTheorems, TLAPS

timerVars == <<state, timers, pause, openFor>>

\* The inductive invariant.  OneTimer alone is not inductive for the pauses:
\* what is left on the timer must cover what is left of the pause, and the
\* last pause must be no longer than the errors counted since would give.
TimerCoversPause ==
  state = "OPEN" => Len(timers) = 1 /\ timers[1] + openFor >= pause
PauseWithinBackoff == errorCount > 0 => pause <= BackoffTime(errorCount)

IInv ==
  /\ TypeOK
  /\ state = "CLOSED" => timers = <<>>
  /\ state = "OPEN" => errorCount > 0
  /\ TimerCoversPause
  /\ PauseWithinBackoff

\* A sequence of one element loses it, whichever end it is taken from.
LEMMA OneElement ==
  ASSUME NEW s \in Seq(Nat), Len(s) = 1
  PROVE  /\ s # <<>> /\ s[1] \in Nat /\ Head(s) = s[1]
         /\ Tail(s) = <<>>
         /\ SubSeq(s, 1, Len(s) - 1) = <<>>
<1>1. s # <<>> /\ s[1] \in Nat /\ Head(s) = s[1]
  OBVIOUS
<1>2. Tail(s) = <<>>
  <2>1. Tail(s) \in Seq(Nat) /\ Len(Tail(s)) = 0
    BY <1>1, HeadTailProperties
  <2> QED BY <2>1, EmptySeq
<1>3. SubSeq(s, 1, Len(s) - 1) = <<>>
  BY SubSeqEmpty
<1> QED BY <1>1, <1>2, <1>3

\* What a delay appended to no timer gives.
LEMMA FirstTimer ==
  ASSUME NEW d \in Nat
  PROVE  /\ Append(<<>>, d) \in Seq(Nat)
         /\ Len(Append(<<>>, d)) = 1
         /\ Append(<<>>, d)[1] = d
  OBVIOUS

LEMMA InitIInv == BreakerInit => IInv
  BY BoundsAssumption
     DEF BreakerInit, IInv, TypeOK, TimerCoversPause, PauseWithinBackoff

\* An error, whether it counts one or three, opens a closed breaker.
LEMMA OpenStep ==
  ASSUME IInv, NEW n \in {1, 3}, count(n), open
  PROVE  IInv'
<1>1. /\ errorCount' \in 1 .. MaxErrorCount /\ errorCount' > errorCount
      /\ errorCount > 0 => BackoffTime(errorCount) <= BackoffTime(errorCount')
      /\ BackoffTime(errorCount') \in Nat
  BY BackoffAssumption, BoundsAssumption DEF count, IInv, TypeOK
<1>2. CASE state = "CLOSED" /\ goOpen(BackoffTime(errorCount'))
  <2>1. timers' = Append(<<>>, BackoffTime(errorCount')) /\ Len(timers) = 0
    BY <1>2 DEF goOpen, IInv
  <2>2. /\ timers' \in Seq(Nat) /\ Len(timers') = 1
        /\ timers'[1] = BackoffTime(errorCount')
    BY <2>1, <1>1, FirstTimer
  <2>3. state' = "OPEN" /\ pause' = BackoffTime(errorCount') /\ openFor' = 0
    BY <1>2 DEF goOpen
  <2>4. MaxTimers >= 1
    BY <1>2, <2>1, BoundsAssumption DEF goOpen
  <2> QED
    BY <1>1, <2>2, <2>3, <2>4, BoundsAssumption
       DEF IInv, TypeOK, TimerCoversPause, PauseWithinBackoff
<1>3. CASE state = "OPEN" /\ UNCHANGED timerVars
  <2>1. TypeOK'
    BY <1>1, <1>3 DEF IInv, TypeOK, timerVars
  <2>2. TimerCoversPause' /\ (state = "CLOSED" => timers = <<>>)'
    BY <1>3 DEF IInv, TimerCoversPause, timerVars
  <2>3. pause <= BackoffTime(errorCount) /\ BackoffTime(errorCount) \in Nat
    BY <1>3, BackoffAssumption, BoundsAssumption
       DEF IInv, TypeOK, PauseWithinBackoff
  <2>4. pause' <= BackoffTime(errorCount')
    BY <1>1, <1>3, <2>3 DEF IInv, TypeOK, timerVars
  <2> QED BY <1>1, <2>1, <2>2, <2>4 DEF IInv, PauseWithinBackoff
<1> QED BY <1>2, <1>3 DEF open, timerVars

\* Closing, by a success or by the timer, leaves no timer behind.
LEMMA CloseStep ==
  ASSUME IInv, success \/ TimerFires
  PROVE  /\ IInv'
         /\ state' = "CLOSED" /\ timers' = <<>>
         /\ UNCHANGED <<pause, openFor>>
<1>1. /\ state' = "CLOSED" /\ timers' = <<>>
      /\ UNCHANGED <<pause, openFor>>
      /\ errorCount' \in {0, errorCount}
  <2>1. CASE state = "CLOSED"
    BY <2>1 DEF success, TimerFires, close, clearTimeout, IInv
  <2>2. CASE state = "OPEN"
    <3>1. timers \in Seq(Nat) /\ Len(timers) = 1
      BY <2>2 DEF IInv, TypeOK, TimerCoversPause
    <3>2. clearTimeout(timers) = <<>> /\ clearTimeout(Tail(timers)) = <<>>
      BY <2>2, <3>1, OneElement DEF clearTimeout
    <3> QED BY <3>2 DEF success, TimerFires, close
  <2> QED BY <2>1, <2>2 DEF IInv, TypeOK
<1> QED
  BY <1>1, BoundsAssumption
     DEF IInv, TypeOK, TimerCoversPause, PauseWithinBackoff

\* A tick takes as much from the timer as from what is left of the pause.
LEMMA TickStep ==
  ASSUME IInv, Tick
  PROVE  /\ IInv'
         /\ state = "OPEN" /\ state' = "OPEN"
         /\ Len(timers) = 1 /\ Len(timers') = 1
         /\ timers[1] > 0 /\ timers'[1] = timers[1] - 1
<1>1. state = "OPEN" /\ Len(timers) = 1 /\ timers \in Seq(Nat)
  BY DEF Tick, IInv, TypeOK, TimerCoversPause
<1>2. DOMAIN timers = {1} /\ timers[1] \in Nat /\ timers[1] > 0
  <2>1. DOMAIN timers = {1} /\ timers[1] \in Nat
    BY <1>1
  <2>2. \E i \in DOMAIN timers : timers[i] > 0
    BY DEF Tick
  <2> QED BY <2>1, <2>2
<1>3. timers' = [i \in {1} |-> timers[1] - 1]
  BY <1>2 DEF Tick
<1>4. timers' \in Seq(Nat) /\ Len(timers') = 1 /\ timers'[1] = timers[1] - 1
  <2>1. timers' = <<timers[1] - 1>>
    BY <1>3
  <2> QED BY <1>2, <2>1
<1>5. state' = "OPEN" /\ UNCHANGED <<errorCount, pause>>
  BY <1>1 DEF Tick
<1>6. /\ pause \in Nat /\ openFor \in 0 .. pause /\ openFor' \in 0 .. pause
      /\ openFor' = openFor + 1 \/ openFor' = pause
  BY DEF Tick, IInv, TypeOK
<1>7. timers'[1] + openFor' >= pause'
  BY <1>1, <1>2, <1>4, <1>5, <1>6 DEF IInv, TimerCoversPause
<1> QED
  BY <1>1, <1>2, <1>4, <1>5, <1>6, <1>7
     DEF IInv, TypeOK, TimerCoversPause, PauseWithinBackoff

LEMMA NextIInv == IInv /\ [BackoffNext]_breakerVars => IInv'
<1> SUFFICES ASSUME IInv, [BackoffNext]_breakerVars PROVE IInv'
  OBVIOUS
<1>1. CASE error      BY <1>1, OpenStep DEF error
<1>2. CASE megaError  BY <1>2, OpenStep DEF megaError
<1>3. CASE success    BY <1>3, CloseStep
<1>4. CASE TimerFires BY <1>4, CloseStep
<1>5. CASE Tick       BY <1>5, TickStep
<1>6. CASE UNCHANGED breakerVars
  BY <1>6
     DEF breakerVars, IInv, TypeOK, TimerCoversPause, PauseWithinBackoff
<1> QED BY <1>1, <1>2, <1>3, <1>4, <1>5, <1>6 DEF BackoffNext

\* The inductive invariant holds in every behaviour of the breaker.
THEOREM Invariance == BackoffSpec => []IInv
  BY InitIInv, NextIInv, PTL DEF BackoffSpec

\* Every field of the breaker keeps its type.
THEOREM TypeCorrect == BackoffSpec => []TypeOK
<1>1. IInv => TypeOK BY DEF IInv
<1> QED BY <1>1, Invariance, PTL

\* One timer is armed exactly while the breaker is open: #open() and #close()
\* never leave one behind that could cut a later pause short.
THEOREM OneTimerCorrect == BackoffSpec => []OneTimer
<1>1. IInv => OneTimer
  BY DEF IInv, TypeOK, TimerCoversPause, OneTimer
<1> QED BY <1>1, Invariance, PTL

\* Without a success the breaker stays open for all of the announced backoff.
THEOREM PausesFullyCorrect == BackoffSpec => PausesFully
<1>1. ASSUME IInv, [BackoffNext]_breakerVars,
             state = "OPEN", state' = "CLOSED", errorCount' # 0
      PROVE  openFor >= pause
  <2>1. CASE TimerFires
    <3>1. timers \in Seq(Nat) /\ Len(timers) = 1 /\ timers[1] + openFor >= pause
      BY <1>1 DEF IInv, TypeOK, TimerCoversPause
    <3>2. timers[1] = 0
      BY <2>1, <3>1, OneElement DEF TimerFires
    <3> QED BY <3>1, <3>2, <1>1 DEF IInv, TypeOK
  <2>2. ~success
    BY <1>1 DEF success
  <2>3. ~Tick /\ ~(count(1) /\ open) /\ ~(count(3) /\ open)
    BY <1>1 DEF Tick, open, goOpen
  <2> QED BY <1>1, <2>1, <2>2, <2>3 DEF BackoffNext, error, megaError, breakerVars
<1>2. IInv /\ [BackoffNext]_breakerVars
        => [state = "OPEN" /\ state' = "CLOSED" /\ errorCount' # 0
              => openFor >= pause]_breakerVars
  BY <1>1
<1> QED BY <1>2, Invariance, PTL DEF BackoffSpec, PausesFully

\* Until a success no pause is shorter than the one before.
THEOREM BackoffNeverShrinksCorrect == BackoffSpec => BackoffNeverShrinks
<1>1. ASSUME IInv, [BackoffNext]_breakerVars,
             state = "CLOSED", state' = "OPEN", errorCount # 0
      PROVE  pause' >= pause
  <2>1. ASSUME NEW n \in {1, 3}, count(n), open PROVE pause' >= pause
    <3>1. errorCount \in 1 .. MaxErrorCount /\ errorCount' \in 1 .. MaxErrorCount
          /\ errorCount <= errorCount'
      BY <1>1, <2>1, BoundsAssumption DEF IInv, TypeOK, count
    <3>2. /\ BackoffTime(errorCount) <= BackoffTime(errorCount')
          /\ BackoffTime(errorCount) \in Nat /\ BackoffTime(errorCount') \in Nat
      BY <3>1, BackoffAssumption
    <3>3. pause' = BackoffTime(errorCount')
      BY <1>1, <2>1 DEF open, goOpen
    <3>4. pause <= BackoffTime(errorCount) /\ pause \in Nat
      BY <1>1, <3>1 DEF IInv, TypeOK, PauseWithinBackoff
    <3> QED BY <3>2, <3>3, <3>4
  <2>2. ~success /\ ~TimerFires /\ ~Tick
    BY <1>1 DEF success, TimerFires, close, Tick
  <2> QED BY <1>1, <2>1, <2>2 DEF BackoffNext, error, megaError, breakerVars
<1>2. IInv /\ [BackoffNext]_breakerVars
        => [state = "CLOSED" /\ state' = "OPEN" /\ errorCount # 0
              => pause' >= pause]_breakerVars
  BY <1>1
<1> QED BY <1>2, Invariance, PTL DEF BackoffSpec, BackoffNeverShrinks

-----------------------------------------------------------------------------
remaining == IF state = "OPEN" THEN timers[Len(timers)] ELSE 0

\* Every step of the breaker is a step of the abstract one or leaves it as it
\* is: it opens with a pause #getBackoffTime() can give, and closes by a
\* success or when nothing of the pause remains.
LEMMA StepSimulation ==
  IInv /\ [BackoffNext]_breakerVars => [Promise!Next]_<<state, remaining>>
<1> SUFFICES ASSUME IInv, [BackoffNext]_breakerVars
             PROVE  [Promise!Next]_<<state, remaining>>
  OBVIOUS
<1> USE DEF remaining
<1>1. state = "OPEN" => /\ timers \in Seq(Nat) /\ Len(timers) = 1
                        /\ remaining = timers[1] /\ timers[1] \in Nat
  BY OneElement DEF IInv, TypeOK, TimerCoversPause
<1>2. ASSUME NEW n \in {1, 3}, count(n), open
      PROVE  Promise!Open \/ UNCHANGED <<state, remaining>>
  <2>1. CASE state = "OPEN" /\ UNCHANGED timerVars
    BY <2>1 DEF timerVars
  <2>2. CASE state = "CLOSED" /\ goOpen(BackoffTime(errorCount'))
    <3>1. errorCount' \in 1 .. MaxErrorCount
      BY <1>2, BoundsAssumption DEF count, IInv, TypeOK
    <3>2. timers' = Append(<<>>, BackoffTime(errorCount')) /\ state' = "OPEN"
      BY <2>2 DEF goOpen, IInv
    <3>3. remaining' = BackoffTime(errorCount')
      BY <3>1, <3>2, FirstTimer, BackoffAssumption
    <3> QED BY <2>2, <3>1, <3>2, <3>3 DEF Promise!Open
  <2> QED BY <1>2, <2>1, <2>2 DEF open, timerVars
<1>3. CASE success \/ TimerFires
  <2>1. state' = "CLOSED" /\ remaining' = 0
    BY <1>3, CloseStep
  <2>2. CASE state = "CLOSED"
    BY <2>1, <2>2
  <2>3. CASE state = "OPEN"
    BY <2>1, <2>3 DEF Promise!Next, Promise!Succeed
  <2> QED BY <2>2, <2>3 DEF IInv, TypeOK
<1>4. CASE Tick
  <2>1. /\ state = "OPEN" /\ state' = "OPEN"
        /\ Len(timers) = 1 /\ Len(timers') = 1
        /\ timers[1] > 0 /\ timers'[1] = timers[1] - 1
    BY <1>4, TickStep
  <2> QED BY <2>1, <1>1 DEF Promise!Next, Promise!Elapse
<1>5. CASE UNCHANGED breakerVars
  BY <1>5 DEF breakerVars
<1>6. error \/ megaError => Promise!Open \/ UNCHANGED <<state, remaining>>
  BY <1>2 DEF error, megaError
<1> QED
  BY <1>3, <1>4, <1>5, <1>6 DEF BackoffNext, Promise!Next

\* The exponential breaker implements the safety part of the promise.
THEOREM Implements == BackoffSpec => Promise!Safety
<1>1. BreakerInit => Promise!Init
  BY DEF BreakerInit, Promise!Init
<1>2. IInv /\ [BackoffNext]_breakerVars => [Promise!Next]_Promise!vars
  BY StepSimulation DEF Promise!vars, remaining
<1> QED BY <1>1, <1>2, Invariance, PTL DEF BackoffSpec, Promise!Safety

=============================================================================
