---------------------------- MODULE BreakerTimers ----------------------------
(***************************************************************************)
(* What the two breakers of src/common/circuit_breaker share: the fields   *)
(* of the class, the timers that its #open() has armed, #close(),          *)
(* success() and the timers' callbacks.                                    *)
(*                                                                         *)
(* The event loop is the scheduler: a method runs to completion, and the   *)
(* only other steps are timer callbacks.  A timer is a countdown in ticks; *)
(* setTimeout may run its callback late, never early, and callbacks of     *)
(* equal delays run in the order they were armed.  #timeoutId is only the  *)
(* handle of the timer armed last: arming another does not disarm it.      *)
(***************************************************************************)
EXTENDS Naturals, Sequences

CONSTANTS
  MaxTimers,       \* bound: timers armed at one time
  MaxErrorCount    \* bound: errors counted since the last success

ASSUME BoundsAssumption == MaxTimers \in Nat /\ MaxErrorCount \in Nat

VARIABLES
  state,         \* #state
  errorCount,    \* #errorCount
  timers,        \* ticks left on the armed timers, oldest first; while the
                 \* breaker is open #timeoutId names the last of them
  pause,         \* history: the delay of the latest opening
  openFor        \* history: ticks since the breaker opened, counted up to pause

breakerVars == <<state, errorCount, timers, pause, openFor>>

BreakerInit ==
  /\ state = "CLOSED" /\ errorCount = 0 /\ timers = <<>>
  /\ pause = 0 /\ openFor = 0

-----------------------------------------------------------------------------
\* The body of #open(): state OPEN, #timeoutId = setTimeout(#close, delay).
\* openFor restarts only when the breaker was closed before.
goOpen(delay) ==
  /\ Len(timers) < MaxTimers
  /\ state' = "OPEN"
  /\ timers' = Append(timers, delay)
  /\ pause' = delay
  /\ openFor' = IF state = "CLOSED" THEN 0 ELSE openFor

\* ts without the timer that #timeoutId names.
clearTimeout(ts) ==
  IF state = "OPEN" /\ ts # <<>> THEN SubSeq(ts, 1, Len(ts) - 1) ELSE ts

\* #close() when ts are the timers still armed: nothing if CLOSED already.
close(ts) == /\ state' = "CLOSED"
             /\ timers' = clearTimeout(ts)
             /\ UNCHANGED <<pause, openFor>>

success == errorCount' = 0 /\ close(timers)

\* Mutant: a break that is over halves the error count.
TimerFiresAndForgives == /\ timers # <<>> /\ Head(timers) = 0
                         /\ close(Tail(timers))
                         /\ errorCount' = errorCount \div 2

\* The callback of setTimeout(() => this.#close()); the error count stays.
TimerFires == /\ timers # <<>> /\ Head(timers) = 0
              /\ close(Tail(timers))
              /\ UNCHANGED errorCount

Tick == /\ \E i \in DOMAIN timers : timers[i] > 0
        /\ timers' = [i \in DOMAIN timers |->
                        IF timers[i] > 0 THEN timers[i] - 1 ELSE 0]
        /\ openFor' = IF openFor < pause THEN openFor + 1 ELSE openFor
        /\ UNCHANGED <<state, errorCount, pause>>

\* Time passes and the event loop runs due callbacks; no call is fair.
TimerFairness == WF_breakerVars(Tick) /\ WF_breakerVars(TimerFires)

-----------------------------------------------------------------------------
TypeOK ==
  /\ state \in {"OPEN", "CLOSED"}
  /\ errorCount \in 0 .. MaxErrorCount
  /\ timers \in Seq(Nat) /\ Len(timers) <= MaxTimers
  /\ pause \in Nat /\ openFor \in 0 .. pause

\* Without a success (which resets the count) the breaker stays open for the
\* whole delay that #open() passed to setTimeout.
PausesFully ==
  [][state = "OPEN" /\ state' = "CLOSED" /\ errorCount' # 0
       => openFor >= pause]_breakerVars

=============================================================================
