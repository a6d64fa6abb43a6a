----------------------- MODULE FixedTimeCircuitBreaker -----------------------
(***************************************************************************)
(* src/common/circuit_breaker/fixed_time_circuit_breaker.ts: the breaker   *)
(* in front of code suggestions and of instance telemetry.  It opens when  *)
(* the errors since the last success reach a limit, for a fixed time.      *)
(*                                                                         *)
(* #open() does not ask whether the breaker is open already.  Requests     *)
(* that were in flight when it opened still report their errors, and each  *)
(* of them arms a timer of its own and forgets the one before.             *)
(***************************************************************************)
EXTENDS BreakerTimers, TLAPS

CONSTANTS MaxErrorsBeforeBreaking, BreakTime    \* the constructor's arguments

open == goOpen(BreakTime)

error ==
  /\ errorCount < MaxErrorCount
  /\ errorCount' = errorCount + 1
  /\ \/ errorCount' >= MaxErrorsBeforeBreaking /\ open
     \/ /\ errorCount' < MaxErrorsBeforeBreaking
        /\ UNCHANGED <<state, timers, pause, openFor>>

Next == error \/ success \/ Tick \/ TimerFires

Spec == BreakerInit /\ [][Next]_breakerVars /\ TimerFairness

-----------------------------------------------------------------------------
\* Seen without time, as the components that make requests see it, it behaves
\* like RequestBreaker: errors below the limit only count, an open breaker
\* stays open under further errors, and it closes in the end.
viewOf(st, n) ==
  [open   |-> st = "OPEN",
   errors |-> IF n < MaxErrorsBeforeBreaking THEN n ELSE MaxErrorsBeforeBreaking]
view == viewOf(state, errorCount)
View == INSTANCE RequestBreaker WITH breaker <- view
BehavesLikeRequestBreaker == View!RequestBreakerSpec

-----------------------------------------------------------------------------
Counting == state \in {"OPEN", "CLOSED"} /\ errorCount \in Nat

LEMMA Counts == Counting /\ [Next]_breakerVars => Counting'
BY DEF Counting, Next, breakerVars, error, open, goOpen, success, close, Tick, TimerFires

LEMMA ViewOpen ==
  ASSUME NEW n
  PROVE  viewOf("OPEN", n) = [open |-> TRUE, errors |-> viewOf("OPEN", n).errors]
<1>1. ("OPEN" = "OPEN") = TRUE
  OBVIOUS
<1> QED BY <1>1, Zenon DEF viewOf

LEMMA ViewClosed ==
  ASSUME NEW n
  PROVE  viewOf("CLOSED", n) = [open |-> FALSE, errors |-> viewOf("CLOSED", n).errors]
<1>1. ("CLOSED" = "OPEN") = FALSE
  OBVIOUS
<1>2. viewOf("CLOSED", n)
        = [open |-> "CLOSED" = "OPEN", errors |-> viewOf("CLOSED", n).errors]
  BY DEF viewOf
<1> QED BY <1>1, <1>2, Zenon

LEMMA ViewErrors ==
  ASSUME NEW st, NEW n
  PROVE  viewOf(st, n).errors = IF n < MaxErrorsBeforeBreaking THEN n ELSE MaxErrorsBeforeBreaking
BY DEF viewOf

LEMMA ClosedRecord ==
  ASSUME NEW e, NEW b, b = [open |-> TRUE, errors |-> e], NEW c, c = [b EXCEPT !.open = FALSE]
  PROVE  c = [open |-> FALSE, errors |-> e]
<1> DEFINE d == [open |-> FALSE, errors |-> e]
<1>1. c.open = FALSE /\ c.errors = e /\ c = [x \in {"open", "errors"} |-> c[x]]
  OBVIOUS
<1>2. d.open = FALSE /\ d.errors = e /\ d = [x \in {"open", "errors"} |-> d[x]]
  OBVIOUS
<1> HIDE DEF d
<1>3. c = d
  BY <1>1, <1>2
<1> QED BY <1>3 DEF d

\* However many timers are armed: an error counts and may open the breaker, a
\* success closes it, and a timer closes it if it is open.
LEMMA StepIsSeen ==
  ASSUME MaxErrorsBeforeBreaking \in Nat, Counting, [Next]_breakerVars
  PROVE  [View!RequestBreakerNext]_view
<1>1. CASE error
  <2>1. errorCount' = errorCount + 1
    BY <1>1 DEF error
  <2>2. CASE errorCount' >= MaxErrorsBeforeBreaking /\ open
    <3>1. state' = "OPEN"
      BY <2>2 DEF open, goOpen
    <3>2. view'.errors = MaxErrorsBeforeBreaking
      BY <2>1, <2>2, ViewErrors DEF Counting, view
    <3>3. view' = [open |-> TRUE, errors |-> MaxErrorsBeforeBreaking]
      BY <3>1, <3>2, ViewOpen DEF view
    <3>4. view.errors + 1 >= MaxErrorsBeforeBreaking
      BY <2>1, <2>2, ViewErrors DEF Counting, view
    <3>5. view' = View!breakerError(view)
      BY <3>3, <3>4 DEF View!breakerError
    <3> QED BY <3>5 DEF View!RequestBreakerNext
  <2>3. CASE errorCount' < MaxErrorsBeforeBreaking /\ UNCHANGED state
    <3>1. view.errors = errorCount /\ view'.errors = errorCount + 1
      BY <2>1, <2>3, ViewErrors DEF Counting, view
    <3>2. view' = [view EXCEPT !.errors = @ + 1]
      BY <2>3, <3>1 DEF view, viewOf
    <3>3. ~(view.errors + 1 >= MaxErrorsBeforeBreaking)
      BY <2>1, <2>3, <3>1 DEF Counting
    <3>4. view' = View!breakerError(view)
      BY <3>2, <3>3 DEF View!breakerError
    <3> QED BY <3>4 DEF View!RequestBreakerNext
  <2> QED BY <1>1, <2>2, <2>3 DEF error
<1>2. CASE success
  <2>1. state' = "CLOSED" /\ view'.errors = 0
    BY <1>2, ViewErrors DEF success, close, view
  <2>2. view' = View!breakerSuccess(view)
    BY <2>1, ViewClosed DEF view, View!breakerSuccess, View!ClosedBreaker
  <2> QED BY <2>2 DEF View!RequestBreakerNext
<1>3. CASE TimerFires
  <2>1. state' = "CLOSED" /\ errorCount' = errorCount
    BY <1>3 DEF TimerFires, close
  <2>2. CASE state = "OPEN"
    <3>1. view = [open |-> TRUE, errors |-> view.errors]
      BY <2>2, ViewOpen DEF view
    <3>2. view' = [open |-> FALSE, errors |-> view.errors]
      BY <2>1, ViewClosed, ViewErrors DEF view
    <3>3. View!breakTimeOver(view) = [open |-> FALSE, errors |-> view.errors]
      BY <3>1, ClosedRecord DEF View!breakTimeOver
    <3>4. view' = View!breakTimeOver(view)
      BY <3>1, <3>2, <3>3
    <3> QED BY <3>1, <3>4 DEF View!RequestBreakerNext
  <2>3. CASE state = "CLOSED"
    BY <2>1, <2>3 DEF view
  <2> QED BY <2>2, <2>3 DEF Counting
<1>4. CASE Tick \/ UNCHANGED breakerVars
  BY <1>4 DEF Tick, breakerVars, view
<1> QED BY <1>1, <1>2, <1>3, <1>4 DEF Next

\* The fixed-time breaker implements the safety part of RequestBreaker, so that
\* the components which share a breaker may use the record for it.
THEOREM ImplementsRequestBreaker ==
  ASSUME MaxErrorsBeforeBreaking \in Nat
  PROVE  Spec => View!RequestBreakerSafety
<1>1. BreakerInit => Counting /\ View!RequestBreakerInit
  <2> SUFFICES ASSUME BreakerInit PROVE Counting /\ View!RequestBreakerInit
    OBVIOUS
  <2>1. view.errors = 0
    BY ViewErrors DEF BreakerInit, view
  <2>2. view = View!ClosedBreaker
    BY <2>1, ViewClosed DEF BreakerInit, view, View!ClosedBreaker
  <2> QED BY <2>2 DEF BreakerInit, Counting, View!RequestBreakerInit
<1>2. Counting /\ [Next]_breakerVars => [View!RequestBreakerNext]_view
  BY StepIsSeen
<1> QED BY <1>1, <1>2, Counts, PTL DEF Spec, View!RequestBreakerSafety

=============================================================================
