------------------ MODULE ExponentialBackoffCircuitBreaker ------------------
(***************************************************************************)
(* src/common/circuit_breaker/exponential_backoff_circuit_breaker.ts: the  *)
(* breaker in front of direct connections and of the requests for their    *)
(* details.  Every error opens it; the more errors since the last success, *)
(* the longer the pause.                                                   *)
(***************************************************************************)
EXTENDS BreakerTimers

CONSTANTS InitialBackoff, Multiplier, MaxBackoff   \* the constructor's options

\* #getBackoffTime() when n errors have been counted.
BackoffTime(n) == LET backoff == InitialBackoff * Multiplier ^ (n - 1)
                  IN  IF backoff <= MaxBackoff THEN backoff ELSE MaxBackoff

\* The facts about #getBackoffTime() that the properties rest on; a multiplier
\* below one would break the second.
ASSUME BackoffAssumption ==
  /\ \A n \in 1 .. MaxErrorCount : BackoffTime(n) \in Nat
  /\ \A m, n \in 1 .. MaxErrorCount : m <= n => BackoffTime(m) <= BackoffTime(n)

-----------------------------------------------------------------------------
\* Mutant: no already-open guard.
openAgain == goOpen(BackoffTime(errorCount'))

\* #open(): an open breaker keeps its timer.  errorCount' is the caller's.
open == \/ state = "CLOSED" /\ goOpen(BackoffTime(errorCount'))
        \/ /\ state = "OPEN"
           /\ UNCHANGED <<state, timers, pause, openFor>>

count(n) == /\ errorCount + n <= MaxErrorCount
            /\ errorCount' = errorCount + n

error == count(1) /\ open

\* A refused token counts as three errors.
megaError == count(3) /\ open

BackoffNext == error \/ megaError \/ success \/ Tick \/ TimerFires

BackoffSpec == BreakerInit /\ [][BackoffNext]_breakerVars /\ TimerFairness

-----------------------------------------------------------------------------
\* Exactly one timer is armed while the breaker is open and none when it is
\* closed: no timer of an earlier pause can cut a later one short.
OneTimer == Len(timers) = IF state = "OPEN" THEN 1 ELSE 0

\* Until a success, every pause is at least as long as the one before it.
BackoffNeverShrinks ==
  [][state = "CLOSED" /\ state' = "OPEN" /\ errorCount # 0
       => pause' >= pause]_breakerVars

\* The breaker keeps the promise of the abstract specification.
Promise == INSTANCE CircuitBreaker WITH
  Pauses <- {BackoffTime(n) : n \in 1 .. MaxErrorCount},
  remaining <- IF state = "OPEN" THEN timers[Len(timers)] ELSE 0
KeepsPromise == Promise!Spec

=============================================================================
