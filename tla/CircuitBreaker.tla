--------------------------- MODULE CircuitBreaker ---------------------------
(***************************************************************************)
(* What a circuit breaker promises the components that ask isOpen() before *)
(* they call the KhulnaSoft API: once it has opened with an announced      *)
(* pause, it closes either because some request succeeded or because the   *)
(* whole pause has passed, and it never stays open for ever.               *)
(*                                                                         *)
(* This is the abstract specification; FixedTimeCircuitBreaker and         *)
(* ExponentialBackoffCircuitBreaker are the two implementations.  Time is  *)
(* counted in ticks; `remaining' is the part of the pause still to run.    *)
(***************************************************************************)
EXTENDS Naturals

CONSTANT Pauses        \* the lengths a pause may be announced with

VARIABLES state, remaining

vars == <<state, remaining>>

Init == state = "CLOSED" /\ remaining = 0

Open == /\ state = "CLOSED"
        /\ state' = "OPEN"
        /\ remaining' \in Pauses

\* Time passes; nobody can make the pause longer or run it backwards.
Elapse == /\ remaining > 0
          /\ remaining' = remaining - 1
          /\ UNCHANGED state

\* Without a success the breaker closes only when the pause is over.
Expire == /\ state = "OPEN" /\ remaining = 0
          /\ state' = "CLOSED"
          /\ UNCHANGED remaining

Succeed == /\ state = "OPEN"
           /\ state' = "CLOSED" /\ remaining' = 0

Next == Open \/ Elapse \/ Expire \/ Succeed

Fairness == WF_vars(Elapse) /\ WF_vars(Expire)

Safety == Init /\ [][Next]_vars

Spec == Safety /\ Fairness

=============================================================================
