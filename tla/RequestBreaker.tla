--------------------------- MODULE RequestBreaker ---------------------------
(***************************************************************************)
(* The fixed-time breaker as the code that makes requests sees it: whether *)
(* isOpen(), and how many errors were reported since the last success.     *)
(* Time is left out, so an open breaker may close at any moment.  The      *)
(* components that share a breaker are composed with this module, as a     *)
(* variable and operators on it; FixedTimeCircuitBreaker implements it.    *)
(***************************************************************************)
EXTENDS Naturals

CONSTANT MaxErrorsBeforeBreaking

VARIABLE breaker

\* A breaker is a record; errors past the limit change nothing more.
ClosedBreaker == [open |-> FALSE, errors |-> 0]

breakerError(b) ==
  IF b.errors + 1 >= MaxErrorsBeforeBreaking
  THEN [open |-> TRUE, errors |-> MaxErrorsBeforeBreaking]
  ELSE [b EXCEPT !.errors = @ + 1]

breakerSuccess(b) == ClosedBreaker

breakTimeOver(b) == [b EXCEPT !.open = FALSE]

-----------------------------------------------------------------------------
\* The breaker on its own.
RequestBreakerInit == breaker = ClosedBreaker

RequestBreakerNext ==
  \/ breaker' = breakerError(breaker)
  \/ breaker' = breakerSuccess(breaker)
  \/ breaker.open /\ breaker' = breakTimeOver(breaker)

RequestBreakerSafety == RequestBreakerInit /\ [][RequestBreakerNext]_breaker

RequestBreakerSpec ==
  /\ RequestBreakerSafety
  /\ WF_breaker(breaker.open /\ breaker' = breakTimeOver(breaker))

=============================================================================
