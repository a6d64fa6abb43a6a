------------------------ MODULE SuggestionLifecycle ------------------------
(***************************************************************************)
(* What telemetry promises about one suggestion: its events follow the     *)
(* state flow, and nothing happens to it before it is requested, after it  *)
(* is forgotten or, acceptance apart, after it has ended.  A suggestion    *)
(* that was marked rejected may still turn out to be accepted, and so may  *)
(* one in any other state.                                                 *)
(***************************************************************************)
EXTENDS SuggestionStateGraph

VARIABLES
  state,       \* Unknown or the last event
  streaming    \* whether the suggestion is streamed; fixed when requested

vars == <<state, streaming>>

Init == state = Unknown /\ streaming = FALSE

Request == /\ state = Unknown
           /\ state' = "REQUESTED"
           /\ streaming' \in BOOLEAN

Move == /\ state # Unknown
        /\ state' \in stateGraph(streaming)[state] \cup {"ACCEPTED"}
        /\ UNCHANGED streaming

Forget == /\ state # Unknown
          /\ state' = Unknown /\ streaming' = FALSE

Next == Request \/ Move \/ Forget

Spec == Init /\ [][Next]_vars

=============================================================================
