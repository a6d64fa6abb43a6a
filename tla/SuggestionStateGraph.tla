------------------------ MODULE SuggestionStateGraph ------------------------
(***************************************************************************)
(* The states of a code suggestion and the transitions telemetry allows,   *)
(* from src/common/tracking/code_suggestions/constants.ts.                 *)
(***************************************************************************)
EXTENDS Naturals

Events == {"REQUESTED", "LOADED", "NOT_PROVIDED", "SHOWN", "ERRORED",
           "ACCEPTED", "REJECTED", "CANCELLED",
           "STREAM_STARTED", "STREAM_COMPLETED"}

endStates == {"ERRORED", "CANCELLED", "NOT_PROVIDED", "REJECTED", "ACCEPTED"}

nonStreamingSuggestionStateGraph ==
  [current \in endStates \cup {"REQUESTED", "LOADED", "SHOWN"} |->
     CASE current = "REQUESTED" -> {"LOADED", "ERRORED"}
       [] current = "LOADED"    -> {"SHOWN", "CANCELLED", "NOT_PROVIDED"}
       [] current = "SHOWN"     -> {"ACCEPTED", "REJECTED"}
       [] OTHER                 -> {}]

streamingSuggestionStateGraph ==
  [current \in endStates \cup
              {"REQUESTED", "STREAM_STARTED", "SHOWN", "STREAM_COMPLETED"} |->
     CASE current = "REQUESTED" -> {"STREAM_STARTED", "ERRORED", "CANCELLED"}
       [] current = "STREAM_STARTED" -> {"SHOWN", "ERRORED", "STREAM_COMPLETED"}
       [] current = "SHOWN" ->
            {"ERRORED", "STREAM_COMPLETED", "ACCEPTED", "REJECTED"}
       [] current = "STREAM_COMPLETED" ->
            {"ACCEPTED", "REJECTED", "NOT_PROVIDED"}
       [] OTHER -> {}]

stateGraph(isStreaming) == IF isStreaming THEN streamingSuggestionStateGraph
                           ELSE nonStreamingSuggestionStateGraph

\* The state of a suggestion that the tracker has no entry for.
Unknown == "unknown"

=============================================================================
