--------------------------- MODULE MCTriggerTimers ---------------------------
(***************************************************************************)
(* Small instances of TriggerTimers for TLC.                               *)
(***************************************************************************)
EXTENDS TriggerTimers

CONSTANTS p1, p2, v0, v1

\* A span may go past midnight.
Two ==
  [v \in {v0, v1} |->
     IF v = v0 THEN [period |-> 2, offset |-> 0, start |-> 0, end |-> 1, sun |-> 1]
               ELSE [period |-> 1, offset |-> 1, start |-> 2, end |-> 0, sun |-> 2]]

\* The period of v1 is 0.
Never == [Two EXCEPT ![v1].period = 0]

\* East and west of Greenwich.
East == 1
West == -1
=============================================================================
