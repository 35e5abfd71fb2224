--------------------------- MODULE MCMethodTable ---------------------------
(***************************************************************************)
(* A small instance of MethodTable for TLC.                                *)
(***************************************************************************)
EXTENDS MethodTable

CONSTANTS w1, w2

NoValue == -1

\* Most rows of the type whose spans are kept apart.
Few == [Date |-> 3, Duration |-> 2, Daily |-> 2, DailySine |-> 1, DailyBezier |-> 1]
=============================================================================
