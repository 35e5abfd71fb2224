------------------------- MODULE MCOutputController -------------------------
(***************************************************************************)
(* Small instances of OutputController for TLC.                            *)
(***************************************************************************)
EXTENDS OutputController

CONSTANTS o1, o2, m, c1, c2, w1, w2

AllKeep == [o \in Outputs |-> "keep"]
AllOff  == [o \in Outputs |-> "off"]
AllOn   == [o \in Outputs |-> "on"]
OneAmp  == [o \in Outputs |-> 1]
=============================================================================
