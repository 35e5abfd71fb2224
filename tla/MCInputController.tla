-------------------------- MODULE MCInputController ------------------------
(***************************************************************************)
(* Small instances of InputController for TLC.                             *)
(***************************************************************************)
EXTENDS InputController

CONSTANTS i1, i2, i3
=============================================================================
