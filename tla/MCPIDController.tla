-------------------------- MODULE MCPIDController --------------------------
(***************************************************************************)
(* Small instances of PIDController for TLC.                               *)
(***************************************************************************)
EXTENDS PIDController

CONSTANTS p1, p2

Pwm      == [side \in Sides |-> "pwm"]
Duration == [side \in Sides |-> "duration"]
Pump     == [side \in Sides |-> "pump"]
MinusTwo == -2
=============================================================================
