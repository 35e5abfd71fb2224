-------------------------- MODULE MCSettingsPages --------------------------
(***************************************************************************)
(* A small instance of SettingsPages for TLC: one row of each kind.        *)
(***************************************************************************)
EXTENDS SettingsPages

CONSTANTS in1, ma1, pid1, co1, tr1, fu1, cu1, lcd1, out1, da1, da2, w1, w2

\* One row of each kind.
OfEachKind ==
  in1 :> "Input" @@ ma1 :> "Math" @@ pid1 :> "PID" @@ out1 :> "Output" @@ cu1 :> "Custom"
    @@ co1 :> "Conditional" @@ tr1 :> "Trigger" @@ fu1 :> "Function"
    @@ lcd1 :> "LCD" @@ da1 :> "Dashboard" @@ da2 :> "Dashboard"

\* Rows that have something to do with each other: a source, a conversion, a list.
Related ==
  {{in1, ma1, pid1}, {in1, cu1, out1}, {pid1, co1}, {co1, tr1}, {co1, fu1}, {co1, lcd1}, {lcd1, da2}}

\* The default dashboard stays empty.
One == [id \in Ids |-> [s \in Sorts |-> IF id = da1 THEN 0 ELSE 1]]

\* For the larger instance that the README tells of.
Two == [One EXCEPT ![in1]["measurement"] = 2, ![lcd1]["display"] = 2]
=============================================================================
