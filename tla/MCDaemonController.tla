------------------------ MODULE MCDaemonController ------------------------
(***************************************************************************)
(* Small instances of DaemonController for TLC.                            *)
(***************************************************************************)
EXTENDS DaemonController, TLC

CONSTANTS i1, i2, m, c1, c2, s1, t1, t2, t3, t4

OneInput    == [id \in Ids |-> "Input"]
InputAndPID == i1 :> "Input" @@ i2 :> "PID"

ThreadSymmetry == Permutations({t1, t2, t3, t4} \cap Objects)
=============================================================================
