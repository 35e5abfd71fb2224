-------------------------- MODULE MCDurationMethod --------------------------
(***************************************************************************)
(* Small instances of DurationMethod for TLC.                              *)
(***************************************************************************)
EXTENDS DurationMethod

Setting(kind, repeat) == [kind |-> kind, repeat |-> repeat]

\* Those that can be resumed after a crash.
Resumable == {Setting("PID", "until")} \cup {Setting("Trigger", r) : r \in {"no", "until", "for ever"}}

ThreeAndSeven == [PID |-> 3, Trigger |-> 7]
=============================================================================
