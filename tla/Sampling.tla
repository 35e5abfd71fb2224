------------------------------ MODULE Sampling ------------------------------
(***************************************************************************)
(* What an Input promises, whatever it waits for: its time falls into      *)
(* periods, and of each period it has at most one sample.  A measurement   *)
(* that a page asks for begins a period.                                   *)
(***************************************************************************)
EXTENDS Integers

CONSTANTS Inputs, Period

VARIABLES
  phase,  \* seconds since the period began
  since   \* seconds since the last sample; Period stands for any longer time

Sample(i) ==
  /\ since[i] > phase[i]
  /\ since' = [since EXCEPT ![i] = 0]
  /\ UNCHANGED phase

BeginPeriod(i) ==
  /\ phase' = [phase EXCEPT ![i] = 0]
  /\ UNCHANGED since

NextPhase(i) == IF phase[i] = Period - 1 THEN 0 ELSE phase[i] + 1

\* No period begins for an Input that is not active.
Pass ==
  \E active \in SUBSET Inputs :
    /\ phase' = [i \in Inputs |-> IF i \in active THEN NextPhase(i) ELSE phase[i]]
    /\ since' = [i \in Inputs |-> IF since[i] = Period THEN Period ELSE since[i] + 1]

Init == phase = [i \in Inputs |-> 0] /\ since = [i \in Inputs |-> Period]

Next == Pass \/ \E i \in Inputs : Sample(i) \/ BeginPeriod(i)

Spec == Init /\ [][Next]_<<phase, since>>
=============================================================================
