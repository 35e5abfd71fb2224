-------------------------- MODULE InputController --------------------------
(***************************************************************************)
(* Inputs that share a pre-output: an output that is switched on before a  *)
(* measurement (a fan that brings air to a sensor) and whose lock file     *)
(* makes the inputs take turns (mycodo/controllers/controller_input.py).   *)
(*                                                                         *)
(* Instants are kept relative to now, so that the clock has no end: due is *)
(* next_measurement - now, age is now - last_measurement, and timers count *)
(* down.  The output controller does what it is told (see OutputController *)
(* for whether it does); each command is sent by a thread of its own.      *)
(***************************************************************************)
EXTENDS Integers, FiniteSets

CONSTANTS
  Inputs,
  PreOutput,    \* those with a pre-output; they share it
  During,       \* those that measure while it is on, not after it was on
  Period,       \* seconds between measurements
  Duration,     \* pre_output_duration
  LockTimeout,  \* lock_acquire's time-out: 30 seconds
  MaxLate,      \* BOUND: how late the loop comes to a measurement
  Requests,     \* what the pages ask for: some of "force", "stop"
  Overlap       \* FALSE: see MayStep

ASSUME InputsAssumption ==
  /\ IsFiniteSet(Inputs)
  /\ During \subseteq PreOutput /\ PreOutput \subseteq Inputs
  /\ Period \in Nat \ {0} /\ Duration \in Nat \ {0} /\ LockTimeout \in Nat \ {0}
  /\ MaxLate \in Nat /\ Requests \subseteq {"force", "stop"} /\ Overlap \in BOOLEAN

VARIABLES
  pc,        \* where each input's thread is
  running,
  stopping,  \* stop_controller() has done pre_stop() and not yet cleared running
  due,       \* next_measurement, relative to now
  age,       \* time since last_measurement
  wanted,    \* get_new_measurement
  activated, \* pre_output_activated
  timer,     \* what is left of pre_output_timer; below 0 when it has passed
  patience,  \* what is left of lock_acquire's time-out
  file,      \* the lock file there is, None if there is none
  held,      \* the lock file each input has locked, deleted ones included
  sending,   \* commands that threads are about to give to the output controller
  lamp       \* the pre-output: Off, On, or the seconds it will yet be on

lock == <<file, held>>
preOutput == <<activated, timer>>
vars == <<pc, running, stopping, due, age, wanted, preOutput, patience, lock, sending, lamp>>

Places == {"asleep", "lock", "on", "measure", "off", "remove", "ended"}

None == 0

Off == 0
On == -1

\* Files are told apart by a number; a new one gets one that nobody has locked.
Files == 1..(Cardinality(Inputs) + 1)

\* age is not told apart beyond this: no comparison reaches further.
OldAge == MaxLate + Period + 1

Later(t) == IF t < 0 THEN t ELSE t - 1

(***************************************************************************)
(* Schedules                                                               *)
(***************************************************************************)
Resting == {"asleep", "lock", "ended"}

\* FALSE for Overlap: a loop runs to its end or to the lock before another
\* begins, commands are given at once, an input is stopped in its sleep, and
\* whoever waits for the lock comes before who begins anew (the lock is polled
\* more often than a loop runs).
MayStep(i) ==
  Overlap \/ (sending = {} /\ ~stopping[i] /\ \A j \in Inputs \ {i} : pc[j] \in Resting)

Goes(i, place) == pc' = [pc EXCEPT ![i] = place]

\* MUTANT of Lockable: nobody looks whether the file is locked.
AnyLock == {IF file = None THEN 1 ELSE file}

\* FileLock.acquire() opens the file, or creates it, and locks what it opened.
Lockable ==
  IF file = None
  THEN {CHOOSE f \in Files : \A j \in Inputs : held[j] # f}
  ELSE {f \in {file} : \A j \in Inputs : held[j] # f}

(***************************************************************************)
(* The loop                                                                *)
(***************************************************************************)
\* MUTANT of IsDue: a measurement that came late is not taken into account.
IsDueAgain(i) == due[i] < 0 /\ ~wanted[i]

\* Prevent double measurement if the previous one was delayed.
IsDue(i) == due[i] < 0 /\ ~wanted[i] /\ age[i] > -due[i]

\* The next measure event will occur in the future: the period is added until
\* it does.
NextDue(i) == IF due[i] < 0 /\ ~wanted[i] THEN due[i] % Period ELSE due[i]

\* While the pre-output is on the loop only looks whether its time has come.
WaitsForOutput(i) == wanted[i] /\ activated[i] /\ timer[i] >= 0

\* Where the loop goes from its top.
NextPlace(i) ==
  IF (~wanted[i] /\ ~IsDue(i)) \/ WaitsForOutput(i) THEN "asleep"
  ELSE IF i \in PreOutput /\ ~activated[i] THEN "lock" ELSE "measure"

HasWork(i) == NextPlace(i) # "asleep" \/ NextDue(i) # due[i]

\* Sleeping on is left out.
TopOfLoop(i) ==
  /\ pc[i] = "asleep" /\ running[i] /\ MayStep(i) /\ HasWork(i)
  /\ Overlap \/ Lockable = {} \/ \A j \in Inputs : pc[j] # "lock"
  /\ wanted' = [wanted EXCEPT ![i] = @ \/ IsDue(i)]
  /\ due' = [due EXCEPT ![i] = NextDue(i)]
  /\ Goes(i, NextPlace(i))
  /\ patience' = IF NextPlace(i) = "lock" THEN [patience EXCEPT ![i] = LockTimeout] ELSE patience
  /\ UNCHANGED <<running, stopping, age, preOutput, lock, sending, lamp>>

LockAcquired(i) ==
  /\ pc[i] = "lock" /\ running[i] /\ patience[i] > 0 /\ MayStep(i)
  /\ \E f \in Lockable : file' = f /\ held' = [held EXCEPT ![i] = f]
  /\ patience' = [patience EXCEPT ![i] = 0]
  /\ Goes(i, "on")
  /\ UNCHANGED <<running, stopping, due, age, wanted, preOutput, sending, lamp>>

\* MUTANT of IsImpatient: without a time-out.
NeverImpatient(i) == ~running[i]

IsImpatient(i) == ~running[i] \/ patience[i] = 0

\* "Breaking for future lock": the file is deleted, whoever has locked it, and
\* the loop goes on without it, even when the input is being stopped.
LockBroken(i) ==
  /\ pc[i] = "lock" /\ IsImpatient(i) /\ MayStep(i)
  /\ file' = None
  /\ patience' = [patience EXCEPT ![i] = 0]
  /\ Goes(i, "on")
  /\ UNCHANGED <<running, stopping, due, age, wanted, preOutput, held, sending, lamp>>

Command(i, what) == [from |-> i, do |-> what]

\* Until when the pre-output is on is reckoned here, not when it is switched on.
TurnOn(i) ==
  /\ pc[i] = "on" /\ MayStep(i)
  /\ timer' = [timer EXCEPT ![i] = Duration] /\ activated' = [activated EXCEPT ![i] = TRUE]
  /\ sending' = sending \cup {Command(i, IF i \in During THEN "on" ELSE "on for")}
  /\ Goes(i, "asleep")
  /\ UNCHANGED <<running, stopping, due, age, wanted, patience, lock, lamp>>

\* update_measure(): a sensor may give nothing.  Recording what it gave is left out.
Measure(i) ==
  /\ pc[i] = "measure" /\ MayStep(i)
  /\ age' \in {age, [age EXCEPT ![i] = 0]}
  /\ IF i \in PreOutput
     THEN Goes(i, "off") /\ UNCHANGED wanted
     ELSE Goes(i, "asleep") /\ wanted' = [wanted EXCEPT ![i] = FALSE]
  /\ UNCHANGED <<running, stopping, due, preOutput, patience, lock, sending, lamp>>

\* The pre-output is switched off, and lock_release() gives the lock up.  The
\* timer is not read again before it is set again.
TurnOff(i) ==
  /\ pc[i] = "off" /\ MayStep(i)
  /\ sending' = IF i \in During THEN sending \cup {Command(i, "off")} ELSE sending
  /\ activated' = [activated EXCEPT ![i] = FALSE] /\ wanted' = [wanted EXCEPT ![i] = FALSE]
  /\ timer' = [timer EXCEPT ![i] = -1]
  /\ held' = [held EXCEPT ![i] = None]
  /\ Goes(i, "remove")
  /\ UNCHANGED <<running, stopping, due, age, patience, file, lamp>>

\* Then it deletes the file, which another may have locked since.
RemoveFile(i) ==
  /\ pc[i] = "remove"
  /\ file' = None
  /\ Goes(i, "asleep")
  /\ UNCHANGED <<running, stopping, due, age, wanted, preOutput, patience, held, sending, lamp>>

\* What only the thread reads is cleared, to have fewer states.
End(i) ==
  /\ pc[i] = "asleep" /\ ~running[i]
  /\ Goes(i, "ended")
  /\ due' = [due EXCEPT ![i] = 0] /\ timer' = [timer EXCEPT ![i] = -1]
  /\ LET Cleared(flag) == [flag EXCEPT ![i] = FALSE]
     IN  wanted' = Cleared(wanted) /\ activated' = Cleared(activated)
  /\ UNCHANGED <<running, stopping, age, patience, lock, sending, lamp>>

\* The daemon forgets the controller, and its lock goes with it.
Freed(i) ==
  /\ pc[i] = "ended" /\ held[i] # None
  /\ held' = [held EXCEPT ![i] = None]
  /\ UNCHANGED <<pc, running, stopping, due, age, wanted, preOutput, patience, file, sending, lamp>>

(***************************************************************************)
(* Requests                                                                *)
(***************************************************************************)
force_measurements(i) ==
  /\ "force" \in Requests /\ running[i] /\ due[i] # 0
  /\ due' = [due EXCEPT ![i] = 0]
  /\ UNCHANGED <<pc, running, stopping, age, wanted, preOutput, patience, lock, sending, lamp>>

\* MUTANT of OffAtStop: the pre-output is not thought of.
NothingAtStop(i) == {}

\* "Ensure pre-output is off."
OffAtStop(i) == IF i \in PreOutput THEN {Command(i, "off")} ELSE {}

pre_stop(i) ==
  /\ "stop" \in Requests /\ running[i] /\ ~stopping[i]
  /\ Overlap \/ (pc[i] = "asleep" /\ sending = {})
  /\ stopping' = [stopping EXCEPT ![i] = TRUE]
  /\ sending' = sending \cup OffAtStop(i)
  /\ UNCHANGED <<pc, running, due, age, wanted, preOutput, patience, lock, lamp>>

stop_controller(i) ==
  /\ stopping[i]
  /\ stopping' = [stopping EXCEPT ![i] = FALSE] /\ running' = [running EXCEPT ![i] = FALSE]
  /\ UNCHANGED <<pc, due, age, wanted, preOutput, patience, lock, sending, lamp>>

(***************************************************************************)
(* Output controller and clock                                             *)
(***************************************************************************)
\* A thread comes to give its command.
Switch ==
  \E c \in sending :
    /\ sending' = sending \ {c}
    /\ lamp' = CASE c.do = "on" -> On [] c.do = "off" -> Off [] OTHER -> Duration
    /\ UNCHANGED <<pc, running, stopping, due, age, wanted, preOutput, patience, lock>>

Dimmed == IF lamp \in {On, Off} THEN lamp ELSE lamp - 1

\* What is done before the clock moves on, unless Overlap.
Waits(i) ==
  \/ pc[i] = "ended"
  \/ pc[i] = "asleep" /\ running[i] /\ ~stopping[i] /\ ~HasWork(i)
  \/ pc[i] = "lock" /\ ~IsImpatient(i) /\ (patience[i] = 0 \/ Lockable = {})

\* BOUND: an input's loop is at most MaxLate late.
Tick ==
  /\ \A i \in Inputs : running[i] => due[i] > -MaxLate
  /\ Overlap \/ (sending = {} /\ \A i \in Inputs : Waits(i))
  /\ due' = [i \in Inputs |-> IF running[i] THEN due[i] - 1 ELSE due[i]]
  /\ age' = [i \in Inputs |-> IF age[i] < OldAge THEN age[i] + 1 ELSE age[i]]
  /\ timer' = [i \in Inputs |-> Later(timer[i])]
  /\ patience' = [i \in Inputs |-> IF patience[i] > 0 THEN patience[i] - 1 ELSE 0]
  /\ lamp' = Dimmed
  /\ UNCHANGED <<pc, running, stopping, wanted, activated, lock, sending>>

(***************************************************************************)
(* Specification                                                           *)
(***************************************************************************)
Init ==
  /\ pc = [i \in Inputs |-> "asleep"] /\ running = [i \in Inputs |-> TRUE]
  /\ stopping = [i \in Inputs |-> FALSE]
  /\ due = [i \in Inputs |-> 0] /\ age = [i \in Inputs |-> OldAge]
  /\ wanted = [i \in Inputs |-> FALSE]
  /\ activated = [i \in Inputs |-> FALSE] /\ timer = [i \in Inputs |-> -1]
  /\ patience = [i \in Inputs |-> 0]
  /\ file = None /\ held = [i \in Inputs |-> None]
  /\ sending = {} /\ lamp = Off

Loop(i) ==
  \/ TopOfLoop(i) \/ LockAcquired(i) \/ LockBroken(i) \/ TurnOn(i) \/ Measure(i)
  \/ TurnOff(i) \/ RemoveFile(i) \/ End(i)

Next ==
  \/ \E i \in Inputs : Loop(i) \/ Freed(i) \/ force_measurements(i) \/ pre_stop(i) \/ stop_controller(i)
  \/ Switch
  \/ Tick

Fairness ==
  /\ \A i \in Inputs : WF_vars(Loop(i)) /\ WF_vars(stop_controller(i))
  /\ WF_vars(Switch) /\ WF_vars(Tick)

Spec == Init /\ [][Next]_vars /\ Fairness

(***************************************************************************)
(* Properties                                                              *)
(***************************************************************************)
Commands == [from : Inputs, do : {"on", "on for", "off"}]

\* Every variable stays in its type; a lock that is held without being wanted
\* belongs to an input that has been stopped.
TypeOK ==
  /\ pc \in [Inputs -> Places]
  /\ running \in [Inputs -> BOOLEAN] /\ stopping \in [Inputs -> BOOLEAN]
  /\ wanted \in [Inputs -> BOOLEAN] /\ activated \in [Inputs -> BOOLEAN]
  /\ due \in [Inputs -> Int] /\ \A i \in Inputs : due[i] < Period
  /\ age \in [Inputs -> 0..OldAge]
  /\ timer \in [Inputs -> -1..Duration] /\ patience \in [Inputs -> 0..LockTimeout]
  /\ file \in Files \cup {None} /\ held \in [Inputs -> Files \cup {None}]
  /\ sending \subseteq Commands
  /\ lamp \in {On, Off} \cup 1..Duration

\* Time since the last instant at which a measurement was due.
Phase(i) == (-due[i]) % Period

\* Time since the last measurement, longer times not told apart.
Since(i) == IF age[i] < Period THEN age[i] ELSE Period

Samples == INSTANCE Sampling WITH
  phase <- [i \in Inputs |-> Phase(i)], since <- [i \in Inputs |-> Since(i)]

\* Between two instants at which a measurement is due only one is taken, be it
\* late because of the lock or of the pre-output, or asked for by a page
\* ("Prevent double measurement", controller_input.py:169-172): the loop
\* implements Sampling.
OneSampleEach == Samples!Spec

\* A measurement is taken with the pre-output on, or after it was on, as the user
\* has chosen (controller_input.py:189-223), though the other inputs switch it
\* too: the lock keeps them apart until one is deactivated.
MeasuredAsTold ==
  [][\A i \in PreOutput :
       Measure(i) /\ (\A j \in PreOutput : running[j] /\ ~stopping[j]) =>
         IF i \in During THEN lamp = On ELSE lamp = Off]_vars

\* Once all its inputs have been deactivated the pre-output is off
\* (controller_input.py:570-575).
StopsOff ==
  sending = {} /\ (\A i \in Inputs : pc[i] = "ended") => lamp # On

\* A measurement that is wanted is attempted, or the input is deactivated: no
\* input waits for ever for a lock or for its pre-output.
MeasuresAgain == \A i \in Inputs : wanted[i] ~> ~wanted[i] \/ ~running[i]
=============================================================================
