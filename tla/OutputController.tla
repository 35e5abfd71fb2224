-------------------------- MODULE OutputController --------------------------
(***************************************************************************)
(* The output controller of the Mycodo daemon                              *)
(* (mycodo/controllers/controller_output.py) with the output modules it    *)
(* drives (mycodo/outputs/).                                               *)
(*                                                                         *)
(* output_on_off() is run at the same time by threads that share the       *)
(* controller's dictionaries and hold no lock: the Pyro server's threads   *)
(* (Callers), the controller's own thread (Main: start-up states, the      *)
(* sampling loop, shutdown states) and the threads the loop starts to      *)
(* switch expired outputs off (OffThreads).  One call is the steps below,  *)
(* cut where it reaches the device, the database or its own test of the    *)
(* shared dictionaries; consecutive dictionary assignments are one step.   *)
(***************************************************************************)
EXTENDS Integers, FiniteSets, FiniteSetsExt

CONSTANTS
  Outputs,       \* unique ids of outputs
  Radio,         \* those that keep their own state and transmit commands
  Direct,        \* those that are not 'on_off' (PWM, volume)
  Forced,        \* those with force_command set
  Amps,          \* current draw of each output
  MaxAmps,       \* Misc.max_amps
  Startup,       \* state_startup:  "on", "off" or "keep" for each output
  Shutdown,      \* state_shutdown: "on", "off" or "keep" for each output
  Configured,    \* outputs in the database when the controller starts
  Callers,       \* threads of the Pyro server
  Main,          \* the controller's thread
  OffThreads,    \* BOUND: how many switch-off threads may live at once
  Requests,      \* kinds of request the callers make
  Amounts,       \* durations asked for; 0 and None are "no duration"
  MinOffs,       \* minimum off durations asked for; 0 is "disabled"
  Faults,        \* "radio": a transmission may raise; "setup": a set-up may fail
  Overlap,       \* TRUE: calls overlap freely; FALSE: the schedules in which every
                 \* call ends before the next one begins and the clock moves on
  MaxTime,       \* BOUND: last instant of the clock
  None           \* Python's None

Threads == Callers \cup {Main} \cup OffThreads

ASSUME OutputAssumption ==
  /\ Radio \subseteq Outputs /\ Direct \subseteq Outputs
  /\ Forced \subseteq Outputs /\ Configured \subseteq Outputs /\ IsFiniteSet(Outputs)
  /\ Amps \in [Outputs -> Nat] /\ MaxAmps \in Nat
  /\ Startup \in [Outputs -> {"on", "off", "keep"}]
  /\ Shutdown \in [Outputs -> {"on", "off", "keep"}]
  /\ Requests \subseteq {"on", "off", "modify", "delete", "stop"}
  /\ Amounts \subseteq Int \cup {None} /\ MinOffs \subseteq Nat
  /\ Faults \subseteq {"radio", "setup"}
  /\ Overlap \in BOOLEAN /\ MaxTime \in Nat
  /\ None \notin Int
  /\ Main \notin Callers /\ Main \notin OffThreads
  /\ Callers \cap OffThreads = {}

VARIABLES
  now,             \* the clock, datetime.now()
  phase, running,  \* where Main is, and whether it is to go on
  keys, todo,      \* the dictionary Main iterates over, and what is left of it
  known,           \* "new" | "present" | "deleted": the key in output_unique_id
  is_setup,        \* the module object is set up
  dev,             \* what the device really does
  output_state,    \* what a Radio module believes the device does
  on_until, last_duration, on_duration, off_triggered, time_turned_on,
  off_until,       \* Output.off_until in the database
  recorded,        \* seconds of on-time written to the measurement database
  pc, op           \* each thread's place in its call, and the call's locals

mainVars  == <<phase, running, keys, todo>>
clockVars == <<now, mainVars>>
modVars   == <<known, is_setup>>
devVars   == <<dev, output_state>>
timerVars == <<on_until, last_duration, on_duration, off_triggered, time_turned_on>>
vars == <<clockVars, modVars, devVars, timerVars, off_until, recorded, pc, op>>

(***************************************************************************)
(* Queries                                                                 *)
(***************************************************************************)
Abs(x) == IF x < 0 THEN -x ELSE x

\* MUTANT of Present: del_output leaves the keys where they are.
PresentUnpopped(o) == known[o] # "new"

Present(o) == known[o] = "present"

IsOn(o) == /\ Present(o) /\ is_setup[o]
           /\ IF o \in Radio THEN output_state[o] ELSE dev[o]

\* MUTANT of current_amp_load: only outputs on for a duration are counted.
AmpLoadOfTimed ==
  MapThenSumSet(LAMBDA o : Amps[o], {o \in Outputs : IsOn(o) /\ on_duration[o]})

current_amp_load == MapThenSumSet(LAMBDA o : Amps[o], {o \in Outputs : IsOn(o)})

Remaining(o, t) == IF on_until[o] > t THEN on_until[o] - t ELSE 0

InCall(t) == pc[t] \notin {"idle", "spawned"}

Quiet == \A t \in Threads : ~InCall(t)

MayEnter == Overlap \/ Quiet

(***************************************************************************)
(* One call of output_on_off                                               *)
(***************************************************************************)
Rejects(o) == ~Present(o) \/ ~is_setup[o]

GivenAmount(amount) == IF amount = None THEN 0 ELSE amount

Locals(o, amount, min_off) ==
  [output |-> o, amount |-> GivenAmount(amount), min_off |-> min_off, now |-> now, is_on |-> IsOn(o)]

\* A call that is still to begin, for o, and no call at all.
NewCall(o) == [output |-> o, amount |-> 0, min_off |-> 0, now |-> 0, is_on |-> FALSE]

NoCall == NewCall(None)

Goto(t, label) == pc' = [pc EXCEPT ![t] = label]

Return(t) == /\ pc' = [pc EXCEPT ![t] = "idle"]
             /\ op' = [op EXCEPT ![t] = NoCall]

FirstStep(o, state) ==
  IF state = "off" THEN "switchOff"
  ELSE IF o \in Direct THEN "switchDirect"
  ELSE IF IsOn(o) THEN "branch" ELSE "amps"

\* Lines 427-446: the clock and is_on() are read once, and a call for an
\* output that does not exist or is not set up ends here.
EnterCall(t, o, state, amount, min_off) ==
  IF Rejects(o)
  THEN Return(t)
  ELSE /\ op' = [op EXCEPT ![t] = Locals(o, amount, min_off)]
       /\ Goto(t, FirstStep(o, state))

At(t, label) == pc[t] = label

\* An exception ends the call.  all_outputs_set_state() catches it, and so does
\* the Pyro server; in run_finally() nothing does, and Main's thread dies.
Raise(t) ==
  /\ Return(t)
  /\ phase' = IF t = Main /\ phase = "shutdown" THEN "dead" ELSE phase
  /\ UNCHANGED <<now, running, keys, todo>>

\* A key that del_output popped raises KeyError: the call ends.
KeyErrorAbort(t) ==
  /\ pc[t] \in {"amps", "offUntil", "branch", "timed", "switchTimed",
                "switchUntimed", "switchDirect", "switchOff", "recordOff"}
  /\ ~Present(op[t].output)
  /\ Raise(t)
  /\ UNCHANGED <<modVars, devVars, timerVars, off_until, recorded>>

CheckAmps(t) ==
  LET o == op[t].output IN
  /\ At(t, "amps") /\ Present(o)
  /\ IF current_amp_load + Amps[o] > MaxAmps
     THEN Return(t)
     ELSE Goto(t, "offUntil") /\ UNCHANGED op
  /\ UNCHANGED <<clockVars, modVars, devVars, timerVars, off_until, recorded>>

\* MUTANT of MustStayOff: off by one.
StaysOffOneLess(o, t) == off_until[o] > t + 1

MustStayOff(o, t) == off_until[o] > t

CheckOffUntil(t) ==
  LET o == op[t].output IN
  /\ At(t, "offUntil") /\ Present(o)
  /\ IF MustStayOff(o, op[t].now)
     THEN Return(t)
     ELSE Goto(t, "branch") /\ UNCHANGED op
  /\ UNCHANGED <<clockVars, modVars, devVars, timerVars, off_until, recorded>>

\* Lines 510-518: an amount is given; the next allowed on is saved first.
SetOffUntil(t) ==
  LET o == op[t].output IN
  /\ At(t, "branch") /\ Present(o) /\ op[t].amount # 0
  /\ off_until' = IF op[t].min_off = 0 THEN off_until
                  ELSE [off_until EXCEPT ![o] =
                          op[t].now + Abs(op[t].amount) + op[t].min_off]
  /\ Goto(t, "timed")
  /\ UNCHANGED <<clockVars, modVars, devVars, timerVars, recorded, op>>

\* MUTANT of EndOf: a new duration is added to the end of the running one.
EndStacked(o, t) == (IF on_duration[o] THEN on_until[o] ELSE op[t].now) + Abs(op[t].amount)

EndOf(o, t) == op[t].now + Abs(op[t].amount)

\* Lines 521-570: already on for an amount.  The elapsed part is recorded,
\* signed by the new amount, and the call returns without its triggers.
Extend(t) ==
  LET o       == op[t].output
      amount  == op[t].amount
      time_on == Abs(last_duration[o]) - Remaining(o, op[t].now)
  IN
  /\ At(t, "timed") /\ Present(o) /\ op[t].is_on /\ on_duration[o]
  /\ on_until' = [on_until EXCEPT ![o] = EndOf(o, t)]
  /\ last_duration' = [last_duration EXCEPT ![o] = amount]
  /\ recorded' = IF time_on > 0
                 THEN [recorded EXCEPT ![o] = @ + (IF amount < 0 THEN -time_on ELSE time_on)]
                 ELSE recorded
  /\ Return(t)
  /\ UNCHANGED <<clockVars, modVars, devVars, on_duration, off_triggered, time_turned_on, off_until>>

\* Lines 572-589: the branch for an output on without an amount tests the
\* dictionary output_on_duration itself, which is never empty here, so every
\* other case goes on to switch the output.
NotForAnAmount(t) ==
  /\ At(t, "timed") /\ Present(op[t].output)
  /\ ~(op[t].is_on /\ on_duration[op[t].output])
  /\ Goto(t, "switchTimed")
  /\ UNCHANGED <<clockVars, modVars, devVars, timerVars, off_until, recorded, op>>

\* MUTANT of TurnedOnAt: the time is not kept.
TurnedOnAtLost(o, t) == time_turned_on

TurnedOnAt(o, t) == IF time_turned_on[o] = None
                    THEN [time_turned_on EXCEPT ![o] = t]
                    ELSE time_turned_on

\* Lines 603-624: no amount.
OnUntimed(t) ==
  LET o == op[t].output IN
  /\ At(t, "branch") /\ Present(o) /\ op[t].amount = 0
  /\ IF op[t].is_on /\ o \notin Forced
     THEN Return(t) /\ UNCHANGED time_turned_on
     ELSE /\ time_turned_on' = TurnedOnAt(o, op[t].now)
          /\ Goto(t, "switchUntimed") /\ UNCHANGED op
  /\ UNCHANGED <<clockVars, modVars, devVars, on_until, last_duration, on_duration,
                 off_triggered, off_until, recorded>>

\* The module's output_switch(): the device follows, and a Radio module notes it.
Drive(o, on) ==
  /\ dev' = [dev EXCEPT ![o] = on]
  /\ output_state' = IF o \in Radio THEN [output_state EXCEPT ![o] = on] ELSE output_state

SwitchOn(t) ==
  LET o == op[t].output IN
  /\ pc[t] \in {"switchTimed", "switchUntimed", "switchDirect"} /\ Present(o)
  /\ Drive(o, TRUE)
  /\ IF At(t, "switchTimed") THEN Goto(t, "recordTimed") /\ UNCHANGED op ELSE Return(t)
  /\ UNCHANGED <<clockVars, modVars, timerVars, off_until, recorded>>

SwitchOff(t) ==
  LET o == op[t].output IN
  /\ At(t, "switchOff") /\ Present(o)
  /\ Drive(o, FALSE)
  /\ Goto(t, "recordOff")
  /\ UNCHANGED <<clockVars, modVars, timerVars, off_until, recorded, op>>

\* wireless_rpi_rf.py: transmit() raises before the module's state is noted.
SwitchRaises(t) ==
  LET o == op[t].output IN
  /\ "radio" \in Faults /\ o \in Radio
  /\ pc[t] \in {"switchTimed", "switchUntimed", "switchDirect", "switchOff"} /\ Present(o)
  /\ Raise(t)
  /\ UNCHANGED <<modVars, devVars, timerVars, off_until, recorded>>

RecordTimed(t) ==
  LET o == op[t].output IN
  /\ At(t, "recordTimed")
  /\ on_until' = [on_until EXCEPT ![o] = EndOf(o, t)]
  /\ last_duration' = [last_duration EXCEPT ![o] = op[t].amount]
  /\ on_duration' = [on_duration EXCEPT ![o] = TRUE]
  /\ Return(t)
  /\ UNCHANGED <<clockVars, modVars, devVars, off_triggered, time_turned_on, off_until, recorded>>

\* Lines 635-677: the seconds written are the duration's elapsed part, or the
\* time since time_turned_on when that is set.
OffSeconds(o, t) ==
  IF time_turned_on[o] # None
  THEN t - time_turned_on[o]
  ELSE LET elapsed == Abs(last_duration[o]) - Remaining(o, t)
       IN  IF last_duration[o] < 0 THEN -elapsed ELSE elapsed

\* MUTANT of StopTimer: an elif where the code has an if.
StopTimerElif(o) == IF time_turned_on[o] # None
                    THEN on_duration ELSE [on_duration EXCEPT ![o] = FALSE]

StopTimer(o) == [on_duration EXCEPT ![o] = FALSE]

\* MUTANT of Rearm: the reset of line 677 is missing.
RearmMissing(o) == off_triggered

Rearm(o) == [off_triggered EXCEPT ![o] = FALSE]

RecordOff(t) ==
  LET o == op[t].output IN
  /\ At(t, "recordOff") /\ Present(o)
  /\ recorded' = IF time_turned_on[o] # None \/ on_duration[o]
                 THEN [recorded EXCEPT ![o] = @ + OffSeconds(o, op[t].now)]
                 ELSE recorded
  /\ on_until' = IF on_duration[o] THEN [on_until EXCEPT ![o] = op[t].now] ELSE on_until
  /\ on_duration' = StopTimer(o)
  /\ time_turned_on' = [time_turned_on EXCEPT ![o] = None]
  /\ off_triggered' = Rearm(o)
  /\ Return(t)
  /\ UNCHANGED <<clockVars, modVars, devVars, last_duration, off_until>>

CallStep(t) ==
  \/ CheckAmps(t) \/ CheckOffUntil(t) \/ SetOffUntil(t) \/ Extend(t)
  \/ NotForAnAmount(t) \/ OnUntimed(t) \/ SwitchOn(t) \/ SwitchOff(t)
  \/ SwitchRaises(t) \/ RecordTimed(t) \/ RecordOff(t) \/ KeyErrorAbort(t)

(***************************************************************************)
(* Requests from the Pyro server                                           *)
(***************************************************************************)
OutputOn(t) ==
  \E o \in Outputs, amount \in Amounts, min_off \in MinOffs :
    /\ "on" \in Requests /\ MayEnter /\ pc[t] = "idle"
    /\ EnterCall(t, o, "on", amount, min_off)
    /\ UNCHANGED <<clockVars, modVars, devVars, timerVars, off_until, recorded>>

OutputOff(t) ==
  \E o \in Outputs :
    /\ "off" \in Requests /\ MayEnter /\ pc[t] = "idle"
    /\ EnterCall(t, o, "off", 0, 0)
    /\ UNCHANGED <<clockVars, modVars, devVars, timerVars, off_until, recorded>>

ResetTimers(o) ==
  /\ on_until' = [on_until EXCEPT ![o] = now]
  /\ last_duration' = [last_duration EXCEPT ![o] = 0]
  /\ on_duration' = [on_duration EXCEPT ![o] = FALSE]
  /\ off_triggered' = [off_triggered EXCEPT ![o] = FALSE]
  /\ time_turned_on' = [time_turned_on EXCEPT ![o] = None]

\* A new module object and its setup_output(): GPIO pins are driven off, a
\* Radio module only assumes off; a failed set-up leaves the device alone.
SetUp(o) ==
  \E ok \in IF "setup" \in Faults THEN BOOLEAN ELSE {TRUE} :
    /\ is_setup' = [is_setup EXCEPT ![o] = ok]
    /\ dev' = IF ok /\ o \notin Radio THEN [dev EXCEPT ![o] = FALSE] ELSE dev
    /\ output_state' = [output_state EXCEPT ![o] = FALSE]

\* add_mod_output(): settings and timers first, then the module is replaced.
AddModOutput(t) ==
  \E o \in Outputs :
    /\ "modify" \in Requests /\ MayEnter /\ pc[t] = "idle"
    /\ known[o] = "present" \/ (known[o] = "new" /\ o \notin Configured)
    /\ known' = [known EXCEPT ![o] = "present"]
    /\ ResetTimers(o)
    /\ op' = [op EXCEPT ![t] = Locals(o, 0, 0)]
    /\ Goto(t, "setup")
    /\ UNCHANGED <<clockVars, is_setup, devVars, off_until, recorded>>

\* Lines 248-254; the look-up of the type of an output deleted meanwhile raises.
ReplaceModule(t) ==
  /\ At(t, "setup")
  /\ IF Present(op[t].output)
     THEN SetUp(op[t].output)
     ELSE UNCHANGED <<is_setup, devVars>>
  /\ Return(t)
  /\ UNCHANGED <<clockVars, known, timerVars, off_until, recorded>>

\* del_output(): the module is told to stop, the device is left as it is, and
\* the keys are popped, all but output_time_turned_on's.
DelOutput(t) ==
  \E o \in Outputs :
    /\ "delete" \in Requests /\ MayEnter /\ pc[t] = "idle" /\ Present(o)
    /\ known' = [known EXCEPT ![o] = "deleted"]
    /\ is_setup' = [is_setup EXCEPT ![o] = FALSE]
    /\ on_until' = [on_until EXCEPT ![o] = 0]
    /\ last_duration' = [last_duration EXCEPT ![o] = 0]
    /\ on_duration' = [on_duration EXCEPT ![o] = FALSE]
    /\ off_triggered' = [off_triggered EXCEPT ![o] = FALSE]
    /\ UNCHANGED <<clockVars, devVars, time_turned_on, off_until, recorded, pc, op>>

StopController(t) ==
  /\ "stop" \in Requests /\ pc[t] = "idle" /\ phase = "loop" /\ running
  /\ running' = FALSE
  /\ UNCHANGED <<now, phase, keys, todo, modVars, devVars, timerVars, off_until, recorded, pc, op>>

(***************************************************************************)
(* The controller's own thread                                             *)
(***************************************************************************)
\* all_outputs_initialize(), one output at a time.
LoadOutput(o) ==
  /\ phase = "load" /\ o \in todo
  /\ todo' = todo \ {o}
  /\ known' = [known EXCEPT ![o] = "present"]
  /\ ResetTimers(o)
  /\ SetUp(o)
  /\ UNCHANGED <<now, phase, running, keys, off_until, recorded, pc, op>>

PresentKeys == {o \in Outputs : Present(o)}

\* Python refuses to go on iterating over a dictionary that changed its size.
KeysChanged == Cardinality(PresentKeys) # Cardinality(keys)

\* MUTANT of Handled: the output is looked at again and again.
NeverHandled(o) == todo

Handled(o) == todo \ {o}

\* all_outputs_set_state() and run_finally(): a call of output_on_off for each
\* output whose setting asks for one.
MainCall(o) ==
  LET wish == IF phase = "startup" THEN Startup[o] ELSE Shutdown[o] IN
  /\ phase \in {"startup", "shutdown"} /\ o \in todo /\ ~KeysChanged
  /\ pc[Main] = "idle" /\ MayEnter
  /\ todo' = Handled(o)
  /\ IF wish = "keep" THEN UNCHANGED <<pc, op>> ELSE EnterCall(Main, o, wish, 0, 0)
  /\ UNCHANGED <<now, phase, running, keys, modVars, devVars, timerVars, off_until, recorded>>

\* The iteration raises: initialize_variables() catches it, run_finally() does not.
IterationRaises ==
  /\ phase \in {"startup", "shutdown"} /\ pc[Main] = "idle" /\ KeysChanged
  /\ phase' = IF phase = "startup" THEN "loop" ELSE "dead"
  /\ running' = (phase = "startup")
  /\ todo' = {}
  /\ UNCHANGED <<now, keys, modVars, devVars, timerVars, off_until, recorded, pc, op>>

Iterate(next) == phase' = next /\ keys' = PresentKeys /\ todo' = PresentKeys

\* From one part of run() to the next.
MainPhase ==
  /\ pc[Main] = "idle"
  /\ \/ phase = "load" /\ todo = {} /\ Iterate("startup") /\ UNCHANGED running
     \/ /\ phase = "startup" /\ todo = {} /\ ~KeysChanged
        /\ phase' = "loop" /\ running' = TRUE /\ UNCHANGED <<keys, todo>>
     \/ phase = "loop" /\ ~running /\ Iterate("shutdown") /\ UNCHANGED running
     \/ /\ phase = "shutdown" /\ todo = {} /\ ~KeysChanged
        /\ phase' = "stopped" /\ UNCHANGED <<running, keys, todo>>
  /\ UNCHANGED <<now, modVars, devVars, timerVars, off_until, recorded, pc, op>>

\* loop(): an output past its time is marked and handed to a new thread.
Loop(o) ==
  /\ phase = "loop" /\ running /\ Present(o)
  /\ on_until[o] < now /\ on_duration[o] /\ ~off_triggered[o]
  /\ off_triggered' = [off_triggered EXCEPT ![o] = TRUE]
  /\ \E t \in OffThreads :
       /\ pc[t] = "idle"
       /\ Goto(t, "spawned")
       /\ op' = [op EXCEPT ![t] = NewCall(o)]
  /\ UNCHANGED <<clockVars, modVars, devVars, on_until, last_duration, on_duration,
                 time_turned_on, off_until, recorded>>

OffThreadStart(t) ==
  /\ pc[t] = "spawned" /\ MayEnter
  /\ EnterCall(t, op[t].output, "off", 0, 0)
  /\ UNCHANGED <<clockVars, modVars, devVars, timerVars, off_until, recorded>>

Tick ==
  /\ now < MaxTime /\ MayEnter
  /\ now' = now + 1
  /\ UNCHANGED <<mainVars, modVars, devVars, timerVars, off_until, recorded, pc, op>>

(***************************************************************************)
(* Specification                                                           *)
(***************************************************************************)
Init ==
  /\ now = 0
  /\ phase = "load" /\ running = FALSE /\ keys = {} /\ todo = Configured
  /\ known = [o \in Outputs |-> "new"]
  /\ is_setup = [o \in Outputs |-> FALSE]
  /\ dev = [o \in Outputs |-> FALSE]
  /\ output_state = [o \in Outputs |-> FALSE]
  /\ on_until = [o \in Outputs |-> 0]
  /\ last_duration = [o \in Outputs |-> 0]
  /\ on_duration = [o \in Outputs |-> FALSE]
  /\ off_triggered = [o \in Outputs |-> FALSE]
  /\ time_turned_on = [o \in Outputs |-> None]
  /\ off_until = [o \in Outputs |-> 0]
  /\ recorded = [o \in Outputs |-> 0]
  /\ pc = [t \in Threads |-> "idle"]
  /\ op = [t \in Threads |-> NoCall]

CallerStep(t) ==
  \/ OutputOn(t) \/ OutputOff(t) \/ AddModOutput(t) \/ ReplaceModule(t)
  \/ DelOutput(t) \/ StopController(t)

MainStep == MainPhase \/ IterationRaises \/ \E o \in Outputs : LoadOutput(o) \/ MainCall(o) \/ Loop(o)

Next ==
  \/ \E t \in Threads : CallStep(t)
  \/ \E t \in Callers : CallerStep(t)
  \/ \E t \in OffThreads : OffThreadStart(t)
  \/ MainStep
  \/ Tick

Spec == Init /\ [][Next]_vars

\* Threads that have begun a call go on with it, the controller's thread keeps
\* sampling and the threads it starts are scheduled; nobody has to ask for
\* anything and no transmission has to fail or succeed.
Fairness ==
  /\ WF_vars(MainPhase) /\ WF_vars(IterationRaises)
  /\ \A o \in Outputs : WF_vars(LoadOutput(o)) /\ WF_vars(MainCall(o)) /\ WF_vars(Loop(o))
  /\ \A t \in OffThreads : WF_vars(OffThreadStart(t))
  /\ \A t \in Threads : WF_vars(CallStep(t)) /\ WF_vars(ReplaceModule(t))

FairSpec == Spec /\ Fairness

(***************************************************************************)
(* Properties                                                              *)
(***************************************************************************)
Labels == {"idle", "spawned", "amps", "offUntil", "branch", "timed", "switchTimed",
           "switchUntimed", "switchDirect", "switchOff", "recordTimed", "recordOff", "setup"}

Calls == [output : Outputs, amount : Int, min_off : Nat, now : Nat, is_on : BOOLEAN]

ThreadsOK ==
  /\ pc \in [Threads -> Labels]
  /\ op \in [Threads -> Calls \cup {NoCall}]
  /\ \A t \in Threads : pc[t] # "idle" => op[t] \in Calls

\* Every variable stays in its type, and a thread inside a call has that
\* call's locals (the dictionaries of OutputController.__init__ and the locals
\* of output_on_off).
TypeOK ==
  /\ now \in Nat
  /\ phase \in {"load", "startup", "loop", "shutdown", "stopped", "dead"}
  /\ running \in BOOLEAN /\ keys \subseteq Outputs /\ todo \subseteq Outputs
  /\ known \in [Outputs -> {"new", "present", "deleted"}]
  /\ is_setup \in [Outputs -> BOOLEAN]
  /\ dev \in [Outputs -> BOOLEAN] /\ output_state \in [Outputs -> BOOLEAN]
  /\ on_until \in [Outputs -> Nat] /\ last_duration \in [Outputs -> Int]
  /\ on_duration \in [Outputs -> BOOLEAN] /\ off_triggered \in [Outputs -> BOOLEAN]
  /\ time_turned_on \in [Outputs -> Nat \cup {None}]
  /\ off_until \in [Outputs -> Nat] /\ recorded \in [Outputs -> Int]
  /\ ThreadsOK

Wired == Outputs \ (Radio \cup Direct)

Serving(o) == {t \in Threads : pc[t] # "idle" /\ op[t].output = o}

\* An output marked off_triggered, which the loop will not look at again, has a
\* switch-off thread that has still to finish (controller_output.py:113, 677):
\* nobody forgets an output whose time is over.
AutoOffArmed ==
  \A o \in Outputs : Present(o) /\ off_triggered[o] => Serving(o) \cap OffThreads # {}

\* When no call is in progress, a wired device that is on is known to be on: the
\* controller has either a timer that will end it or the time since when it
\* is on (the bookkeeping around output_switch in output_on_off).
OnIsBookkept ==
  \A o \in Wired :
    Present(o) /\ dev[o] /\ Quiet
      => on_duration[o] \/ time_turned_on[o] # None

\* When no call is in progress, a running timer belongs to a device that is on.
TimerMeansOn ==
  \A o \in Outputs :
    Present(o) /\ on_duration[o] /\ Quiet => dev[o]

\* The devices that are on never draw more than the configured maximum
\* (the check of controller_output.py:458-472).
AmpLimit == MapThenSumSet(LAMBDA o : Amps[o], {o \in Outputs : dev[o]}) <= MaxAmps

\* No timer runs longer than the duration it was asked for (the additions to
\* current_time in output_on_off, whatever calls overlap them).
TimerBounds ==
  \A o \in Outputs :
    on_duration[o] => on_until[o] <= now + Abs(last_duration[o])

\* When the controller has ended it has set every output to its shutdown state:
\* none is left over in run_finally().
AllShutDown == phase \in {"stopped", "dead"} => todo = {}

\* The loop's switch-off never cuts short the time an output was given: a
\* switch-off thread only turns off a device whose timer is over, also when the
\* timer was set anew after the loop had started that thread.
NoEarlyAutoOff ==
  [][\A t \in OffThreads, o \in Outputs :
       /\ pc[t] = "switchOff" /\ pc'[t] = "recordOff" /\ op[t].output = o
       /\ dev[o] /\ ~dev'[o]
       => on_until[o] < now]_vars

\* Once deleted, an output's device is never driven again, not even by the calls
\* and changes that were under way (the popped keys of del_output).
DeletedUntouched ==
  [][\A o \in Outputs : known[o] = "deleted" => dev'[o] = dev[o]]_vars

\* Neither the start-up states nor the shutdown states go on for ever, whatever
\* is asked meanwhile: a controller that starts comes to its loop, and one told
\* to stop ends (the loops over the dictionary in all_outputs_set_state and
\* run_finally).
StartAndStopEnd == ~running ~> (running \/ phase \in {"stopped", "dead"})

\* An output on for a duration is eventually off its timer, or its timer was set
\* anew: once the time is over somebody ends it.
TimedOnEnds ==
  \A o \in Outputs :
    (phase = "loop" /\ on_duration[o] /\ on_until[o] < now)
      ~> (~on_duration[o] \/ on_until[o] >= now \/ phase # "loop")
=============================================================================
