--------------------------- MODULE DurationMethod ---------------------------
(***************************************************************************)
(* A Method of the type Duration that a PID or a PWM Trigger runs: setpoints*)
(* for so many seconds each, perhaps repeated.  When it was started is kept *)
(* in the controller's row, where it outlives the daemon                    *)
(* (calculate_method_setpoint of mycodo/utils/method.py, setup_method and   *)
(* stop_controller of controller_pid.py, start_method and get_method_output *)
(* of controller_trigger.py).                                               *)
(*                                                                         *)
(* Instants are kept relative to now.  What is done between two ticks is    *)
(* done a little after the first, so an instant that is now has passed.     *)
(***************************************************************************)
EXTENDS Integers

CONSTANTS
  Length,    \* seconds that the Method lasts
  RepeatFor, \* Repeat Duration
  Intervals, \* seconds between two looks at the Method: of a PID the period, of
             \* a Trigger the time to the next sunrise (controller_trigger.py:126)
  Settings,  \* records of a kind, "PID" or "Trigger", and whether the Method
             \* is repeated: "no", "until", "for ever"
  Requests,  \* what users ask for: some of "deactivate", "method"
  Faults,    \* some of "crash", "restart", "blind"
  MaxStops,  \* BOUND: how often the daemon ends
  AnyMoment  \* FALSE: requests come when the thread does nothing

Kinds == {"PID", "Trigger"}

ASSUME DurationAssumption ==
  /\ Length \in Nat \ {0} /\ RepeatFor \in Nat \ {0} /\ MaxStops \in Nat
  /\ Intervals \in [Kinds -> Nat \ {0}]
  /\ Settings \subseteq [kind : Kinds, repeat : {"no", "until", "for ever"}]
  /\ Requests \subseteq {"deactivate", "method"} /\ AnyMoment \in BOOLEAN
  /\ Faults \subseteq {"crash", "restart", "blind"}

VARIABLES
  set,      \* which of the Settings
  active,   \* is_activated of the row
  start,    \* method_start_time: never set, "Ready", "Ended", or an instant
  elapsed,  \* seconds since that instant
  left,     \* method_end_time, from now; Open if there is none
  up,       \* the daemon runs
  pc,       \* where the controller's thread is
  running,
  over,     \* method_start_act is "Ended"
  ready,    \* a Trigger's own is_activated
  timer,    \* seconds to the next look
  seen,     \* what the thread is about to write
  page,     \* what the daemon is about to do for a user
  passes,   \* HISTORY: how often the Method has begun since it was asked for
  wish,     \* HISTORY: the user wants it to run, and it has not come to its end
  stops     \* how often the daemon has ended

methodRow == <<active, start, elapsed, left>>
thread == <<pc, running, over, ready, timer, seen>>
history == <<passes, wish, stops>>
runVars == <<set, methodRow, up, thread, page, history>>

Open == -1

IsPID == set.kind = "PID"

Interval == Intervals[set.kind]

\* elapsed is not told apart beyond this.
Longest == Length

Passed == left # Open /\ left <= 0

\* When it ends is reckoned from when it begins.
EndFromNow == IF set.repeat = "until" THEN RepeatFor ELSE Open

Rests == pc \in {"none", "loop"}

(***************************************************************************)
(* The thread begins                                                       *)
(***************************************************************************)
BeginAnew ==
  /\ start' = "At" /\ elapsed' = 0 /\ left' = EndFromNow
  /\ passes' = 1

IsAsked == start \in {"never", "Ready"}

\* MUTANT of ResumesPID: the saved start is thought to be of no use.
NeverResumes == FALSE

\* "Resume method with saved start_time", if there is an end to it to come.
ResumesPID == left # Open /\ ~Passed

\* setup_method() of a PID.
setup_method ==
  IF IsAsked
  THEN BeginAnew /\ over' = FALSE
  ELSE /\ over' = (start = "Ended" \/ ~ResumesPID)
       /\ UNCHANGED <<start, elapsed, left, passes>>

\* start_method() of a Trigger: one that has ended is deactivated in the table,
\* but run() sets running again.
start_method ==
  IF IsAsked
  THEN BeginAnew /\ UNCHANGED active
  ELSE /\ active' = IF start = "Ended" THEN FALSE ELSE active
       /\ UNCHANGED <<start, elapsed, left, passes>>

initialize_variables ==
  /\ pc = "init"
  /\ IF IsPID
     THEN setup_method /\ UNCHANGED <<active, ready>>
     ELSE /\ ready' = active
          /\ IF active THEN start_method ELSE UNCHANGED <<methodRow, passes>>
          /\ UNCHANGED over
  /\ pc' = "loop" /\ running' = TRUE /\ timer' = 0
  /\ UNCHANGED <<set, up, seen, page, wish, stops>>

(***************************************************************************)
(* The loop                                                                *)
(***************************************************************************)
\* MUTANT of MethodHasEnded: the end is only looked at when the daemon starts.
EndsWithoutRepeat == set.repeat = "no"

\* For ever there is no end_time to look at, which raises.
MethodHasEnded == set.repeat = "no" \/ (set.repeat = "until" /\ Passed)

\* calculate_method_setpoint() reads the row ...
calculate_method_setpoint ==
  IF start = "At" /\ elapsed >= Length /\ (MethodHasEnded \/ set.repeat = "until")
  THEN seen' = (IF MethodHasEnded THEN "end" ELSE "again") /\ pc' = "write"
  ELSE UNCHANGED <<seen, pc>>

\* ... and says later what has become of the Method.
WriteEnd ==
  /\ pc = "write" /\ seen = "end"
  /\ start' = "Ended" /\ left' = Open /\ elapsed' = 0
  /\ IF IsPID
     THEN over' = TRUE /\ UNCHANGED <<active, ready, running>>
     ELSE active' = FALSE /\ ready' = FALSE /\ running' = FALSE /\ UNCHANGED over
  /\ wish' = FALSE
  /\ pc' = "loop" /\ seen' = "none"
  /\ UNCHANGED <<set, up, timer, page, passes, stops>>

WriteAgain ==
  /\ pc = "write" /\ seen = "again"
  /\ start' = "At" /\ elapsed' = 0
  /\ passes' = IF passes <= RepeatFor THEN passes + 1 ELSE passes
  /\ pc' = "loop" /\ seen' = "none"
  /\ UNCHANGED <<set, active, left, up, running, over, ready, timer, page, wish, stops>>

IsEnding == IsPID /\ over

LooksNow == ~IsEnding /\ timer = 0 /\ (IsPID \/ ready)

\* A PID's loop ends the controller when its Method has ended.
EndPID ==
  /\ pc = "loop" /\ running /\ IsEnding
  /\ running' = FALSE /\ active' = FALSE
  /\ UNCHANGED <<set, start, elapsed, left, up, pc, over, ready, timer, seen, page, history>>

Look ==
  /\ pc = "loop" /\ running /\ LooksNow
  /\ timer' = Interval
  /\ calculate_method_setpoint
  /\ UNCHANGED <<set, methodRow, up, running, over, ready, page, history>>

\* A PID without a measurement does not look.
LookInVain ==
  /\ "blind" \in Faults /\ IsPID
  /\ pc = "loop" /\ running /\ LooksNow
  /\ timer' = Interval
  /\ UNCHANGED <<set, methodRow, up, pc, running, over, ready, seen, page, history>>

ThreadEnds ==
  /\ pc = "loop" /\ ~running
  /\ pc' = "none" /\ over' = FALSE /\ ready' = FALSE /\ timer' = 0
  /\ UNCHANGED <<set, methodRow, up, running, seen, page, history>>

(***************************************************************************)
(* What users ask for                                                      *)
(***************************************************************************)
MayAsk == up /\ page = "idle" /\ (AnyMoment \/ (Rests /\ (pc = "loop" => running /\ ~IsEnding)))

\* pid_activate(): "Signal the duration method can run"; a Trigger's page means
\* to do the same, but looks for another name of the type.
ActivatePage ==
  /\ MayAsk /\ ~active
  /\ IF IsPID
     THEN start' = "Ready" /\ elapsed' = 0 /\ passes' = 0
     ELSE UNCHANGED <<start, elapsed, passes>>
  /\ page' = "activate"
  /\ UNCHANGED <<set, active, left, up, thread, wish, stops>>

\* Then the row and the daemon, which does nothing if there is a thread.
controller_activate ==
  /\ page = "activate" /\ up
  /\ active' = TRUE /\ wish' = TRUE
  /\ pc' = IF pc = "none" THEN "init" ELSE pc
  /\ page' = "idle"
  /\ UNCHANGED <<set, start, elapsed, left, up, running, over, ready, timer, seen, passes, stops>>

\* What stop_controller() writes of a PID's Method.
Unset ==
  IF IsPID
  THEN start' = "Ended" /\ left' = Open /\ elapsed' = 0
  ELSE UNCHANGED <<start, left, elapsed>>

controller_deactivate ==
  /\ "deactivate" \in Requests /\ MayAsk /\ active /\ pc # "init"
  /\ active' = FALSE /\ wish' = FALSE
  /\ IF running THEN running' = FALSE /\ Unset ELSE UNCHANGED <<running, start, left, elapsed>>
  /\ UNCHANGED <<set, up, pc, over, ready, timer, seen, page, passes, stops>>

\* set_method() of a PID: the Method may begin, and begins.
set_method ==
  /\ "method" \in Requests /\ MayAsk /\ IsPID /\ active /\ running /\ pc # "init"
  /\ start' = "Ready" /\ elapsed' = 0 /\ left' = Open /\ passes' = 0
  /\ page' = "method"
  /\ UNCHANGED <<set, active, up, thread, wish, stops>>

set_method_sets_up ==
  /\ page = "method" /\ up
  /\ setup_method
  /\ page' = "idle"
  /\ UNCHANGED <<set, active, up, pc, running, ready, timer, seen, wish, stops>>

(***************************************************************************)
(* The daemon ends and comes back; time                                    *)
(***************************************************************************)
Gone == pc' = "none" /\ running' = FALSE /\ over' = FALSE /\ ready' = FALSE /\ timer' = 0 /\ seen' = "none"

Crash ==
  /\ "crash" \in Faults /\ up /\ stops < MaxStops
  /\ up' = FALSE /\ stops' = stops + 1 /\ Gone
  /\ page' = "idle"
  /\ UNCHANGED <<set, methodRow, passes, wish>>

\* stop_all_controllers() stops the controller like a page does.
Terminate ==
  /\ "restart" \in Faults /\ up /\ stops < MaxStops /\ page = "idle" /\ Rests
  /\ up' = FALSE /\ stops' = stops + 1 /\ Gone
  /\ IF running THEN Unset ELSE UNCHANGED <<start, left, elapsed>>
  /\ UNCHANGED <<set, active, page, passes, wish>>

start_all_controllers ==
  /\ ~up
  /\ up' = TRUE /\ pc' = IF active THEN "init" ELSE "none"
  /\ UNCHANGED <<set, methodRow, running, over, ready, timer, seen, page, history>>

\* The thread looks often enough to be on time.
IsBusy == pc \in {"init", "write"} \/ (pc = "loop" /\ (~running \/ IsEnding \/ LooksNow))

Tick ==
  /\ ~IsBusy /\ page = "idle"
  /\ elapsed' = IF start = "At" /\ elapsed < Longest THEN elapsed + 1 ELSE elapsed
  /\ left' = IF left = Open \/ left = 0 THEN left ELSE left - 1
  /\ timer' = IF timer > 0 THEN timer - 1 ELSE 0
  /\ UNCHANGED <<set, active, start, up, pc, running, over, ready, seen, page, history>>

(***************************************************************************)
(* Specification                                                           *)
(***************************************************************************)
RunInit ==
  /\ set \in Settings
  /\ active = FALSE /\ start = "never" /\ elapsed = 0 /\ left = Open
  /\ up = TRUE /\ pc = "none" /\ running = FALSE /\ over = FALSE /\ ready = FALSE
  /\ timer = 0 /\ seen = "none" /\ page = "idle"
  /\ passes = 0 /\ wish = FALSE /\ stops = 0

Thread ==
  initialize_variables \/ Look \/ LookInVain \/ WriteEnd \/ WriteAgain \/ EndPID \/ ThreadEnds

Daemon == controller_activate \/ set_method_sets_up \/ start_all_controllers

RunNext ==
  \/ Thread \/ Daemon \/ Tick \/ Crash \/ Terminate
  \/ ActivatePage \/ controller_deactivate \/ set_method

\* A sensor does not stay silent for ever: there is a look now and then.
Fairness == WF_runVars(Thread) /\ SF_runVars(Look) /\ WF_runVars(Daemon) /\ WF_runVars(Tick)

RunSpec == RunInit /\ [][RunNext]_runVars /\ Fairness

(***************************************************************************)
(* Properties                                                              *)
(***************************************************************************)
\* Every variable stays in its type; time is left only of what has begun.
RunTypeOK ==
  /\ set \in Settings
  /\ start \in {"never", "Ready", "Ended", "At"}
  /\ elapsed \in 0..Longest /\ left \in {Open} \cup 0..RepeatFor
  /\ left > 0 => start = "At"
  /\ {active, up, running, over, ready, wish} \subseteq BOOLEAN
  /\ pc \in {"none", "init", "loop", "write"} /\ seen \in {"none", "end", "again"}
  /\ page \in {"idle", "activate", "method"}
  /\ timer \in 0..Interval /\ passes \in 0..(RepeatFor + 1) /\ stops \in 0..MaxStops

\* A Method that the user has started runs until its end though the daemon
\* crashes: it is active in the table and has a thread whenever the daemon is
\* there ("Resume method with saved start_time", controller_pid.py:403-405).
RunsOn ==
  wish /\ start = "At" /\ ~Passed =>
    active /\ (up => pc # "none" /\ (pc # "init" => running /\ ~over))

\* Nothing but its end or the user ends a Method, a restart of the daemon least
\* of all (controller_pid.py:403-405; see the README for when it does).
OnlyItsEnd == [][start = "At" /\ start' = "Ended" => elapsed >= Length \/ ~wish']_runVars

\* A Method that is wanted begins, also when it has ended before ("Activate the
\* Trigger controller to start it again", controller_trigger.py:280-282).
Begins == wish ~> start = "At" \/ ~wish

\* A Method of 200 seconds with a Repeat Duration of 600 "will repeat 3 times":
\* it never begins more often (mycodo-manual.txt:2756-2762).
RepeatsAsTold ==
  set.repeat = "until" => (passes - 1) * Length < RepeatFor

\* ... "and then automatically turn off the PID": whatever has an end is turned
\* off, if the user does not start it anew.
TurnsOff ==
  start = "At" /\ active /\ set.repeat # "for ever" ~> ~active \/ start = "Ready"
=============================================================================
