# Mycodo: a TLA+ model of the daemon

Mycodo runs sensors, PID controllers, triggers and relays on a Raspberry Pi. Its daemon is a
Python process of many threads: the controllers' own, and one for every request that a web page,
the REST API or another controller makes through Pyro. They share dictionaries, attributes and two
databases and hold next to no lock. This directory models the core of that daemon, checks it with
TLC and proves the invariants that matter most with TLAPS.

Paths are relative to the repository's root (`src/`); `PROJECT.json` maps every definition to its
lines, lists the hazards, the runs, their mutants and the theorems.

## 1. Inventory

| Component | State it keeps | Operations | Interacts with |
|---|---|---|---|
| **Output controller** `mycodo/controllers/controller_output.py` | dictionaries by output: `output_on_until`, `output_last_duration`, `output_on_duration`, `output_off_triggered`, `output_time_turned_on`, the module objects | `output_on_off`, `loop`, `all_outputs_initialize`, `all_outputs_set_state`, `add_mod_output`, `del_output`, `run_finally` | called by every thread; drives output modules; writes `Output.off_until` and durations |
| **Output modules** `mycodo/outputs/*.py` | the pin, or what a radio module believes of its device | `setup_output`, `output_switch`, `is_on`, `stop_output` | the output controller |
| **Daemon** `mycodo/mycodo_daemon.py` | a dictionary of thread objects by controller type and id | `controller_activate`, `controller_deactivate`, `start_all_controllers`, `stop_all_controllers`, `run`, `terminate_daemon` | Pyro requests, settings database, all controllers |
| **Base controller** `controllers/base_controller.py` | `running`, `thread_startup_timer`, the ready event | `run`, `stop_controller`, `is_running` | every controller inherits it |
| **Trigger, Conditional** `controllers/controller_trigger.py`, `controller_conditional.py` | settings, `pause_loop`, `verify_pause_loop`, timers | `loop`, `refresh_settings`, `check_triggers`, `stop_controller` | pages refresh them; their actions call the daemon |
| **PID** `controllers/controller_pid.py`, `utils/pid_controller_default.py` | gains, integrator, derivator, control variable, band flags, `is_held`, `is_paused`, last measurement | `check_pid`, `manipulate_output`, `pid_hold/pause/resume/mod`, `set_setpoint`, `run_finally` | measurement database, output controller, pages |
| **Input** `controllers/controller_input.py` | `next_measurement`, `get_new_measurement`, pre-output state and timer, a lock file | `loop`, `update_measure`, `force_measurements`, `pre_stop`, `stop_controller` | drivers, output controller, the Inputs with the same pre-output |
| **Function actions** `utils/function_actions.py` | the number of mails in this hour (`SMTP` row) | `trigger_function_actions`, `trigger_action`, one helper for each kind of Action, `check_allowed_to_email` | run by Triggers and Conditionals; write rows; give commands to the daemon from threads of their own |
| **Methods** `utils/method.py` | rows of a Method; start time and end in the PID's or Trigger's row | `calculate_method_setpoint`, `setup_method` (PID), `start_method` (Trigger) | PID, PWM Trigger, pages |
| **Pages** `mycodo_flask/utils/utils_*.py`, `routes_*.py` | the tables of settings, the display orders | for each kind of row: add, modify, delete, reorder, activate, deactivate, and the same for its children | commit rows one by one, with calls to the daemon among them |
| **REST API** `mycodo_flask/api/*.py` | none | activate, deactivate, switch | daemon |
| **Databases** `utils/database.py`, `utils/influx.py` | SQLite rows; InfluxDB series | read, write, retry | all |
| Math, LCD, custom controllers, drivers, device helpers, autotune, rest of the web interface, installer | - | - | see section 8 |

What makes the parts correct, and what makes that hard:

* **Output controller.** A device that is on is known to be on and, when it has a duration, goes
  off at its end; the current drawn stays below `max_amps`; minimum off times hold; deleted outputs
  are left alone; shutdown brings all outputs to their shutdown state. Hard because
  `output_on_off` spans a query, a device, a database and four dictionaries without a lock, while
  the loop starts more threads that call it too.
* **Daemon.** One thread per controller; the database says what runs, so that a restart brings it
  back; every request is answered; outputs are shut down after everything that could switch
  them. Hard because requests are served from before the first controller is started until after
  the last one is stopped, because a test and the store it protects are apart, and because the daemon may be
  killed between any two steps.
* **Timers.** Every due instant is acted upon once, however late the loop comes, and catching up ends. Hard because the
  loop, the clock and a refresh move the same timer, and each kind is set forward by another rule.
* **Refreshing settings.** A loop never works with half-changed settings, takes the new ones over,
  and nobody waits for ever. Hard because the handshake is two booleans.
* **PID.** The integrator does not wind up against the direction; two outputs never work against
  each other; hold, pause and band do what the manual says; deactivation leaves outputs off; the
  setpoint survives a restart. Hard because four requests may come between any two steps of a check.
* **Input.** Each period has one sample at most, a sample is taken with the pre-output in the state
  the user asked for, and a measurement asked for is taken. Hard because Inputs take turns by a lock file that
  is broken by force after a time-out, and because a page may deactivate an Input anywhere in its turn.
* **Methods.** A Method that was started runs to its end through crashes and restarts, repeats as often as told and
  turns off; spans of its table do not overlap, and the graph shows what the controllers will be told.
  Hard because its state is two columns that the controller, the pages and the shutdown all write.
* **Function actions.** Actions take effect in their order, tables and daemon agree afterwards, the limit of mails is kept,
  and a Function that stops itself ends. Hard because an Action writes the row itself but leaves the command to a thread that nobody waits for.
* **Pages.** Whatever a page deletes leaves nothing behind, rows and lists agree, the daemon runs what the tables say, and what was
  checked at activation stays true. Hard because a page is up to a dozen commits and calls, each of which can be the last one.

## 2. The modules

| Module | What it models |
|---|---|
| `OutputController` | the output controller with the modules it drives and all threads that call it |
| `OutputHistory` | the same with two history variables, for promises about the past |
| `DaemonController` | the daemon, the threads of its controllers, pages, API, crash and restart |
| `RefreshSettings` | the pause handshake of an active Trigger or Conditional |
| `TriggerTimers` | `RefreshSettings`, extended by what the loop does when it acts: the timers of Triggers and Conditionals and the clock |
| `PIDController` | an active PID and the requests that change it |
| `InputController` | Inputs that share a pre-output, their lock file, and the pages that force or stop them |
| `Sampling` | the abstract specification of an Input: of each period one sample at most. `InputController` implements it (`INSTANCE ... WITH`) |
| `DurationMethod` | the life of a Method of the type Duration that a PID or a PWM Trigger runs, with crash and restart |
| `MethodTable` | the rows of a Method of any type: the pages that edit them, the setpoint at an instant, the graph |
| `FunctionActions` | Functions that carry out Actions on controllers, outputs, mails and themselves |
| `SettingsPages` | the pages of every kind of row: each commit, each call, wherever they break off |
| `MC...` | the named constants of the small instances |
| `...Proofs` | the theorems about each |

They keep the control of the code (guards, early returns, error paths, order) and abstract the
data: outputs, ids, threads and settings are model values, durations and measurements small integers. A
handler that other threads can interrupt is cut into steps where it reaches a device, a
database, another thread or its own earlier test; what lies between is one action. A thread
has a place in its handler (`pc`) and the handler's locals (`op`); a page has the commits and calls that are left of it (`todo`).

How the modules fit together. Each opens a box that another one has closed: `DaemonController` knows of a controller that it is
"in its loop", `RefreshSettings`, `PIDController`, `InputController`, `DurationMethod` and `FunctionActions` are what happens there; the
commands that `PIDController`, `InputController` and `FunctionActions` send to an output are the calls of `OutputController`'s `Callers`; the
requests of `SettingsPages` are `DaemonController`'s `Clients`, whose daemon is a set of running ids there; the rows that
`MethodTable` edits are what `DurationMethod` has as `Length` and `RepeatFor`. These are checked apart: the product of any two is out of TLC's reach
and, as the boxes meet in one call each, would say little more. Handshake and timers meet in every step, so `TriggerTimers` composes
them: a step of `RefreshSettings` is conjoined with what it does to the timer, and its `Act` is cut into steps.

**`OutputController`.** The dictionaries are variables of the same names. `EnterCall` is the head of
`output_on_off` (lines 427-446); `CheckAmps`, `CheckOffUntil`, `SetOffUntil`, `Extend`,
`NotForAnAmount`, `OnUntimed` are its branches for "on"; `SwitchOn` / `SwitchOff` are the
modules' `output_switch`; `RecordTimed` and `RecordOff` the bookkeeping after it. `KeyErrorAbort`
is what Python does when `del_output` has popped a key that the call needs. `Loop` hands an
expired output to a new thread (`OffThreadStart`). `LoadOutput`, `MainCall`, `IterationRaises` and
`MainPhase` are the controller's own thread, with the exception Python raises when a dictionary
changes its size under an iteration. `dev` is what the device does; `output_state` what a radio
module believes.

**`DaemonController`.** `controller` is the dictionary, `stage` the life of each thread object,
`running` its attribute, `is_activated` the database column. `SaveActive`, `CreateThread`,
`StartThread`, `ReadyWait` are the parts of `controller_activate` after its test; `ReadTables`,
`StartNext`, `StartTier` are `start_all_controllers`; `BeginStop`, `StopNext`, `StopTier`, `StopFails`,
`JoinNext`, `JoinTier`, `JoinOutput` are `stop_all_controllers`; `Gone` empties the process
(`Exit`, `Crash`), and `Restart` boots it again from the database. The output controller is one
variable here: what it does at shutdown is `OutputController`'s business. The two modules meet
at that step, `output = "stopping"` here being a `StopController` there.

**`RefreshSettings`.** `SignalPause`, `BeginInitialize`, `EndInitialize`, `Resume`, `Reset` are
`refresh_settings`; `TopOfLoop`, `VerifyPause`, `Paused`, `Act`, `WakeUp` are the loop of
`AbstractController.run` and the head of the controllers' `loop`. While attributes are being changed `settings` is
`Changing`. It opens the box that `DaemonController` has for a controller in its loop.

**`TriggerTimers`.** `timer_period` is the attribute, `now` the clock, in instants of which `Day` make a day; `Says` is what the row of each version
says. `Look` is the test of line 118, `NextTimePoint` and `CatchUp` set the timer forward, one addition at a time with the clock and the
pages between any two, `Raise` is the comparison with None, `Check` is `check_triggers` (or `check_conditionals`). `FirstTimer` is what
`initialize_variables` sets; while it runs `timer_period` is None. Every kind of timer is an initial value of `trigger_type`. `origin`, `looked`, `found` and
`last` are history, for the properties only. `Dues` says when Actions are due, from the manual and without looking at `timer_period`.

**`PIDController`.** `pid` is the object `PID_Controller`, `flags` the controller's three
attributes, `row` the database. `Applies`, `Target` and `Hysteresis` are `check_hysteresis` (whether it lets
the PID work, what it steers to, what it makes of the flags), `Computed` is the rest of `update_pid_output`;
`BeginCheck`, `Update`, `BeginManipulate`, `Manipulate` are `check_pid` with
`manipulate_output`; `EndLoop` and `RunFinally` its end. Pages save the row and then call the
controller (`SaveHold` ... `SetFlags`); `pid_mod` reads the row and then assigns (`ReadRow`,
`Assign`), and `set_setpoint` goes the other way (`SetSetpoint`, `SaveSetpoint`).

## 3. The runs

| Run | Question | Distinct states |
|---|---|---|
| `output_serial` | calls that do not overlap: do timers and devices agree (`OnIsBookkept`, `TimerMeansOn`), do current limit and minimum off time hold (`AmpLimit`, `StaysOff`)? | 955 000 |
| `output_overlap` | calls, loop and switch-off threads interleaved at every step: is any expired output forgotten (`AutoOffArmed`), does every duration end (`TimedOnEnds`)? | 47 000 |
| `output_lifecycle` | start-up, shutdown, modification and deletion with failing transmissions and set-ups: `DeletedUntouched`, `StartAndStopEnd` | 117 000 |
| `daemon_serial` | page requests one at a time with crashes, shutdowns and restarts: do database and threads agree (`ActiveMatches`), are outputs shut down, and last (`OutputsStopLast`), does a shutdown end (`TerminateEnds`)? | 17 000 |
| `daemon_answers` | API requests with every failure, at any moment of start and shutdown: one thread each (`NoOrphan`), and does each request return (`RequestsReturn`)? | 74 000 |
| `refresh_spaced` | each kind of timer, a loop that comes late, a page that saves, refreshes and deactivates: is each due instant acted upon (`DueIsActed`), and once (`OncePerDue`)? Does nobody act on half a change (`WaitedIsSafe`), are settings taken over (`UpToDate`), does everyone return (`RequestsReturn`)? | 339 000 |
| `pid_both` | a PID with a band and two PWM outputs, a page between any two steps: `TypeOK` (with the integrator's limits), `NoWindup`, `NeverOpposed`, `EndsOff`, `SetpointSaved` | 514 000 |
| `pages_in_step` | every kind of row with its children, a page that breaks off or a call that fails anywhere: `TablesAgree`, `DaemonInStep`, `SourceIsSampled`, `ActiveComplete` | 760 000 |
| `input_turns` | two Inputs with one pre-output, one measuring while it is on and one after, with time-outs, late loops, forced measurements and deactivations: `OneSampleEach` (the refinement), `MeasuredAsTold`, `MeasuresAgain` | 378 000 |
| `method_crash` | a Duration run by a PID or a Trigger through crashes, restarts, deactivations and a new choice: `RunsOn`, `RepeatsAsTold`, `TurnsOff` | 5 600 |
| `functions_in_order` | two Functions that act on a PID, an output, themselves and each other, with users in between: `InStep`, `MailLimit`, `FunctionsEnd` | 41 000 |
| `method_edited` | a Method of each type, made, edited and read at every instant: `OrderIsTable`, `SpansApart`, `DrawnIsDone`, `LooksSucceed` | 190 000 |

All pass. Each property has a mutant of the code's model (a comment `MUTANT of` above an
operator) under which the same run finds it violated. The type invariants of the modules whose runs do not list `TypeOK` are
theorems (section 6).

### Schedules looked at, and why

Without a lock nearly everything can be broken by some overlap; a model that only showed this would
hide the rest. So most modules have constants that restrict the schedules, or what goes wrong, and say in
which of them a property holds:

* `Overlap` (`OutputController`, `PIDController`): FALSE are the schedules in which a call ends before
  the next one begins, and in `OutputController` before the clock moves on. `InputController`: an Input moves on when no command is under way and
  no other is in its turn. `FunctionActions`: one Function runs its Actions at a time, and a command is received before
  the next Action. `DurationMethod` (`AnyMoment`): users ask while the thread has nothing to do. `SettingsPages`, `MethodTable`: a page begins when no other is in
  progress.
* `Exclusion` (`DaemonController`): "none" is all schedules; "id" those in which requests for one
  controller do not overlap and wait until its thread is in its loop; "all" those in which no
  two requests are in progress at once and none begins once a shutdown has been asked for.
* `Spaced` (`RefreshSettings`, `TriggerTimers`): a page begins when no other is in progress and the loop is not on its way
  into or out of a pause.
* `StaleForms`, `Retarget` (`SettingsPages`): whether forms are sent that show what has changed since, and whether the measurement of an
  active PID is changed. `Breaks`, `BlankForms` (`MethodTable`): whether a page breaks off, and whether fields are left empty that the checks forget.

What overlaps freely in spite of them: in `output_overlap` and `output_lifecycle` everything; in
`daemon_answers` requests for different controllers, the daemon's start and stop, and every thread; in
`pid_both` the request and the PID's own thread; in `input_turns` the lock's waiters, the clock and the pages; in `functions_in_order` users, the threads that
end and the Function that runs; in `pages_in_step` a page may break off and a call fail at each step; in `method_crash` the daemon ends at each step.

### Disagreements, and how to see them

Properties that hold only in restricted schedules fail outside. Change the named constants of
the cfg (with a single INVARIANT or PROPERTY) to see the counterexample.

| Property | In | Constants | What happens |
|---|---|---|---|
| `OnIsBookkept` | `OutputOverlap` | `OffThreads = {w1}`, `Amounts = {1}` | a timed "on" between a switch-off and its bookkeeping loses its timer: the device stays on for ever |
| `AmpLimit` | `OutputSerial` | `Overlap = TRUE`, two `Callers` | both calls pass the test of line 458, then both switch |
| `StaysOff` | `OutputSerial` | `Overlap = TRUE`, two `Callers` | `is_on` is read before the output goes off: the call skips the minimum off time |
| `NoEarlyAutoOff` | `OutputOverlap` | none | a switch-off thread ends a duration given after the loop had started it |
| `NotOverRecorded` | `OutputSerial` | `Amounts = {0, 2}` | both `time_turned_on` and a timer are set: the former decides what is recorded |
| `TimedOnEnds` | `OutputOverlap` | `Radio = {o1}`, `Faults = {"radio"}` | the thread that raised leaves `off_triggered` set; nobody tries again |
| `AllShutDown` | `OutputLifecycle` | `Outputs = Configured = {o1, o2}`, `Callers = {c1}` | a transmission that raises in `run_finally` ends it before the other outputs |
| `NoOrphan` | `DaemonAnswers` | `Exclusion = "none"`, `Ids = {i1}`, `Type <- OneInput`, `Clients = {c1, c2}`, `Stoppers = {}`, `Faults = {}` | two overlapping activations leave a controller with two threads, one of them unreachable |
| `RequestsReturn` | `DaemonAnswers` | the same | the request waits for the ready event of a thread that was replaced before it was started |
| `TerminateEnds` | `DaemonSerial` | `Exclusion = "id"` | a controller that was told to stop is activated anew; the shutdown joins the new thread, which nobody stops |
| `OutputsStopLast` | `DaemonSerial` | `Exclusion = "id"` | a controller activated during the shutdown outlives the outputs, or the dictionary grows under the iteration and the daemon ends without shutting outputs down |
| `OutputsStopLast` | `DaemonSerial` | `"error"` in `Faults` | the loop of `run` raises what it caught, against the comment of line 219 |
| `OutputsStopLast` | `DaemonSerial` | `"ends"` in `Faults` | a PID that stops itself is not running when the others are told to stop, so it is not joined |
| `ActiveMatches` | `DaemonSerial` | `Exclusion = "id"` | a controller deactivated during the daemon's start is started from the tables read before |
| `ActiveMatches` | `DaemonSerial` | `"ended"` in `Faults` | a trigger whose method has ended writes itself inactive and runs on |
| `ActiveMatches` | `DaemonSerial` | `Requests = {"api"}` | deactivation through the API is not saved: a restart brings the controller back |
| `ActiveMatches` | `DaemonSerial` | `"input"` in `Faults` | an input whose device module did not load cannot be stopped |
| `RequestsReturn` | `RefreshSpaced` | `Spaced = FALSE`, `Requests = {"refresh"}`, `CHECK_DEADLOCK FALSE` | a second refresh soon after a first makes the request and the loop wait for each other |
| `RequestsReturn` | `RefreshSpaced` | `Spaced = FALSE`, `Faulty = {v1}`, `CHECK_DEADLOCK FALSE` | a refresh that raises leaves `pause_loop` set; the loop never looks at `running` again |
| `UpToDate` | `RefreshSpaced` | `Spaced = FALSE`, `Pages = {p1, p2}` | of two refreshes the one that read the older row assigns last |
| `NotWhileChanging` | `RefreshSpaced` | none | `verify_pause_loop` starts out TRUE: the first refresh does not wait for the loop |
| `RequestsReturn` | `RefreshSpaced` | `Says <- Never`, `Kinds = {"conditional"}` | no check refuses a period of 0, and the loop that catches up never ends; as that of a Conditional does not look at `running` (controller_conditional.py:99) not even a deactivation returns |
| `RequestsReturn` | `RefreshSpaced` | `Says <- Never`, `Kinds = {"span"}` | `check_form_timer_daily_time_span` does not look at the period either: a refresh waits for ever. With `{"duration"}`, whose form refuses a period of 0, it holds |
| `DueIsActed` | `RefreshSpaced` | `Zone <- East`, `Kinds = {"sun"}` | the sun's UTC time is put on the local day (sunriseset.py:149): east of Greenwich a day is skipped when it falls behind |
| `DueIsActed` | `RefreshSpaced` | `Dark = {2}`, `LastNow = 11`, `Kinds = {"sun"}` | on a day without sunrise the timer becomes None, and no later sunrise is acted upon until the settings are taken over anew |
| `DueIsActed` | `RefreshSpaced` | `Device = FALSE` | `check_triggers` returns when there is no Input, Math, Output or PID at all, also for timers, which need none |
| `RefreshLosesNone` | `RefreshSpaced` | none | a refresh between a time point and the loop's turn sets the timer to tomorrow: today's is lost |
| `BandRests` | `PIDBoth` | none | a measurement inside the band switches outputs on with the control variable of an earlier check |
| `HeldKeepsVariable` | `PIDBoth` | none | a PID that is only held, or only paused, goes on to update its control variable |
| `PausedSwitchesNothing` | `PIDBoth` | none | hold, then pause, sets both flags, and the test takes that for a hold |
| `PumpsVolume` | `PIDBoth` | `Kind <- Pump`, `Directions = {"lower"}`, `InitialDirection = "lower"` | a lowering pump is told `lower_seconds_on`, which is still 0 |
| `EndsOff` | `PIDBoth` | `Directions = {"raise", "lower"}`, `InitialDirection = "raise"` | the output of the old direction is not switched off when the direction is changed |
| `SetpointSaved` | `PIDBoth` | `Overlap = TRUE`, two `Pages` | `set_setpoint` and `pid_mod` write controller and row in opposite orders |
| `MeasuredAsTold` | `InputTurns` | `Overlap = TRUE` | a command's thread comes late; or an Input that lost the lock removes the file another one has locked; or `pre_stop` of one switches the pre-output of the other off |
| `StopsOff` | `InputTurns` | `Overlap = TRUE` | the command "on" of a turn comes after `pre_stop`'s "off": the pre-output stays on, against "ensure pre-output is off" (controller_input.py:570) |
| `RunsOn`, `RepeatsAsTold` | `MethodCrash` | `AnyMoment = TRUE` | a page comes between a look and its commit: the end is written into a row that was begun anew, or `set_method` meets a thread that has not begun |
| `RunsOn` | `MethodCrash` | `Settings` with a PID that repeats "no" or "for ever" | a PID resumes only a Method that has an end (controller_pid.py:418-421): after a crash it does not |
| `OnlyItsEnd` | `MethodCrash` | none | a restart of the daemon stops the controllers like a page does, so the Method is written "Ended"; without "restart" in `Faults` it holds |
| `Begins` | `MethodCrash` | `Settings` with a Trigger that does not repeat | what has ended is not begun again by activating, against controller_trigger.py:280-282 |
| `InStep` | `FunctionsInOrder` | `Overlap = TRUE` | commands of consecutive Actions overtake each other in their threads: the output or setpoint of an earlier Action is the one that stays |
| `MailLimit` | `FunctionsInOrder` | `Overlap = TRUE`, `Actions <- BothMail`; or `HourlyMax = 0`, `Actions <- BothMail` | two Functions read the count before either writes it; at a limit of 0 the first mail after an hour is sent |
| `PhotosAreMailed` | `FunctionsInOrder` | `Actions <- PhotoAlone` | an Action "Email with Photo Attachment" adds no recipient: nothing is mailed unless another Action adds one |
| `TablesAgree` | `PagesInStep` | `StaleForms = TRUE`, or `Overlap = TRUE` and two `Workers` | a child is added to a row that was deleted meanwhile |
| `DaemonInStep` | `PagesInStep` | the same | "resume" of a PID that was deactivated meanwhile marks it active; a page that found a controller inactive saves after another one has activated it, so the daemon runs the old settings |
| `SourceIsSampled` | `PagesInStep` | `StaleForms = TRUE` or `Retarget = TRUE` | a PID becomes active, or is given another measurement, without its Input being looked at |
| `ActiveComplete` | `PagesInStep` | `ConditionType = "output_state"`, or `ActionType = "infrared_send"` | the checks at activation ask for the fields of other kinds of conditions and actions only |
| `ActiveComplete` | `PagesInStep` | `Overlap = TRUE`, two `Workers` | a child is added between the checks of an activation and its commit |
| `OrderIsTable`, `SpansApart` | `MethodEdited` | `Breaks = TRUE` | a row that its page did not come to list is read by controllers and seen by no check. A Method that its page did not come to list can never be deleted: `display_order.remove` raises before the commit |
| `OrderIsTable`, `SpansApart` | `MethodEdited` | `Overlap = TRUE`, two `Workers`, `Types = {"Date"}` | two additions check against the same last span, and the one that lists last forgets the other's row |
| `LooksSucceed` | `MethodEdited` | `BlankForms = TRUE` | the checks compare a missing setpoint with `''`, which a `DecimalField` never is; a look raises on None. With an end for repeating named, a duration may be missing too |
| `LooksSucceed` | `MethodEdited` | `Breaks = TRUE` | a curve without its row makes every look raise |
| `DrawnIsDone` | `MethodEdited` | `Setpoints = {0, 6}` | an end setpoint of 0 is drawn, but taken for none by `calculate_method_setpoint` (`if each_method.setpoint_end`) |

The definitions `NoEarlyAutoOff`, `NotOverRecorded`, `AllShutDown`, `NotWhileChanging`, `RefreshLosesNone`, `BandRests`, `HeldKeepsVariable`,
`PausedSwitchesNothing`, `PumpsVolume`, `StopsOff`, `OnlyItsEnd`, `Begins` and `PhotosAreMailed` are in the modules for this table only.

Smaller things met while reading, which no property is about:

* `method.py`: a Duration that repeats for ever leaves `end_time` unbound and raises at its end (255); `now > start_time` (202) compares with the start
  where the end is meant; at the instant two Daily spans share, neither matches (`start < now < end`), so the default setpoint is used for a second.
* `utils_method.py`: changed spans of a Daily are not compared with their neighbours, though added ones are; the manual allows a Daily to end at 00:00:00
  (mycodo-manual.txt:2765-2772), the check refuses it. `routes_method.py`: the graph of a Date with rows of outputs raises. A Method that is deleted while a
  controller uses it makes its looks raise.
* `controller_trigger.py`: a PWM Method's next look is computed by `calculate_sunrise_sunset_epoch` (123-126); `trigger_actions_at_start` passes a tuple as the duty cycle (235-238).
  The page for Triggers compares the type with `run_pwm_method`, which no Trigger's type is. `pid_mod` of a PID with a Method sets it up anew, which ends one that does not repeat.
* `function_actions.py`: `action_method_pid` of an inactive PID sets an attribute that is no column; a ramp whose increment is wrong returns None, and one between equal
  duty cycles divides by zero. For want of a comma in `action_mod` (`utils_function.py`) the Actions that pause a PID cannot be configured.
* pages: `pid_del` looks in the display order of Maths; an Output whose addition broke off has no channel; `settings_convert_mod` commits what it reports as an error;
  `pid_mod` swaps the integrator's limits.

## 4. Bounds

* `MaxTime`: the clock of `OutputController` stops at 2 or 3 seconds. With durations of one second that is
  enough to set a timer, let it expire, and set it again while a switch-off thread is on its way;
  with `MinOffs` of 1, to wait out a minimum off time. `output_lifecycle` has 0: nothing there depends on time.
* `OffThreads`: at most one or two switch-off threads live at once. `off_triggered` keeps the loop from
  starting a second one for an output before the first has reset it, so two for one output are
  one that is finishing and the next.
* Two outputs where the current limit of one ampere is the question, one elsewhere: no other
  step of a call looks at another output.
* Two `Callers` or `Clients` where two requests race (deletion against a switch; a page that has saved
  against one that has called), one in `output_serial`, `output_overlap` and `daemon_answers`, where
  the loop, its threads, the main thread and the stopper are the other actors.
* `Objects`: two or three thread objects; a dead one that the dictionary does not need is used again, so
  a controller may be restarted any number of times. An activation waits for a free object (`Room`).
* `Ids` of `DaemonController`: an input and a PID. They are in different tiers, the PID also writes the database when deactivated, and only the PID
  has a method: the other types behave like one of the two.
* `RefreshSettings`, `TriggerTimers`: one page, since with `Spaced` requests come one after the other (the pages race in the table above, with two); two versions, so that
  a refresh changes every field of the row. `Day` 3 and `LastNow` 8: the controller begins at any instant of one day, and the clock goes on to the end of the next: a loop
  that sleeps all that time has missed a time point or a sunrise, and up to five periods. A span ends past midnight in one version.
* `PIDController`: measurements below, inside and above the band, an integrator limited to -2..2, gains of
  1. The properties compare signs and zero, and every combination of signs of error, integrator
  and control variable occurs. In `pid_both` the direction is "both".
* PWM and volume outputs (`Direct`) take one step of their own in `output_on_off`; the runs leave `Direct` empty.
* `InputController` has no bound on time. `Period` 4, `Duration` 1 and `LockTimeout` 3 let a turn fit into a period, and let the time-out pass while another Input is late;
  `MaxLate` 5 is more than a period, so periods are missed. Two Inputs, both with the pre-output: one waits while the other has its turn.
* `DurationMethod`: `Length` 4, `RepeatFor` 12: three repetitions, as in the manual's example, with looks every 3 seconds (PID) and 7 (Trigger: longer than
  a repetition). `MaxStops` 3: the daemon ends in the first, a later, and the last repetition.
* `FunctionActions`: the lists of Actions are given by the MC module: one Function that activates, sets, raises and resumes, one that undoes each of these and then stops the
  first and itself. `HourlyMax` 2. No run begins while an earlier thread of the same Function is at work.
* `SettingsPages`: `Together` says which rows there are at once: an Input, a Math and a PID (which may use each of them); an Input, an Output and a custom controller; and
  pairs of the rest, so that each display order has two rows to move. One child of each sort for each row. With two measurements and two
  displays (`MaxParts <- Two`) the same run has 2.5 million states and passes, in twice the time.
* `MethodTable`: three spans of a Date, so that one has neighbours on both sides, two rows of the others; four instants; setpoints that are multiples of
  the spans' lengths, so that the line between them has integer values. With three rows of a Duration the run has 641 000 states and passes.

Deadlock is checked in every run: with a request always possible, or a restart, none of the models may stop.

## 5. Fairness

Weak fairness of every thread that is in the middle of something, and of nothing else, but where this list says so: the
operating system schedules runnable threads, and the code's waits (`sleep`, `join`, `Event.wait`) are
polling or wake-ups that are not lost. Nobody has to make a request, no transmission has to fail or
succeed, no method has to end and nothing has to crash or restart.

* `OutputController.Fairness`: the controller's thread (`MainPhase`, `IterationRaises`, `LoadOutput`, `MainCall`, `Loop`), each
  thread's `CallStep` and `ReplaceModule`, and started threads. The clock (`Tick`) needs none:
  `TimedOnEnds` speaks of timers that have expired.
* `DaemonController.Fairness`: each request that has begun, each controller's thread (but not `MethodEnds`), the main thread.
  `TerminateEnds` is checked under `Exclusion = "all"`: with "id" it fails for the reason in the table
  above, and also because that restriction itself lets a client that activates and deactivates without
  end keep the main thread from its turn; that second failure says nothing about the code.
* `RefreshSettings`, `TriggerTimers`: the loop and each request, not the clock.
* `InputController`: each Input's loop, each deactivation that has begun, the threads that carry commands, and the clock.
* `DurationMethod`: the thread, the daemon's requests and start-up, the clock; strong fairness of `Look`, since a sensor that is silent at times (`LookInVain`) is not
  silent for ever.
* `FunctionActions`: commands arrive, threads that were told to stop end; strong fairness of a run that has begun, as `MayAct` may make it wait for another
  Function again and again, which is a restriction of the model's schedules and not the code's.
* `PIDController`, `SettingsPages` and `MethodTable` have no liveness property and no fairness.

## 6. What is proved

All theorems hold for every value of the constants that satisfies the module's `ASSUME`, and the
assumption named here. TLC has checked each on the runs above, and the inductive invariants, where it can evaluate them,
before they were proved. Each safety property that a run checks is a theorem. Two of the modules' assumptions are there for the proofs: there are finitely many
outputs (their currents are added up), and of the kinds of row that come with a measurement or a display
`MaxParts` allows for one (`PagesAssumption`).

| Theorem | Assumption | Argument |
|---|---|---|
| `OutputControllerProofs!TypeCorrect` | none | `TypeOK` is inductive; it says which threads have locals |
| `!TimersAreBounded` (`TimerBounds`) | none: calls overlap freely | `ClockInv`: no call has read a time that lies in the future (`NoFutureCall`), so what it adds to its own clock is bounded by `now` |
| `!AutoOffStaysArmed` (`AutoOffArmed`) | `ArmedAssumption`: outputs are not modified, transmissions do not raise; calls overlap freely | `ArmedInv`: a switch-off thread is always on the way of a switch-off, and the outputs it serves are set up or deleted, so it neither returns early nor takes another branch before it resets `off_triggered` |
| `!OnStaysBookkept` (`OnIsBookkept`), `!TimerStaysOn` (`TimerMeansOn`) | `SerialAssumption`: calls do not overlap, set-ups do not fail | `SerialInv`: at most one call is in progress, and for each of its places what the call has switched and not yet booked (`CallFacts`, `OnBooked`, `TimerOn`) |
| `!AmpsAreLimited` (`AmpLimit`) | `AmpAssumption`: as above, no output is deleted, all are switched through the check, no module that keeps a state of its own is replaced | `AmpInv`: the controller's sum is that of the devices that are on (`DevKnown`), and what the check has found to fit fits until the switch (`Fits`). The sum is a fold over a set: `CurrentIsSum` and what follows from it (`CurrentBounds`) go by a least counterexample instead of an induction |
| `!DeletedStaysUntouched` (`DeletedUntouched`) | none: calls, changes and faults overlap freely | the device is driven only after its output was found, or by the one step that sets it up |
| `!OutputsStayOff` (`StaysOff`) | `~Overlap`; any requests and faults | `HeldInv`: until when an output that is off has to stay off is in `off_until` or over (`HeldKnown`), and a call that is past the check has found it over (`MayGoOn`) |
| `DaemonControllerProofs!TypeCorrect`, `!OneThreadEach` (`NoOrphan`) | `ExclusionAssumption`: requests for one controller do not overlap; crashes, restarts, faults and shutdowns as they like | `Sound`: activations are exclusive by id, what one has found is asleep stays asleep until it has stored its own thread (`ActivationOK`), a page that has saved has its id (`PendingOK`), and no thread object runs before its loop (`ObjectsOK`) |
| `!OutputsEndLast` (`OutputsStopLast`) | `OneAtATime`: requests come one at a time, loops do not fail; crashes, ends by themselves, shutdowns at any moment | `StopInv`: each thread at work is in the dictionary (`ThreadsOK`), and one that has been told to end is waited for (`EndingSeen`); what is still to be told is in what the tiers have left (`StoppingOK`), then none samples and what is not dead is in what is left to be joined (`JoiningOK`) |
| `!ActiveAsSaved` (`ActiveMatches`) | `FromPages`: moreover all requests come from pages, and no controller ends by itself | `GoesInv`: of each controller that no request and no start is on the way to, the thread samples exactly if the row says so (`Match`); a request does what the row says by then (`SavedFirst`) |
| `RefreshSettingsProofs!TypeCorrect` | none | `TypeOK` is inductive |
| `!TimersTyped`, `!TimersAreRefreshed` | `TimersAreSet`: `Spaced`, positive periods, a clock that runs for two days, a sun that rises each day and whose time is not put a day or more behind | `TimedTypeOK`, and `WaitedIsSafe` and `UpToDate` of the loop with its timers: every step of `TriggerTimers` is one of `RefreshSettings` or a stutter (`TimedIsRefresh`) |
| `!DueOnce` (`OncePerDue`) | `TimersAreSet` | `TimedInv`: what the handshake keeps (`HandInv`), where the loop is in its turn (`TurnInv`, `EndsSoon`), what was taken over (`TakenOver`), and of the timer, while the loop runs with what was saved last, that it is an instant of the row's grid and not before what was found due (`TimerInv`). That the additions stay on the grid is arithmetic of `\div` and `%` (`ModIs`, `NextPoint`, `NextSun`, `SetForward`, `SetAnew`) |
| `!DueActed` (`DueIsActed`) | `TimersAreSet` and `ActionsRun`: a Trigger has a device, the sun's time is not put ahead | `CoveredInv`: of the instants before the timer's, each was acted upon or is behind now |
| `!HandshakeHolds` (`WaitedIsSafe`) | `Spaced` | one request at a time, and one that has waited finds the loop in its pause until it resets `pause_loop` (`Held`) |
| `!SettingsArrive` (`UpToDate`) | `Spaced` | `InHand`: how far the one request is with what was saved last: to be read, read, or assigned |
| `PIDControllerProofs!TypeCorrect` | none | the clamp keeps the integrator within its limits |
| `!IntegratorIsUnwound` (`NoWindup`) | the direction is not changed | `WindInv`: never both flags, none without a band, and in one direction the integrator has that direction's sign, because what the band lets through lies on the far side of its target (`ErrorSign`) |
| `!BothEndOff` (`EndsOff`) | the direction is not changed | `OffInv`: outputs the direction does not use are never told anything |
| `!OneOutputAtATime` (`NeverOpposed`) | PWM outputs that may rest (`~AlwaysMin`), direction not changed | `OpposedInv`: after its half of the check the raising output is on only for a control variable that makes the other half switch the lowering one off |
| `!SetpointStaysSaved` (`SetpointSaved`) | `~Overlap` | `SetpointInv`: one request at a time, and for each of its places what row and controller have in common |
| `InputControllerProofs!TypeCorrect` | none | `TypeOK` is inductive |
| `!OneSampleStays` (`OneSampleEach`) | none: any number of Inputs, late loops, commands in any order | the refinement of `Sampling`: initial states are mapped to initial states and each action to a sample, a period's begin, a second or a stutter. `FirstOfPeriod` makes it go through: an Input on its way to a measurement has not measured in this period yet |
| `!MeasuresAsTold` (`MeasuredAsTold`) | `TwoShare`: `~Overlap`, two Inputs share the pre-output at most, and the lock is waited for longer than the other has it (`Duration + 1 < LockTimeout`) | `TurnsInv`, while nobody is asked to stop: who is on its way holds the lock (`Holds`), nobody else does (`OneHolds`), who waits is given it before its time-out (`Patient`), and the lamp, or the command on its way to it, is the holder's (`LampAsTold`) |
| `FunctionActionsProofs!TypeCorrect` | none: any lists of Actions | `TypeOK` is inductive |
| `!OrderIsKept` (`InStep`) | `~Overlap` | `Follow`: at most one command is on its way (`OneCommand`), and controllers, PIDs and outputs are what their rows and the history say but for that command (`ControllersFollow`, `PIDsFollow`, `OutputsFollow`) |
| `!MailsAreLimited` (`MailLimit`) | `~Overlap`, `HourlyMax # 0` | `MailInv`: one run at a time, and the count is not behind what was sent (`OneRun`, `MailsCounted`) |
| `MethodProofs!TypeCorrect` | `~AnyMoment` | part of `RunInv`: what the row, the thread and its clock have in common at each place (`TimeLeft`, `Threads`, `Undisturbed`) |
| `!RepeatsInTime` (`RepeatsAsTold`) | `~AnyMoment` | `InTime`: the repetitions that have ended, what has elapsed of this one, and what is left add up to no more than `RepeatFor` |
| `!CrashesAreSurvived` (`RunsOn`) | `~AnyMoment`, PIDs have only Methods that are repeated for a time | `Resumes`: whatever a new thread finds in the row of a Method that is wanted, it begins or resumes |
| `!OrderStaysTable` (`OrderIsTable`) | `~Overlap`, `~Breaks`: pages come one after the other and none breaks off; any types, rows and forms | `Pages`: for each plan that a page may be in the middle of, what it has done of it: the order names all it is to name but the row that was added last (`Ordering`) or deleted just now (`Unlisting`). `Removal`: what `list.remove()` leaves of an increasing sequence |
| `!SpansStayApart` (`SpansApart`) | the same | a form is checked against neighbours only; that it then fits between all spans needs the order to be the table's (`LastIsGreatest`, `ModSpanStep`), which is why both are in one inductive invariant |
| `!LooksStaySucceed` (`LooksSucceed`) | the same, `~BlankForms` | each row has what a look asks for (`Whole`), and a curve has its row once its page has ended (`HasCurve`) |
| `!TableTyped` (`TypeOK` of `MethodTable`) | `~Overlap`, `~Breaks` | `Noted`, and that the order names only keys that were given (`OrderWasGiven`) |
| `!DrawnStaysDone` (`DrawnIsDone`) | the same, `~BlankForms`, and `SlopesAreWhole`: no setpoint is 0, and setpoints differ by multiples of the lengths of spans (the model's integers; the code's are floats) | spans of a Date are apart, those of a Duration as sums are monotone (`DurationsFollow`, by least counterexamples), so that inside its line a span is the only one that matches (`LinesFollow`, `OneMatches`); and what is interpolated lies on the line (`Between`) |
| `SettingsPagesProofs!PagesTyped`, `!SourcesStaySampled` (`SourceIsSampled`), `!ActiveStaysComplete` (`ActiveComplete`), `!TablesStayInAgreement` (`TablesAgree`), `!DaemonStaysInStep` (`DaemonInStep`) | `InTurn`: one page at a time (`~Overlap`), sent as shown (`~StaleForms`), the measurement of an active PID is not changed (`~Retarget`), Actions that name an output and Conditions that name a measurement; a page may break off after any commit, any call may fail, the daemon may restart at any moment | `PagesInv`, which has `TypeOK` in it, is `SourceInv`, `TablesInv` and `DaemonInv`: each page in progress holds one of ten plans, and for each what is done of it and what is left (`Plan`: `Adding`, `Deactivating`, `Deleting`, `Saving`, `Activating`, `Resuming`, `Growing`, `Shrinking`, `Ordering`, `Converting`). A handler whose checks have passed begins with one (`RequestBegins`), each commit and call leaves the rest of one, and so does the restart |

What the assumptions exclude is real. What breaks without each part of `InTurn` is in section 3, too. With a lock that is waited for no longer than the other has it,
or three Inputs that share a pre-output, TLC finds `MeasuredAsTold` violated; what the periods and the sun do to timers, and a setpoint of 0 to the graph, is in section 3. Overlapping calls, requests and refreshes, a transmission that raises and
a changed direction have counterexamples in section 3. With failing set-ups and two callers `AutoOffArmed` fails in
`OutputOverlap` (`Requests = {"on", "modify"}`): the switch-off thread finds the output not set up and returns
early; whether "modify" may be allowed when set-ups work is open. With failing set-ups `OnIsBookkept` fails even without overlap, as a wired
device whose module is not set up anew stays on while its timers are reset. `NoWindup` and `NeverOpposed` fail with
all three `Directions`, and `NeverOpposed` with `AlwaysMin = TRUE`: a PWM output that always keeps a minimum keeps its last duty
cycle when the control variable changes its sign. With `AnyMoment` even `RunTypeOK` of `DurationMethod` fails: time is left of a Method that has
ended, when a look's commit comes between the two halves of `set_method`. A page that breaks off between a row and the order
(`Breaks`), or two pages that read the same order (`Overlap`), leave a row that is in no order, and the next span of a Date is not checked against it.

## 7. Only model-checked

Liveness (`TimedOnEnds`, `StartAndStopEnd`, `TerminateEnds`, `RequestsReturn`, `MeasuresAgain`, `TurnsOff`,
`FunctionsEnd`): temporal proofs under fairness and `ENABLED` are beyond the prover. All else that the runs check is proved under the
assumptions of section 6. What is only looked at in section 3, the counterexamples outside of these assumptions, is TLC's.

## 8. What is not modelled, and why

* **I/O and numerics**: input drivers, displays, cameras, InfluxDB, PID autotune, Math, the curves of Methods, what PWM duty cycles are worth: outside
  of what a finite model tells anything about.
* **LCD**: its lines are device output. Its one race is written down here: `lcd_flash(False)` or `lcd_backlight(True)` between the loop's test of
  `flash_lcd_on` and its `lcd_backlight(0)` leaves the display dark, as both threads write to the device without a lock.
* **User code**: the Python of a Conditional, custom inputs and controllers: arbitrary.
* **Rest of the web interface**: log-in, users and roles, notes, cameras, exports and templates keep no state but single rows.
* **Installer, upgrade scripts**: sequential shell scripts run once.
* **Triggers**: infrared remote control and edge detection, which wait for a device. Of sunrise and sunset only that they come at one time of each day, or not at all: the
  astronomy is not modelled, nor the change to summer time. What Actions do is in `FunctionActions`.
* **Input**: recording with its retries, edge detection, the loop's pause, `custom_button`; **output controller**: `check_triggers` (whose
  Actions are further requests, which the models have from `Callers`) and `custom_button`.
* The retries of a locked SQLite database (`utils/database.py`): the row that is None after the last one raises in its thread, in each caller alike.

## 9. Plan

Built, in this order: `OutputController` (the part that can leave a heater on), `DaemonController` (its callers'
lives), `RefreshSettings`, `PIDController`, `SettingsPages`, `InputController` with `Sampling`, `DurationMethod`, `FunctionActions`, `MethodTable`, `TriggerTimers`, and the proofs of
their safety properties. What is left:

1. **Abstract specifications**: `Lights`, an output that is on until an instant, implemented by `OutputController` when
   calls do not overlap; `Activation`, a set of running ids, implemented by `DaemonController` under "all".
2. **Weaker assumptions for the proofs**: `AutoOffArmed` while outputs are modified, `OutputsStopLast` with loops that fail,
   `MeasuredAsTold` with three Inputs and a longer time-out.
3. **Users and roles, LCD, database retries**.
