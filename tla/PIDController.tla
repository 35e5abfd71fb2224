---------------------------- MODULE PIDController ----------------------------
(***************************************************************************)
(* An active PID controller (mycodo/controllers/controller_pid.py with     *)
(* mycodo/utils/pid_controller_default.py): its thread checks, once in a   *)
(* period, the last measurement, computes the control variable and         *)
(* switches a raising and a lowering output, while pages and actions hold, *)
(* pause, resume, modify and deactivate it through the Pyro server.        *)
(*                                                                         *)
(* Measurements, gains and amounts are integers.  A check is cut where it  *)
(* reads the measurement database and where it calls the daemon; a request *)
(* where it goes from the database to the controller or back.              *)
(***************************************************************************)
EXTENDS Integers

CONSTANTS
  Pages,                        \* requests that may be in progress at once
  Requests,                     \* kinds of request they make
  Measurements,                 \* what the input may measure
  Setpoints, Directions,        \* settings that may be saved; the first ones:
  InitialSetpoint, InitialDirection,
  Band, Kp, Ki, Kd,
  integrator_min, integrator_max,
  Kind,                         \* of each output: "pwm", "duration" or "pump"
  MinAmount, MaxAmount,         \* raise_min_duration and its like; 0 is none
  AlwaysMin,                    \* raise_always_min_pwm, lower_always_min_pwm
  StoreNegative,                \* store_lower_as_negative
  Period,
  Overlap                       \* FALSE: the schedules in which a request begins
                                \* only when no other is in progress

Sides == {"raise", "lower"}

ASSUME PIDAssumption ==
  /\ Requests \subseteq {"hold", "pause", "resume", "modify", "setpoint", "deactivate"}
  /\ Measurements \subseteq Int
  /\ Setpoints \subseteq Int /\ InitialSetpoint \in Setpoints
  /\ Directions \subseteq {"raise", "lower", "both"} /\ InitialDirection \in Directions
  /\ Band \in Nat /\ Kp \in Nat /\ Ki \in Nat /\ Kd \in Nat
  /\ integrator_min \in Int /\ integrator_max \in Int
  /\ integrator_min <= 0 /\ 0 <= integrator_max
  /\ Kind \in [Sides -> {"pwm", "duration", "pump"}]
  /\ MinAmount \in Nat /\ MaxAmount \in Nat /\ Period \in Nat \ {0}
  /\ AlwaysMin \in BOOLEAN /\ StoreNegative \in BOOLEAN /\ Overlap \in BOOLEAN

VARIABLES
  row,           \* the PID's row in the database
  flags,         \* the attributes is_activated, is_held and is_paused
  pid,           \* the attribute PID_Controller
  measured,      \* last_measurement_success and last_measurement
  running, loop, \* AbstractController.running, and where the thread is
  applied,       \* whether the last update was let through by the band
  sent,          \* outputs the current check has switched on
  asked,         \* what each output was last told: 0 is off
  pc, op         \* each request's place, and the row it has read

threadVars  == <<measured, loop, applied, sent, asked>>
requestVars == <<pc, op>>
vars == <<row, flags, pid, running, threadVars, requestVars>>

\* The row of a PID activated with its first settings.
InitialRow == [is_activated |-> TRUE, is_held |-> FALSE, is_paused |-> FALSE,
               setpoint |-> InitialSetpoint, direction |-> InitialDirection]

Goto(r, label) == pc' = [pc EXCEPT ![r] = label]

\* A request that returns leaves no locals behind.
Return(r) == pc' = [pc EXCEPT ![r] = "idle"] /\ op' = [op EXCEPT ![r] = InitialRow]

At(r, label) == pc[r] = label

Uses(direction, side) == direction \in {side, "both"}

(***************************************************************************)
(* PIDControl                                                              *)
(***************************************************************************)
band_min == pid.setpoint - Band
band_max == pid.setpoint + Band

\* MUTANT of Turned: the integrator is not reset upon a direction switch.
TurnedOnly(p, raising, lowering) ==
  [p EXCEPT !.allow_raising = raising, !.allow_lowering = lowering]

Turned(p, raising, lowering) ==
  [p EXCEPT !.integrator = 0, !.derivator = 0,
            !.allow_raising = raising, !.allow_lowering = lowering]

\* check_hysteresis(): what it makes of the flags, and the setpoint it returns.
AllowedRaise(m) == m < band_min \/ (band_min < m /\ m < band_max /\ pid.allow_raising)

AllowedLower(m) == m > band_max \/ (band_min < m /\ m < band_max /\ pid.allow_lowering)

Applies(m) ==
  \/ Band = 0
  \/ Band # 0 /\ pid.direction = "raise" /\ AllowedRaise(m)
  \/ Band # 0 /\ pid.direction = "lower" /\ AllowedLower(m)
  \/ Band # 0 /\ pid.direction = "both" /\ (m < band_min \/ m > band_max)

\* The end of the band it steers to.
Target(m) ==
  IF Band = 0 THEN pid.setpoint
  ELSE IF pid.direction = "raise" THEN band_max
  ELSE IF pid.direction = "lower" THEN band_min
  ELSE IF m < band_min THEN band_min ELSE band_max

Hysteresis(m) ==
  IF Band = 0 THEN pid
  ELSE IF pid.direction = "raise"
       THEN IF AllowedRaise(m) THEN [pid EXCEPT !.allow_raising = TRUE]
            ELSE IF m > band_max THEN [pid EXCEPT !.allow_raising = FALSE] ELSE pid
  ELSE IF pid.direction = "lower"
       THEN IF AllowedLower(m) THEN [pid EXCEPT !.allow_lowering = TRUE]
            ELSE IF m < band_min THEN [pid EXCEPT !.allow_lowering = FALSE] ELSE pid
  ELSE IF m < band_min THEN IF pid.allow_raising THEN pid ELSE Turned(pid, TRUE, FALSE)
  ELSE IF m > band_max THEN IF pid.allow_lowering THEN pid ELSE Turned(pid, FALSE, TRUE)
  ELSE pid

\* MUTANT of Clamp: only the upper limit is applied.
ClampAbove(i) == IF i > integrator_max THEN integrator_max ELSE i

Clamp(i) == IF i > integrator_max THEN integrator_max
            ELSE IF i < integrator_min THEN integrator_min ELSE i

\* update_pid_output() once the band lets it through, p being what
\* check_hysteresis() has left.
Computed(p, error) ==
  LET integrator == Clamp(p.integrator + error)
      derivator  == IF p.first_start THEN error ELSE p.derivator
  IN  [p EXCEPT !.integrator = integrator,
                !.derivator = error,
                !.first_start = FALSE,
                !.control_variable = Kp * error + Ki * integrator + Kd * (error - derivator)]

UpdatedPID(m) == IF Applies(m) THEN Computed(Hysteresis(m), Target(m) - m) ELSE Hysteresis(m)

(***************************************************************************)
(* The controller's thread                                                 *)
(***************************************************************************)
\* check_pid() begins: the measurement is read, unless the test at its head says
\* that the control variable is to stay.
MayUpdate == flags.is_activated /\ (~flags.is_paused \/ ~flags.is_held)

BeginCheck ==
  /\ loop = "sleeping" /\ running
  /\ sent' = {} /\ applied' = TRUE
  /\ IF MayUpdate
     THEN \/ \E m \in Measurements :
               measured' = [success |-> TRUE, value |-> m] /\ loop' = "update"
          \/ measured' = [measured EXCEPT !.success = FALSE] /\ loop' = "manipulate"
     ELSE loop' = "manipulate" /\ UNCHANGED measured
  /\ UNCHANGED <<row, flags, pid, running, asked, requestVars>>

Update ==
  /\ loop = "update"
  /\ pid' = UpdatedPID(measured.value)
  /\ applied' = Applies(measured.value)
  /\ loop' = "manipulate"
  /\ UNCHANGED <<row, flags, measured, running, sent, asked, requestVars>>

MayManipulate == flags.is_activated /\ (~flags.is_paused \/ flags.is_held)

BeginManipulate ==
  /\ loop = "manipulate"
  /\ loop' = IF MayManipulate THEN "raise" ELSE "sleeping"
  /\ UNCHANGED <<row, flags, pid, measured, running, applied, sent, asked, requestVars>>

Demand(side) == IF side = "raise" THEN pid.control_variable ELSE -pid.control_variable

\* control_var_to_duty_cycle() and the limits of the output.
DutyCycle(demand) ==
  LET duty == IF demand > Period THEN 100 ELSE (demand * 100) \div Period
  IN  IF MaxAmount # 0 /\ duty > MaxAmount THEN MaxAmount
      ELSE IF MinAmount # 0 /\ duty < MinAmount THEN MinAmount ELSE duty

Seconds(demand) == IF MaxAmount # 0 /\ demand > MaxAmount THEN MaxAmount ELSE demand

Stored(side, amount) == IF side = "lower" /\ StoreNegative THEN -amount ELSE amount

\* lower_seconds_on, which a pump is told, is only ever assigned for duration
\* outputs: it is still 0.0 here.
Volume(side) == IF side = "raise" THEN Demand(side) ELSE 0

Tell(side, amount) == asked' = [asked EXCEPT ![side] = amount] /\ sent' = sent \cup {side}

\* MUTANT of PwmRests: a PWM output keeps its duty cycle.
PwmNeverRests(side) == FALSE

PwmRests(side) == Kind[side] = "pwm" /\ ~AlwaysMin

\* One half of manipulate_output() after a measurement that was found.
Switch(side) ==
  IF ~Uses(pid.direction, side) THEN UNCHANGED <<asked, sent>>
  ELSE IF Demand(side) > 0
       THEN IF Kind[side] = "pwm" THEN Tell(side, Stored(side, DutyCycle(Demand(side))))
            ELSE IF Kind[side] = "pump" THEN Tell(side, Stored(side, Volume(side)))
            ELSE IF Seconds(Demand(side)) > MinAmount
                 THEN Tell(side, Stored(side, Seconds(Demand(side))))
                 ELSE UNCHANGED <<asked, sent>>
  ELSE IF PwmRests(side) THEN asked' = [asked EXCEPT ![side] = 0] /\ UNCHANGED sent
  ELSE UNCHANGED <<asked, sent>>

\* MUTANT of SwitchOff: only a PID that does nothing else uses the output.
SwitchOffOnly(side) ==
  asked' = IF pid.direction = side THEN [asked EXCEPT ![side] = 0] ELSE asked

SwitchOff(side) ==
  asked' = IF Uses(pid.direction, side) THEN [asked EXCEPT ![side] = 0] ELSE asked

Manipulate(side) ==
  /\ loop = side
  /\ IF measured.success THEN Switch(side) ELSE SwitchOff(side) /\ UNCHANGED sent
  /\ loop' = IF side = "raise" THEN "lower" ELSE "sleeping"
  /\ UNCHANGED <<row, flags, pid, measured, running, applied, requestVars>>

\* The loop ends, and run_finally() switches the outputs off.
EndLoop ==
  /\ loop = "sleeping" /\ ~running
  /\ loop' = "offRaise"
  /\ UNCHANGED <<row, flags, pid, measured, running, applied, sent, asked, requestVars>>

RunFinally ==
  /\ \/ loop = "offRaise" /\ SwitchOff("raise") /\ loop' = "offLower"
     \/ loop = "offLower" /\ SwitchOff("lower") /\ loop' = "dead"
  /\ UNCHANGED <<row, flags, pid, measured, running, applied, sent, requestVars>>

(***************************************************************************)
(* Requests                                                                *)
(***************************************************************************)
MayBegin(r, kind) ==
  /\ kind \in Requests /\ At(r, "idle")
  /\ Overlap \/ \A u \in Pages : At(u, "idle")

\* The page saves the row and then calls the controller.
Save(r, kind, saved) ==
  /\ MayBegin(r, kind)
  /\ row' = saved
  /\ Goto(r, kind)
  /\ UNCHANGED <<flags, pid, running, threadVars, op>>

SaveHold(r) == Save(r, "hold", [row EXCEPT !.is_held = TRUE, !.is_paused = FALSE])

SavePause(r) == Save(r, "pause", [row EXCEPT !.is_paused = TRUE, !.is_held = FALSE])

SaveResume(r) ==
  Save(r, "resume", [row EXCEPT !.is_activated = TRUE, !.is_held = FALSE, !.is_paused = FALSE])

SaveInactive(r) ==
  Save(r, "deactivate", [row EXCEPT !.is_activated = FALSE, !.is_held = FALSE, !.is_paused = FALSE])

\* pid_mod() of the page reaches the controller only when the PID is activated.
SaveSettings(r) ==
  \E s \in Setpoints, d \in Directions :
    /\ row.is_activated
    /\ Save(r, "modify", [row EXCEPT !.setpoint = s, !.direction = d])

\* pid_hold(), pid_pause() and pid_resume() of the controller.
SetFlags(r) ==
  /\ \/ At(r, "hold") /\ flags' = [flags EXCEPT !.is_held = TRUE]
     \/ At(r, "pause") /\ flags' = [flags EXCEPT !.is_paused = TRUE]
     \/ /\ At(r, "resume")
        /\ flags' = [is_activated |-> TRUE, is_held |-> FALSE, is_paused |-> FALSE]
  /\ Goto(r, "idle")
  /\ UNCHANGED <<row, pid, running, threadVars, op>>

\* controller_deactivate(): a controller that runs is stopped, which also writes
\* the row, and joined.
StopController(r) ==
  /\ At(r, "deactivate")
  /\ running' = FALSE
  /\ IF running
     THEN row' = [row EXCEPT !.is_activated = FALSE] /\ Goto(r, "join")
     ELSE UNCHANGED row /\ Goto(r, "idle")
  /\ UNCHANGED <<flags, pid, threadVars, op>>

Join(r) ==
  /\ At(r, "join") /\ loop = "dead"
  /\ Goto(r, "idle")
  /\ UNCHANGED <<row, flags, pid, running, threadVars, op>>

\* pid_mod() runs initialize_variables() in the request's thread: the row is
\* read, then the attributes are assigned, those of PIDControl among them.
ReadRow(r) ==
  /\ At(r, "modify")
  /\ op' = [op EXCEPT ![r] = row]
  /\ Goto(r, "assign")
  /\ UNCHANGED <<row, flags, pid, running, threadVars>>

\* MUTANT of Reconfigured: the setpoint is left as it was.
ReconfiguredInPart(p, saved) ==
  [p EXCEPT !.direction = saved.direction, !.first_start = TRUE]

Reconfigured(p, saved) ==
  [p EXCEPT !.setpoint = saved.setpoint, !.direction = saved.direction, !.first_start = TRUE]

Assign(r) ==
  /\ At(r, "assign")
  /\ flags' = [is_activated |-> op[r].is_activated,
               is_held |-> op[r].is_held, is_paused |-> op[r].is_paused]
  /\ pid' = Reconfigured(pid, op[r])
  /\ Return(r)
  /\ UNCHANGED <<row, running, threadVars>>

\* set_setpoint(): the controller first, then the row.
SetSetpoint(r) ==
  \E s \in Setpoints :
    /\ MayBegin(r, "setpoint")
    /\ pid' = [pid EXCEPT !.setpoint = s]
    /\ op' = [op EXCEPT ![r] = [row EXCEPT !.setpoint = s]]
    /\ Goto(r, "save")
    /\ UNCHANGED <<row, flags, running, threadVars>>

SaveSetpoint(r) ==
  /\ At(r, "save")
  /\ row' = [row EXCEPT !.setpoint = op[r].setpoint]
  /\ Return(r)
  /\ UNCHANGED <<flags, pid, running, threadVars>>

(***************************************************************************)
(* Specification                                                           *)
(***************************************************************************)
Init ==
  /\ row = InitialRow
  /\ flags = [is_activated |-> TRUE, is_held |-> FALSE, is_paused |-> FALSE]
  /\ pid = [setpoint |-> InitialSetpoint, direction |-> InitialDirection,
            control_variable |-> 0, integrator |-> 0, derivator |-> 0, first_start |-> TRUE,
            allow_raising |-> FALSE, allow_lowering |-> FALSE]
  /\ measured = [success |-> FALSE, value |-> 0]
  /\ running = TRUE /\ loop = "sleeping"
  /\ applied = TRUE /\ sent = {}
  /\ asked = [side \in Sides |-> 0]
  /\ pc = [r \in Pages |-> "idle"]
  /\ op = [r \in Pages |-> InitialRow]

Request(r) ==
  \/ SaveHold(r) \/ SavePause(r) \/ SaveResume(r) \/ SaveInactive(r) \/ SaveSettings(r)
  \/ SetFlags(r) \/ StopController(r) \/ Join(r) \/ ReadRow(r) \/ Assign(r)
  \/ SetSetpoint(r) \/ SaveSetpoint(r)

ThreadStep ==
  \/ BeginCheck \/ Update \/ BeginManipulate \/ EndLoop \/ RunFinally
  \/ \E side \in Sides : Manipulate(side)

Next == ThreadStep \/ \E r \in Pages : Request(r)

Spec == Init /\ [][Next]_vars

(***************************************************************************)
(* Properties                                                              *)
(***************************************************************************)
Flags == [is_activated : BOOLEAN, is_held : BOOLEAN, is_paused : BOOLEAN]

Rows == [is_activated : BOOLEAN, is_held : BOOLEAN, is_paused : BOOLEAN,
         setpoint : Setpoints, direction : Directions]

PIDs == [setpoint : Setpoints, direction : Directions,
         control_variable : Int, integrator : integrator_min..integrator_max,
         derivator : Int, first_start : BOOLEAN,
         allow_raising : BOOLEAN, allow_lowering : BOOLEAN]

\* Every variable stays in its type; in particular the integrator is always
\* within its limits (update_pid_output).
TypeOK ==
  /\ row \in Rows
  /\ flags \in Flags
  /\ pid \in PIDs
  /\ measured \in [success : BOOLEAN, value : Int]
  /\ running \in BOOLEAN /\ applied \in BOOLEAN
  /\ loop \in {"sleeping", "update", "manipulate", "raise", "lower", "offRaise", "offLower", "dead"}
  /\ sent \subseteq Sides
  /\ asked \in [Sides -> Int]
  /\ pc \in [Pages -> {"idle", "hold", "pause", "resume", "modify", "deactivate", "join", "assign", "save"}]
  /\ op \in [Pages -> Rows]

NoRequest == \A r \in Pages : At(r, "idle")

\* The integrator never works against the direction the band has the PID take:
\* what accumulated while lowering is gone when it raises, and the other way round
\* (the resets upon a direction switch in check_hysteresis).
NoWindup ==
  /\ pid.allow_raising  => pid.integrator >= 0
  /\ pid.allow_lowering => pid.integrator <= 0

\* Between checks a PID never has its raising and its lowering PWM output on at
\* once (the two halves of manipulate_output).
NeverOpposed == loop = "sleeping" => asked["raise"] = 0 \/ asked["lower"] = 0

\* A deactivated PID leaves no output as it last told it: both are switched off
\* (the comment in run_finally, controller_pid.py:164).
EndsOff == loop = "dead" => \A side \in Sides : asked[side] = 0

\* When no request is in progress the PID steers to the setpoint in the database,
\* whichever of the page and set_setpoint changed it last.
SetpointSaved == NoRequest => pid.setpoint = row.setpoint

\* A PID that is held or paused does not update its control variable: a check that
\* begins then goes without (the manual's Pause and Hold, and the comment above
\* the test, controller_pid.py:278-279).
HeldKeepsVariable ==
  [][loop = "sleeping" /\ loop' = "update" => ~flags.is_held /\ ~flags.is_paused]_vars

\* A PID that was paused last does not go on to switch its outputs (the manual's
\* Pause).
PausedSwitchesNothing ==
  [][loop = "manipulate" /\ loop' = "raise" /\ NoRequest => ~row.is_paused]_vars

\* A check whose measurement the band holds back switches nothing on (the
\* manual's Band; "restrict PID from operating", pid_controller_default.py:58-59).
BandRests == ~applied => sent = {}

\* A pump that is told to lower is told a volume.
PumpsVolume == \A side \in sent : Kind[side] = "pump" => asked[side] # 0
=============================================================================
