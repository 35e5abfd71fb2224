------------------------ MODULE PIDControllerProofs ------------------------
(***************************************************************************)
(* Theorems about PIDController, for any pages, measurements, gains,       *)
(* limits and kinds of output.                                             *)
(***************************************************************************)
EXTENDS PIDController, TLAPS

(***************************************************************************)
(* Types                                                                   *)
(***************************************************************************)
\* The numbers among the constants.
LEMMA Numbers ==
  /\ Setpoints \subseteq Int /\ Measurements \subseteq Int
  /\ Band \in Int /\ Band >= 0 /\ Kp \in Int /\ Ki \in Int /\ Kd \in Int
  /\ integrator_min \in Int /\ integrator_max \in Int /\ 0 \in integrator_min..integrator_max
  /\ MinAmount \in Int /\ MaxAmount \in Int /\ Period \in Int /\ Period > 0
BY PIDAssumption

\* The limits keep the integrator between them, and on the side of zero it is on.
LEMMA ClampLimits ==
  ASSUME NEW i \in Int
  PROVE  /\ Clamp(i) \in integrator_min..integrator_max
         /\ (i >= 0 => Clamp(i) >= 0) /\ (i <= 0 => Clamp(i) <= 0)
BY PIDAssumption DEF Clamp

\* The band's setpoint is a number.
LEMMA TargetInt ==
  ASSUME TypeOK, NEW m \in Int
  PROVE  Target(m) \in Int
<1>1. pid \in PIDs
  BY DEF TypeOK
<1>2. pid.setpoint \in Int /\ Band \in Int
  BY <1>1, Numbers DEF PIDs
<1> QED BY <1>2 DEF Target, band_min, band_max

\* check_hysteresis() leaves a PIDControl and changes nothing but the flags, the
\* integrator and the derivator.
LEMMA HysteresisType ==
  ASSUME TypeOK, NEW m \in Int
  PROVE  Hysteresis(m) \in PIDs
<1>1. pid \in PIDs /\ 0 \in integrator_min..integrator_max
  BY Numbers DEF TypeOK
<1>2. ASSUME NEW p \in PIDs
      PROVE  /\ [p EXCEPT !.allow_raising = TRUE] \in PIDs /\ [p EXCEPT !.allow_raising = FALSE] \in PIDs
             /\ [p EXCEPT !.allow_lowering = TRUE] \in PIDs /\ [p EXCEPT !.allow_lowering = FALSE] \in PIDs
             /\ [p EXCEPT !.integrator = 0] \in PIDs /\ [p EXCEPT !.derivator = 0] \in PIDs
  <2>1. [p EXCEPT !.integrator = 0] \in PIDs
    BY Numbers DEF PIDs
  <2>2. [p EXCEPT !.derivator = 0] \in PIDs
    BY DEF PIDs
  <2> QED BY <2>1, <2>2 DEF PIDs
<1>3. Turned(pid, TRUE, FALSE) \in PIDs /\ Turned(pid, FALSE, TRUE) \in PIDs
  <2> DEFINE reset == [[pid EXCEPT !.integrator = 0] EXCEPT !.derivator = 0]
  <2>1. reset \in PIDs
    BY <1>1, <1>2
  <2>2. /\ Turned(pid, TRUE, FALSE) =
             [[reset EXCEPT !.allow_raising = TRUE] EXCEPT !.allow_lowering = FALSE]
        /\ Turned(pid, FALSE, TRUE) =
             [[reset EXCEPT !.allow_raising = FALSE] EXCEPT !.allow_lowering = TRUE]
    BY DEF Turned
  <2> HIDE DEF reset
  <2> QED BY <1>2, <2>1, <2>2
<1> QED BY <1>1, <1>2, <1>3 DEF Hysteresis

\* update_pid_output() computes a PIDControl of a PIDControl.
LEMMA ComputedType ==
  ASSUME NEW p \in PIDs, NEW error \in Int
  PROVE  Computed(p, error) \in PIDs
<1> DEFINE integrator == Clamp(p.integrator + error)
           derivator  == IF p.first_start THEN error ELSE p.derivator
           variable   == Kp * error + Ki * integrator + Kd * (error - derivator)
<1>1. p.integrator \in Int /\ p.derivator \in Int
  BY PIDAssumption DEF PIDs
<1>2. integrator \in integrator_min..integrator_max /\ integrator \in Int /\ derivator \in Int
  BY <1>1, ClampLimits, PIDAssumption
<1>3. variable \in Int
  <2>1. Kp \in Int /\ Ki \in Int /\ Kd \in Int /\ error - derivator \in Int
    BY <1>2, PIDAssumption
  <2> HIDE DEF integrator, derivator
  <2>2. Kp * error \in Int /\ Ki * integrator \in Int /\ Kd * (error - derivator) \in Int
    BY <2>1, <1>2
  <2> QED BY <2>2
<1>4. Computed(p, error) = [p EXCEPT !.integrator = integrator, !.derivator = error,
                                     !.first_start = FALSE, !.control_variable = variable]
  BY DEF Computed
<1> HIDE DEF integrator, derivator, variable
<1> QED BY <1>2, <1>3, <1>4 DEF PIDs

\* What an output is told is a number.
LEMMA SwitchType ==
  ASSUME TypeOK, NEW side \in Sides, Switch(side)
  PROVE  asked' \in [Sides -> Int] /\ sent' \subseteq Sides
<1>1. Demand(side) \in Int
  BY DEF TypeOK, PIDs, Demand
<1>2. DutyCycle(Demand(side)) \in Int
  <2>1. (Demand(side) * 100) \div Period \in Int
    BY <1>1, PIDAssumption
  <2> QED BY <2>1, PIDAssumption DEF DutyCycle
<1>3. Seconds(Demand(side)) \in Int /\ Volume(side) \in Int
  BY <1>1, PIDAssumption DEF Seconds, Volume
<1>4. \A amount \in Int : Stored(side, amount) \in Int
  BY DEF Stored
<1>5. \A amount \in Int : Tell(side, amount) => asked' \in [Sides -> Int] /\ sent' \subseteq Sides
  BY DEF TypeOK, Tell
<1>6. asked \in [Sides -> Int] /\ sent \subseteq Sides
  BY DEF TypeOK
<1> HIDE DEF Sides
<1>7. \/ UNCHANGED <<asked, sent>>
      \/ Tell(side, Stored(side, DutyCycle(Demand(side))))
      \/ Tell(side, Stored(side, Volume(side)))
      \/ Tell(side, Stored(side, Seconds(Demand(side))))
      \/ asked' = [asked EXCEPT ![side] = 0] /\ UNCHANGED sent
  BY DEF Switch
<1>8. CASE UNCHANGED <<asked, sent>> \/ (asked' = [asked EXCEPT ![side] = 0] /\ UNCHANGED sent)
  BY <1>6, <1>8
<1> QED BY <1>2, <1>3, <1>4, <1>5, <1>7, <1>8

\* The types hold initially.
LEMMA TypeInit == Init => TypeOK
<1> SUFFICES ASSUME Init PROVE TypeOK
  OBVIOUS
<1>1. InitialRow \in Rows
  BY PIDAssumption DEF InitialRow, Rows
<1>2. pid \in PIDs
  BY PIDAssumption DEF Init, PIDs
<1>3. flags \in Flags
  BY DEF Init, Flags
<1> QED BY <1>1, <1>2, <1>3 DEF Init, TypeOK, Sides

\* Every step keeps the types.
LEMMA TypeStep == TypeOK /\ [Next]_vars => TypeOK'
<1> SUFFICES ASSUME TypeOK, [Next]_vars PROVE TypeOK'
  OBVIOUS
<1>1. CASE UNCHANGED vars
  BY <1>1 DEF TypeOK, vars, threadVars, requestVars
<1>2. ASSUME NEW r \in Pages, Request(r) PROVE TypeOK'
  <2>1. InitialRow \in Rows /\ row \in Rows /\ op[r] \in Rows /\ pid \in PIDs
    BY <1>2, PIDAssumption DEF TypeOK, InitialRow, Rows
  <2>2. CASE SaveHold(r) \/ SavePause(r) \/ SaveResume(r) \/ SaveInactive(r) \/ SaveSettings(r)
    <3>1. row' \in Rows
      BY <2>1, <2>2 DEF SaveHold, SavePause, SaveResume, SaveInactive, SaveSettings, Save, Rows
    <3>2. PICK kind \in {"hold", "pause", "resume", "deactivate", "modify"} : Save(r, kind, row')
      BY <2>2 DEF SaveHold, SavePause, SaveResume, SaveInactive, SaveSettings, Save
    <3> QED BY <3>1, <3>2 DEF TypeOK, Save, Goto, threadVars
  <2>3. CASE SetFlags(r)
    <3>1. flags \in Flags
      BY DEF TypeOK
    <3>2. /\ [flags EXCEPT !.is_held = TRUE] \in Flags /\ [flags EXCEPT !.is_paused = TRUE] \in Flags
          /\ [is_activated |-> TRUE, is_held |-> FALSE, is_paused |-> FALSE] \in Flags
      BY <3>1 DEF Flags
    <3>3. flags' \in Flags
      BY <2>3, <3>2 DEF SetFlags
    <3> QED BY <2>3, <3>3 DEF TypeOK, SetFlags, Goto, threadVars
  <2>4. CASE StopController(r) \/ Join(r)
    <3>1. [row EXCEPT !.is_activated = FALSE] \in Rows
      BY <2>1 DEF Rows
    <3> QED BY <2>4, <3>1 DEF TypeOK, StopController, Join, Goto, threadVars
  <2>5. CASE ReadRow(r)
    BY <2>1, <2>5 DEF TypeOK, ReadRow, Goto, threadVars
  <2>6. CASE Assign(r)
    <3>1. Reconfigured(pid, op[r]) \in PIDs
      BY <2>1 DEF Reconfigured, Rows, PIDs
    <3>2. [is_activated |-> op[r].is_activated, is_held |-> op[r].is_held,
           is_paused |-> op[r].is_paused] \in Flags
      BY <2>1 DEF Rows, Flags
    <3> QED BY <2>1, <2>6, <3>1, <3>2 DEF TypeOK, Assign, Return, threadVars
  <2>7. CASE SetSetpoint(r)
    <3>1. \A s \in Setpoints : [pid EXCEPT !.setpoint = s] \in PIDs /\ [row EXCEPT !.setpoint = s] \in Rows
      BY <2>1 DEF Rows, PIDs
    <3> QED BY <2>7, <3>1 DEF TypeOK, SetSetpoint, Goto, threadVars
  <2>8. CASE SaveSetpoint(r)
    <3>1. [row EXCEPT !.setpoint = op[r].setpoint] \in Rows
      BY <2>1 DEF Rows
    <3> QED BY <2>1, <2>8, <3>1 DEF TypeOK, SaveSetpoint, Return, threadVars
  <2> QED BY <1>2, <2>2, <2>3, <2>4, <2>5, <2>6, <2>7, <2>8 DEF Request
<1>3. CASE BeginCheck
  <2>1. Measurements \subseteq Int
    BY PIDAssumption
  <2>2. measured' \in [success : BOOLEAN, value : Int]
    <3>1. measured \in [success : BOOLEAN, value : Int]
      BY DEF TypeOK
    <3>2. /\ [measured EXCEPT !.success = FALSE] \in [success : BOOLEAN, value : Int]
          /\ \A m \in Measurements : [success |-> TRUE, value |-> m] \in [success : BOOLEAN, value : Int]
      BY <2>1, <3>1
    <3> QED BY <1>3, <3>1, <3>2 DEF BeginCheck
  <2>3. loop' \in {"update", "manipulate"}
    BY <1>3 DEF BeginCheck
  <2> QED BY <1>3, <2>2, <2>3 DEF TypeOK, BeginCheck, requestVars
<1>4. CASE Update
  <2>1. measured.value \in Int
    BY DEF TypeOK
  <2>2. UpdatedPID(measured.value) \in PIDs
    BY <2>1, HysteresisType, TargetInt, ComputedType DEF UpdatedPID
  <2>3. Applies(measured.value) \in BOOLEAN
    BY DEF Applies
  <2> QED BY <1>4, <2>2, <2>3 DEF TypeOK, Update, requestVars
<1>5. CASE BeginManipulate \/ EndLoop
  BY <1>5 DEF TypeOK, BeginManipulate, EndLoop, requestVars
<1>6. CASE RunFinally
  BY <1>6 DEF TypeOK, RunFinally, SwitchOff, requestVars, Sides
<1>7. ASSUME NEW side \in Sides, Manipulate(side) PROVE TypeOK'
  <2>1. asked' \in [Sides -> Int] /\ sent' \subseteq Sides
    <3>1. CASE measured.success
      BY <1>7, <3>1, SwitchType DEF Manipulate
    <3>2. CASE ~measured.success
      <4>1. asked \in [Sides -> Int] /\ sent \subseteq Sides
        BY DEF TypeOK
      <4>2. SwitchOff(side) /\ sent' = sent
        BY <1>7, <3>2 DEF Manipulate
      <4> QED BY <4>1, <4>2 DEF SwitchOff
    <3> QED BY <3>1, <3>2
  <2>2. loop' \in {"lower", "sleeping"}
    BY <1>7 DEF Manipulate
  <2> QED BY <1>7, <2>1, <2>2 DEF TypeOK, Manipulate, requestVars
<1> QED BY <1>1, <1>2, <1>3, <1>4, <1>5, <1>6, <1>7 DEF Next, ThreadStep

\* Whatever is measured and asked, every variable keeps its type; the integrator
\* stays within its limits.
THEOREM TypeCorrect == Spec => []TypeOK
BY TypeInit, TypeStep, PTL DEF Spec

(***************************************************************************)
(* The integrator                                                          *)
(***************************************************************************)
\* What makes NoWindup inductive when the direction is not changed: without a band
\* the flags are never set, and a PID with a band that only raises, or only
\* lowers, has the sign of its integrator from the start.
WindInv ==
  /\ NoWindup
  /\ ~(pid.allow_raising /\ pid.allow_lowering)
  /\ Band = 0 => ~pid.allow_raising /\ ~pid.allow_lowering
  /\ Band # 0 /\ pid.direction = "raise" => pid.integrator >= 0 /\ ~pid.allow_lowering
  /\ Band # 0 /\ pid.direction = "lower" => pid.integrator <= 0 /\ ~pid.allow_raising

\* What the band lets through lies on the side of the target it steers away from.
LEMMA ErrorSign ==
  ASSUME TypeOK, Band # 0, NEW m \in Int, Applies(m)
  PROVE  /\ pid.direction = "raise" => Target(m) - m > 0
         /\ pid.direction = "lower" => Target(m) - m < 0
         /\ pid.direction = "both" /\ m < band_min => Target(m) - m > 0
         /\ pid.direction = "both" /\ m > band_max => Target(m) - m < 0
<1>1. pid \in PIDs
  BY DEF TypeOK
<1>2. pid.setpoint \in Int /\ Band \in Int /\ Band > 0
  <2>1. pid.setpoint \in Int
    BY <1>1, Numbers DEF PIDs
  <2>2. Band \in Int /\ Band > 0
    BY Numbers
  <2> QED BY <2>1, <2>2
<1>3. band_min \in Int /\ band_max \in Int /\ band_min < band_max
  BY <1>2 DEF band_min, band_max
<1>4. CASE pid.direction = "raise"
  BY <1>3, <1>4 DEF Applies, AllowedRaise, Target
<1>5. CASE pid.direction = "lower"
  BY <1>3, <1>5 DEF Applies, AllowedLower, Target
<1>6. CASE pid.direction = "both"
  BY <1>3, <1>6 DEF Applies, Target
<1> QED BY <1>4, <1>5, <1>6

\* What a direction switch makes of a PIDControl.
LEMMA TurnedSigns ==
  ASSUME NEW p \in PIDs
  PROVE  /\ Turned(p, TRUE, FALSE).direction = p.direction /\ Turned(p, TRUE, FALSE).integrator = 0
         /\ Turned(p, TRUE, FALSE).allow_raising /\ ~Turned(p, TRUE, FALSE).allow_lowering
         /\ Turned(p, FALSE, TRUE).direction = p.direction /\ Turned(p, FALSE, TRUE).integrator = 0
         /\ ~Turned(p, FALSE, TRUE).allow_raising /\ Turned(p, FALSE, TRUE).allow_lowering
BY DEF Turned, PIDs

\* check_hysteresis() keeps the signs.
LEMMA HysteresisSigns ==
  ASSUME TypeOK, WindInv, Band # 0, NEW m \in Int
  PROVE  LET h == Hysteresis(m) IN
         /\ h.direction = pid.direction
         /\ h.allow_raising => h.integrator >= 0
         /\ h.allow_lowering => h.integrator <= 0
         /\ ~(h.allow_raising /\ h.allow_lowering)
         /\ pid.direction = "raise" => h.integrator >= 0 /\ ~h.allow_lowering
         /\ pid.direction = "lower" => h.integrator <= 0 /\ ~h.allow_raising
         /\ pid.direction = "both" /\ m < band_min => ~h.allow_lowering /\ h.integrator >= 0
         /\ pid.direction = "both" /\ m > band_max => ~h.allow_raising /\ h.integrator <= 0
<1>1. pid \in PIDs
  BY DEF TypeOK
<1>2. pid.setpoint \in Int /\ Band \in Int /\ Band > 0 /\ pid.integrator \in Int
  <2>1. pid.setpoint \in Int
    BY <1>1, Numbers DEF PIDs
  <2>2. Band \in Int /\ Band > 0
    BY Numbers
  <2>3. pid.integrator \in integrator_min..integrator_max
    BY <1>1 DEF PIDs
  <2>4. pid.integrator \in Int
    BY <2>3, Numbers
  <2> QED BY <2>1, <2>2, <2>4
<1>3. band_min \in Int /\ band_max \in Int /\ band_min < band_max
  BY <1>2 DEF band_min, band_max
<1>4. CASE pid.direction = "raise"
  BY <1>1, <1>2, <1>4 DEF WindInv, NoWindup, PIDs, Hysteresis
<1>5. CASE pid.direction = "lower"
  BY <1>1, <1>2, <1>5 DEF WindInv, NoWindup, PIDs, Hysteresis
<1>6. CASE pid.direction = "both"
  <2>1. CASE m < band_min
    <3>1. ~(m > band_max)
      BY <1>3, <2>1
    <3>2. CASE pid.allow_raising
      <4>1. Hysteresis(m) = pid /\ ~pid.allow_lowering
        BY <1>6, <2>1, <3>2 DEF Hysteresis, WindInv
      <4> QED BY <1>6, <3>1, <3>2, <4>1 DEF WindInv, NoWindup
    <3>3. CASE ~pid.allow_raising
      <4>1. Hysteresis(m) = Turned(pid, TRUE, FALSE)
        BY <1>6, <2>1, <3>3 DEF Hysteresis
      <4>2. /\ Hysteresis(m).direction = pid.direction /\ Hysteresis(m).integrator = 0
            /\ Hysteresis(m).allow_raising /\ ~Hysteresis(m).allow_lowering
        BY <1>1, <4>1, TurnedSigns
      <4> QED BY <1>6, <3>1, <4>2
    <3> QED BY <3>2, <3>3
  <2>2. CASE m > band_max
    <3>1. ~(m < band_min)
      BY <1>3, <2>2
    <3>2. CASE pid.allow_lowering
      <4>1. Hysteresis(m) = pid /\ ~pid.allow_raising
        BY <1>6, <2>2, <3>1, <3>2 DEF Hysteresis, WindInv
      <4> QED BY <1>6, <3>1, <3>2, <4>1 DEF WindInv, NoWindup
    <3>3. CASE ~pid.allow_lowering
      <4>1. Hysteresis(m) = Turned(pid, FALSE, TRUE)
        BY <1>6, <2>2, <3>1, <3>3 DEF Hysteresis
      <4>2. /\ Hysteresis(m).direction = pid.direction /\ Hysteresis(m).integrator = 0
            /\ ~Hysteresis(m).allow_raising /\ Hysteresis(m).allow_lowering
        BY <1>1, <4>1, TurnedSigns
      <4> QED BY <1>6, <3>1, <4>2
    <3> QED BY <3>2, <3>3
  <2>3. CASE ~(m < band_min) /\ ~(m > band_max)
    BY <1>1, <1>2, <1>6, <2>3 DEF WindInv, NoWindup, Hysteresis
  <2> QED BY <2>1, <2>2, <2>3
<1>7. pid.direction \in {"raise", "lower", "both"}
  BY <1>1, PIDAssumption DEF PIDs
<1> QED BY <1>4, <1>5, <1>6, <1>7

\* update_pid_output() leaves the flags and accumulates the error.
LEMMA ComputedSigns ==
  ASSUME NEW p \in PIDs, NEW error \in Int
  PROVE  LET c == Computed(p, error) IN
         /\ c.direction = p.direction /\ c.integrator = Clamp(p.integrator + error)
         /\ c.allow_raising = p.allow_raising /\ c.allow_lowering = p.allow_lowering
         /\ p.integrator + error \in Int
<1>1. p.integrator \in Int
  BY Numbers DEF PIDs
<1> QED BY <1>1 DEF PIDs, Computed

\* The signs hold initially.
LEMMA WindInit == Init => WindInv
BY DEF Init, WindInv, NoWindup

\* Every step keeps the signs when the direction is not changed.
LEMMA WindStep ==
  ASSUME Directions = {InitialDirection}
  PROVE  TypeOK /\ WindInv /\ [Next]_vars => WindInv'
<1> SUFFICES ASSUME TypeOK, WindInv, [Next]_vars PROVE WindInv'
  OBVIOUS
<1>0. pid \in PIDs
  BY DEF TypeOK
<1>1. CASE Update
  <2> DEFINE m == measured.value
  <2>1. m \in Int
    BY DEF TypeOK
  <2>2. pid' = UpdatedPID(m)
    BY <1>1 DEF Update
  <2>3. CASE Band = 0
    BY <1>0, <2>2, <2>3 DEF WindInv, NoWindup, UpdatedPID, Hysteresis, Computed, PIDs
  <2>4. CASE Band # 0
    <3>1. CASE ~Applies(m)
      BY <2>1, <2>2, <2>4, <3>1, HysteresisSigns DEF UpdatedPID, WindInv, NoWindup
    <3>2. CASE Applies(m)
      <4> DEFINE h == Hysteresis(m)
                 error == Target(m) - m
                 c == Computed(h, error)
      <4>1. h \in PIDs /\ error \in Int /\ h.integrator \in Int
        <5>1. h \in PIDs /\ error \in Int
          BY <2>1, HysteresisType, TargetInt
        <5>2. h.integrator \in integrator_min..integrator_max
          BY <5>1 DEF PIDs
        <5>3. h.integrator \in Int
          BY <5>2, Numbers
        <5> QED BY <5>1, <5>3
      <4>2. /\ c.direction = h.direction /\ c.integrator = Clamp(h.integrator + error)
            /\ c.allow_raising = h.allow_raising /\ c.allow_lowering = h.allow_lowering
        BY <4>1, ComputedSigns
      <4>3. /\ h.integrator + error >= 0 => c.integrator >= 0
            /\ h.integrator + error <= 0 => c.integrator <= 0
        BY <4>1, <4>2, ClampLimits
      <4>4. /\ h.direction = pid.direction
            /\ pid.direction = "raise" => h.integrator >= 0 /\ ~h.allow_lowering /\ error > 0
            /\ pid.direction = "lower" => h.integrator <= 0 /\ ~h.allow_raising /\ error < 0
            /\ pid.direction = "both" /\ m < band_min => ~h.allow_lowering /\ h.integrator >= 0 /\ error > 0
            /\ pid.direction = "both" /\ m > band_max => ~h.allow_raising /\ h.integrator <= 0 /\ error < 0
            /\ ~(h.allow_raising /\ h.allow_lowering)
        BY <2>1, <2>4, <3>2, HysteresisSigns, ErrorSign
      <4>5. \/ pid.direction = "raise" \/ pid.direction = "lower"
            \/ pid.direction = "both" /\ (m < band_min \/ m > band_max)
        BY <3>2, <2>4 DEF Applies
      <4>6. pid' = c
        BY <2>2, <3>2 DEF UpdatedPID
      <4> HIDE DEF h, error, c
      <4> QED BY <2>4, <4>1, <4>2, <4>3, <4>4, <4>5, <4>6 DEF WindInv, NoWindup
    <3> QED BY <3>1, <3>2
  <2> QED BY <2>3, <2>4
<1>2. CASE UNCHANGED pid
  BY <1>2 DEF WindInv, NoWindup
<1>3. ASSUME NEW r \in Pages, Assign(r) PROVE WindInv'
  <2>1. op[r] \in Rows
    BY DEF TypeOK
  <2>2. /\ pid'.direction = pid.direction /\ pid'.integrator = pid.integrator
        /\ pid'.allow_raising = pid.allow_raising /\ pid'.allow_lowering = pid.allow_lowering
    BY <1>0, <1>3, <2>1 DEF Assign, Reconfigured, Rows, PIDs
  <2> QED BY <2>2 DEF WindInv, NoWindup
<1>4. ASSUME NEW r \in Pages, SetSetpoint(r) PROVE WindInv'
  <2>1. /\ pid'.direction = pid.direction /\ pid'.integrator = pid.integrator
        /\ pid'.allow_raising = pid.allow_raising /\ pid'.allow_lowering = pid.allow_lowering
    BY <1>0, <1>4 DEF SetSetpoint, PIDs
  <2> QED BY <2>1 DEF WindInv, NoWindup
<1>5. \/ Update \/ UNCHANGED pid \/ \E r \in Pages : Assign(r) \/ SetSetpoint(r)
  BY DEF Next, vars, ThreadStep, Request, BeginCheck, BeginManipulate, Manipulate, EndLoop, RunFinally,
         SaveHold, SavePause, SaveResume, SaveInactive, SaveSettings, Save, SetFlags, StopController,
         Join, ReadRow, SaveSetpoint
<1> QED BY <1>1, <1>2, <1>3, <1>4, <1>5

\* As long as a PID's direction is not changed, its integrator never works against
\* the direction the band has it take, whatever is measured.
THEOREM IntegratorIsUnwound ==
  ASSUME Directions = {InitialDirection}
  PROVE  Spec => []NoWindup
<1>1. Init => TypeOK /\ WindInv
  BY TypeInit, WindInit
<1>2. TypeOK /\ WindInv /\ [Next]_vars => TypeOK' /\ WindInv'
  BY TypeStep, WindStep
<1>3. WindInv => NoWindup
  BY DEF WindInv
<1> QED BY <1>1, <1>2, <1>3, PTL DEF Spec

(***************************************************************************)
(* The outputs                                                             *)
(***************************************************************************)
\* What makes EndsOff inductive when the direction is not changed.
OffInv ==
  /\ \A side \in Sides : ~Uses(pid.direction, side) => asked[side] = 0
  /\ loop \in {"offLower", "dead"} => asked["raise"] = 0
  /\ loop = "dead" => asked["lower"] = 0

\* What makes NeverOpposed inductive besides: the raising output is on, after its
\* half of manipulate_output(), only for a control variable for which the other
\* half switches the lowering output off.
OpposedInv ==
  /\ loop = "lower" /\ asked["raise"] # 0 => measured.success /\ pid.control_variable > 0
  /\ loop # "lower" /\ loop # "raise" => asked["raise"] = 0 \/ asked["lower"] = 0

\* A request leaves the direction, the control variable, the thread and the
\* outputs alone.
LEMMA RequestFrame ==
  ASSUME Directions = {InitialDirection}, TypeOK, NEW r \in Pages, Request(r)
  PROVE  /\ pid'.direction = pid.direction /\ pid'.control_variable = pid.control_variable
         /\ UNCHANGED <<measured, loop, asked>>
<1>0. pid \in PIDs /\ op[r] \in Rows
  BY DEF TypeOK
<1>1. CASE Assign(r)
  <2>1. pid' = Reconfigured(pid, op[r]) /\ UNCHANGED <<measured, loop, asked>>
    BY <1>1 DEF Assign, threadVars
  <2>2. op[r].direction = pid.direction
    BY <1>0 DEF Rows, PIDs
  <2>3. /\ Reconfigured(pid, op[r]).direction = op[r].direction
        /\ Reconfigured(pid, op[r]).control_variable = pid.control_variable
    BY <1>0 DEF Reconfigured, PIDs
  <2> QED BY <2>1, <2>2, <2>3
<1>2. CASE SetSetpoint(r)
  BY <1>0, <1>2 DEF SetSetpoint, PIDs, threadVars
<1>3. CASE ~Assign(r) /\ ~SetSetpoint(r)
  BY <1>3 DEF Request, SaveHold, SavePause, SaveResume, SaveInactive, SaveSettings, Save, SetFlags,
              StopController, Join, ReadRow, SaveSetpoint, threadVars
<1> QED BY <1>1, <1>2, <1>3

\* A check computes anew, but leaves the direction and the outputs alone.
LEMMA UpdateFrame ==
  ASSUME TypeOK, Update
  PROVE  pid'.direction = pid.direction /\ asked' = asked /\ loop' = "manipulate" /\ loop = "update"
<1> DEFINE m == measured.value
<1>1. pid \in PIDs /\ m \in Int
  BY DEF TypeOK
<1>2. Hysteresis(m).direction = pid.direction
  BY <1>1, TurnedSigns DEF Hysteresis, PIDs
<1>3. Hysteresis(m) \in PIDs /\ Target(m) - m \in Int
  BY <1>1, HysteresisType, TargetInt
<1>4. UpdatedPID(m).direction = pid.direction
  BY <1>2, <1>3, ComputedSigns DEF UpdatedPID
<1> QED BY <1>4 DEF Update

\* One half of manipulate_output() tells its own output something, and only an
\* output the direction uses.
LEMMA ManipulateFrame ==
  ASSUME TypeOK, NEW side \in Sides, Manipulate(side)
  PROVE  /\ UNCHANGED <<pid, measured>> /\ loop = side
         /\ loop' = IF side = "raise" THEN "lower" ELSE "sleeping"
         /\ \A other \in Sides \ {side} : asked'[other] = asked[other]
         /\ ~Uses(pid.direction, side) => asked' = asked
<1>1. asked \in [Sides -> Int]
  BY DEF TypeOK
<1>2. CASE measured.success
  <2>1. Switch(side)
    BY <1>2 DEF Manipulate
  <2>2. \A other \in Sides \ {side} : asked'[other] = asked[other]
    BY <1>1, <2>1 DEF Switch, Tell
  <2>3. ~Uses(pid.direction, side) => asked' = asked
    BY <2>1 DEF Switch
  <2> QED BY <2>2, <2>3 DEF Manipulate
<1>3. CASE ~measured.success
  <2>1. SwitchOff(side)
    BY <1>3 DEF Manipulate
  <2> QED BY <1>1, <2>1 DEF SwitchOff, Manipulate
<1> QED BY <1>2, <1>3

\* Every step keeps what EndsOff needs.
LEMMA OffStep ==
  ASSUME Directions = {InitialDirection}
  PROVE  TypeOK /\ OffInv /\ [Next]_vars => OffInv'
<1> SUFFICES ASSUME TypeOK, OffInv, [Next]_vars PROVE OffInv'
  OBVIOUS
<1>0. asked \in [Sides -> Int]
  BY DEF TypeOK
<1>1. CASE UNCHANGED vars
  BY <1>1 DEF vars, threadVars, OffInv, Uses
<1>2. ASSUME NEW r \in Pages, Request(r) PROVE OffInv'
  BY <1>2, RequestFrame DEF OffInv, Uses
<1>3. CASE Update
  BY <1>3, UpdateFrame DEF OffInv, Uses
<1>4. CASE BeginCheck \/ BeginManipulate \/ EndLoop
  BY <1>4 DEF BeginCheck, BeginManipulate, EndLoop, OffInv, Uses
<1>5. CASE RunFinally
  BY <1>0, <1>5 DEF RunFinally, SwitchOff, OffInv, Uses, Sides
<1>6. ASSUME NEW side \in Sides, Manipulate(side) PROVE OffInv'
  <2>1. loop' \notin {"offLower", "dead"} /\ pid' = pid
    BY <1>6, ManipulateFrame DEF Sides
  <2>2. \A other \in Sides : ~Uses(pid.direction, other) => asked'[other] = asked[other]
    BY <1>6, ManipulateFrame
  <2> QED BY <2>1, <2>2 DEF OffInv, Uses
<1> QED BY <1>1, <1>2, <1>3, <1>4, <1>5, <1>6 DEF Next, ThreadStep

\* As long as a PID's direction is not changed, both its outputs are off when the
\* controller has ended, wherever in a check the request to stop it came.
THEOREM BothEndOff ==
  ASSUME Directions = {InitialDirection}
  PROVE  Spec => []EndsOff
<1>1. Init => TypeOK /\ OffInv
  BY TypeInit DEF Init, OffInv, Sides
<1>2. TypeOK /\ OffInv /\ [Next]_vars => TypeOK' /\ OffInv'
  BY TypeStep, OffStep
<1>3. OffInv => EndsOff
  BY DEF OffInv, EndsOff, Sides
<1> QED BY <1>1, <1>2, <1>3, PTL DEF Spec

\* Every step keeps what NeverOpposed needs.
LEMMA OpposedStep ==
  ASSUME Directions = {InitialDirection}, ~AlwaysMin, \A side \in Sides : Kind[side] = "pwm"
  PROVE  TypeOK /\ OffInv /\ OpposedInv /\ [Next]_vars => OpposedInv'
<1> SUFFICES ASSUME TypeOK, OffInv, OpposedInv, [Next]_vars PROVE OpposedInv'
  OBVIOUS
<1>0. asked \in [Sides -> Int] /\ pid.control_variable \in Int
  BY DEF TypeOK, PIDs
<1>1. CASE UNCHANGED vars
  BY <1>1 DEF vars, threadVars, OpposedInv
<1>2. ASSUME NEW r \in Pages, Request(r) PROVE OpposedInv'
  BY <1>2, RequestFrame DEF OpposedInv
<1>3. CASE Update
  BY <1>3, UpdateFrame DEF OpposedInv
<1>4. CASE BeginCheck \/ BeginManipulate \/ EndLoop
  BY <1>4 DEF BeginCheck, BeginManipulate, EndLoop, OpposedInv
<1>5. CASE RunFinally
  BY <1>0, <1>5 DEF RunFinally, SwitchOff, OpposedInv, Sides
<1>6. CASE Manipulate("raise")
  <2>1. loop' = "lower" /\ UNCHANGED <<pid, measured>>
    BY <1>6 DEF Manipulate
  <2>2. asked'["raise"] # 0 => measured.success /\ pid.control_variable > 0
    <3>1. CASE ~Uses(pid.direction, "raise")
      BY <1>6, <3>1, ManipulateFrame DEF OffInv, Sides
    <3>2. CASE Uses(pid.direction, "raise") /\ ~measured.success
      BY <1>0, <1>6, <3>2 DEF Manipulate, SwitchOff, Sides
    <3>3. CASE Uses(pid.direction, "raise") /\ measured.success /\ ~(pid.control_variable > 0)
      BY <1>0, <1>6, <3>3 DEF Manipulate, Switch, Demand, PwmRests, Sides
    <3> QED BY <3>1, <3>2, <3>3
  <2> QED BY <2>1, <2>2 DEF OpposedInv
<1>7. CASE Manipulate("lower")
  <2>1. /\ loop = "lower" /\ loop' = "sleeping" /\ UNCHANGED <<pid, measured>>
        /\ asked'["raise"] = asked["raise"]
    BY <1>7, ManipulateFrame DEF Sides
  <2>2. CASE asked["raise"] = 0
    BY <2>1, <2>2 DEF OpposedInv
  <2>3. CASE asked["raise"] # 0
    <3>1. measured.success /\ pid.control_variable > 0
      BY <2>1, <2>3 DEF OpposedInv
    <3>2. asked'["lower"] = 0
      <4>1. CASE ~Uses(pid.direction, "lower")
        BY <1>7, <4>1, ManipulateFrame DEF OffInv, Sides
      <4>2. CASE Uses(pid.direction, "lower")
        <5>1. Switch("lower") /\ ~(Demand("lower") > 0) /\ PwmRests("lower")
          BY <1>0, <1>7, <3>1 DEF Manipulate, Demand, PwmRests, Sides
        <5> QED BY <1>0, <4>2, <5>1 DEF Switch, Sides
      <4> QED BY <4>1, <4>2
    <3> QED BY <2>1, <3>2 DEF OpposedInv
  <2> QED BY <2>2, <2>3
<1> QED BY <1>1, <1>2, <1>3, <1>4, <1>5, <1>6, <1>7 DEF Next, ThreadStep, Sides

\* Two PWM outputs that may rest never work against each other between checks, as
\* long as the PID's direction is not changed.
THEOREM OneOutputAtATime ==
  ASSUME Directions = {InitialDirection}, ~AlwaysMin, \A side \in Sides : Kind[side] = "pwm"
  PROVE  Spec => []NeverOpposed
<1>1. Init => TypeOK /\ OffInv /\ OpposedInv
  BY TypeInit DEF Init, OffInv, OpposedInv, Sides
<1>2. TypeOK /\ OffInv /\ OpposedInv /\ [Next]_vars => TypeOK' /\ OffInv' /\ OpposedInv'
  BY TypeStep, OffStep, OpposedStep
<1>3. OpposedInv => NeverOpposed
  BY DEF OpposedInv, NeverOpposed
<1> QED BY <1>1, <1>2, <1>3, PTL DEF Spec

(***************************************************************************)
(* The setpoint                                                            *)
(***************************************************************************)
\* Requests come one after the other, and each leads the setpoint of the row and
\* of the controller from equal to equal.
SetpointInv ==
  /\ \A r \in Pages, q \in Pages : pc[r] # "idle" /\ pc[q] # "idle" => r = q
  /\ \A r \in Pages : pc[r] = "assign" => op[r].setpoint = row.setpoint
  /\ \A r \in Pages : pc[r] = "save" => op[r].setpoint = pid.setpoint
  /\ (\A r \in Pages : pc[r] \notin {"modify", "assign", "save"}) => pid.setpoint = row.setpoint

\* A request begins with one of its first steps, or goes on.
Opening(r) ==
  SaveHold(r) \/ SavePause(r) \/ SaveResume(r) \/ SaveInactive(r) \/ SaveSettings(r) \/ SetSetpoint(r)

\* The controller's thread has no part in the setpoint.
LEMMA ThreadFrame ==
  ASSUME TypeOK, ThreadStep
  PROVE  pid'.setpoint = pid.setpoint /\ UNCHANGED <<row, pc, op>>
<1>1. CASE Update
  <2> DEFINE m == measured.value
  <2>1. pid \in PIDs /\ m \in Int
    BY DEF TypeOK
  <2>2. Hysteresis(m) \in PIDs /\ Target(m) - m \in Int
    BY <2>1, HysteresisType, TargetInt
  <2>3. Hysteresis(m).setpoint = pid.setpoint
    BY <2>1 DEF Hysteresis, Turned, PIDs
  <2>4. \A p \in PIDs : \A error \in Int : Computed(p, error).setpoint = p.setpoint
    BY DEF Computed, PIDs
  <2>5. UpdatedPID(m).setpoint = pid.setpoint
    BY <2>2, <2>3, <2>4 DEF UpdatedPID
  <2> QED BY <1>1, <2>5 DEF Update, requestVars
<1>2. CASE BeginCheck \/ BeginManipulate \/ EndLoop \/ RunFinally \/ \E side \in Sides : Manipulate(side)
  BY <1>2 DEF BeginCheck, BeginManipulate, EndLoop, RunFinally, Manipulate, requestVars
<1> QED BY <1>1, <1>2 DEF ThreadStep

\* Every step keeps the setpoints together when requests do not overlap.
LEMMA SetpointStep ==
  ASSUME ~Overlap
  PROVE  TypeOK /\ SetpointInv /\ [Next]_vars => SetpointInv'
<1> SUFFICES ASSUME TypeOK, SetpointInv, [Next]_vars PROVE SetpointInv'
  OBVIOUS
<1>0. /\ pc \in [Pages -> {"idle", "hold", "pause", "resume", "modify", "deactivate", "join", "assign", "save"}]
      /\ op \in [Pages -> Rows] /\ pid \in PIDs /\ row \in Rows
  BY DEF TypeOK
<1>1. CASE UNCHANGED vars
  BY <1>1 DEF vars, requestVars, SetpointInv
<1>2. CASE ThreadStep
  BY <1>2, ThreadFrame DEF SetpointInv
<1>3. ASSUME NEW r \in Pages, Opening(r) PROVE SetpointInv'
  <2>1. /\ \A q \in Pages : pc[q] = "idle"
        /\ \A q \in Pages \ {r} : pc'[q] = "idle"
        /\ pid.setpoint = row.setpoint
    BY <1>0, <1>3 DEF Opening, SaveHold, SavePause, SaveResume, SaveInactive, SaveSettings, Save,
                      SetSetpoint, MayBegin, At, Goto, SetpointInv
  <2>2. CASE SaveHold(r) \/ SavePause(r) \/ SaveResume(r) \/ SaveInactive(r)
    <3>1. pc'[r] \in {"hold", "pause", "resume", "deactivate"} /\ row'.setpoint = row.setpoint /\ pid' = pid
      BY <1>0, <2>2 DEF SaveHold, SavePause, SaveResume, SaveInactive, Save, Goto, Rows
    <3> QED BY <2>1, <3>1 DEF SetpointInv
  <2>3. CASE SaveSettings(r)
    <3>1. pc'[r] = "modify"
      BY <1>0, <2>3 DEF SaveSettings, Save, Goto
    <3> QED BY <2>1, <3>1 DEF SetpointInv
  <2>4. CASE SetSetpoint(r)
    <3>1. PICK s \in Setpoints : /\ pid' = [pid EXCEPT !.setpoint = s]
                                 /\ op' = [op EXCEPT ![r] = [row EXCEPT !.setpoint = s]]
                                 /\ pc' = [pc EXCEPT ![r] = "save"]
      BY <2>4 DEF SetSetpoint, Goto
    <3>2. pc'[r] = "save" /\ op'[r].setpoint = s /\ pid'.setpoint = s
      BY <1>0, <3>1 DEF Rows, PIDs
    <3> QED BY <2>1, <3>2 DEF SetpointInv
  <2> QED BY <1>3, <2>2, <2>3, <2>4 DEF Opening
<1>4. ASSUME NEW r \in Pages, Request(r), ~Opening(r) PROVE SetpointInv'
  <2>1. /\ pc[r] # "idle"
        /\ \A q \in Pages \ {r} : pc[q] = "idle" /\ pc'[q] = "idle"
    BY <1>0, <1>4 DEF Request, Opening, SetFlags, StopController, Join, ReadRow, Assign, SaveSetpoint,
                      At, Goto, Return, SetpointInv
  <2>2. CASE SetFlags(r) \/ StopController(r) \/ Join(r)
    <3>1. /\ pc[r] \in {"hold", "pause", "resume", "deactivate", "join"} /\ pc'[r] \in {"idle", "join"}
          /\ row'.setpoint = row.setpoint /\ pid' = pid
      BY <1>0, <2>2 DEF SetFlags, StopController, Join, At, Goto, Rows
    <3>2. pid.setpoint = row.setpoint
      BY <2>1, <3>1 DEF SetpointInv
    <3> QED BY <2>1, <3>1, <3>2 DEF SetpointInv
  <2>3. CASE ReadRow(r)
    <3>1. pc'[r] = "assign" /\ op'[r] = row /\ row' = row
      BY <1>0, <2>3 DEF ReadRow, Goto
    <3> QED BY <2>1, <3>1 DEF SetpointInv
  <2>4. CASE Assign(r)
    <3>1. pc[r] = "assign" /\ pc'[r] = "idle" /\ row' = row /\ pid' = Reconfigured(pid, op[r])
      BY <1>0, <2>4 DEF Assign, At, Return
    <3>2. pid'.setpoint = op[r].setpoint
      BY <1>0, <3>1 DEF Reconfigured, PIDs
    <3> QED BY <2>1, <3>1, <3>2 DEF SetpointInv
  <2>5. CASE SaveSetpoint(r)
    <3>1. /\ pc[r] = "save" /\ pc'[r] = "idle" /\ pid' = pid
          /\ row' = [row EXCEPT !.setpoint = op[r].setpoint]
      BY <1>0, <2>5 DEF SaveSetpoint, At, Return
    <3>2. row'.setpoint = op[r].setpoint
      BY <1>0, <3>1 DEF Rows
    <3> QED BY <2>1, <3>1, <3>2 DEF SetpointInv
  <2> QED BY <1>4, <2>2, <2>3, <2>4, <2>5 DEF Request, Opening
<1> QED BY <1>1, <1>2, <1>3, <1>4 DEF Next

\* When requests do not overlap, a PID at rest steers to the setpoint of the
\* database, whichever request changed it last.
THEOREM SetpointStaysSaved ==
  ASSUME ~Overlap
  PROVE  Spec => []SetpointSaved
<1>1. Init => TypeOK /\ SetpointInv
  BY TypeInit DEF Init, SetpointInv, InitialRow
<1>2. TypeOK /\ SetpointInv /\ [Next]_vars => TypeOK' /\ SetpointInv'
  BY TypeStep, SetpointStep
<1>3. SetpointInv => SetpointSaved
  BY DEF SetpointInv, SetpointSaved, NoRequest, At
<1> QED BY <1>1, <1>2, <1>3, PTL DEF Spec
=============================================================================
