----------------------- MODULE OutputControllerProofs -----------------------
(***************************************************************************)
(* Theorems about OutputController and OutputHistory, for any outputs,     *)
(* callers and bounds.                                                     *)
(***************************************************************************)
EXTENDS OutputHistory, FiniteSetTheorems, TLAPS

(***************************************************************************)
(* Threads and their locals                                                *)
(***************************************************************************)
\* A call's locals are in the type of calls whatever the caller asked for.
LEMMA LocalsType ==
  ASSUME TypeOK, NEW o \in Outputs, NEW amount \in Int \cup {None}, NEW min_off \in Nat
  PROVE  Locals(o, amount, min_off) \in Calls
BY DEF TypeOK, Locals, GivenAmount, Calls, IsOn, Present

\* The fields of a thread that is inside a call.
LEMMA CallFields ==
  ASSUME ThreadsOK, NEW t \in Threads, pc[t] # "idle"
  PROVE  /\ op[t].output \in Outputs /\ op[t].amount \in Int
         /\ op[t].min_off \in Nat /\ op[t].now \in Nat
BY DEF ThreadsOK, Calls

\* Returning from a call keeps the threads well typed.
LEMMA ReturnType ==
  ASSUME ThreadsOK, NEW t \in Threads, Return(t)
  PROVE  ThreadsOK'
BY DEF ThreadsOK, Return, Labels

\* Going on inside a call keeps the threads well typed.
LEMMA GotoType ==
  ASSUME ThreadsOK, NEW t \in Threads, pc[t] # "idle", NEW label \in Labels,
         Goto(t, label), UNCHANGED op
  PROVE  ThreadsOK'
BY DEF ThreadsOK, Goto

\* Entering a call keeps the threads well typed.
LEMMA EnterCallType ==
  ASSUME TypeOK, NEW t \in Threads, NEW o \in Outputs, NEW state \in {"on", "off"},
         NEW amount \in Int \cup {None}, NEW min_off \in Nat,
         EnterCall(t, o, state, amount, min_off)
  PROVE  ThreadsOK'
<1>1. CASE Rejects(o)
  BY <1>1, ReturnType DEF EnterCall, TypeOK
<1>2. CASE ~Rejects(o)
  <2>1. Locals(o, amount, min_off) \in Calls
    BY LocalsType
  <2>2. PICK label \in Labels : pc' = [pc EXCEPT ![t] = label]
    BY <1>2 DEF EnterCall, Goto, FirstStep, Labels
  <2>3. op' = [op EXCEPT ![t] = Locals(o, amount, min_off)]
    BY <1>2 DEF EnterCall
  <2> QED BY <2>1, <2>2, <2>3 DEF TypeOK, ThreadsOK
<1> QED BY <1>1, <1>2

\* What a set-up leaves the module and the device in, whether it works or not.
LEMMA SetUpType ==
  ASSUME TypeOK, NEW o \in Outputs, SetUp(o)
  PROVE  /\ is_setup' \in [Outputs -> BOOLEAN]
         /\ dev' \in [Outputs -> BOOLEAN] /\ output_state' \in [Outputs -> BOOLEAN]
BY DEF SetUp, TypeOK

(***************************************************************************)
(* Type correctness                                                        *)
(***************************************************************************)
\* The part of TypeOK that is not about threads.
DataOK ==
  /\ now \in Nat
  /\ phase \in {"load", "startup", "loop", "shutdown", "stopped", "dead"}
  /\ running \in BOOLEAN /\ keys \subseteq Outputs /\ todo \subseteq Outputs
  /\ known \in [Outputs -> {"new", "present", "deleted"}]
  /\ is_setup \in [Outputs -> BOOLEAN]
  /\ dev \in [Outputs -> BOOLEAN] /\ output_state \in [Outputs -> BOOLEAN]
  /\ on_until \in [Outputs -> Nat] /\ last_duration \in [Outputs -> Int]
  /\ on_duration \in [Outputs -> BOOLEAN] /\ off_triggered \in [Outputs -> BOOLEAN]
  /\ time_turned_on \in [Outputs -> Nat \cup {None}]
  /\ off_until \in [Outputs -> Nat] /\ recorded \in [Outputs -> Int]

\* TypeOK is its two parts.
LEMMA TypeParts == TypeOK <=> DataOK /\ ThreadsOK
BY DEF TypeOK, DataOK

\* And so it is in the next state.
LEMMA TypePartsPrime == TypeOK' <=> DataOK' /\ ThreadsOK'
BY DEF TypeOK, DataOK

\* A step of a call of output_on_off keeps the threads well typed.
LEMMA CallStepThreads ==
  ASSUME ThreadsOK, NEW t \in Threads, CallStep(t)
  PROVE  ThreadsOK'
<1>1. CASE CheckAmps(t)
  BY <1>1, ReturnType, GotoType DEF CheckAmps, At, Labels
<1>2. CASE CheckOffUntil(t)
  BY <1>2, ReturnType, GotoType DEF CheckOffUntil, At, Labels
<1>3. CASE SetOffUntil(t)
  BY <1>3, GotoType DEF SetOffUntil, At, Labels
<1>4. CASE Extend(t)
  BY <1>4, ReturnType DEF Extend, At
<1>5. CASE NotForAnAmount(t)
  BY <1>5, GotoType DEF NotForAnAmount, At, Labels
<1>6. CASE OnUntimed(t)
  BY <1>6, ReturnType, GotoType DEF OnUntimed, At, Labels
<1>7. CASE SwitchOn(t)
  BY <1>7, ReturnType, GotoType DEF SwitchOn, At, Labels
<1>8. CASE SwitchOff(t)
  BY <1>8, GotoType DEF SwitchOff, At, Labels
<1>9. CASE SwitchRaises(t)
  BY <1>9, ReturnType DEF SwitchRaises, At, Raise
<1>10. CASE RecordTimed(t)
  BY <1>10, ReturnType DEF RecordTimed, At
<1>11. CASE RecordOff(t)
  BY <1>11, ReturnType DEF RecordOff, At
<1>12. CASE KeyErrorAbort(t)
  BY <1>12, ReturnType DEF KeyErrorAbort, At, Raise
<1> QED BY <1>1, <1>2, <1>3, <1>4, <1>5, <1>6, <1>7, <1>8, <1>9, <1>10, <1>11, <1>12 DEF CallStep

\* A step of a call of output_on_off keeps everything else well typed.
LEMMA CallStepData ==
  ASSUME TypeOK, NEW t \in Threads, CallStep(t)
  PROVE  DataOK'
<1>0. DataOK /\ ThreadsOK
  BY TypeParts
<1> USE <1>0, CallFields DEF DataOK, clockVars, mainVars, modVars, devVars, timerVars
<1>1. CASE CheckAmps(t)
  BY <1>1 DEF CheckAmps, At
<1>2. CASE CheckOffUntil(t)
  BY <1>2 DEF CheckOffUntil, At
<1>3. CASE SetOffUntil(t)
  BY <1>3 DEF SetOffUntil, At, Abs
<1>4. CASE Extend(t)
  BY <1>4 DEF Extend, At, Abs, Remaining, EndOf
<1>5. CASE NotForAnAmount(t)
  BY <1>5 DEF NotForAnAmount, At
<1>6. CASE OnUntimed(t)
  BY <1>6 DEF OnUntimed, At, TurnedOnAt
<1>7. CASE SwitchOn(t)
  BY <1>7 DEF SwitchOn, Drive, At
<1>8. CASE SwitchOff(t)
  BY <1>8 DEF SwitchOff, Drive, At
<1>9. CASE SwitchRaises(t)
  BY <1>9 DEF SwitchRaises, Raise
<1>10. CASE RecordTimed(t)
  BY <1>10 DEF RecordTimed, At, Abs, EndOf
<1>11. CASE RecordOff(t)
  BY <1>11 DEF RecordOff, At, Abs, Remaining, OffSeconds, StopTimer, Rearm
<1>12. CASE KeyErrorAbort(t)
  BY <1>12 DEF KeyErrorAbort, Raise
<1> QED BY <1>1, <1>2, <1>3, <1>4, <1>5, <1>6, <1>7, <1>8, <1>9, <1>10, <1>11, <1>12 DEF CallStep

\* A request of the Pyro server keeps the types.
LEMMA CallerStepType ==
  ASSUME TypeOK, NEW t \in Callers, CallerStep(t)
  PROVE  TypeOK'
<1>0. /\ DataOK /\ ThreadsOK /\ t \in Threads
      /\ Amounts \subseteq Int \cup {None} /\ MinOffs \subseteq Nat
  BY TypeParts, OutputAssumption DEF Threads
<1> USE DEF clockVars, mainVars, modVars, devVars, timerVars
<1>1. CASE OutputOn(t)
  BY <1>0, <1>1, TypePartsPrime, EnterCallType DEF OutputOn, DataOK
<1>2. CASE OutputOff(t)
  BY <1>0, <1>2, TypePartsPrime, EnterCallType DEF OutputOff, DataOK
<1>3. CASE AddModOutput(t)
  <2>1. PICK o \in Outputs :
          /\ known' = [known EXCEPT ![o] = "present"]
          /\ ResetTimers(o)
          /\ op' = [op EXCEPT ![t] = Locals(o, 0, 0)]
          /\ Goto(t, "setup")
          /\ UNCHANGED <<clockVars, is_setup, devVars, off_until, recorded>>
    BY <1>3 DEF AddModOutput
  <2>2. DataOK'
    BY <1>0, <2>1 DEF DataOK, ResetTimers
  <2>3. ThreadsOK'
    <3>1. Locals(o, 0, 0) \in Calls
      BY LocalsType
    <3> QED BY <1>0, <2>1, <3>1 DEF ThreadsOK, Goto, Labels
  <2> QED BY <2>2, <2>3, TypePartsPrime
<1>4. CASE ReplaceModule(t)
  <2>1. ThreadsOK'
    BY <1>0, <1>4, ReturnType DEF ReplaceModule
  <2>2. op[t].output \in Outputs
    BY <1>0, <1>4, CallFields DEF ReplaceModule, At
  <2>3. DataOK'
    BY <1>0, <1>4, <2>2, SetUpType DEF ReplaceModule, DataOK
  <2> QED BY <2>1, <2>3, TypePartsPrime
<1>5. CASE DelOutput(t)
  BY <1>0, <1>5, TypePartsPrime DEF DelOutput, DataOK, ThreadsOK
<1>6. CASE StopController(t)
  BY <1>0, <1>6, TypePartsPrime DEF StopController, DataOK, ThreadsOK
<1> QED BY <1>1, <1>2, <1>3, <1>4, <1>5, <1>6 DEF CallerStep

\* A step of the controller's own thread keeps the types.
LEMMA MainStepType ==
  ASSUME TypeOK, MainStep
  PROVE  TypeOK'
<1>0. DataOK /\ ThreadsOK /\ Main \in Threads /\ OffThreads \subseteq Threads
  BY TypeParts DEF Threads
<1> USE DEF clockVars, mainVars, modVars, devVars, timerVars
<1>1. CASE MainPhase
  <2>1. PresentKeys \subseteq Outputs
    BY DEF PresentKeys
  <2> QED BY <1>0, <1>1, <2>1, TypePartsPrime DEF MainPhase, Iterate, DataOK, ThreadsOK
<1>2. CASE IterationRaises
  BY <1>0, <1>2, TypePartsPrime DEF IterationRaises, DataOK, ThreadsOK
<1>3. ASSUME NEW o \in Outputs, LoadOutput(o)
      PROVE  TypeOK'
  <2>1. DataOK'
    BY <1>0, <1>3, SetUpType DEF LoadOutput, ResetTimers, DataOK
  <2> QED BY <1>0, <1>3, <2>1, TypePartsPrime DEF LoadOutput, ThreadsOK
<1>4. ASSUME NEW o \in Outputs, MainCall(o)
      PROVE  TypeOK'
  <2> DEFINE wish == IF phase = "startup" THEN Startup[o] ELSE Shutdown[o]
  <2>1. DataOK'
    BY <1>0, <1>4 DEF MainCall, DataOK, Handled
  <2>2. CASE wish = "keep"
    BY <1>0, <1>4, <2>1, <2>2, TypePartsPrime DEF MainCall, ThreadsOK
  <2>3. CASE wish # "keep"
    <3>1. wish \in {"on", "off"}
      BY <2>3, OutputAssumption
    <3>2. EnterCall(Main, o, wish, 0, 0)
      BY <1>4, <2>3 DEF MainCall
    <3>3. ThreadsOK'
      BY <1>0, <3>1, <3>2, EnterCallType
    <3> QED BY <2>1, <3>3, TypePartsPrime
  <2> QED BY <2>2, <2>3
<1>5. ASSUME NEW o \in Outputs, Loop(o)
      PROVE  TypeOK'
  <2>1. PICK t \in Threads : /\ pc' = [pc EXCEPT ![t] = "spawned"]
                             /\ op' = [op EXCEPT ![t] = NewCall(o)]
    BY <1>0, <1>5 DEF Loop, Goto
  <2>2. NewCall(o) \in Calls
    BY DEF NewCall, Calls
  <2>3. ThreadsOK'
    BY <1>0, <2>1, <2>2 DEF ThreadsOK, Labels
  <2>4. DataOK'
    BY <1>0, <1>5 DEF Loop, DataOK
  <2> QED BY <2>3, <2>4, TypePartsPrime
<1> QED BY <1>1, <1>2, <1>3, <1>4, <1>5 DEF MainStep

\* Every step keeps the types.
LEMMA TypeStep == TypeOK /\ [Next]_vars => TypeOK'
<1> SUFFICES ASSUME TypeOK, [Next]_vars PROVE TypeOK'
  OBVIOUS
<1>0. DataOK /\ ThreadsOK
  BY TypeParts
<1>1. ASSUME NEW t \in Threads, CallStep(t) PROVE TypeOK'
  BY <1>0, <1>1, CallStepThreads, CallStepData, TypePartsPrime
<1>2. ASSUME NEW t \in Callers, CallerStep(t) PROVE TypeOK'
  BY <1>2, CallerStepType
<1>3. ASSUME NEW t \in OffThreads, OffThreadStart(t) PROVE TypeOK'
  <2>1. t \in Threads /\ op[t].output \in Outputs
    BY <1>0, <1>3, CallFields DEF OffThreadStart, Threads
  <2>2. ThreadsOK'
    BY <1>3, <2>1, EnterCallType DEF OffThreadStart
  <2>3. DataOK'
    BY <1>0, <1>3 DEF OffThreadStart, DataOK, clockVars, mainVars, modVars, devVars, timerVars
  <2> QED BY <2>2, <2>3, TypePartsPrime
<1>4. CASE MainStep
  BY <1>4, MainStepType
<1>5. CASE Tick
  BY <1>0, <1>5, TypePartsPrime
  DEF Tick, DataOK, ThreadsOK, mainVars, modVars, devVars, timerVars
<1>6. CASE UNCHANGED vars
  BY <1>0, <1>6, TypePartsPrime
  DEF vars, DataOK, ThreadsOK, clockVars, mainVars, modVars, devVars, timerVars
<1> QED BY <1>1, <1>2, <1>3, <1>4, <1>5, <1>6 DEF Next

\* The types hold initially.
LEMMA TypeInit == Init => TypeOK
<1> SUFFICES ASSUME Init PROVE TypeOK
  OBVIOUS
<1>1. ThreadsOK
  BY DEF Init, ThreadsOK, Labels
<1>2. Configured \subseteq Outputs
  BY OutputAssumption
<1>3. DataOK
  <2>1. /\ now \in Nat /\ off_until \in [Outputs -> Nat] /\ recorded \in [Outputs -> Int]
        /\ on_until \in [Outputs -> Nat] /\ last_duration \in [Outputs -> Int]
    BY DEF Init
  <2>2. time_turned_on \in [Outputs -> Nat \cup {None}]
    BY DEF Init
  <2>3. /\ running \in BOOLEAN /\ keys \subseteq Outputs /\ todo \subseteq Outputs
        /\ phase \in {"load", "startup", "loop", "shutdown", "stopped", "dead"}
    BY <1>2 DEF Init
  <2>4. /\ known \in [Outputs -> {"new", "present", "deleted"}]
        /\ is_setup \in [Outputs -> BOOLEAN]
        /\ dev \in [Outputs -> BOOLEAN] /\ output_state \in [Outputs -> BOOLEAN]
        /\ on_duration \in [Outputs -> BOOLEAN] /\ off_triggered \in [Outputs -> BOOLEAN]
    BY DEF Init
  <2> QED BY <2>1, <2>2, <2>3, <2>4 DEF DataOK
<1> QED BY <1>1, <1>3, TypeParts

\* However calls overlap, the controller's dictionaries and the locals of every
\* thread stay in their types.
THEOREM TypeCorrect == Spec => []TypeOK
BY TypeInit, TypeStep, PTL DEF Spec

(***************************************************************************)
(* No timer runs longer than the duration it was asked for                 *)
(***************************************************************************)
\* TimerBounds is inductive once no call remembers a time of the future.
NoFutureCall == \A t \in Threads : op[t].now <= now

ClockInv == TypeOK /\ NoFutureCall /\ TimerBounds

\* Returning from a call, with the timers left alone, keeps ClockInv.
LEMMA ReturnClock ==
  ASSUME TypeOK, NoFutureCall, NEW t \in Threads, Return(t), now' = now
  PROVE  NoFutureCall'
<1>1. now \in Nat /\ op \in [Threads -> Calls \cup {NoCall}]
  BY DEF TypeOK, ThreadsOK
<1>2. NoCall.now = 0
  BY DEF NoCall, NewCall
<1> QED BY <1>1, <1>2 DEF NoFutureCall, Return

\* Entering a call, with the timers left alone, keeps ClockInv.
LEMMA EnterCallClock ==
  ASSUME TypeOK, NoFutureCall, NEW t \in Threads, NEW o \in Outputs, NEW state,
         NEW amount, NEW min_off, EnterCall(t, o, state, amount, min_off), now' = now
  PROVE  NoFutureCall'
<1>1. CASE Rejects(o)
  BY <1>1, ReturnClock DEF EnterCall
<1>2. CASE ~Rejects(o)
  <2>1. now \in Nat /\ op \in [Threads -> Calls \cup {NoCall}]
    BY DEF TypeOK, ThreadsOK
  <2>2. Locals(o, amount, min_off).now = now
    BY DEF Locals
  <2> QED BY <1>2, <2>1, <2>2 DEF EnterCall, NoFutureCall
<1> QED BY <1>1, <1>2

\* A step of a call of output_on_off keeps ClockInv.
LEMMA CallStepClock ==
  ASSUME ClockInv, NEW t \in Threads, CallStep(t)
  PROVE  NoFutureCall' /\ TimerBounds'
<1>0. /\ TypeOK /\ NoFutureCall /\ TimerBounds /\ now \in Nat
      /\ on_until \in [Outputs -> Nat] /\ last_duration \in [Outputs -> Int]
      /\ on_duration \in [Outputs -> BOOLEAN] /\ ThreadsOK
  BY DEF ClockInv, TypeOK
<1>1. now' = now
  BY DEF CallStep, CheckAmps, CheckOffUntil, SetOffUntil, Extend, NotForAnAmount, OnUntimed,
         SwitchOn, SwitchOff, SwitchRaises, Raise, RecordTimed, RecordOff, KeyErrorAbort,
         clockVars
<1>2. NoFutureCall'
  <2>1. Return(t) \/ UNCHANGED op
    BY DEF CallStep, CheckAmps, CheckOffUntil, SetOffUntil, Extend, NotForAnAmount, OnUntimed,
           SwitchOn, SwitchOff, SwitchRaises, Raise, RecordTimed, RecordOff, KeyErrorAbort
  <2> QED BY <1>0, <1>1, <2>1, ReturnClock DEF NoFutureCall
<1>3. TimerBounds'
  <2>1. CASE Extend(t)
    <3>1. op[t].amount \in Int /\ op[t].now \in Nat /\ op[t].now <= now
      BY <1>0, <2>1, CallFields DEF Extend, At, NoFutureCall
    <3> QED BY <1>0, <1>1, <2>1, <3>1 DEF Extend, EndOf, Abs, TimerBounds
  <2>2. CASE RecordTimed(t)
    <3>1. op[t].amount \in Int /\ op[t].now \in Nat /\ op[t].now <= now
      BY <1>0, <2>2, CallFields DEF RecordTimed, At, NoFutureCall
    <3> QED BY <1>0, <1>1, <2>2, <3>1 DEF RecordTimed, EndOf, Abs, TimerBounds
  <2>3. CASE RecordOff(t)
    BY <1>0, <1>1, <2>3 DEF RecordOff, StopTimer, Abs, TimerBounds
  <2>4. CASE ~Extend(t) /\ ~RecordTimed(t) /\ ~RecordOff(t)
    <3>1. UNCHANGED <<on_until, last_duration, on_duration>>
      BY <2>4 DEF CallStep, CheckAmps, CheckOffUntil, SetOffUntil, NotForAnAmount, OnUntimed,
                  SwitchOn, SwitchOff, SwitchRaises, KeyErrorAbort, timerVars
    <3> QED BY <1>0, <1>1, <3>1 DEF TimerBounds
  <2> QED BY <2>1, <2>2, <2>3, <2>4
<1> QED BY <1>2, <1>3

\* Every other step either leaves the timers alone or stops them.
TimersKeptOrReset ==
  \/ UNCHANGED <<on_until, last_duration, on_duration>>
  \/ \E o \in Outputs : on_duration' = [on_duration EXCEPT ![o] = FALSE]
                      /\ \A q \in Outputs \ {o} : /\ on_until'[q] = on_until[q]
                                                /\ last_duration'[q] = last_duration[q]

\* Steps that leave the timers alone or stop them keep TimerBounds.
LEMMA KeptOrResetClock ==
  ASSUME ClockInv, TimersKeptOrReset, now' \in Nat, now <= now'
  PROVE  TimerBounds'
<1>0. /\ TimerBounds /\ now \in Nat
      /\ on_until \in [Outputs -> Nat] /\ last_duration \in [Outputs -> Int]
      /\ on_duration \in [Outputs -> BOOLEAN]
  BY DEF ClockInv, TypeOK
<1>1. CASE UNCHANGED <<on_until, last_duration, on_duration>>
  BY <1>0, <1>1 DEF TimerBounds, Abs
<1>2. CASE ~UNCHANGED <<on_until, last_duration, on_duration>>
  BY <1>0, <1>2 DEF TimersKeptOrReset, TimerBounds, Abs
<1> QED BY <1>1, <1>2

\* ClockInv is inductive.
LEMMA ClockStep == ClockInv /\ [Next]_vars => ClockInv'
<1> SUFFICES ASSUME ClockInv, [Next]_vars PROVE ClockInv'
  OBVIOUS
<1>0. /\ TypeOK /\ NoFutureCall /\ now \in Nat /\ ThreadsOK
      /\ on_until \in [Outputs -> Nat] /\ last_duration \in [Outputs -> Int]
      /\ on_duration \in [Outputs -> BOOLEAN] /\ op \in [Threads -> Calls \cup {NoCall}]
  BY DEF ClockInv, TypeOK, ThreadsOK
<1>1. TypeOK'
  BY <1>0, TypeStep
<1>2. SUFFICES NoFutureCall' /\ TimerBounds'
  BY <1>1 DEF ClockInv
<1> USE DEF clockVars, mainVars, modVars, devVars, timerVars
<1>3. ASSUME NEW t \in Threads, CallStep(t) PROVE NoFutureCall' /\ TimerBounds'
  BY <1>3, CallStepClock
<1>4. ASSUME NEW t \in Callers, CallerStep(t) PROVE NoFutureCall' /\ TimerBounds'
  <2>0. t \in Threads
    BY DEF Threads
  <2>1. now' = now
    BY <1>4 DEF CallerStep, OutputOn, OutputOff, AddModOutput, ReplaceModule, DelOutput,
                StopController
  <2>2. TimersKeptOrReset
    BY <1>0, <1>4 DEF CallerStep, OutputOn, OutputOff, AddModOutput, ReplaceModule, DelOutput,
                      StopController, ResetTimers, TimersKeptOrReset
  <2>3. TimerBounds'
    BY <1>0, <2>1, <2>2, KeptOrResetClock
  <2>4. NoFutureCall'
    <3>1. CASE OutputOn(t)
      BY <1>0, <2>0, <2>1, <3>1, EnterCallClock DEF OutputOn
    <3>2. CASE OutputOff(t)
      BY <1>0, <2>0, <2>1, <3>2, EnterCallClock DEF OutputOff
    <3>3. CASE AddModOutput(t)
      <4>1. PICK o \in Outputs : op' = [op EXCEPT ![t] = Locals(o, 0, 0)]
        BY <3>3 DEF AddModOutput
      <4>2. Locals(o, 0, 0).now = now
        BY DEF Locals
      <4> QED BY <1>0, <2>0, <2>1, <4>1, <4>2 DEF NoFutureCall
    <3>4. CASE ReplaceModule(t)
      BY <1>0, <2>0, <2>1, <3>4, ReturnClock DEF ReplaceModule
    <3>5. CASE DelOutput(t) \/ StopController(t)
      BY <1>0, <2>1, <3>5 DEF DelOutput, StopController, NoFutureCall
    <3> QED BY <1>4, <3>1, <3>2, <3>3, <3>4, <3>5 DEF CallerStep
  <2> QED BY <2>3, <2>4
<1>5. ASSUME NEW t \in OffThreads, OffThreadStart(t) PROVE NoFutureCall' /\ TimerBounds'
  <2>1. t \in Threads /\ op[t].output \in Outputs /\ now' = now
    BY <1>0, <1>5, CallFields DEF OffThreadStart, Threads
  <2>2. NoFutureCall'
    BY <1>0, <1>5, <2>1, EnterCallClock DEF OffThreadStart
  <2> QED BY <1>0, <1>5, <2>1, <2>2, KeptOrResetClock DEF OffThreadStart, TimersKeptOrReset
<1>6. CASE MainStep
  <2>1. now' = now
    BY <1>6 DEF MainStep, MainPhase, IterationRaises, LoadOutput, MainCall, Loop
  <2>2. TimersKeptOrReset
    BY <1>0, <1>6 DEF MainStep, MainPhase, IterationRaises, LoadOutput, MainCall, Loop,
                      ResetTimers, TimersKeptOrReset
  <2>3. NoFutureCall'
    <3>1. CASE MainPhase \/ IterationRaises \/ \E o \in Outputs : LoadOutput(o)
      BY <1>0, <2>1, <3>1 DEF MainPhase, IterationRaises, LoadOutput, NoFutureCall
    <3>2. ASSUME NEW o \in Outputs, MainCall(o) PROVE NoFutureCall'
      BY <1>0, <2>1, <3>2, EnterCallClock DEF MainCall, NoFutureCall, Threads
    <3>3. ASSUME NEW o \in Outputs, Loop(o) PROVE NoFutureCall'
      <4>1. NewCall(o).now = 0
        BY DEF NewCall
      <4> QED BY <1>0, <2>1, <3>3, <4>1 DEF Loop, NoFutureCall
    <3> QED BY <1>6, <3>1, <3>2, <3>3 DEF MainStep
  <2> QED BY <1>0, <2>1, <2>2, <2>3, KeptOrResetClock
<1>7. CASE Tick
  BY <1>0, <1>7, KeptOrResetClock DEF Tick, NoFutureCall, TimersKeptOrReset, Calls, NoCall, NewCall
<1>8. CASE UNCHANGED vars
  BY <1>0, <1>8, KeptOrResetClock DEF vars, NoFutureCall, TimersKeptOrReset
<1> QED BY <1>3, <1>4, <1>5, <1>6, <1>7, <1>8 DEF Next

\* However calls overlap, no timer of an output ends later than the duration it
\* was asked for, counted from now.
THEOREM TimersAreBounded == Spec => []TimerBounds
<1>1. Init => ClockInv
  <2> SUFFICES ASSUME Init PROVE NoFutureCall /\ TimerBounds
    BY TypeInit DEF ClockInv
  <2>1. NoCall.now = 0
    BY DEF NoCall, NewCall
  <2> QED BY <2>1 DEF Init, NoFutureCall, TimerBounds
<1>2. ClockInv => TimerBounds
  BY DEF ClockInv
<1> QED BY <1>1, <1>2, ClockStep, PTL DEF Spec

(***************************************************************************)
(* The loop's switch-off is never forgotten                                *)
(***************************************************************************)
\* What nobody can do when outputs are not modified and transmissions do not
\* fail: the set-up of an output does not change once somebody can use it, so a
\* switch-off thread is not turned away.
ArmedAssumption == "modify" \notin Requests /\ "radio" \notin Faults

LoadFirst == phase = "load" => \A o \in todo : known[o] = "new" /\ o \in Configured

SetUpIfServed ==
  \A t \in Threads : pc[t] # "idle" =>
    known[op[t].output] # "new" /\ (Present(op[t].output) => is_setup[op[t].output])

SetUpIfTimed == \A o \in Outputs : Present(o) /\ on_duration[o] => is_setup[o]

OffThreadsSwitchOff ==
  \A t \in OffThreads : pc[t] \in {"idle", "spawned", "switchOff", "recordOff"}

NoSetup == \A t \in Threads : pc[t] # "setup"

ArmedInv == /\ TypeOK /\ LoadFirst /\ SetUpIfServed /\ SetUpIfTimed
            /\ OffThreadsSwitchOff /\ NoSetup /\ AutoOffArmed

\* What a step of a call does to the state ArmedInv is about.
LEMMA CallStepFrame ==
  ASSUME TypeOK, NEW t \in Threads, CallStep(t)
  PROVE  /\ UNCHANGED <<known, is_setup, todo, keys, now, running>>
         /\ phase' \in {phase, "dead"}
         /\ \A u \in Threads \ {t} : pc'[u] = pc[u] /\ op'[u] = op[u]
         /\ pc[t] \notin {"idle", "spawned", "setup"}
         /\ Return(t) \/ (UNCHANGED op /\ pc'[t] \notin {"idle", "spawned", "setup"})
<1>1. /\ UNCHANGED <<known, is_setup, todo, keys, now, running>>
      /\ phase' \in {phase, "dead"}
      /\ pc[t] \notin {"idle", "spawned", "setup"}
  BY DEF CallStep, CheckAmps, CheckOffUntil, SetOffUntil, Extend, NotForAnAmount, OnUntimed,
         SwitchOn, SwitchOff, SwitchRaises, Raise, RecordTimed, RecordOff, KeyErrorAbort,
         clockVars, mainVars, modVars, At
<1>2. Return(t) \/ (UNCHANGED op /\ \E label \in Labels \ {"idle", "spawned", "setup"} : Goto(t, label))
  BY DEF CallStep, CheckAmps, CheckOffUntil, SetOffUntil, Extend, NotForAnAmount, OnUntimed,
         SwitchOn, SwitchOff, SwitchRaises, Raise, RecordTimed, RecordOff, KeyErrorAbort, Labels
<1> QED BY <1>1, <1>2 DEF TypeOK, ThreadsOK, Return, Goto

\* A call of output_on_off keeps every armed output armed.
LEMMA CallStepArmed ==
  ASSUME ArmedAssumption, ArmedInv, NEW t \in Threads, CallStep(t)
  PROVE  AutoOffArmed'
<1>0. /\ TypeOK /\ AutoOffArmed /\ off_triggered \in [Outputs -> BOOLEAN]
      /\ UNCHANGED known
      /\ \A u \in Threads \ {t} : pc'[u] = pc[u] /\ op'[u] = op[u]
      /\ Return(t) \/ (UNCHANGED op /\ pc'[t] \notin {"idle", "spawned", "setup"})
  BY CallStepFrame DEF ArmedInv, TypeOK
<1>1. SUFFICES ASSUME NEW o \in Outputs, Present(o), off_triggered'[o]
               PROVE  \E u \in OffThreads : pc'[u] # "idle" /\ op'[u].output = o /\ u \in Threads
  BY <1>0 DEF AutoOffArmed, Serving, Present
<1>2. off_triggered[o]
  BY <1>0, <1>1 DEF CallStep, CheckAmps, CheckOffUntil, SetOffUntil, Extend, NotForAnAmount,
    OnUntimed, SwitchOn, SwitchOff, SwitchRaises, RecordTimed, RecordOff, Rearm, KeyErrorAbort,
    timerVars
<1>3. PICK u \in OffThreads : pc[u] # "idle" /\ op[u].output = o /\ u \in Threads
  BY <1>0, <1>1, <1>2 DEF AutoOffArmed, Serving
<1>4. CASE u # t
  BY <1>0, <1>3, <1>4
<1>5. CASE u = t /\ UNCHANGED op /\ pc'[t] \notin {"idle", "spawned", "setup"}
  BY <1>3, <1>5
<1>6. CASE u = t /\ Return(t)
  <2>1. pc[t] \in {"spawned", "switchOff", "recordOff"} /\ pc'[t] = "idle" /\ op[t].output = o
    BY <1>0, <1>3, <1>6 DEF ArmedInv, OffThreadsSwitchOff, Return, TypeOK, ThreadsOK
  <2>2. RecordOff(t)
    BY <1>0, <1>1, <2>1 DEF CallStep, CheckAmps, CheckOffUntil, SetOffUntil, Extend,
      NotForAnAmount, OnUntimed, SwitchOn, SwitchOff, SwitchRaises, RecordTimed, KeyErrorAbort,
      At, Goto, ArmedAssumption, TypeOK, ThreadsOK
  <2>3. ~off_triggered'[o]
    BY <1>0, <2>1, <2>2 DEF RecordOff, Rearm
  <2> QED BY <1>1, <2>3
<1> QED BY <1>0, <1>4, <1>5, <1>6

\* A step of a call of output_on_off keeps ArmedInv.
LEMMA CallStepArmedInv ==
  ASSUME ArmedAssumption, ArmedInv, NEW t \in Threads, CallStep(t)
  PROVE  ArmedInv'
<1>0. /\ TypeOK /\ pc \in [Threads -> Labels] /\ OffThreads \subseteq Threads
      /\ UNCHANGED <<known, is_setup, todo>>
      /\ phase' \in {phase, "dead"}
      /\ \A u \in Threads \ {t} : pc'[u] = pc[u] /\ op'[u] = op[u]
      /\ pc[t] \notin {"idle", "spawned", "setup"}
      /\ Return(t) \/ (UNCHANGED op /\ pc'[t] \notin {"idle", "spawned", "setup"})
  BY CallStepFrame DEF ArmedInv, TypeOK, ThreadsOK, Threads
<1>1. TypeOK'
  BY <1>0, CallStepThreads, CallStepData, TypePartsPrime DEF TypeOK
<1>2. LoadFirst'
  BY <1>0 DEF ArmedInv, LoadFirst
<1>3. SetUpIfServed'
  BY <1>0 DEF ArmedInv, SetUpIfServed, Present, Return
<1>4. SetUpIfTimed'
  <2>1. on_duration' = on_duration \/ on_duration' = [on_duration EXCEPT ![op[t].output] = FALSE]
        \/ on_duration' = [on_duration EXCEPT ![op[t].output] = TRUE]
    BY DEF CallStep, CheckAmps, CheckOffUntil, SetOffUntil, Extend, NotForAnAmount, OnUntimed,
      SwitchOn, SwitchOff, SwitchRaises, RecordTimed, RecordOff, StopTimer, KeyErrorAbort, timerVars
  <2>2. Present(op[t].output) => is_setup[op[t].output]
    BY <1>0 DEF ArmedInv, SetUpIfServed
  <2> QED BY <1>0, <2>1, <2>2 DEF ArmedInv, SetUpIfTimed, Present, TypeOK
<1>5. OffThreadsSwitchOff'
  <2>1. CASE t \in OffThreads
    <3>1. pc[t] \in {"switchOff", "recordOff"}
      BY <1>0, <2>1 DEF ArmedInv, OffThreadsSwitchOff
    <3>2. pc'[t] \in {"idle", "recordOff"}
      BY <1>0, <3>1 DEF CallStep, CheckAmps, CheckOffUntil, SetOffUntil, Extend, NotForAnAmount,
        OnUntimed, SwitchOn, SwitchOff, SwitchRaises, Raise, RecordTimed, RecordOff,
        KeyErrorAbort, At, Goto, Return
    <3> QED BY <1>0, <3>2 DEF ArmedInv, OffThreadsSwitchOff
  <2>2. CASE t \notin OffThreads
    BY <1>0, <2>2 DEF ArmedInv, OffThreadsSwitchOff
  <2> QED BY <2>1, <2>2
<1>6. NoSetup'
  BY <1>0 DEF ArmedInv, NoSetup, Return
<1>7. AutoOffArmed'
  BY CallStepArmed
<1> QED BY <1>1, <1>2, <1>3, <1>4, <1>5, <1>6, <1>7 DEF ArmedInv

\* What entering a call does to the threads.
LEMMA EnterCallFrame ==
  ASSUME TypeOK, NEW t \in Threads, NEW o \in Outputs, NEW state, NEW amount, NEW min_off,
         EnterCall(t, o, state, amount, min_off)
  PROVE  /\ \A u \in Threads \ {t} : pc'[u] = pc[u] /\ op'[u] = op[u]
         /\ \/ pc'[t] = "idle" /\ Rejects(o)
            \/ /\ ~Rejects(o) /\ op'[t].output = o
               /\ pc'[t] = FirstStep(o, state)
               /\ pc'[t] \notin {"idle", "spawned", "setup"}
<1>0. pc \in [Threads -> Labels] /\ op \in [Threads -> Calls \cup {NoCall}]
  BY DEF TypeOK, ThreadsOK
<1>1. CASE Rejects(o)
  BY <1>0, <1>1 DEF EnterCall, Return
<1>2. CASE ~Rejects(o)
  <2>1. Locals(o, amount, min_off).output = o
    BY DEF Locals
  <2>2. FirstStep(o, state) \notin {"idle", "spawned", "setup"}
    BY DEF FirstStep
  <2> QED BY <1>0, <1>2, <2>1, <2>2 DEF EnterCall, Goto
<1> QED BY <1>1, <1>2

\* Entering a call keeps the invariant, for a switch-off thread too.
LEMMA EnterCallArmed ==
  ASSUME ArmedInv, NEW t \in Threads, NEW o \in Outputs, NEW state \in {"on", "off"},
         NEW amount, NEW min_off, EnterCall(t, o, state, amount, min_off), TypeOK',
         t \in OffThreads => state = "off" /\ op[t].output = o /\ pc[t] = "spawned",
         UNCHANGED <<known, is_setup, on_duration, off_triggered, phase>>, todo' \subseteq todo
  PROVE  ArmedInv'
<1>0. /\ TypeOK /\ pc \in [Threads -> Labels] /\ OffThreads \subseteq Threads
      /\ known \in [Outputs -> {"new", "present", "deleted"}]
  BY DEF ArmedInv, TypeOK, ThreadsOK, Threads
<1>1. /\ \A u \in Threads \ {t} : pc'[u] = pc[u] /\ op'[u] = op[u]
      /\ \/ pc'[t] = "idle" /\ Rejects(o)
         \/ /\ ~Rejects(o) /\ op'[t].output = o
            /\ pc'[t] = FirstStep(o, state)
            /\ pc'[t] \notin {"idle", "spawned", "setup"}
  BY <1>0, EnterCallFrame
<1>2. LoadFirst'
  BY <1>0 DEF ArmedInv, LoadFirst
<1>3. SetUpIfServed'
  BY <1>0, <1>1 DEF ArmedInv, SetUpIfServed, Present, Rejects
<1>4. SetUpIfTimed'
  BY DEF ArmedInv, SetUpIfTimed, Present
<1>5. OffThreadsSwitchOff'
  BY <1>0, <1>1 DEF ArmedInv, OffThreadsSwitchOff, FirstStep
<1>6. NoSetup'
  BY <1>0, <1>1 DEF ArmedInv, NoSetup
<1>7. AutoOffArmed'
  <2>1. SUFFICES ASSUME NEW q \in Outputs, Present(q), off_triggered[q]
                 PROVE  \E u \in OffThreads : u \in Threads /\ pc'[u] # "idle" /\ op'[u].output = q
    BY DEF AutoOffArmed, Serving, Present
  <2>2. PICK u \in OffThreads : u \in Threads /\ pc[u] # "idle" /\ op[u].output = q
    BY <2>1 DEF ArmedInv, AutoOffArmed, Serving
  <2>3. CASE u = t
    <3>1. o = q /\ is_setup[q]
      BY <2>1, <2>2, <2>3 DEF ArmedInv, SetUpIfServed
    <3> QED BY <1>1, <2>1, <2>2, <2>3, <3>1 DEF Rejects
  <2> QED BY <1>1, <2>2, <2>3
<1> QED BY <1>2, <1>3, <1>4, <1>5, <1>6, <1>7 DEF ArmedInv

\* ArmedInv is inductive.
LEMMA ArmedStep == ASSUME ArmedAssumption PROVE ArmedInv /\ [Next]_vars => ArmedInv'
<1> SUFFICES ASSUME ArmedInv, [Next]_vars PROVE ArmedInv'
  OBVIOUS
<1>0. /\ TypeOK /\ pc \in [Threads -> Labels] /\ OffThreads \subseteq Threads
      /\ known \in [Outputs -> {"new", "present", "deleted"}]
      /\ is_setup \in [Outputs -> BOOLEAN] /\ on_duration \in [Outputs -> BOOLEAN]
      /\ off_triggered \in [Outputs -> BOOLEAN]
      /\ op \in [Threads -> Calls \cup {NoCall}] /\ todo \subseteq Outputs
  BY DEF ArmedInv, TypeOK, ThreadsOK, Threads
<1>a. TypeOK'
  BY <1>0, TypeStep
<1>b. \A t \in Callers \cup {Main} : t \in Threads /\ t \notin OffThreads
  BY OutputAssumption DEF Threads
<1>c. \A t \in Threads : pc[t] # "idle" => op[t].output \in Outputs
  BY <1>0, CallFields DEF TypeOK
<1> USE DEF clockVars, mainVars, modVars, devVars, timerVars
<1>1. ASSUME NEW t \in Threads, CallStep(t) PROVE ArmedInv'
  BY <1>1, CallStepArmedInv
<1>2. ASSUME NEW t \in Callers, CallerStep(t) PROVE ArmedInv'
  <2>1. CASE OutputOn(t)
    BY <1>a, <1>b, <2>1, EnterCallArmed DEF OutputOn
  <2>2. CASE OutputOff(t)
    BY <1>a, <1>b, <2>2, EnterCallArmed DEF OutputOff
  <2>3. CASE AddModOutput(t) \/ ReplaceModule(t)
    BY <1>0, <1>b, <2>3 DEF AddModOutput, ReplaceModule, ArmedAssumption, ArmedInv, NoSetup, At
  <2>4. CASE DelOutput(t)
    <3>1. PICK o \in Outputs :
            /\ Present(o)
            /\ known' = [known EXCEPT ![o] = "deleted"]
            /\ is_setup' = [is_setup EXCEPT ![o] = FALSE]
            /\ on_duration' = [on_duration EXCEPT ![o] = FALSE]
            /\ off_triggered' = [off_triggered EXCEPT ![o] = FALSE]
            /\ UNCHANGED <<phase, todo, pc, op>>
      BY <2>4 DEF DelOutput
    <3>2. LoadFirst'
      BY <1>0, <3>1 DEF ArmedInv, LoadFirst, Present
    <3>3. SetUpIfServed'
      BY <1>0, <1>c, <3>1 DEF ArmedInv, SetUpIfServed, Present
    <3>4. SetUpIfTimed' /\ OffThreadsSwitchOff' /\ NoSetup'
      BY <1>0, <3>1 DEF ArmedInv, SetUpIfTimed, OffThreadsSwitchOff, NoSetup, Present
    <3>5. AutoOffArmed'
      BY <1>0, <3>1 DEF ArmedInv, AutoOffArmed, Serving, Present
    <3> QED BY <1>a, <3>2, <3>3, <3>4, <3>5 DEF ArmedInv
  <2>5. CASE StopController(t)
    BY <1>a, <2>5 DEF StopController, ArmedInv, LoadFirst, SetUpIfServed, SetUpIfTimed,
      OffThreadsSwitchOff, NoSetup, AutoOffArmed, Serving, Present
  <2> QED BY <1>2, <2>1, <2>2, <2>3, <2>4, <2>5 DEF CallerStep
<1>3. ASSUME NEW t \in OffThreads, OffThreadStart(t) PROVE ArmedInv'
  BY <1>0, <1>a, <1>c, <1>3, EnterCallArmed DEF OffThreadStart
<1>4. CASE MainPhase \/ IterationRaises
  BY <1>a, <1>4 DEF MainPhase, IterationRaises, Iterate, ArmedInv, LoadFirst, SetUpIfServed,
    SetUpIfTimed, OffThreadsSwitchOff, NoSetup, AutoOffArmed, Serving, Present
<1>5. ASSUME NEW o \in Outputs, LoadOutput(o) PROVE ArmedInv'
  <2>1. /\ phase = "load" /\ o \in todo /\ todo' = todo \ {o} /\ phase' = phase
        /\ known' = [known EXCEPT ![o] = "present"]
        /\ on_duration' = [on_duration EXCEPT ![o] = FALSE]
        /\ off_triggered' = [off_triggered EXCEPT ![o] = FALSE]
        /\ \A q \in Outputs \ {o} : is_setup'[q] = is_setup[q]
        /\ UNCHANGED <<pc, op>>
    BY <1>0, <1>5 DEF LoadOutput, ResetTimers, SetUp
  <2>2. LoadFirst'
    BY <1>0, <2>1 DEF ArmedInv, LoadFirst
  <2>3. SetUpIfServed'
    BY <1>0, <1>c, <2>1 DEF ArmedInv, LoadFirst, SetUpIfServed, Present
  <2>4. SetUpIfTimed' /\ OffThreadsSwitchOff' /\ NoSetup'
    BY <1>0, <2>1 DEF ArmedInv, SetUpIfTimed, OffThreadsSwitchOff, NoSetup, Present
  <2>5. AutoOffArmed'
    BY <1>0, <2>1 DEF ArmedInv, AutoOffArmed, Serving, Present
  <2> QED BY <1>a, <2>2, <2>3, <2>4, <2>5 DEF ArmedInv
<1>6. ASSUME NEW o \in Outputs, MainCall(o) PROVE ArmedInv'
  <2> DEFINE wish == IF phase = "startup" THEN Startup[o] ELSE Shutdown[o]
  <2>1. /\ UNCHANGED <<known, is_setup, on_duration, off_triggered, phase>>
        /\ todo' \subseteq todo
    BY <1>6 DEF MainCall, Handled
  <2>2. CASE wish = "keep"
    <3>1. UNCHANGED <<pc, op>>
      BY <1>6, <2>2 DEF MainCall
    <3> QED BY <1>a, <2>1, <3>1 DEF ArmedInv, LoadFirst, SetUpIfServed, SetUpIfTimed,
      OffThreadsSwitchOff, NoSetup, AutoOffArmed, Serving, Present
  <2>3. CASE wish # "keep"
    <3>1. wish \in {"on", "off"} /\ EnterCall(Main, o, wish, 0, 0)
      BY <1>6, <2>3, OutputAssumption DEF MainCall
    <3> QED BY <1>a, <1>b, <2>1, <3>1, EnterCallArmed
  <2> QED BY <2>2, <2>3
<1>7. ASSUME NEW o \in Outputs, Loop(o) PROVE ArmedInv'
  <2>1. PICK t \in OffThreads : /\ pc[t] = "idle" /\ pc' = [pc EXCEPT ![t] = "spawned"]
                                /\ op' = [op EXCEPT ![t] = NewCall(o)]
    BY <1>7 DEF Loop, Goto
  <2>2. /\ NewCall(o).output = o /\ Present(o) /\ on_duration[o]
        /\ off_triggered' = [off_triggered EXCEPT ![o] = TRUE]
        /\ UNCHANGED <<known, is_setup, on_duration, phase, todo>>
    BY <1>7 DEF Loop, NewCall
  <2>3. /\ \A u \in Threads \ {t} : pc'[u] = pc[u] /\ op'[u] = op[u]
        /\ pc'[t] = "spawned" /\ op'[t].output = o
    BY <1>0, <2>1, <2>2
  <2>4. LoadFirst' /\ SetUpIfTimed' /\ OffThreadsSwitchOff' /\ NoSetup'
    BY <1>0, <2>2, <2>3 DEF ArmedInv, LoadFirst, SetUpIfTimed, OffThreadsSwitchOff, NoSetup, Present
  <2>5. SetUpIfServed'
    BY <1>0, <2>2, <2>3 DEF ArmedInv, SetUpIfServed, SetUpIfTimed, Present
  <2>6. AutoOffArmed'
    <3>1. SUFFICES ASSUME NEW q \in Outputs, Present(q), off_triggered'[q]
                   PROVE  \E u \in OffThreads : u \in Threads /\ pc'[u] # "idle" /\ op'[u].output = q
      BY <2>2 DEF AutoOffArmed, Serving, Present
    <3>2. CASE q = o
      BY <1>0, <2>1, <2>3, <3>2
    <3>3. CASE q # o
      <4>1. PICK u \in OffThreads : u \in Threads /\ pc[u] # "idle" /\ op[u].output = q
        BY <1>0, <2>2, <3>1, <3>3 DEF ArmedInv, AutoOffArmed, Serving
      <4> QED BY <2>1, <2>3, <4>1
    <3> QED BY <3>2, <3>3
  <2> QED BY <1>a, <2>4, <2>5, <2>6 DEF ArmedInv
<1>8. CASE Tick \/ UNCHANGED vars
  BY <1>a, <1>8 DEF Tick, vars, ArmedInv, LoadFirst, SetUpIfServed, SetUpIfTimed,
    OffThreadsSwitchOff, NoSetup, AutoOffArmed, Serving, Present
<1> QED BY <1>1, <1>2, <1>3, <1>4, <1>5, <1>6, <1>7, <1>8 DEF Next, MainStep

\* However calls overlap, an output the loop has marked as being switched off has
\* a thread that has still to switch it off, as long as outputs are not modified
\* and transmissions do not fail.
THEOREM AutoOffStaysArmed ==
  ASSUME ArmedAssumption
  PROVE  Spec => []AutoOffArmed
<1>1. Init => ArmedInv
  <2> SUFFICES ASSUME Init PROVE ArmedInv
    OBVIOUS
  <2>1. \A t \in Threads : pc[t] = "idle"
    BY DEF Init
  <2>2. \A o \in Outputs : known[o] = "new"
    BY DEF Init
  <2>3. Configured \subseteq Outputs /\ todo = Configured /\ OffThreads \subseteq Threads
    BY OutputAssumption DEF Init, Threads
  <2> QED BY <2>1, <2>2, <2>3, TypeInit DEF ArmedInv, LoadFirst, SetUpIfServed, SetUpIfTimed,
    OffThreadsSwitchOff, NoSetup, AutoOffArmed, Present
<1>2. ArmedInv => AutoOffArmed
  BY DEF ArmedInv
<1>3. ArmedInv /\ [Next]_vars => ArmedInv'
  BY ArmedStep
<1> QED BY <1>1, <1>2, <1>3, PTL DEF Spec

(***************************************************************************)
(* The timers and the devices agree when calls do not overlap              *)
(***************************************************************************)
\* The schedules in which calls do not overlap, and set-ups that work.
SerialAssumption == ~Overlap /\ "setup" \notin Faults

OneCall == \A t, u \in Threads : InCall(t) /\ InCall(u) => t = u

ServedKnown == \A t \in Threads : pc[t] # "idle" => known[op[t].output] # "new"

\* What the one call in progress knows of its output.
CallFacts ==
  \A t \in Threads :
    /\ pc[t] = "recordTimed" => dev[op[t].output]
    /\ pc[t] = "recordOff" => ~dev[op[t].output]
    /\ pc[t] = "switchUntimed" => time_turned_on[op[t].output] # None
    /\ pc[t] = "switchDirect" => op[t].output \in Direct
    /\ pc[t] = "setup" => ~on_duration[op[t].output]

\* OnIsBookkept and TimerMeansOn while a call is in progress.
OnBooked ==
  \A o \in Wired : Present(o) /\ dev[o] =>
    \/ on_duration[o] \/ time_turned_on[o] # None
    \/ \E t \in Threads : pc[t] \in {"recordTimed", "setup"} /\ op[t].output = o

TimerOn ==
  \A o \in Outputs : Present(o) /\ on_duration[o] =>
    dev[o] \/ \E t \in Threads : pc[t] = "recordOff" /\ op[t].output = o

SerialInv == /\ TypeOK /\ LoadFirst /\ ServedKnown /\ OneCall
             /\ CallFacts /\ OnBooked /\ TimerOn

\* A step of the one call in progress keeps timers and device in agreement.
LEMMA CallStepSerial ==
  ASSUME SerialInv, NEW t \in Threads, CallStep(t)
  PROVE  CallFacts' /\ OnBooked' /\ TimerOn'
<1>0. /\ pc \in [Threads -> Labels] /\ op \in [Threads -> Calls \cup {NoCall}]
      /\ dev \in [Outputs -> BOOLEAN] /\ on_duration \in [Outputs -> BOOLEAN]
      /\ time_turned_on \in [Outputs -> Nat \cup {None}] /\ None \notin Int
      /\ Direct \subseteq Outputs
      /\ op[t].output \in Outputs /\ op[t].now \in Nat
      /\ CallFacts /\ OnBooked /\ TimerOn
  BY CallStepFrame, CallFields, OutputAssumption DEF SerialInv, TypeOK, ThreadsOK
<1>1. /\ UNCHANGED known
      /\ \A u \in Threads \ {t} : /\ pc[u] \in {"idle", "spawned"}
                                 /\ pc'[u] = pc[u] /\ op'[u] = op[u]
  BY CallStepFrame DEF SerialInv, OneCall, InCall
<1> USE DEF clockVars, mainVars, modVars, devVars, timerVars
<1>2. CASE CheckAmps(t)
  BY <1>0, <1>1, <1>2 DEF CheckAmps, At, Goto, Return, CallFacts, OnBooked, TimerOn, Present, InCall, Wired
<1>3. CASE CheckOffUntil(t)
  BY <1>0, <1>1, <1>3 DEF CheckOffUntil, At, Goto, Return, CallFacts, OnBooked, TimerOn, Present, InCall, Wired
<1>4. CASE SetOffUntil(t)
  BY <1>0, <1>1, <1>4 DEF SetOffUntil, At, Goto, Return, CallFacts, OnBooked, TimerOn, Present, InCall, Wired
<1>5. CASE Extend(t)
  BY <1>0, <1>1, <1>5 DEF Extend, At, Goto, Return, CallFacts, OnBooked, TimerOn, Present, InCall, Wired
<1>6. CASE NotForAnAmount(t)
  BY <1>0, <1>1, <1>6 DEF NotForAnAmount, At, Goto, Return, CallFacts, OnBooked, TimerOn, Present, InCall, Wired
<1>7. CASE OnUntimed(t)
  BY <1>0, <1>1, <1>7 DEF OnUntimed, TurnedOnAt, At, Goto, Return, CallFacts, OnBooked, TimerOn, Present, InCall, Wired
<1>8. CASE SwitchOn(t)
  BY <1>0, <1>1, <1>8 DEF SwitchOn, Drive, At, Goto, Return, CallFacts, OnBooked, TimerOn, Present, InCall, Wired
<1>9. CASE SwitchOff(t)
  BY <1>0, <1>1, <1>9 DEF SwitchOff, Drive, At, Goto, Return, CallFacts, OnBooked, TimerOn, Present, InCall, Wired
<1>10. CASE SwitchRaises(t)
  BY <1>0, <1>1, <1>10 DEF SwitchRaises, Raise, At, Goto, Return, CallFacts, OnBooked, TimerOn, Present, InCall, Wired
<1>11. CASE RecordTimed(t)
  BY <1>0, <1>1, <1>11 DEF RecordTimed, At, Goto, Return, CallFacts, OnBooked, TimerOn, Present, InCall, Wired
<1>12. CASE RecordOff(t)
  BY <1>0, <1>1, <1>12 DEF RecordOff, StopTimer, At, Goto, Return, CallFacts, OnBooked, TimerOn, Present, InCall, Wired
<1>13. CASE KeyErrorAbort(t)
  BY <1>0, <1>1, <1>13 DEF KeyErrorAbort, Raise, At, Goto, Return, CallFacts, OnBooked, TimerOn, Present, InCall, Wired
<1> QED BY <1>2, <1>3, <1>4, <1>5, <1>6, <1>7, <1>8, <1>9, <1>10, <1>11, <1>12, <1>13 DEF CallStep

\* A step of the one call in progress keeps SerialInv.
LEMMA CallStepSerialInv ==
  ASSUME SerialInv, NEW t \in Threads, CallStep(t)
  PROVE  SerialInv'
<1>0. /\ TypeOK /\ pc \in [Threads -> Labels]
      /\ UNCHANGED <<known, todo>> /\ phase' \in {phase, "dead"}
      /\ \A u \in Threads \ {t} : pc'[u] = pc[u] /\ op'[u] = op[u]
      /\ pc[t] \notin {"idle", "spawned", "setup"}
      /\ Return(t) \/ (UNCHANGED op /\ pc'[t] \notin {"idle", "spawned", "setup"})
  BY CallStepFrame DEF SerialInv, TypeOK, ThreadsOK
<1>1. TypeOK'
  BY <1>0, CallStepThreads, CallStepData, TypePartsPrime DEF TypeOK
<1>2. LoadFirst' /\ ServedKnown' /\ OneCall'
  BY <1>0 DEF SerialInv, LoadFirst, ServedKnown, OneCall, InCall, Return
<1> QED BY <1>1, <1>2, CallStepSerial DEF SerialInv

\* Entering a call while no other is in progress.
LEMMA EnterCallSerial ==
  ASSUME SerialInv, Quiet, NEW t \in Threads, NEW o \in Outputs, NEW state \in {"on", "off"},
         NEW amount, NEW min_off, EnterCall(t, o, state, amount, min_off), TypeOK',
         UNCHANGED <<known, dev, on_duration, time_turned_on, phase>>, todo' \subseteq todo
  PROVE  SerialInv'
<1>0. /\ TypeOK /\ known \in [Outputs -> {"new", "present", "deleted"}]
      /\ \A u \in Threads : pc[u] \in {"idle", "spawned"}
  BY DEF SerialInv, TypeOK, Quiet, InCall
<1>1. /\ \A u \in Threads \ {t} : pc'[u] = pc[u] /\ op'[u] = op[u]
      /\ \/ pc'[t] = "idle"
         \/ /\ Present(o) /\ op'[t].output = o
            /\ pc'[t] \in {"switchOff", "switchDirect", "branch", "amps"}
            /\ pc'[t] = "switchDirect" => o \in Direct
  BY <1>0, EnterCallFrame DEF FirstStep, Rejects
<1>2. LoadFirst' /\ ServedKnown' /\ OneCall' /\ CallFacts'
  BY <1>0, <1>1 DEF SerialInv, LoadFirst, ServedKnown, OneCall, CallFacts, InCall, Present
<1>3. OnBooked' /\ TimerOn'
  BY <1>0 DEF SerialInv, OnBooked, TimerOn, Present
<1> QED BY <1>2, <1>3 DEF SerialInv

\* SerialInv is inductive.
LEMMA SerialStep == ASSUME SerialAssumption PROVE SerialInv /\ [Next]_vars => SerialInv'
<1> SUFFICES ASSUME SerialInv, [Next]_vars PROVE SerialInv'
  OBVIOUS
<1>0. /\ TypeOK /\ pc \in [Threads -> Labels] /\ OffThreads \subseteq Threads
      /\ Callers \subseteq Threads /\ Main \in Threads
      /\ op \in [Threads -> Calls \cup {NoCall}]
      /\ known \in [Outputs -> {"new", "present", "deleted"}]
      /\ dev \in [Outputs -> BOOLEAN] /\ on_duration \in [Outputs -> BOOLEAN]
      /\ time_turned_on \in [Outputs -> Nat \cup {None}] /\ todo \subseteq Outputs
      /\ MayEnter <=> Quiet
  BY DEF SerialInv, TypeOK, ThreadsOK, Threads, MayEnter, SerialAssumption
<1>a. TypeOK'
  BY <1>0, TypeStep
<1>c. \A t \in Threads : pc[t] # "idle" => op[t].output \in Outputs
  BY <1>0, CallFields DEF TypeOK
<1> USE DEF clockVars, mainVars, modVars, devVars, timerVars
<1>k. ASSUME UNCHANGED <<known, dev, on_duration, time_turned_on, pc, op>>,
             phase' = "load" => phase = "load" /\ todo' \subseteq todo
      PROVE  SerialInv'
  BY <1>a, <1>k DEF SerialInv, LoadFirst, ServedKnown, OneCall, CallFacts, OnBooked, TimerOn,
    InCall, Present
<1>1. ASSUME NEW t \in Threads, CallStep(t) PROVE SerialInv'
  BY <1>1, CallStepSerialInv
<1>2. ASSUME NEW t \in Callers, CallerStep(t) PROVE SerialInv'
  <2>1. CASE OutputOn(t)
    BY <1>0, <1>a, <2>1, EnterCallSerial DEF OutputOn
  <2>2. CASE OutputOff(t)
    BY <1>0, <1>a, <2>2, EnterCallSerial DEF OutputOff
  <2>3. CASE AddModOutput(t)
    <3>1. PICK o \in Outputs :
            /\ known[o] = "present" \/ (known[o] = "new" /\ o \notin Configured)
            /\ known' = [known EXCEPT ![o] = "present"]
            /\ on_duration' = [on_duration EXCEPT ![o] = FALSE]
            /\ time_turned_on' = [time_turned_on EXCEPT ![o] = None]
            /\ op' = [op EXCEPT ![t] = Locals(o, 0, 0)]
            /\ pc' = [pc EXCEPT ![t] = "setup"]
            /\ UNCHANGED <<dev, phase, todo>>
      BY <2>3 DEF AddModOutput, ResetTimers, Goto
    <3>2. /\ \A u \in Threads : pc[u] \in {"idle", "spawned"}
          /\ \A u \in Threads \ {t} : pc'[u] = pc[u] /\ op'[u] = op[u]
          /\ pc'[t] = "setup" /\ op'[t].output = o
      BY <1>0, <2>3, <3>1 DEF AddModOutput, Quiet, InCall, Locals
    <3>3. LoadFirst'
      BY <1>0, <3>1 DEF SerialInv, LoadFirst
    <3>4. ServedKnown' /\ OneCall' /\ CallFacts'
      BY <1>0, <1>c, <3>1, <3>2 DEF SerialInv, ServedKnown, OneCall, CallFacts, InCall
    <3>5. OnBooked' /\ TimerOn'
      BY <1>0, <3>1, <3>2 DEF SerialInv, OnBooked, TimerOn, Present, Wired
    <3> QED BY <1>a, <3>3, <3>4, <3>5 DEF SerialInv
  <2>4. CASE ReplaceModule(t)
    <3> DEFINE o == op[t].output
    <3>1. /\ o \in Outputs /\ pc[t] = "setup" /\ ~on_duration[o]
          /\ pc' = [pc EXCEPT ![t] = "idle"] /\ op' = [op EXCEPT ![t] = NoCall]
          /\ UNCHANGED <<known, on_duration, time_turned_on, phase, todo>>
      BY <1>0, <1>c, <2>4 DEF ReplaceModule, At, Return, SerialInv, CallFacts
    <3>2. /\ Present(o) /\ o \notin Radio => ~dev'[o]
          /\ \A q \in Outputs \ {o} : dev'[q] = dev[q]
      BY <1>0, <2>4, <3>1 DEF ReplaceModule, SetUp, SerialAssumption
    <3>3. \A u \in Threads \ {t} : /\ pc[u] \in {"idle", "spawned"}
                                 /\ pc'[u] = pc[u] /\ op'[u] = op[u]
      BY <1>0, <3>1 DEF SerialInv, OneCall, InCall
    <3>4. pc'[t] = "idle"
      BY <1>0, <3>1
    <3>5. LoadFirst' /\ ServedKnown' /\ OneCall' /\ CallFacts'
      BY <1>0, <3>1, <3>3, <3>4 DEF SerialInv, LoadFirst, ServedKnown, OneCall, CallFacts, InCall
    <3>6. OnBooked' /\ TimerOn'
      BY <1>0, <3>1, <3>2, <3>3, <3>4 DEF SerialInv, OnBooked, TimerOn, Present, Wired
    <3> QED BY <1>a, <3>5, <3>6 DEF SerialInv
  <2>5. CASE DelOutput(t)
    <3>1. PICK o \in Outputs :
            /\ Present(o)
            /\ known' = [known EXCEPT ![o] = "deleted"]
            /\ on_duration' = [on_duration EXCEPT ![o] = FALSE]
            /\ UNCHANGED <<dev, time_turned_on, phase, todo, pc, op>>
      BY <2>5 DEF DelOutput
    <3>2. \A u \in Threads : pc[u] \in {"idle", "spawned"}
      BY <1>0, <2>5 DEF DelOutput, Quiet, InCall
    <3> QED BY <1>0, <1>a, <1>c, <3>1, <3>2 DEF SerialInv, LoadFirst, ServedKnown, OneCall,
      CallFacts, OnBooked, TimerOn, InCall, Present, Wired
  <2>6. CASE StopController(t)
    BY <1>k, <2>6 DEF StopController
  <2> QED BY <1>2, <2>1, <2>2, <2>3, <2>4, <2>5, <2>6 DEF CallerStep
<1>3. ASSUME NEW t \in OffThreads, OffThreadStart(t) PROVE SerialInv'
  BY <1>0, <1>a, <1>c, <1>3, EnterCallSerial DEF OffThreadStart
<1>4. CASE MainPhase \/ IterationRaises
  BY <1>k, <1>4 DEF MainPhase, IterationRaises, Iterate
<1>5. ASSUME NEW o \in Outputs, LoadOutput(o) PROVE SerialInv'
  <2>1. /\ phase = "load" /\ o \in todo /\ todo' = todo \ {o} /\ phase' = phase
        /\ known[o] = "new" /\ known' = [known EXCEPT ![o] = "present"]
        /\ on_duration' = [on_duration EXCEPT ![o] = FALSE]
        /\ time_turned_on' = [time_turned_on EXCEPT ![o] = None]
        /\ o \notin Radio => ~dev'[o]
        /\ \A q \in Outputs \ {o} : dev'[q] = dev[q]
        /\ UNCHANGED <<pc, op>>
    BY <1>0, <1>5 DEF LoadOutput, ResetTimers, SetUp, SerialAssumption, SerialInv, LoadFirst
  <2>2. \A t \in Threads : pc[t] # "idle" => op[t].output \in Outputs \ {o}
    BY <1>c, <2>1 DEF SerialInv, ServedKnown
  <2>3. LoadFirst' /\ ServedKnown' /\ OneCall' /\ CallFacts'
    BY <1>0, <2>1, <2>2 DEF SerialInv, LoadFirst, ServedKnown, OneCall, CallFacts, InCall
  <2>4. OnBooked' /\ TimerOn'
    BY <1>0, <2>1 DEF SerialInv, OnBooked, TimerOn, Present, Wired
  <2> QED BY <1>a, <2>3, <2>4 DEF SerialInv
<1>6. ASSUME NEW o \in Outputs, MainCall(o) PROVE SerialInv'
  <2> DEFINE wish == IF phase = "startup" THEN Startup[o] ELSE Shutdown[o]
  <2>1. /\ UNCHANGED <<known, dev, on_duration, time_turned_on, phase>>
        /\ todo' \subseteq todo /\ Quiet
    BY <1>0, <1>6 DEF MainCall, Handled
  <2>2. CASE wish = "keep"
    BY <1>k, <1>6, <2>1, <2>2 DEF MainCall
  <2>3. CASE wish # "keep"
    <3>1. wish \in {"on", "off"} /\ EnterCall(Main, o, wish, 0, 0)
      BY <1>6, <2>3, OutputAssumption DEF MainCall
    <3> QED BY <1>0, <1>a, <2>1, <3>1, EnterCallSerial
  <2> QED BY <2>2, <2>3
<1>7. ASSUME NEW o \in Outputs, Loop(o) PROVE SerialInv'
  <2>1. PICK t \in Threads : /\ pc[t] = "idle" /\ pc' = [pc EXCEPT ![t] = "spawned"]
                             /\ op' = [op EXCEPT ![t] = NewCall(o)]
    BY <1>0, <1>7 DEF Loop, Goto
  <2>2. /\ NewCall(o).output = o /\ Present(o)
        /\ UNCHANGED <<known, dev, on_duration, time_turned_on, phase, todo>>
    BY <1>7 DEF Loop, NewCall
  <2>3. /\ \A u \in Threads \ {t} : pc'[u] = pc[u] /\ op'[u] = op[u]
        /\ pc'[t] = "spawned" /\ op'[t].output = o
    BY <1>0, <2>1, <2>2
  <2>4. LoadFirst' /\ ServedKnown' /\ OneCall' /\ CallFacts'
    BY <1>0, <2>1, <2>2, <2>3 DEF SerialInv, LoadFirst, ServedKnown, OneCall, CallFacts, InCall,
      Present
  <2>5. OnBooked' /\ TimerOn'
    BY <1>0, <2>1, <2>2, <2>3 DEF SerialInv, OnBooked, TimerOn, Present
  <2> QED BY <1>a, <2>4, <2>5 DEF SerialInv
<1>8. CASE Tick \/ UNCHANGED vars
  BY <1>k, <1>8 DEF Tick, vars
<1> QED BY <1>1, <1>2, <1>3, <1>4, <1>5, <1>6, <1>7, <1>8 DEF Next, MainStep

\* SerialInv holds initially.
LEMMA SerialInit == Init => SerialInv
<1> SUFFICES ASSUME Init PROVE SerialInv
  OBVIOUS
<1>1. \A t \in Threads : pc[t] = "idle"
  BY DEF Init
<1>2. \A o \in Outputs : known[o] = "new" /\ ~dev[o] /\ ~on_duration[o]
  BY DEF Init
<1>3. Configured \subseteq Outputs /\ todo = Configured
  BY OutputAssumption DEF Init
<1> QED BY <1>1, <1>2, <1>3, TypeInit DEF SerialInv, LoadFirst, ServedKnown, OneCall, CallFacts,
  OnBooked, TimerOn, InCall, Wired, Present

\* When calls do not overlap and set-ups work, a wired device that is on between
\* two calls has a timer or a time since when it is on: it is not on unknown to
\* the controller.
THEOREM OnStaysBookkept ==
  ASSUME SerialAssumption
  PROVE  Spec => []OnIsBookkept
<1>1. SerialInv => OnIsBookkept
  BY DEF SerialInv, OnBooked, OnIsBookkept, Quiet, InCall
<1>2. SerialInv /\ [Next]_vars => SerialInv'
  BY SerialStep
<1> QED BY <1>1, <1>2, SerialInit, PTL DEF Spec

\* Under the same assumption a timer that runs between two calls belongs to a
\* device that is on.
THEOREM TimerStaysOn ==
  ASSUME SerialAssumption
  PROVE  Spec => []TimerMeansOn
<1>1. SerialInv => TimerMeansOn
  BY DEF SerialInv, TimerOn, TimerMeansOn, Quiet, InCall
<1>2. SerialInv /\ [Next]_vars => SerialInv'
  BY SerialStep
<1> QED BY <1>1, <1>2, SerialInit, PTL DEF Spec

(***************************************************************************)
(* Sums of currents                                                        *)
(***************************************************************************)
\* The library's induction theorem takes a predicate; its minimal elements of
\* well-founded relations are as good, a counterexample being chosen least.
LEMMA LeastSet ==
  ASSUME NEW U, IsFiniteSet(U), NEW T \in SUBSET (SUBSET U), T # {}
  PROVE  \E S \in T : \A R \in T : ~(R \subseteq S /\ R # S)
<1>1. IsWellFoundedOn(StrictSubsetOrdering(U), FiniteSubsetsOf(U))
  BY FS_StrictSubsetOrderingWellFounded
<1>2. FiniteSubsetsOf(U) = SUBSET U
  BY FS_FiniteSubsetsOfFinite
<1>3. PICK S \in T : \A R \in T : ~(<<R, S>> \in StrictSubsetOrdering(U))
  BY <1>1, <1>2, WFMin
<1> QED BY <1>3 DEF StrictSubsetOrdering

Current(S) == MapThenSumSet(LAMBDA o : Amps[o], S)

\* The recursion that MapThenSumSet stands for.
PickFrom(S) == CHOOSE o \in S : TRUE

SumStep(S, f) == IF S = {} THEN 0 ELSE Amps[PickFrom(S)] + f[S \ {PickFrom(S)}]

IsSum(f, U) == f = [S \in SUBSET U |-> SumStep(S, f)]

SumOver(U) == CHOOSE f : IsSum(f, U)

LEMMA CurrentIsSum == ASSUME NEW S PROVE Current(S) = SumOver(S)[S]
BY Zenon DEF Current, MapThenSumSet, MapThenFoldSet, SumOver, IsSum, SumStep, PickFrom

\* Two functions that sum agree wherever both are defined.
LEMMA SumIsUnique ==
  ASSUME NEW U, IsFiniteSet(U), NEW V, NEW f, IsSum(f, U), NEW g, IsSum(g, V),
         NEW S \in (SUBSET U) \cap (SUBSET V)
  PROVE  f[S] = g[S]
<1> DEFINE Bad == {R \in (SUBSET U) \cap (SUBSET V) : f[R] # g[R]}
<1>1. SUFFICES ASSUME Bad # {} PROVE FALSE
  OBVIOUS
<1>2. PICK R \in Bad : \A Q \in Bad : ~(Q \subseteq R /\ Q # R)
  <2>1. Bad \in SUBSET (SUBSET U)
    OBVIOUS
  <2> HIDE DEF Bad
  <2> QED BY <1>1, <2>1, LeastSet
<1>3. f[R] = SumStep(R, f) /\ g[R] = SumStep(R, g)
  <2>1. R \in SUBSET U /\ R \in SUBSET V
    BY <1>2
  <2> QED BY <2>1 DEF IsSum
<1>4. R # {} => PickFrom(R) \in R
  BY DEF PickFrom
<1>5. R # {} => f[R \ {PickFrom(R)}] = g[R \ {PickFrom(R)}]
  BY <1>2, <1>4
<1> QED BY <1>2, <1>3, <1>5 DEF SumStep

\* There is such a function on the subsets of every finite set.
LEMMA SumExists ==
  ASSUME NEW U, IsFiniteSet(U)
  PROVE  \E f : IsSum(f, U)
<1> DEFINE Bad == {R \in SUBSET U : ~\E f : IsSum(f, R)}
<1>1. SUFFICES ASSUME Bad # {} PROVE FALSE
  OBVIOUS
<1>2. PICK R \in Bad : \A Q \in Bad : ~(Q \subseteq R /\ Q # R)
  <2>1. Bad \in SUBSET (SUBSET U)
    OBVIOUS
  <2> HIDE DEF Bad
  <2> QED BY <1>1, <2>1, LeastSet
<1>3. \A Q \in SUBSET R : Q # R => IsSum(SumOver(Q), Q)
  BY <1>2 DEF SumOver
<1>4. \A Q \in SUBSET R : IsFiniteSet(Q)
  BY <1>2, FS_Subset
<1> DEFINE h == [Q \in SUBSET R |-> IF Q = R THEN IF R = {} THEN 0
                                     ELSE Amps[PickFrom(R)] + SumOver(R \ {PickFrom(R)})[R \ {PickFrom(R)}]
                                   ELSE SumOver(Q)[Q]]
<1>5. \A Q \in SUBSET R : Q # {} => PickFrom(Q) \in Q
  BY DEF PickFrom
<1>6. ASSUME NEW Q \in SUBSET R PROVE h[Q] = SumStep(Q, h)
  <2>1. CASE Q = R
    BY <1>5, <2>1 DEF SumStep
  <2>2. CASE Q # R /\ Q = {}
    <3>1. SumOver(Q)[Q] = SumStep(Q, SumOver(Q))
      BY <1>3, <2>2 DEF IsSum
    <3> QED BY <2>2, <3>1 DEF SumStep
  <2>3. CASE Q # R /\ Q # {}
    <3> DEFINE P == Q \ {PickFrom(Q)}
    <3>1. SumOver(Q)[Q] = SumStep(Q, SumOver(Q))
      BY <1>3, <2>3 DEF IsSum
    <3>2. P \in SUBSET R /\ P # R /\ P \in SUBSET Q
      BY <1>5, <2>3
    <3>3. SumOver(Q)[P] = SumOver(P)[P]
      <4>1. IsSum(SumOver(Q), Q) /\ IsSum(SumOver(P), P) /\ IsFiniteSet(Q)
        BY <1>3, <1>4, <2>3, <3>2
      <4>2. P \in (SUBSET Q) \cap (SUBSET P)
        BY <3>2
      <4> HIDE DEF P
      <4> QED BY <4>1, <4>2, SumIsUnique
    <3>4. h[P] = SumOver(P)[P] /\ h[Q] = SumOver(Q)[Q]
      BY <2>3, <3>2
    <3> QED BY <2>3, <3>1, <3>3, <3>4 DEF SumStep
  <2> QED BY <2>1, <2>2, <2>3
<1>7. IsSum(h, R)
  <2>1. h = [Q \in SUBSET R |-> h[Q]]
    OBVIOUS
  <2> HIDE DEF h
  <2> QED BY <1>6, <2>1 DEF IsSum
<1> QED BY <1>2, <1>7

\* The sum of no currents, and of some: one of them and the rest.
LEMMA CurrentStep ==
  ASSUME NEW S, IsFiniteSet(S)
  PROVE  /\ S = {} => Current(S) = 0
         /\ S # {} => /\ PickFrom(S) \in S
                      /\ Current(S) = Amps[PickFrom(S)] + Current(S \ {PickFrom(S)})
<1>1. IsSum(SumOver(S), S)
  BY SumExists DEF SumOver
<1>2. Current(S) = SumStep(S, SumOver(S))
  <2>1. SumOver(S)[S] = SumStep(S, SumOver(S))
    BY <1>1 DEF IsSum
  <2> QED BY <2>1, CurrentIsSum
<1>3. CASE S # {}
  <2> DEFINE P == S \ {PickFrom(S)}
  <2>1. PickFrom(S) \in S
    BY <1>3 DEF PickFrom
  <2>2. IsFiniteSet(P) /\ P \in (SUBSET S) \cap (SUBSET P)
    BY FS_Subset
  <2>3. IsSum(SumOver(P), P)
    BY <2>2, SumExists DEF SumOver
  <2>4. SumOver(S)[P] = SumOver(P)[P]
    <3> HIDE DEF P
    <3> QED BY <1>1, <2>2, <2>3, SumIsUnique
  <2> QED BY <1>2, <1>3, <2>1, <2>4, CurrentIsSum DEF SumStep
<1> QED BY <1>2, <1>3 DEF SumStep

\* A sum of currents is a natural number.
LEMMA CurrentType ==
  ASSUME NEW S \in SUBSET Outputs
  PROVE  Current(S) \in Nat
<1> DEFINE Bad == {R \in SUBSET Outputs : Current(R) \notin Nat}
<1>1. SUFFICES ASSUME Bad # {} PROVE FALSE
  OBVIOUS
<1>2. PICK R \in Bad : \A Q \in Bad : ~(Q \subseteq R /\ Q # R)
  <2>1. Bad \in SUBSET (SUBSET Outputs) /\ IsFiniteSet(Outputs)
    BY OutputAssumption
  <2> HIDE DEF Bad
  <2> QED BY <1>1, <2>1, LeastSet
<1>3. IsFiniteSet(R)
  BY <1>2, FS_Subset, OutputAssumption
<1>4. CASE R = {}
  <2>1. Current(R) = 0
    BY <1>3, <1>4, CurrentStep
  <2> QED BY <1>2, <2>1
<1>5. CASE R # {}
  <2>1. /\ PickFrom(R) \in R
        /\ Current(R) = Amps[PickFrom(R)] + Current(R \ {PickFrom(R)})
    BY <1>3, <1>5, CurrentStep
  <2>2. Amps[PickFrom(R)] \in Nat
    BY <1>2, <2>1, OutputAssumption
  <2>3. Current(R \ {PickFrom(R)}) \in Nat
    BY <1>2, <2>1
  <2> QED BY <1>2, <2>1, <2>2, <2>3
<1> QED BY <1>4, <1>5

\* Whichever output is taken out, its current is what the sum loses.
LEMMA CurrentWithout ==
  ASSUME NEW S \in SUBSET Outputs, NEW e \in S
  PROVE  Current(S) = Amps[e] + Current(S \ {e})
<1> DEFINE Bad == {R \in SUBSET Outputs : \E o \in R : Current(R) # Amps[o] + Current(R \ {o})}
<1>1. SUFFICES ASSUME Bad # {} PROVE FALSE
  OBVIOUS
<1>2. PICK R \in Bad : \A Q \in Bad : ~(Q \subseteq R /\ Q # R)
  <2>1. Bad \in SUBSET (SUBSET Outputs) /\ IsFiniteSet(Outputs)
    BY OutputAssumption
  <2> HIDE DEF Bad
  <2> QED BY <1>1, <2>1, LeastSet
<1>3. PICK o \in R : Current(R) # Amps[o] + Current(R \ {o})
  BY <1>2
<1> DEFINE p == PickFrom(R)
<1>4. p \in R /\ Current(R) = Amps[p] + Current(R \ {p})
  <2>1. IsFiniteSet(R)
    BY <1>2, FS_Subset, OutputAssumption
  <2> QED BY <1>3, <2>1, CurrentStep
<1> HIDE DEF p
<1>5. o # p
  BY <1>3, <1>4
<1>6. Current(R \ {p}) = Amps[o] + Current((R \ {p}) \ {o})
  BY <1>2, <1>3, <1>4, <1>5
<1>7. Current(R \ {o}) = Amps[p] + Current((R \ {o}) \ {p})
  BY <1>2, <1>3, <1>4, <1>5
<1>8. Current((R \ {p}) \ {o}) = Current((R \ {o}) \ {p})
  <2>1. (R \ {p}) \ {o} = (R \ {o}) \ {p}
    OBVIOUS
  <2> QED BY Zenon, <2>1
<1>9. Amps[o] \in Nat /\ Amps[p] \in Nat /\ Current((R \ {o}) \ {p}) \in Nat
  BY <1>2, <1>3, <1>4, CurrentType, OutputAssumption
<1> QED BY <1>3, <1>4, <1>6, <1>7, <1>8, <1>9

\* What switching an output adds to the sum at most, and never takes below it.
LEMMA CurrentBounds ==
  ASSUME NEW S \in SUBSET Outputs, NEW o \in Outputs
  PROVE  /\ Current(S) \in Nat /\ Current(S \cup {o}) \in Nat /\ Current(S \ {o}) \in Nat
         /\ Current(S \cup {o}) <= Current(S) + Amps[o]
         /\ Current(S \ {o}) <= Current(S)
<1>1. /\ Current(S) \in Nat /\ Current(S \cup {o}) \in Nat /\ Current(S \ {o}) \in Nat
      /\ Amps[o] \in Nat
  BY CurrentType, OutputAssumption
<1>2. CASE o \in S
  <2>1. Current(S \cup {o}) = Current(S)
    <3>1. S \cup {o} = S
      BY <1>2
    <3> QED BY Zenon, <3>1
  <2>2. Current(S) = Amps[o] + Current(S \ {o})
    BY <1>2, CurrentWithout
  <2> QED BY <1>1, <2>1, <2>2
<1>3. CASE o \notin S
  <2>1. S \ {o} = S /\ (S \cup {o}) \ {o} = S
    BY <1>3
  <2>2. Current(S \ {o}) = Current(S) /\ Current((S \cup {o}) \ {o}) = Current(S)
    BY Zenon, <2>1
  <2>3. Current(S \cup {o}) = Amps[o] + Current((S \cup {o}) \ {o})
    BY CurrentWithout
  <2> QED BY <1>1, <2>2, <2>3
<1> QED BY <1>2, <1>3

(***************************************************************************)
(* The devices that are on never draw more than the maximum                *)
(***************************************************************************)
\* What the check of the amps cannot see: a deleted output that is still on, an
\* output that is not asked, a Radio module that was replaced and assumes off.
AmpAssumption ==
  /\ SerialAssumption
  /\ "delete" \notin Requests /\ Direct = {}
  /\ "modify" \notin Requests \/ Radio = {}

On == {o \in Outputs : dev[o]}

DevKnown == \A o \in Outputs : /\ dev[o] => Present(o) /\ is_setup[o]
                               /\ o \in Radio => output_state[o] = dev[o]

CallsKnown ==
  \A t \in Threads : pc[t] \notin {"idle", "spawned", "setup"} =>
    Present(op[t].output) /\ is_setup[op[t].output]

\* Between the check of the amps and the switch, what was checked stays true.
Fits ==
  \A t \in Threads : pc[t] \in {"offUntil", "branch", "timed", "switchTimed", "switchUntimed"} =>
    Current(On \cup {op[t].output}) <= MaxAmps

SetUpAsked == (\E t \in Threads : pc[t] = "setup") => Radio = {}

AmpInv == SerialInv /\ DevKnown /\ CallsKnown /\ SetUpAsked /\ Fits /\ Current(On) <= MaxAmps

\* The controller's sum is that of the devices that are on.
LEMMA LoadIsCurrent ==
  ASSUME TypeOK, DevKnown
  PROVE  current_amp_load = Current(On)
<1>1. {o \in Outputs : IsOn(o)} = On
  BY DEF TypeOK, DevKnown, IsOn, On
<1> QED BY Zenon, <1>1 DEF current_amp_load, Current

\* A step of the one call in progress keeps AmpInv.
LEMMA CallStepAmps ==
  ASSUME AmpAssumption, AmpInv, NEW t \in Threads, CallStep(t)
  PROVE  DevKnown' /\ CallsKnown' /\ SetUpAsked' /\ Fits' /\ (Current(On) <= MaxAmps)'
<1> DEFINE o == op[t].output
<1>0. /\ SerialInv /\ TypeOK /\ pc \in [Threads -> Labels] /\ op \in [Threads -> Calls \cup {NoCall}]
      /\ dev \in [Outputs -> BOOLEAN] /\ output_state \in [Outputs -> BOOLEAN]
      /\ Direct = {} /\ MaxAmps \in Nat /\ Amps[o] \in Nat
      /\ o \in Outputs /\ Present(o) /\ is_setup[o] /\ On \subseteq Outputs
      /\ Current(On) <= MaxAmps
  BY CallStepFrame, CallFields, OutputAssumption
  DEF AmpInv, SerialInv, TypeOK, ThreadsOK, AmpAssumption, CallsKnown, On
<1>1. /\ UNCHANGED <<known, is_setup>>
      /\ pc[t] \notin {"idle", "spawned", "setup"}
      /\ \A u \in Threads \ {t} : /\ pc[u] \in {"idle", "spawned"}
                                 /\ pc'[u] = pc[u] /\ op'[u] = op[u]
      /\ Return(t) \/ (UNCHANGED op /\ pc'[t] \notin {"idle", "spawned", "setup"})
  BY <1>0, CallStepFrame DEF SerialInv, OneCall, InCall
<1>2. CallsKnown' /\ SetUpAsked'
  BY <1>0, <1>1 DEF AmpInv, CallsKnown, SetUpAsked, Present, Return
<1>3. DevKnown'
  <2>1. UNCHANGED devVars \/ \E on \in BOOLEAN : Drive(o, on)
    BY DEF CallStep, CheckAmps, CheckOffUntil, SetOffUntil, Extend, NotForAnAmount, OnUntimed,
      SwitchOn, SwitchOff, SwitchRaises, Raise, RecordTimed, RecordOff, KeyErrorAbort
  <2> QED BY <1>0, <1>1, <2>1 DEF AmpInv, DevKnown, Drive, devVars, Present
<1>4. ASSUME UNCHANGED dev,
             pc'[t] \in {"offUntil", "branch", "timed", "switchTimed", "switchUntimed"} =>
               /\ UNCHANGED op /\ Current(On \cup {o}) <= MaxAmps
      PROVE  Fits' /\ (Current(On) <= MaxAmps)'
  <2>1. On' = On
    BY <1>4 DEF On
  <2>2. (Current(On) <= MaxAmps)'
    BY <1>0, <2>1
  <2>3. ASSUME NEW u \in Threads,
               pc'[u] \in {"offUntil", "branch", "timed", "switchTimed", "switchUntimed"}
        PROVE  Current(On' \cup {op'[u].output}) <= MaxAmps
    BY <1>1, <1>4, <2>1, <2>3
  <2> QED BY <2>2, <2>3 DEF Fits
<1>5. pc[t] \in {"offUntil", "branch", "timed", "switchTimed", "switchUntimed"} =>
        Current(On \cup {o}) <= MaxAmps
  BY DEF AmpInv, Fits
<1> HIDE DEF o
<1>6. CASE CheckAmps(t)
  <2>1. UNCHANGED dev /\ (pc' = [pc EXCEPT ![t] = "idle"]
                          \/ (UNCHANGED op /\ Current(On) + Amps[o] <= MaxAmps))
    <3>1. current_amp_load = Current(On)
      BY <1>0, LoadIsCurrent DEF AmpInv
    <3>2. Current(On) \in Nat
      BY <1>0, CurrentType
    <3> QED BY <1>0, <1>6, <3>1, <3>2 DEF CheckAmps, Return, devVars, o
  <2>2. /\ Current(On) \in Nat /\ Current(On \cup {o}) \in Nat
        /\ Current(On \cup {o}) <= Current(On) + Amps[o]
    BY <1>0, CurrentBounds
  <2>3. pc'[t] # "idle" => UNCHANGED op /\ Current(On \cup {o}) <= MaxAmps
    BY <1>0, <2>1, <2>2
  <2> QED BY <1>2, <1>3, <1>4, <2>1, <2>3
<1>7. CASE SwitchOn(t)
  <2>1. pc[t] \in {"switchTimed", "switchUntimed"}
    BY <1>0, <1>7 DEF SwitchOn, At, SerialInv, CallFacts
  <2>2. On' = On \cup {o}
    BY <1>0, <1>7 DEF SwitchOn, Drive, On, o
  <2>3. (Current(On) <= MaxAmps)'
    BY <1>5, <2>1, <2>2
  <2>4. pc'[t] \in {"idle", "recordTimed"}
    BY <1>0, <1>7 DEF SwitchOn, Goto, Return
  <2>5. Fits'
    BY <1>1, <2>4 DEF Fits
  <2> QED BY <1>2, <1>3, <2>3, <2>5
<1>8. CASE SwitchOff(t)
  <2>1. On' = On \ {o}
    BY <1>0, <1>8 DEF SwitchOff, Drive, On, o
  <2>2. /\ Current(On \ {o}) \in Nat /\ Current(On) \in Nat
        /\ Current(On \ {o}) <= Current(On)
    BY <1>0, CurrentBounds
  <2>3. (Current(On) <= MaxAmps)'
    BY <1>0, <2>1, <2>2
  <2>4. pc'[t] = "recordOff"
    BY <1>0, <1>8 DEF SwitchOff, Goto
  <2>5. Fits'
    BY <1>1, <2>4 DEF Fits
  <2> QED BY <1>2, <1>3, <2>3, <2>5
<1>9. CASE \/ CheckOffUntil(t) \/ SetOffUntil(t) \/ Extend(t) \/ NotForAnAmount(t) \/ OnUntimed(t)
           \/ SwitchRaises(t) \/ RecordTimed(t) \/ RecordOff(t) \/ KeyErrorAbort(t)
  <2>1. UNCHANGED dev
    BY <1>9 DEF CheckOffUntil, SetOffUntil, Extend, NotForAnAmount, OnUntimed, SwitchRaises,
      RecordTimed, RecordOff, KeyErrorAbort, devVars
  <2>2. \/ pc' = [pc EXCEPT ![t] = "idle"]
        \/ /\ UNCHANGED op
           /\ pc[t] \in {"offUntil", "branch", "timed", "switchTimed", "switchUntimed"}
    BY <1>9 DEF CheckOffUntil, SetOffUntil, Extend, NotForAnAmount, OnUntimed, SwitchRaises, Raise,
      RecordTimed, RecordOff, KeyErrorAbort, Return, At
  <2>3. pc'[t] # "idle" => UNCHANGED op /\ Current(On \cup {o}) <= MaxAmps
    BY <1>0, <1>5, <2>2
  <2> QED BY <1>2, <1>3, <1>4, <2>1, <2>3
<1> QED BY <1>6, <1>7, <1>8, <1>9 DEF CallStep

\* Entering a call while no other is in progress keeps AmpInv.
LEMMA EnterCallAmps ==
  ASSUME AmpAssumption, AmpInv, Quiet, NEW t \in Threads, NEW o \in Outputs,
         NEW state \in {"on", "off"}, NEW amount, NEW min_off,
         EnterCall(t, o, state, amount, min_off), SerialInv',
         UNCHANGED <<modVars, devVars>>
  PROVE  AmpInv'
<1>0. /\ TypeOK /\ UNCHANGED <<known, is_setup, dev, output_state>> /\ On' = On
      /\ dev \in [Outputs -> BOOLEAN] /\ Direct = {}
      /\ \A u \in Threads : pc[u] \in {"idle", "spawned"}
  BY DEF AmpInv, SerialInv, TypeOK, AmpAssumption, modVars, devVars, On, Quiet, InCall
<1>1. /\ \A u \in Threads \ {t} : pc'[u] = pc[u] /\ op'[u] = op[u]
      /\ \/ pc'[t] = "idle"
         \/ /\ Present(o) /\ is_setup[o] /\ op'[t].output = o
            /\ pc'[t] \in {"switchOff", "branch", "amps"}
            /\ pc'[t] = "branch" => IsOn(o)
  BY <1>0, EnterCallFrame DEF FirstStep, Rejects
<1>2. DevKnown' /\ CallsKnown' /\ SetUpAsked'
  BY <1>0, <1>1 DEF AmpInv, DevKnown, CallsKnown, SetUpAsked, Present
<1>3. (Current(On) <= MaxAmps)'
  BY <1>0 DEF AmpInv
<1>4. Fits'
  <2>1. ASSUME pc'[t] = "branch" PROVE Current(On' \cup {op'[t].output}) <= MaxAmps
    <3>1. op'[t].output = o /\ IsOn(o)
      BY <1>1, <2>1
    <3>2. dev[o]
      BY <1>0, <3>1 DEF AmpInv, DevKnown, IsOn
    <3>3. On' \cup {op'[t].output} = On
      BY <1>0, <3>1, <3>2 DEF On
    <3> QED BY <3>3 DEF AmpInv
  <2>2. \A u \in Threads : pc'[u] \in {"offUntil", "branch", "timed", "switchTimed", "switchUntimed"}
          => u = t /\ pc'[u] = "branch"
    BY <1>0, <1>1
  <2> QED BY <2>1, <2>2 DEF Fits
<1> QED BY <1>2, <1>3, <1>4 DEF AmpInv

\* AmpInv is inductive.
LEMMA AmpStep == ASSUME AmpAssumption PROVE AmpInv /\ [Next]_vars => AmpInv'
<1> SUFFICES ASSUME AmpInv, [Next]_vars PROVE AmpInv'
  OBVIOUS
<1>0. /\ SerialInv /\ TypeOK /\ pc \in [Threads -> Labels] /\ OffThreads \subseteq Threads
      /\ Callers \subseteq Threads /\ Main \in Threads /\ SerialAssumption
      /\ op \in [Threads -> Calls \cup {NoCall}]
      /\ known \in [Outputs -> {"new", "present", "deleted"}]
      /\ is_setup \in [Outputs -> BOOLEAN]
      /\ dev \in [Outputs -> BOOLEAN] /\ output_state \in [Outputs -> BOOLEAN]
      /\ todo \subseteq Outputs /\ On \subseteq Outputs /\ MaxAmps \in Nat
      /\ Direct = {} /\ Current(On) <= MaxAmps
      /\ MayEnter <=> Quiet
  BY OutputAssumption
  DEF AmpInv, SerialInv, TypeOK, ThreadsOK, Threads, MayEnter, SerialAssumption, AmpAssumption, On
<1>a. SerialInv'
  BY <1>0, SerialStep DEF AmpAssumption
<1>b. \A t \in Threads : pc[t] # "idle" => op[t].output \in Outputs
  BY <1>0, CallFields DEF TypeOK
<1> USE DEF clockVars, mainVars, modVars, devVars, timerVars
<1>k. ASSUME UNCHANGED <<known, is_setup, dev, output_state, pc, op>> PROVE AmpInv'
  <2>1. On' = On
    BY <1>k DEF On
  <2>2. (Current(On) <= MaxAmps)'
    BY <1>0, <2>1
  <2>3. Fits'
    BY <1>k, <2>1 DEF AmpInv, Fits
  <2>4. DevKnown' /\ CallsKnown' /\ SetUpAsked'
    BY <1>k DEF AmpInv, DevKnown, CallsKnown, SetUpAsked, Present
  <2> QED BY <1>a, <2>2, <2>3, <2>4 DEF AmpInv
<1>1. ASSUME NEW t \in Threads, CallStep(t) PROVE AmpInv'
  BY <1>1, <1>a, CallStepAmps DEF AmpInv
<1>2. ASSUME NEW t \in Callers, CallerStep(t) PROVE AmpInv'
  <2>1. CASE OutputOn(t)
    BY <1>0, <1>a, <2>1, EnterCallAmps DEF OutputOn
  <2>2. CASE OutputOff(t)
    BY <1>0, <1>a, <2>2, EnterCallAmps DEF OutputOff
  <2>3. CASE AddModOutput(t)
    <3>1. PICK o \in Outputs :
            /\ "modify" \in Requests
            /\ known' = [known EXCEPT ![o] = "present"]
            /\ pc' = [pc EXCEPT ![t] = "setup"]
            /\ \A u \in Threads \ {t} : op'[u] = op[u]
            /\ UNCHANGED <<is_setup, dev, output_state>>
      BY <1>0, <2>3 DEF AddModOutput, ResetTimers, Goto
    <3>2. \A u \in Threads : pc[u] \in {"idle", "spawned"}
      BY <1>0, <2>3 DEF AddModOutput, Quiet, InCall
    <3>3. On' = On
      BY <3>1 DEF On
    <3>4. (Current(On) <= MaxAmps)'
      BY <1>0, <3>3
    <3>5. \A u \in Threads : pc'[u] \in {"idle", "spawned", "setup"}
      BY <1>0, <3>1, <3>2
    <3>6. Fits' /\ CallsKnown'
      BY <3>5 DEF Fits, CallsKnown
    <3>7. DevKnown'
      BY <1>0, <3>1 DEF AmpInv, DevKnown, Present
    <3>8. SetUpAsked'
      BY <3>1 DEF AmpAssumption, SetUpAsked
    <3> QED BY <1>a, <3>4, <3>6, <3>7, <3>8 DEF AmpInv
  <2>4. CASE ReplaceModule(t)
    <3> DEFINE o == op[t].output
    <3>1. /\ o \in Outputs /\ pc[t] = "setup" /\ Radio = {}
          /\ pc' = [pc EXCEPT ![t] = "idle"] /\ op' = [op EXCEPT ![t] = NoCall]
          /\ UNCHANGED known
      BY <1>0, <1>2, <1>b, <2>4 DEF ReplaceModule, At, Return, AmpInv, SetUpAsked
    <3>2. \/ UNCHANGED <<is_setup, dev>>
          \/ /\ is_setup' = [is_setup EXCEPT ![o] = TRUE]
             /\ dev' = [dev EXCEPT ![o] = FALSE]
      BY <1>0, <2>4, <3>1 DEF ReplaceModule, SetUp, SerialAssumption
    <3>3. \A u \in Threads : pc'[u] \in {"idle", "spawned"}
      BY <1>0, <3>1 DEF SerialInv, OneCall, InCall
    <3>4. Fits' /\ CallsKnown' /\ SetUpAsked'
      BY <3>3 DEF Fits, CallsKnown, SetUpAsked
    <3>5. DevKnown'
      BY <1>0, <3>1, <3>2 DEF AmpInv, DevKnown, Present
    <3>6. On' = On \/ On' = On \ {o}
      BY <1>0, <3>1, <3>2 DEF On
    <3>7. /\ Current(On \ {o}) \in Nat /\ Current(On) \in Nat
          /\ Current(On \ {o}) <= Current(On)
      BY <1>0, <3>1, CurrentBounds
    <3> HIDE DEF o
    <3>8. (Current(On) <= MaxAmps)'
      <4>1. Current(On') = Current(On) \/ Current(On') = Current(On \ {o})
        BY Zenon, <3>6
      <4> QED BY <1>0, <3>7, <4>1
    <3> QED BY <1>a, <3>4, <3>5, <3>8 DEF AmpInv
  <2>5. CASE DelOutput(t)
    BY <2>5 DEF DelOutput, AmpAssumption
  <2>6. CASE StopController(t)
    BY <1>k, <2>6 DEF StopController
  <2> QED BY <1>2, <2>1, <2>2, <2>3, <2>4, <2>5, <2>6 DEF CallerStep
<1>3. ASSUME NEW t \in OffThreads, OffThreadStart(t) PROVE AmpInv'
  BY <1>0, <1>a, <1>b, <1>3, EnterCallAmps DEF OffThreadStart
<1>4. CASE MainPhase \/ IterationRaises
  BY <1>k, <1>4 DEF MainPhase, IterationRaises, Iterate
<1>5. ASSUME NEW o \in Outputs, LoadOutput(o) PROVE AmpInv'
  <2>1. /\ known[o] = "new" /\ known' = [known EXCEPT ![o] = "present"]
        /\ is_setup' = [is_setup EXCEPT ![o] = TRUE]
        /\ dev' \in {dev, [dev EXCEPT ![o] = FALSE]}
        /\ output_state' = [output_state EXCEPT ![o] = FALSE]
        /\ UNCHANGED <<pc, op>>
    BY <1>0, <1>5 DEF LoadOutput, SetUp, SerialAssumption, SerialInv, LoadFirst
  <2>2. ~dev[o]
    BY <2>1 DEF AmpInv, DevKnown, Present
  <2>3. dev' = dev
    BY <1>0, <2>1, <2>2
  <2>4. On' = On
    BY <2>3 DEF On
  <2>5. (Current(On) <= MaxAmps)'
    BY <1>0, <2>4
  <2>6. Fits'
    BY <2>1, <2>4 DEF AmpInv, Fits
  <2>7. DevKnown'
    BY <1>0, <2>1, <2>2, <2>3 DEF AmpInv, DevKnown, Present
  <2>8. CallsKnown' /\ SetUpAsked'
    BY <1>0, <1>b, <2>1 DEF AmpInv, CallsKnown, SetUpAsked, Present
  <2> QED BY <1>a, <2>5, <2>6, <2>7, <2>8 DEF AmpInv
<1>6. ASSUME NEW o \in Outputs, MainCall(o) PROVE AmpInv'
  <2> DEFINE wish == IF phase = "startup" THEN Startup[o] ELSE Shutdown[o]
  <2>1. UNCHANGED <<modVars, devVars>> /\ Quiet
    BY <1>0, <1>6 DEF MainCall
  <2>2. CASE wish = "keep"
    BY <1>k, <1>6, <2>1, <2>2 DEF MainCall
  <2>3. CASE wish # "keep"
    <3>1. wish \in {"on", "off"} /\ EnterCall(Main, o, wish, 0, 0)
      BY <1>6, <2>3, OutputAssumption DEF MainCall
    <3> QED BY <1>0, <1>a, <2>1, <3>1, EnterCallAmps
  <2> QED BY <2>2, <2>3
<1>7. ASSUME NEW o \in Outputs, Loop(o) PROVE AmpInv'
  <2>1. PICK t \in Threads : /\ pc[t] = "idle" /\ pc' = [pc EXCEPT ![t] = "spawned"]
                             /\ op' = [op EXCEPT ![t] = NewCall(o)]
    BY <1>0, <1>7 DEF Loop, Goto
  <2>2. UNCHANGED <<known, is_setup, dev, output_state>>
    BY <1>7 DEF Loop
  <2>3. /\ \A u \in Threads \ {t} : pc'[u] = pc[u] /\ op'[u] = op[u]
        /\ pc'[t] = "spawned"
    BY <1>0, <2>1
  <2>4. On' = On
    BY <2>2 DEF On
  <2>5. (Current(On) <= MaxAmps)'
    BY <1>0, <2>4
  <2>6. Fits'
    BY <2>3, <2>4 DEF AmpInv, Fits
  <2>7. DevKnown' /\ CallsKnown' /\ SetUpAsked'
    BY <2>2, <2>3 DEF AmpInv, DevKnown, CallsKnown, SetUpAsked, Present
  <2> QED BY <1>a, <2>5, <2>6, <2>7 DEF AmpInv
<1>8. CASE Tick \/ UNCHANGED vars
  BY <1>k, <1>8 DEF Tick, vars
<1> QED BY <1>1, <1>2, <1>3, <1>4, <1>5, <1>6, <1>7, <1>8 DEF Next, MainStep

\* AmpInv holds initially.
LEMMA AmpInit == Init => AmpInv
<1> SUFFICES ASSUME Init PROVE AmpInv
  OBVIOUS
<1>1. (\A t \in Threads : pc[t] = "idle") /\ (\A o \in Outputs : ~dev[o] /\ ~output_state[o])
  BY DEF Init
<1>2. Current(On) <= MaxAmps
  <2>1. On = {}
    BY <1>1 DEF On
  <2>2. Current({}) = 0
    BY CurrentStep, FS_EmptySet
  <2> QED BY <2>1, <2>2, OutputAssumption
<1>3. DevKnown
  BY <1>1, SerialInit DEF DevKnown, Init
<1>4. CallsKnown /\ SetUpAsked /\ Fits
  BY <1>1 DEF CallsKnown, SetUpAsked, Fits
<1> QED BY <1>2, <1>3, <1>4, SerialInit DEF AmpInv

\* When calls do not overlap, the devices that are on never draw more than the
\* maximum, whatever is asked, as long as the controller's sum counts every
\* output: none is deleted while it is on, each is switched through the check,
\* and no module that keeps its own state is replaced.
THEOREM AmpsAreLimited ==
  ASSUME AmpAssumption
  PROVE  Spec => []AmpLimit
<1>1. AmpInv => AmpLimit
  BY Zenon DEF AmpInv, AmpLimit, Current, On
<1>2. AmpInv /\ [Next]_vars => AmpInv'
  BY AmpStep
<1> QED BY <1>1, <1>2, AmpInit, PTL DEF Spec

(***************************************************************************)
(* A deleted output is left alone                                          *)
(***************************************************************************)
\* An output that is still to be loaded is new to the controller.
LEMMA LoadFirstStep == TypeOK /\ LoadFirst /\ [Next]_vars => LoadFirst'
<1> SUFFICES ASSUME TypeOK, LoadFirst, [Next]_vars PROVE LoadFirst'
  OBVIOUS
<1>0. known \in [Outputs -> {"new", "present", "deleted"}] /\ todo \subseteq Outputs
  BY DEF TypeOK
<1> USE DEF clockVars, mainVars, modVars
<1>k. ASSUME UNCHANGED known, phase' = "load" => phase = "load" /\ todo' \subseteq todo
      PROVE  LoadFirst'
  BY <1>k DEF LoadFirst
<1>1. ASSUME NEW t \in Threads, CallStep(t) PROVE LoadFirst'
  BY <1>k, <1>1, CallStepFrame
<1>2. ASSUME NEW t \in Callers, CallerStep(t) PROVE LoadFirst'
  <2>1. CASE OutputOn(t) \/ OutputOff(t) \/ ReplaceModule(t) \/ StopController(t)
    BY <1>k, <2>1 DEF OutputOn, OutputOff, ReplaceModule, StopController
  <2>2. CASE AddModOutput(t) \/ DelOutput(t)
    BY <1>0, <2>2 DEF AddModOutput, DelOutput, LoadFirst, Present
  <2> QED BY <1>2, <2>1, <2>2 DEF CallerStep
<1>3. ASSUME NEW t \in OffThreads, OffThreadStart(t) PROVE LoadFirst'
  BY <1>k, <1>3 DEF OffThreadStart
<1>4. CASE MainPhase \/ IterationRaises
  BY <1>k, <1>4 DEF MainPhase, IterationRaises, Iterate
<1>5. ASSUME NEW o \in Outputs, LoadOutput(o) PROVE LoadFirst'
  BY <1>0, <1>5 DEF LoadOutput, LoadFirst
<1>6. ASSUME NEW o \in Outputs, MainCall(o) \/ Loop(o) PROVE LoadFirst'
  BY <1>k, <1>6 DEF MainCall, Handled, Loop
<1>7. CASE Tick \/ UNCHANGED vars
  BY <1>k, <1>7 DEF Tick, vars
<1> QED BY <1>1, <1>2, <1>3, <1>4, <1>5, <1>6, <1>7 DEF Next, MainStep

\* LoadFirst holds initially.
LEMMA LoadFirstInit == Init => LoadFirst
BY OutputAssumption DEF Init, LoadFirst

\* What a step does to a device: only the output of a call or of a set-up is
\* driven, and only while the controller knows it.
LEMMA DriveFrame ==
  ASSUME TypeOK, LoadFirst, [Next]_vars, NEW o \in Outputs, dev'[o] # dev[o]
  PROVE  known[o] # "deleted"
<1>0. dev \in [Outputs -> BOOLEAN]
  BY DEF TypeOK
<1> USE DEF clockVars, mainVars, modVars, devVars, timerVars
<1>1. ASSUME NEW t \in Threads, CallStep(t) PROVE known[o] # "deleted"
  BY <1>0, <1>1 DEF CallStep, CheckAmps, CheckOffUntil, SetOffUntil, Extend, NotForAnAmount,
    OnUntimed, SwitchOn, SwitchOff, SwitchRaises, Drive, RecordTimed, RecordOff, KeyErrorAbort, Present
<1>2. ASSUME NEW t \in Callers, CallerStep(t) PROVE known[o] # "deleted"
  BY <1>0, <1>2 DEF CallerStep, OutputOn, OutputOff, AddModOutput, ReplaceModule, SetUp, DelOutput,
    StopController, Present
<1>3. ASSUME NEW t \in OffThreads, OffThreadStart(t) PROVE FALSE
  BY <1>3 DEF OffThreadStart
<1>4. CASE MainStep
  BY <1>0, <1>4 DEF MainStep, MainPhase, IterationRaises, LoadOutput, SetUp, LoadFirst, MainCall, Loop
<1>5. CASE Tick \/ UNCHANGED vars
  BY <1>5 DEF Tick, vars
<1> QED BY <1>1, <1>2, <1>3, <1>4, <1>5 DEF Next

\* However calls and changes overlap, the device of a deleted output is never
\* driven again.
THEOREM DeletedStaysUntouched == Spec => DeletedUntouched
<1>1. TypeOK /\ LoadFirst /\ [Next]_vars
        => [\A o \in Outputs : known[o] = "deleted" => dev'[o] = dev[o]]_vars
  BY DriveFrame
<1>2. Init => TypeOK /\ LoadFirst
  BY TypeInit, LoadFirstInit
<1>3. TypeOK /\ LoadFirst /\ [Next]_vars => (TypeOK /\ LoadFirst)'
  BY TypeStep, LoadFirstStep
<1> QED BY <1>1, <1>2, <1>3, PTL DEF Spec, DeletedUntouched

(***************************************************************************)
(* An output that must stay off stays off                                  *)
(***************************************************************************)
\* The one call in progress: its thread, the time it read and its way to the
\* device, whichever requests are made and whatever fails.
CallIsNow == \A t \in Threads : InCall(t) => op[t].now = now

DirectOnly == \A t \in Threads : pc[t] = "switchDirect" => op[t].output \in Direct

RadioKnows == \A o \in Radio : output_state[o] => dev[o]

TurnInv == /\ TypeOK /\ LoadFirst /\ ServedKnown /\ OneCall
           /\ CallIsNow /\ DirectOnly /\ RadioKnows

\* A step of the one call in progress keeps TurnInv.
LEMMA CallStepTurn ==
  ASSUME TurnInv, NEW t \in Threads, CallStep(t), TypeOK', LoadFirst'
  PROVE  TurnInv'
<1>0. /\ TypeOK /\ pc \in [Threads -> Labels] /\ op \in [Threads -> Calls \cup {NoCall}]
      /\ dev \in [Outputs -> BOOLEAN] /\ output_state \in [Outputs -> BOOLEAN]
      /\ op[t].output \in Outputs /\ Radio \subseteq Outputs
  BY CallStepFrame, CallFields, OutputAssumption DEF TurnInv, TypeOK, ThreadsOK
<1>1. /\ UNCHANGED <<known, now>>
      /\ pc[t] \notin {"idle", "spawned", "setup"}
      /\ \A u \in Threads \ {t} : /\ pc[u] \in {"idle", "spawned"}
                                 /\ pc'[u] = pc[u] /\ op'[u] = op[u]
      /\ \/ pc' = [pc EXCEPT ![t] = "idle"]
         \/ UNCHANGED op /\ pc'[t] \notin {"idle", "spawned", "setup"}
  BY <1>0, CallStepFrame DEF TurnInv, OneCall, InCall, Return
<1>2. ServedKnown' /\ OneCall' /\ CallIsNow'
  BY <1>0, <1>1 DEF TurnInv, ServedKnown, OneCall, CallIsNow, InCall
<1>3. DirectOnly'
  <2>1. pc'[t] # "switchDirect"
    BY <1>0, <1>1 DEF CallStep, CheckAmps, CheckOffUntil, SetOffUntil, Extend, NotForAnAmount, OnUntimed,
      SwitchOn, SwitchOff, SwitchRaises, Raise, RecordTimed, RecordOff, KeyErrorAbort, Goto, Return
  <2> QED BY <1>1, <2>1 DEF DirectOnly
<1>4. RadioKnows'
  <2>1. UNCHANGED devVars \/ \E on \in BOOLEAN : Drive(op[t].output, on)
    BY DEF CallStep, CheckAmps, CheckOffUntil, SetOffUntil, Extend, NotForAnAmount, OnUntimed,
      SwitchOn, SwitchOff, SwitchRaises, Raise, RecordTimed, RecordOff, KeyErrorAbort
  <2> QED BY <1>0, <2>1 DEF TurnInv, RadioKnows, Drive, devVars
<1> QED BY <1>2, <1>3, <1>4 DEF TurnInv

\* Entering a call while no other is in progress keeps TurnInv.
LEMMA EnterCallTurn ==
  ASSUME TurnInv, Quiet, NEW t \in Threads, NEW o \in Outputs, NEW state \in {"on", "off"},
         NEW amount, NEW min_off, EnterCall(t, o, state, amount, min_off), TypeOK', LoadFirst',
         UNCHANGED <<now, modVars, devVars>>
  PROVE  /\ TurnInv'
         /\ \A u \in Threads : pc'[u] \in {"branch", "timed", "switchTimed", "switchUntimed"}
                                 => dev'[op'[u].output]
<1>0. /\ TypeOK /\ UNCHANGED <<now, known, is_setup, dev, output_state>>
      /\ pc \in [Threads -> Labels] /\ op \in [Threads -> Calls \cup {NoCall}]
      /\ \A u \in Threads : pc[u] \in {"idle", "spawned"}
      /\ known \in [Outputs -> {"new", "present", "deleted"}]
  BY DEF TurnInv, TypeOK, ThreadsOK, modVars, devVars, Quiet, InCall
<1>1. /\ \A u \in Threads \ {t} : pc'[u] = pc[u] /\ op'[u] = op[u]
      /\ \/ pc'[t] = "idle"
         \/ /\ Present(o) /\ op'[t].output = o
            /\ pc'[t] \in {"switchOff", "switchDirect", "branch", "amps"}
            /\ pc'[t] = "switchDirect" => o \in Direct
            /\ pc'[t] = "branch" => IsOn(o)
  BY <1>0, EnterCallFrame DEF FirstStep, Rejects
<1>2. pc'[t] # "idle" => op'[t].now = now
  BY <1>0 DEF EnterCall, Locals, Return
<1>3. ServedKnown' /\ OneCall' /\ CallIsNow' /\ DirectOnly'
  BY <1>0, <1>1, <1>2 DEF TurnInv, ServedKnown, OneCall, CallIsNow, DirectOnly, InCall, Present
<1>4. RadioKnows'
  BY <1>0 DEF TurnInv, RadioKnows
<1>5. pc'[t] = "branch" => dev'[op'[t].output]
  BY <1>0, <1>1 DEF TurnInv, RadioKnows, IsOn
<1> QED BY <1>0, <1>1, <1>3, <1>4, <1>5 DEF TurnInv

\* Of a step that is none of a call: what it does to the devices, to off_until
\* and to the way of the call in progress.
QuietStep ==
  /\ UNCHANGED off_until /\ now <= now'
  /\ \A o \in Outputs : dev'[o] => dev[o]
  /\ \A t \in Threads : pc'[t] \in {"branch", "timed", "switchTimed", "switchUntimed"} =>
       \/ dev'[op'[t].output]
       \/ /\ UNCHANGED now /\ pc'[t] = pc[t] /\ op'[t] = op[t]
          /\ dev'[op[t].output] = dev[op[t].output]

\* Steps that leave calls and devices alone.
LEMMA IdleTurn ==
  ASSUME TurnInv, TypeOK', LoadFirst', UNCHANGED <<known, devVars, off_until, pc, op>>,
         UNCHANGED now \/ (Quiet /\ now' = now + 1)
  PROVE  TurnInv' /\ QuietStep
<1>0. now \in Nat
  BY DEF TurnInv, TypeOK
<1>1. TurnInv'
  BY DEF TurnInv, ServedKnown, OneCall, CallIsNow, DirectOnly, RadioKnows, InCall, Quiet, devVars
<1>2. QuietStep
  BY <1>0 DEF QuietStep, devVars, Quiet, InCall
<1> QED BY <1>1, <1>2

\* TurnInv is inductive.
LEMMA TurnStep ==
  ASSUME ~Overlap, TurnInv, [Next]_vars
  PROVE  TurnInv' /\ (QuietStep \/ \E t \in Threads : CallStep(t))
<1>0. /\ TypeOK /\ pc \in [Threads -> Labels] /\ OffThreads \subseteq Threads
      /\ Callers \subseteq Threads /\ Main \in Threads /\ now \in Nat
      /\ op \in [Threads -> Calls \cup {NoCall}]
      /\ known \in [Outputs -> {"new", "present", "deleted"}]
      /\ dev \in [Outputs -> BOOLEAN] /\ output_state \in [Outputs -> BOOLEAN]
      /\ todo \subseteq Outputs /\ Radio \subseteq Outputs
      /\ MayEnter <=> Quiet
  BY OutputAssumption DEF TurnInv, TypeOK, ThreadsOK, Threads, MayEnter
<1>a. TypeOK' /\ LoadFirst'
  BY <1>0, TypeStep, LoadFirstStep DEF TurnInv
<1>b. \A t \in Threads : pc[t] # "idle" => op[t].output \in Outputs
  BY <1>0, CallFields DEF TypeOK
<1>c. ASSUME UNCHANGED <<off_until, now, dev>>,
             \A u \in Threads : pc'[u] \in {"branch", "timed", "switchTimed", "switchUntimed"}
               => dev'[op'[u].output]
      PROVE  QuietStep
  BY <1>0, <1>c DEF QuietStep
<1> USE DEF clockVars, mainVars, modVars, devVars, timerVars
<1>k. ASSUME UNCHANGED <<known, dev, output_state, off_until, pc, op>>,
             UNCHANGED now \/ (Quiet /\ now' = now + 1)
      PROVE  TurnInv' /\ QuietStep
  BY <1>a, <1>k, IdleTurn
<1>1. ASSUME NEW t \in Threads, CallStep(t) PROVE TurnInv'
  BY <1>1, <1>a, CallStepTurn
<1>2. ASSUME NEW t \in Callers, CallerStep(t) PROVE TurnInv' /\ QuietStep
  <2>1. CASE OutputOn(t)
    BY <1>0, <1>a, <1>c, <2>1, EnterCallTurn DEF OutputOn
  <2>2. CASE OutputOff(t)
    BY <1>0, <1>a, <1>c, <2>2, EnterCallTurn DEF OutputOff
  <2>3. CASE AddModOutput(t)
    <3>1. PICK o \in Outputs :
            /\ known' = [known EXCEPT ![o] = "present"]
            /\ op' = [op EXCEPT ![t] = Locals(o, 0, 0)]
            /\ pc' = [pc EXCEPT ![t] = "setup"]
            /\ UNCHANGED <<now, dev, output_state, off_until>>
      BY <2>3 DEF AddModOutput, ResetTimers, Goto
    <3>2. /\ \A u \in Threads : pc[u] \in {"idle", "spawned"}
          /\ \A u \in Threads \ {t} : pc'[u] = pc[u] /\ op'[u] = op[u]
          /\ pc'[t] = "setup" /\ op'[t].output = o /\ op'[t].now = now
      BY <1>0, <2>3, <3>1 DEF AddModOutput, Quiet, InCall, Locals
    <3>3. ServedKnown'
      BY <1>0, <1>b, <3>1, <3>2 DEF TurnInv, ServedKnown
    <3>4. OneCall' /\ CallIsNow' /\ DirectOnly' /\ RadioKnows'
      BY <3>1, <3>2 DEF TurnInv, OneCall, CallIsNow, DirectOnly, RadioKnows, InCall
    <3>5. QuietStep
      BY <1>0, <3>1, <3>2 DEF QuietStep
    <3> QED BY <1>a, <3>3, <3>4, <3>5 DEF TurnInv
  <2>4. CASE ReplaceModule(t)
    <3> DEFINE o == op[t].output
    <3>1. /\ o \in Outputs /\ pc[t] = "setup"
          /\ pc' = [pc EXCEPT ![t] = "idle"] /\ op' = [op EXCEPT ![t] = NoCall]
          /\ UNCHANGED <<known, off_until, now>>
      BY <1>0, <1>b, <2>4 DEF ReplaceModule, At, Return
    <3>2. \/ UNCHANGED devVars
          \/ /\ dev' \in {dev, [dev EXCEPT ![o] = FALSE]}
             /\ o \in Radio => dev' = dev
             /\ output_state' = [output_state EXCEPT ![o] = FALSE]
      BY <1>0, <2>4, <3>1 DEF ReplaceModule, SetUp
    <3>3. \A u \in Threads \ {t} : /\ pc[u] \in {"idle", "spawned"}
                                 /\ pc'[u] = pc[u] /\ op'[u] = op[u]
      BY <1>0, <3>1 DEF TurnInv, OneCall, InCall
    <3>4. pc'[t] = "idle"
      BY <1>0, <3>1
    <3>5. ServedKnown' /\ OneCall' /\ CallIsNow' /\ DirectOnly'
      BY <3>1, <3>3, <3>4 DEF TurnInv, ServedKnown, OneCall, CallIsNow, DirectOnly, InCall
    <3>6. RadioKnows'
      BY <1>0, <3>1, <3>2 DEF TurnInv, RadioKnows
    <3>7. QuietStep
      BY <1>0, <3>1, <3>2, <3>3, <3>4 DEF QuietStep
    <3> QED BY <1>a, <3>5, <3>6, <3>7 DEF TurnInv
  <2>5. CASE DelOutput(t)
    <3>1. PICK o \in Outputs :
            /\ known' = [known EXCEPT ![o] = "deleted"]
            /\ UNCHANGED <<now, dev, output_state, off_until, pc, op>>
      BY <2>5 DEF DelOutput
    <3>2. ServedKnown'
      BY <1>0, <1>b, <3>1 DEF TurnInv, ServedKnown
    <3>3. OneCall' /\ CallIsNow' /\ DirectOnly' /\ RadioKnows'
      BY <3>1 DEF TurnInv, OneCall, CallIsNow, DirectOnly, RadioKnows, InCall
    <3>4. QuietStep
      BY <1>0, <3>1 DEF QuietStep
    <3> QED BY <1>a, <3>2, <3>3, <3>4 DEF TurnInv
  <2>6. CASE StopController(t)
    BY <1>k, <2>6 DEF StopController
  <2> QED BY <1>2, <2>1, <2>2, <2>3, <2>4, <2>5, <2>6 DEF CallerStep
<1>3. ASSUME NEW t \in OffThreads, OffThreadStart(t) PROVE TurnInv' /\ QuietStep
  BY <1>0, <1>a, <1>b, <1>c, <1>3, EnterCallTurn DEF OffThreadStart
<1>4. CASE MainPhase \/ IterationRaises
  BY <1>k, <1>4 DEF MainPhase, IterationRaises, Iterate
<1>5. ASSUME NEW o \in Outputs, LoadOutput(o) PROVE TurnInv' /\ QuietStep
  <2>1. /\ known[o] = "new" /\ known' = [known EXCEPT ![o] = "present"]
        /\ dev' \in {dev, [dev EXCEPT ![o] = FALSE]}
        /\ o \in Radio => dev' = dev
        /\ output_state' = [output_state EXCEPT ![o] = FALSE]
        /\ UNCHANGED <<now, off_until, pc, op>>
    BY <1>0, <1>5 DEF LoadOutput, SetUp, TurnInv, LoadFirst
  <2>2. \A t \in Threads : pc[t] # "idle" => op[t].output \in Outputs \ {o}
    BY <1>b, <2>1 DEF TurnInv, ServedKnown
  <2>3. ServedKnown'
    BY <1>0, <2>1, <2>2 DEF TurnInv, ServedKnown
  <2>4. OneCall' /\ CallIsNow' /\ DirectOnly'
    BY <2>1 DEF TurnInv, OneCall, CallIsNow, DirectOnly, InCall
  <2>5. RadioKnows'
    BY <1>0, <2>1 DEF TurnInv, RadioKnows
  <2>6. QuietStep
    BY <1>0, <2>1, <2>2 DEF QuietStep
  <2> QED BY <1>a, <2>3, <2>4, <2>5, <2>6 DEF TurnInv
<1>6. ASSUME NEW o \in Outputs, MainCall(o) PROVE TurnInv' /\ QuietStep
  <2> DEFINE wish == IF phase = "startup" THEN Startup[o] ELSE Shutdown[o]
  <2>1. UNCHANGED <<now, modVars, devVars, off_until>> /\ Quiet
    BY <1>0, <1>6 DEF MainCall
  <2>2. CASE wish = "keep"
    BY <1>k, <1>6, <2>1, <2>2 DEF MainCall
  <2>3. CASE wish # "keep"
    <3>1. wish \in {"on", "off"} /\ EnterCall(Main, o, wish, 0, 0)
      BY <1>6, <2>3, OutputAssumption DEF MainCall
    <3> QED BY <1>0, <1>a, <1>c, <2>1, <3>1, EnterCallTurn
  <2> QED BY <2>2, <2>3
<1>7. ASSUME NEW o \in Outputs, Loop(o) PROVE TurnInv' /\ QuietStep
  <2>1. PICK t \in Threads : /\ pc[t] = "idle" /\ pc' = [pc EXCEPT ![t] = "spawned"]
                             /\ op' = [op EXCEPT ![t] = NewCall(o)]
    BY <1>0, <1>7 DEF Loop, Goto
  <2>2. /\ NewCall(o).output = o /\ Present(o)
        /\ UNCHANGED <<now, known, dev, output_state, off_until>>
    BY <1>7 DEF Loop, NewCall
  <2>3. /\ \A u \in Threads \ {t} : pc'[u] = pc[u] /\ op'[u] = op[u]
        /\ pc'[t] = "spawned" /\ op'[t].output = o
    BY <1>0, <2>1, <2>2
  <2>4. ServedKnown' /\ OneCall' /\ CallIsNow' /\ DirectOnly' /\ RadioKnows'
    BY <2>2, <2>3 DEF TurnInv, ServedKnown, OneCall, CallIsNow, DirectOnly, RadioKnows, InCall, Present
  <2>5. QuietStep
    BY <1>0, <2>2, <2>3 DEF QuietStep
  <2> QED BY <1>a, <2>4, <2>5 DEF TurnInv
<1>8. CASE Tick \/ UNCHANGED vars
  BY <1>0, <1>k, <1>8 DEF Tick, vars
<1> QED BY <1>1, <1>2, <1>3, <1>4, <1>5, <1>6, <1>7, <1>8 DEF Next, MainStep

\* TurnInv holds initially.
LEMMA TurnInit == Init => TurnInv
<1> SUFFICES ASSUME Init PROVE TurnInv
  OBVIOUS
<1>1. (\A t \in Threads : pc[t] = "idle") /\ (\A o \in Outputs : ~output_state[o])
  BY DEF Init
<1> QED BY <1>1, TypeInit, LoadFirstInit, OutputAssumption
  DEF TurnInv, ServedKnown, OneCall, CallIsNow, DirectOnly, RadioKnows, InCall

\* What an output was told when it went off is still in the database, or over,
\* and a call on its way to the device has made sure of that.
HeldKnown == \A o \in Outputs : ~dev[o] => held_until[o] <= off_until[o] \/ held_until[o] <= now

MayGoOn ==
  \A t \in Threads : pc[t] \in {"branch", "timed", "switchTimed", "switchUntimed"} =>
    dev[op[t].output] \/ held_until[op[t].output] <= now

HeldInv == TurnInv /\ held_until \in [Outputs -> Nat] /\ HeldKnown /\ MayGoOn

\* The history of a step.
HeldStep == held_until' = [o \in Outputs |-> IF dev[o] /\ ~dev'[o] THEN off_until[o] ELSE held_until[o]]

\* A step that is none of a call keeps what was told.
LEMMA QuietStepHeld ==
  ASSUME HeldInv, QuietStep, HeldStep, TypeOK'
  PROVE  HeldKnown' /\ MayGoOn'
<1>0. /\ now \in Nat /\ now' \in Nat /\ off_until \in [Outputs -> Nat]
      /\ dev \in [Outputs -> BOOLEAN] /\ held_until \in [Outputs -> Nat]
      /\ ThreadsOK'
  BY DEF HeldInv, TurnInv, TypeOK
<1>1. HeldKnown'
  BY <1>0 DEF HeldInv, HeldKnown, QuietStep, HeldStep
<1>2. ASSUME NEW t \in Threads, pc'[t] \in {"branch", "timed", "switchTimed", "switchUntimed"},
             ~dev'[op'[t].output]
      PROVE  held_until'[op'[t].output] <= now'
  <2>1. /\ UNCHANGED now /\ pc'[t] = pc[t] /\ op'[t] = op[t]
        /\ dev'[op[t].output] = dev[op[t].output]
    BY <1>2 DEF QuietStep
  <2>2. held_until[op[t].output] <= now
    BY <1>2, <2>1 DEF HeldInv, MayGoOn
  <2>3. op'[t].output \in Outputs
    BY <1>0, <1>2 DEF ThreadsOK, Calls
  <2> QED BY <1>2, <2>1, <2>2, <2>3 DEF HeldStep
<1> QED BY <1>1, <1>2 DEF MayGoOn

\* A step of the one call in progress keeps what was told, and switches only an
\* output that may be on.
LEMMA CallStepHeld ==
  ASSUME HeldInv, NEW t \in Threads, CallStep(t), HeldStep, TypeOK'
  PROVE  /\ HeldKnown' /\ MayGoOn'
         /\ \A o \in Outputs \ Direct : ~dev[o] /\ dev'[o] => held_until[o] <= now
<1> DEFINE o == op[t].output
           ways == {"branch", "timed", "switchTimed", "switchUntimed"}
<1>0. /\ TypeOK /\ pc \in [Threads -> Labels] /\ op \in [Threads -> Calls \cup {NoCall}]
      /\ now \in Nat /\ off_until \in [Outputs -> Nat] /\ held_until \in [Outputs -> Nat]
      /\ dev \in [Outputs -> BOOLEAN]
      /\ o \in Outputs /\ op[t].amount \in Int /\ op[t].min_off \in Nat
      /\ HeldKnown /\ MayGoOn
  BY CallStepFrame, CallFields DEF HeldInv, TurnInv, TypeOK, ThreadsOK
<1>1. /\ now' = now /\ op[t].now = now
      /\ \A u \in Threads \ {t} : /\ pc[u] \in {"idle", "spawned"} /\ pc'[u] = pc[u]
      /\ pc' = [pc EXCEPT ![t] = "idle"] \/ UNCHANGED op
  BY <1>0, CallStepFrame DEF HeldInv, TurnInv, OneCall, CallIsNow, InCall, Return
<1>2. SUFFICES /\ HeldKnown'
               /\ pc'[t] \in ways => dev'[o] \/ held_until'[o] <= now
               /\ \A q \in Outputs \ Direct : ~dev[q] /\ dev'[q] => held_until[q] <= now
  BY <1>0, <1>1 DEF MayGoOn
<1> HIDE DEF o, ways
<1> USE DEF devVars
<1>3. CASE CheckOffUntil(t)
  <2>1. UNCHANGED <<dev, off_until>> /\ (pc'[t] = "idle" \/ off_until[o] <= now)
    BY <1>0, <1>1, <1>3 DEF CheckOffUntil, MustStayOff, Return, o
  <2>2. held_until' = held_until
    BY <1>0, <2>1 DEF HeldStep
  <2> QED BY <1>0, <1>1, <2>1, <2>2 DEF HeldKnown, ways
<1>4. CASE SetOffUntil(t)
  <2>1. /\ UNCHANGED dev /\ pc[t] \in ways /\ off_until'[o] \in Nat
        /\ off_until'[o] = off_until[o] \/ off_until'[o] >= now
        /\ \A q \in Outputs \ {o} : off_until'[q] = off_until[q]
    BY <1>0, <1>1, <1>4 DEF SetOffUntil, At, Abs, o, ways
  <2>2. held_until' = held_until
    BY <1>0, <2>1 DEF HeldStep
  <2> QED BY <1>0, <1>1, <2>1, <2>2 DEF HeldKnown, MayGoOn, ways, o
<1>5. CASE SwitchOn(t)
  <2>1. /\ dev' = [dev EXCEPT ![o] = TRUE] /\ UNCHANGED off_until
        /\ pc'[t] \in {"idle", "recordTimed"}
    BY <1>0, <1>5 DEF SwitchOn, Drive, Goto, Return, o
  <2>2. held_until' = held_until
    BY <1>0, <2>1 DEF HeldStep
  <2>3. o \in Direct \/ dev[o] \/ held_until[o] <= now
    BY <1>0, <1>5 DEF SwitchOn, HeldInv, TurnInv, DirectOnly, MayGoOn, o
  <2> QED BY <1>0, <1>1, <2>1, <2>2, <2>3 DEF HeldKnown, ways
<1>6. CASE SwitchOff(t)
  <2>1. /\ dev' = [dev EXCEPT ![o] = FALSE] /\ UNCHANGED off_until /\ pc'[t] = "recordOff"
    BY <1>0, <1>6 DEF SwitchOff, Drive, Goto, o
  <2>2. HeldKnown'
    BY <1>0, <1>1, <2>1 DEF HeldStep, HeldKnown
  <2> QED BY <1>0, <2>1, <2>2 DEF ways
<1>7. CASE \/ CheckAmps(t) \/ Extend(t) \/ NotForAnAmount(t) \/ OnUntimed(t)
           \/ SwitchRaises(t) \/ RecordTimed(t) \/ RecordOff(t) \/ KeyErrorAbort(t)
  <2>1. /\ UNCHANGED <<dev, off_until>>
        /\ pc'[t] \notin ways \/ pc[t] \in ways
    BY <1>0, <1>7 DEF CheckAmps, Extend, NotForAnAmount, OnUntimed, SwitchRaises, Raise,
      RecordTimed, RecordOff, KeyErrorAbort, Return, Goto, At, ways
  <2>2. held_until' = held_until
    BY <1>0, <2>1 DEF HeldStep
  <2> QED BY <1>0, <1>1, <2>1, <2>2 DEF HeldKnown, MayGoOn, ways, o
<1> QED BY <1>3, <1>4, <1>5, <1>6, <1>7 DEF CallStep

\* HeldInv is inductive, and a step that breaks no promise is all there is.
LEMMA HeldInvStep ==
  ASSUME ~Overlap, HeldInv, [HNext]_hvars
  PROVE  /\ HeldInv'
         /\ \A o \in Outputs \ Direct : ~dev[o] /\ dev'[o] => held_until[o] <= now
<1>0. TurnInv /\ TypeOK
  BY DEF HeldInv, TurnInv
<1>1. CASE HNext
  <2>1. TurnInv' /\ (QuietStep \/ \E t \in Threads : CallStep(t))
    BY <1>0, <1>1, TurnStep DEF HNext
  <2>2. HeldStep /\ TypeOK'
    BY <1>1, <2>1 DEF HNext, HeldStep, TurnInv
  <2>3. held_until' \in [Outputs -> Nat]
    BY <1>0, <2>2 DEF HeldInv, HeldStep, TypeOK
  <2>4. CASE QuietStep
    <3>1. \A o \in Outputs : ~(~dev[o] /\ dev'[o])
      BY <2>4 DEF QuietStep
    <3> QED BY <2>1, <2>2, <2>3, <2>4, <3>1, QuietStepHeld DEF HeldInv
  <2>5. ASSUME NEW t \in Threads, CallStep(t)
        PROVE  /\ HeldInv'
               /\ \A o \in Outputs \ Direct : ~dev[o] /\ dev'[o] => held_until[o] <= now
    BY <2>1, <2>2, <2>3, <2>5, CallStepHeld DEF HeldInv
  <2> QED BY <2>1, <2>4, <2>5
<1>2. CASE UNCHANGED hvars
  <2>1. UNCHANGED vars /\ UNCHANGED held_until
    BY <1>2 DEF hvars
  <2>2. TurnInv'
    BY <1>0, <2>1, TurnStep
  <2>3. HeldKnown' /\ MayGoOn' /\ UNCHANGED dev
    BY <2>1 DEF HeldInv, HeldKnown, MayGoOn, vars, clockVars, devVars
  <2> QED BY <2>1, <2>2, <2>3 DEF HeldInv
<1> QED BY <1>1, <1>2

\* When calls do not overlap, an output that went off while it had to stay off
\* is not switched on again before its time, whichever requests are made,
\* outputs changed or deleted, and transmissions or set-ups fail.
THEOREM OutputsStayOff ==
  ASSUME ~Overlap
  PROVE  HSpec => StaysOff
<1>1. HInit => HeldInv
  <2> SUFFICES ASSUME HInit PROVE HeldInv
    OBVIOUS
  <2>1. /\ \A t \in Threads : pc[t] = "idle"
        /\ \A o \in Outputs : held_until[o] = off_until[o]
        /\ held_until \in [Outputs -> Nat]
    BY DEF HInit, Init
  <2>2. HeldKnown /\ MayGoOn
    BY <2>1 DEF HeldKnown, MayGoOn
  <2> QED BY <2>1, <2>2, TurnInit DEF HInit, HeldInv
<1>2. HeldInv /\ [HNext]_hvars => HeldInv'
  BY HeldInvStep
<1>3. HeldInv /\ [HNext]_hvars
        => [\A o \in Outputs \ Direct : ~dev[o] /\ dev'[o] => held_until[o] <= now]_hvars
  BY HeldInvStep
<1> QED BY <1>1, <1>2, <1>3, PTL DEF HSpec, StaysOff
=============================================================================
