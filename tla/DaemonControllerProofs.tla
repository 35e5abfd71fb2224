----------------------- MODULE DaemonControllerProofs -----------------------
(***************************************************************************)
(* Theorems about DaemonController, for any controllers, clients and       *)
(* number of threads.                                                      *)
(***************************************************************************)
EXTENDS DaemonController, TLAPS

\* The schedules in which no two requests are for one controller at once.
ExclusionAssumption == Exclusion # "none"

(***************************************************************************)
(* The invariant                                                           *)
(***************************************************************************)
Activating(t) == pc[t] \in {"save", "create", "start", "ready"}

Asleep(x) == stage[x] # "new" /\ ~Sampling(x)

\* Whoever activates a controller has it for itself.
Exclusive ==
  \A t \in Workers, u \in Workers :
    Activating(t) /\ Activating(u) /\ op[t].id = op[u].id => t = u

\* What a request knows of the controller it activates: nothing is at work
\* until it has put its own thread into the dictionary.
ActivationOK ==
  \A t \in Workers :
    /\ Activating(t) => op[t].id \in Ids
    /\ pc[t] \in {"save", "create"} /\ Known(op[t].id) => Asleep(controller[op[t].id])
    /\ pc[t] = "start" =>
         /\ Known(op[t].id)
         /\ stage[controller[op[t].id]] = "new" /\ serves[controller[op[t].id]] = op[t].id

\* A page's request is for some controller.
PendingOK ==
  \A t \in Workers : pc[t] \in {"webActivate", "webDeactivate"} => op[t].id \in Ids

\* A thread object that is in use belongs to a controller and says that it is
\* running only while it is in its loop.
ObjectsOK ==
  \A x \in Objects :
    /\ stage[x] # "unborn" => serves[x] \in Ids
    /\ running[x] => stage[x] = "loop"

Sound == Exclusive /\ ActivationOK /\ PendingOK /\ ObjectsOK /\ NoOrphan

IInv == TypeOK /\ Sound

(***************************************************************************)
(* Type correctness                                                        *)
(***************************************************************************)
\* The types hold initially.
LEMMA TypeInit == Init => TypeOK
BY DaemonAssumption DEF Init, TypeOK, NoOp, Ops, Labels, Tiers

\* What entering and leaving a request do to the workers' types.
LEMMA WorkerTypes ==
  ASSUME TypeOK, NEW t \in Workers
  PROVE  /\ Return(t) => pc' \in [Workers -> Labels] /\ op' \in [Workers -> Ops]
         /\ \A l \in Labels : Goto(t, l) => pc' \in [Workers -> Labels]
         /\ \A id \in Ids, x \in Objects \cup {None} :
              op' = [op EXCEPT ![t] = [id |-> id, thread |-> x]] => op' \in [Workers -> Ops]
<1>1. NoOp \in Ops
  BY DEF NoOp, Ops
<1>2. \A id \in Ids, x \in Objects \cup {None} : [id |-> id, thread |-> x] \in Ops
  BY DEF Ops
<1>3. "idle" \in Labels
  BY DEF Labels
<1>4. pc \in [Workers -> Labels] /\ op \in [Workers -> Ops]
  BY DEF TypeOK
<1> QED BY <1>1, <1>2, <1>3, <1>4 DEF Return, Goto

\* Entering an activation keeps the workers' types.
LEMMA EnterActivateType ==
  ASSUME TypeOK, NEW t \in Workers, NEW id \in Ids, EnterActivate(t, id)
  PROVE  pc' \in [Workers -> Labels] /\ op' \in [Workers -> Ops]
BY WorkerTypes DEF EnterActivate, Labels

\* Entering a deactivation keeps the types of all it changes.
LEMMA EnterDeactivateType ==
  ASSUME TypeOK, NEW t \in Workers, NEW id \in Ids, EnterDeactivate(t, id)
  PROVE  /\ pc' \in [Workers -> Labels] /\ op' \in [Workers -> Ops]
         /\ running' \in [Objects -> BOOLEAN] /\ is_activated' \in [Ids -> BOOLEAN]
<1>1. CASE ~is_running(id) \/ StopRaises(controller[id])
  BY <1>1, WorkerTypes DEF EnterDeactivate, TypeOK
<1>2. CASE ~(~is_running(id) \/ StopRaises(controller[id]))
  <2>1. controller[id] \in Objects
    BY <1>2 DEF is_running, Known, TypeOK
  <2> QED BY <1>2, <2>1, WorkerTypes DEF EnterDeactivate, StopRunning, TypeOK, Labels
<1> QED BY <1>1, <1>2

\* Every step keeps the types.
LEMMA TypeStep == TypeOK /\ PendingOK /\ ActivationOK /\ [Next]_vars => TypeOK'
<1> SUFFICES ASSUME TypeOK, PendingOK, ActivationOK, [Next]_vars PROVE TypeOK'
  OBVIOUS
<1> USE DEF mainVars, objectVars, workVars
<1>1. CASE UNCHANGED vars
  BY <1>1 DEF TypeOK, vars
<1>2. ASSUME NEW t \in Workers, RequestStep(t) PROVE TypeOK'
  <2>1. CASE SaveActive(t)
    BY <2>1, WorkerTypes DEF SaveActive, At, TypeOK, Labels
  <2>2. CASE CreateThread(t)
    <3>1. PICK x \in Objects : CreateThread(t)!(x)
      BY <2>2 DEF CreateThread
    <3>2. op[t].id \in Ids
      BY <3>1 DEF ActivationOK, Activating, At
    <3>3. op' \in [Workers -> Ops]
      BY <3>1 DEF TypeOK, Ops
    <3> QED BY <3>1, <3>2, <3>3, WorkerTypes DEF TypeOK, Labels
  <2>3. CASE StartThread(t)
    BY <2>3, WorkerTypes DEF StartThread, TypeOK, Labels
  <2>4. CASE ReadyWait(t) \/ Join(t) \/ Terminated(t)
    BY <2>4, WorkerTypes DEF ReadyWait, Join, Terminated, TypeOK
  <2>5. CASE WebCall(t)
    <3>1. op[t].id \in Ids
      BY <2>5 DEF WebCall, PendingOK, At
    <3> QED BY <2>5, <3>1, WorkerTypes, EnterActivateType, EnterDeactivateType DEF WebCall, TypeOK
  <2> QED BY <1>2, <2>1, <2>2, <2>3, <2>4, <2>5 DEF RequestStep
<1>3. ASSUME NEW t \in Clients, NewRequest(t) PROVE TypeOK'
  <2>0. t \in Workers
    BY DEF Workers
  <2>1. ASSUME NEW id \in Ids, ApiActivate(t, id) PROVE TypeOK'
    BY <2>0, <2>1, EnterActivateType DEF ApiActivate, TypeOK
  <2>2. ASSUME NEW id \in Ids, ApiDeactivate(t, id) PROVE TypeOK'
    BY <2>0, <2>2, EnterDeactivateType DEF ApiDeactivate, TypeOK
  <2>3. ASSUME NEW id \in Ids, NEW active \in BOOLEAN, WebSave(t, id, active) PROVE TypeOK'
    BY <2>0, <2>3, WorkerTypes DEF WebSave, WebSaved, TypeOK, Labels
  <2> QED BY <1>3, <2>1, <2>2, <2>3 DEF NewRequest
<1>4. ASSUME NEW x \in Objects, ThreadStep(x) \/ MethodEnds(x) PROVE TypeOK'
  BY <1>4 DEF ThreadStep, MethodEnds, Initialize, BeginLoop, EndLoop, RunFinally, StopRunning, TypeOK
<1>5. CASE MainStep
  <2>0. Main \in Workers
    BY DEF Workers
  <2>1. CASE ReadTables \/ StartTier \/ JoinTier \/ JoinOutput \/ StopFails
    BY <2>1 DEF ReadTables, StartTier, JoinTier, JoinOutput, StopFails, TypeOK, Tiers
  <2>2. CASE BeginStop \/ StopTier
    BY <2>2 DEF BeginStop, StopTier, InDictionary, Tier, TypeOK, Tiers
  <2>3. CASE MainJoin
    BY <2>0, <2>3, WorkerTypes DEF MainJoin, TypeOK
  <2>4. ASSUME NEW id \in Ids, StartNext(id) PROVE TypeOK'
    BY <2>0, <2>4, EnterActivateType DEF StartNext, TypeOK
  <2>5. ASSUME NEW id \in Ids, StopNext(id) PROVE TypeOK'
    BY <2>5 DEF StopNext, StopRunning, TypeOK
  <2>6. ASSUME NEW id \in Ids, JoinNext(id) PROVE TypeOK'
    <3>1. controller[id] \in Objects \cup {None}
      BY DEF TypeOK
    <3> QED BY <2>0, <2>6, <3>1, WorkerTypes DEF JoinNext, TypeOK, Labels
  <2> QED BY <1>5, <2>1, <2>2, <2>3, <2>4, <2>5, <2>6 DEF MainStep
<1>6. CASE OutputEnds \/ LoopRaises \/ Restart
  BY <1>6 DEF OutputEnds, LoopRaises, Restart, TypeOK
<1>7. CASE Exit \/ Crash
  <2>1. Gone
    BY <1>7 DEF Exit, Crash
  <2>2. pc' \in [Workers -> Labels]
    BY <2>1 DEF Gone, TypeOK, Labels
  <2>3. NoOp \in Ops
    BY DEF NoOp, Ops
  <2>4. op' \in [Workers -> Ops]
    BY <2>1, <2>3 DEF Gone, TypeOK
  <2> QED BY <2>1, <2>2, <2>4 DEF Gone, TypeOK, Tiers
<1>8. ASSUME NEW t \in Stoppers, TerminateDaemon(t) PROVE TypeOK'
  <2>1. t \in Workers
    BY DEF Workers
  <2> QED BY <1>8, <2>1, WorkerTypes DEF TerminateDaemon, TypeOK, Labels
<1> QED BY <1>1, <1>2, <1>3, <1>4, <1>5, <1>6, <1>7, <1>8 DEF Next

(***************************************************************************)
(* One thread for each controller                                          *)
(***************************************************************************)
\* The invariant holds initially.
LEMMA SoundInit == Init => Sound
BY DEF Init, Sound, Exclusive, ActivationOK, PendingOK, ObjectsOK, NoOrphan, Activating, Sampling

\* A step that sets no thread to work, and one that lets no request begin or go on
\* to another part of an activation.
ObjectsCalm ==
  \A x \in Objects :
    /\ Sampling(x)' => Sampling(x)
    /\ stage'[x] = "new" <=> stage[x] = "new"
    /\ stage'[x] # "unborn" => stage[x] # "unborn"
    /\ running'[x] => stage'[x] = "loop"

WorkersCalm ==
  \A t \in Workers :
    /\ Activating(t)' => Activating(t) /\ op'[t] = op[t]
    /\ pc'[t] \in {"save", "create"} => pc[t] \in {"save", "create"}
    /\ pc'[t] = "start" => pc[t] = "start"
    /\ pc'[t] \in {"webActivate", "webDeactivate"} => op'[t].id \in Ids

\* A calm step keeps the invariant.
LEMMA CalmSound ==
  ASSUME IInv, UNCHANGED <<controller, serves>>, ObjectsCalm, WorkersCalm
  PROVE  Sound'
<1>0. controller \in [Ids -> Objects \cup {None}]
  BY DEF IInv, TypeOK
<1>1. Exclusive' /\ PendingOK'
  BY DEF IInv, Sound, Exclusive, PendingOK, WorkersCalm
<1>2. ObjectsOK' /\ NoOrphan'
  BY DEF IInv, Sound, ObjectsOK, NoOrphan, ObjectsCalm
<1>3. ActivationOK'
  <2> SUFFICES ASSUME NEW t \in Workers
               PROVE  /\ Activating(t)' => op'[t].id \in Ids
                      /\ pc'[t] \in {"save", "create"} /\ controller[op'[t].id] # None
                           => Asleep(controller[op[t].id])'
                      /\ pc'[t] = "start" =>
                           /\ controller[op'[t].id] # None
                           /\ stage'[controller[op'[t].id]] = "new"
                           /\ serves[controller[op'[t].id]] = op'[t].id
    BY DEF ActivationOK, Known, Asleep, Sampling
  <2>1. CASE ~Activating(t)'
    BY <2>1 DEF Activating
  <2>2. CASE Activating(t)'
    <3>1. Activating(t) /\ op'[t] = op[t] /\ op[t].id \in Ids
      BY <2>2 DEF WorkersCalm, IInv, Sound, ActivationOK
    <3>2. controller[op[t].id] # None => controller[op[t].id] \in Objects
      BY <1>0, <3>1
    <3>3. /\ pc'[t] \in {"save", "create"} => pc[t] \in {"save", "create"}
          /\ pc'[t] = "start" => pc[t] = "start"
      BY DEF WorkersCalm
    <3>4. pc[t] \in {"save", "create"} /\ controller[op[t].id] # None
            => Asleep(controller[op[t].id])
      BY DEF IInv, Sound, ActivationOK, Known
    <3>5. pc[t] = "start" => /\ controller[op[t].id] # None
                             /\ stage[controller[op[t].id]] = "new"
                             /\ serves[controller[op[t].id]] = op[t].id
      BY DEF IInv, Sound, ActivationOK, Known
    <3>6. \A x \in Objects : stage[x] = "new" => stage'[x] = "new"
      BY DEF ObjectsCalm
    <3>7. controller'[op'[t].id] = controller[op[t].id]
      BY <3>1
    <3>8. pc'[t] \in {"save", "create"} /\ controller[op[t].id] # None
            => Asleep(controller[op[t].id])'
      <4> SUFFICES ASSUME pc[t] \in {"save", "create"}, controller[op[t].id] # None
                   PROVE  Asleep(controller[op[t].id])'
        BY <3>3
      <4>1. PICK x \in Objects : x = controller[op[t].id]
        BY <3>2
      <4>2. stage[x] # "new" /\ ~Sampling(x)
        BY <3>4, <4>1 DEF Asleep
      <4>3. stage'[x] # "new" /\ ~Sampling(x)'
        BY <4>2 DEF ObjectsCalm
      <4> QED BY <3>7, <4>1, <4>3, <3>1 DEF Asleep, Sampling
    <3>9. pc'[t] = "start" => /\ controller[op[t].id] # None
                              /\ stage'[controller[op[t].id]] = "new"
                              /\ serves[controller[op[t].id]] = op[t].id
      <4> SUFFICES ASSUME pc[t] = "start"
                   PROVE  /\ controller[op[t].id] # None
                          /\ stage'[controller[op[t].id]] = "new"
                          /\ serves[controller[op[t].id]] = op[t].id
        BY <3>3
      <4>1. controller[op[t].id] \in Objects
        BY <3>2, <3>5
      <4> QED BY <3>5, <3>6, <4>1
    <3> QED BY <3>1, <3>8, <3>9
  <2> QED BY <2>1, <2>2
<1> QED BY <1>1, <1>2, <1>3 DEF Sound

\* A step that does not touch the threads is calm for them.
LEMMA SameObjectsCalm ==
  ASSUME IInv, UNCHANGED <<stage, running>>
  PROVE  ObjectsCalm
BY DEF IInv, Sound, ObjectsOK, ObjectsCalm, Sampling

\* A step that does not touch the requests is calm for them.
LEMMA SameWorkersCalm ==
  ASSUME IInv, UNCHANGED workVars
  PROVE  WorkersCalm
BY DEF IInv, Sound, PendingOK, WorkersCalm, Activating, workVars

\* So is a worker that ends its request or goes on with something else.
LEMMA OneWorkerCalm ==
  ASSUME IInv, NEW t \in Workers,
         \A u \in Workers \ {t} : pc'[u] = pc[u] /\ op'[u] = op[u],
         pc'[t] \in {"idle", "join", "terminate"} \/ (Activating(t) /\ pc'[t] = "ready" /\ op'[t] = op[t])
           \/ (pc'[t] \in {"webActivate", "webDeactivate"} /\ op'[t].id \in Ids)
           \/ (pc[t] = "save" /\ pc'[t] = "create" /\ op'[t] = op[t])
  PROVE  WorkersCalm
BY DEF IInv, Sound, PendingOK, WorkersCalm, Activating

\* Telling a thread to stop is calm.
LEMMA StopCalm ==
  ASSUME IInv, NEW x \in Objects, StopRunning(x), UNCHANGED stage
  PROVE  ObjectsCalm
BY DEF IInv, TypeOK, Sound, ObjectsOK, ObjectsCalm, Sampling, StopRunning

\* A request may begin to activate a controller that nobody else activates and
\* whose last thread is not at work.
LEMMA EnterActivateSound ==
  ASSUME IInv, ExclusionAssumption, DaemonAssumption, NEW t \in Workers, NEW id \in Ids,
         MayBegin(t, id), EnterActivate(t, id),
         UNCHANGED <<controller, stage, running, serves>>
  PROVE  Sound'
<1>0. /\ pc \in [Workers -> Labels] /\ op \in [Workers -> Ops]
      /\ controller \in [Ids -> Objects \cup {None}]
  BY DEF IInv, TypeOK
<1>1. CASE AlreadyActive(id)
  BY <1>0, <1>1, OneWorkerCalm, SameObjectsCalm, CalmSound DEF EnterActivate, Return
<1>2. CASE ~AlreadyActive(id)
  <2>1. /\ pc' = [pc EXCEPT ![t] = "save"]
        /\ op' = [op EXCEPT ![t] = [id |-> id, thread |-> None]]
    BY <1>2 DEF EnterActivate, Goto
  <2>2. Settled(id)
    BY DEF MayBegin, ExclusionAssumption, DaemonAssumption, AllSettled
  <2>3. \A u \in Workers \ {t} : Activating(u) => op[u].id # id
    BY DEF MayBegin, ExclusionAssumption, DaemonAssumption, Activating, Busy
  <2>4. Known(id) => Asleep(controller[id])
    BY <1>2, <2>2 DEF Settled, Asleep, Sampling, AlreadyActive, is_running, Known
  <2>5. pc'[t] = "save" /\ op'[t].id = id /\ \A u \in Workers \ {t} : pc'[u] = pc[u] /\ op'[u] = op[u]
    BY <1>0, <2>1
  <2>6. Exclusive'
    BY <2>3, <2>5 DEF IInv, Sound, Exclusive, Activating
  <2>7. PendingOK'
    BY <2>5 DEF IInv, Sound, PendingOK
  <2>8. ActivationOK'
    BY <2>4, <2>5 DEF IInv, Sound, ActivationOK, Activating, Known, Asleep, Sampling
  <2>9. ObjectsOK' /\ NoOrphan'
    BY DEF IInv, Sound, ObjectsOK, NoOrphan, Sampling
  <2> QED BY <2>6, <2>7, <2>8, <2>9 DEF Sound
<1> QED BY <1>1, <1>2

\* Deactivating a controller is calm.
LEMMA EnterDeactivateSound ==
  ASSUME IInv, NEW t \in Workers, NEW id \in Ids, EnterDeactivate(t, id),
         UNCHANGED <<controller, stage, serves>>
  PROVE  Sound'
<1>0. /\ pc \in [Workers -> Labels] /\ op \in [Workers -> Ops]
      /\ controller \in [Ids -> Objects \cup {None}]
  BY DEF IInv, TypeOK
<1>1. CASE ~is_running(id) \/ StopRaises(controller[id])
  BY <1>0, <1>1, OneWorkerCalm, SameObjectsCalm, CalmSound DEF EnterDeactivate, Return
<1>2. CASE ~(~is_running(id) \/ StopRaises(controller[id]))
  <2>1. controller[id] \in Objects
    BY <1>0, <1>2 DEF is_running, Known
  <2>2. ObjectsCalm
    BY <1>2, <2>1, StopCalm DEF EnterDeactivate
  <2>3. WorkersCalm
    BY <1>0, <1>2, OneWorkerCalm DEF EnterDeactivate, Goto
  <2> QED BY <2>2, <2>3, CalmSound
<1> QED BY <1>1, <1>2

\* A new thread takes the place of one that is not at work.
LEMMA CreateThreadSound ==
  ASSUME IInv, NEW t \in Workers, CreateThread(t)
  PROVE  Sound'
<1>1. PICK x \in Objects : CreateThread(t)!(x)
  BY DEF CreateThread
<1> DEFINE id == op[t].id
<1>0. /\ pc \in [Workers -> Labels] /\ op \in [Workers -> Ops]
      /\ controller \in [Ids -> Objects \cup {None}]
      /\ stage \in [Objects -> {"unborn", "new", "initializing", "ready", "loop", "finally", "dead"}]
      /\ running \in [Objects -> BOOLEAN] /\ serves \in [Objects -> Ids \cup {None}]
  BY DEF IInv, TypeOK
<1>2. /\ pc[t] = "create" /\ Unused(x, op[t].id)
      /\ controller' = [controller EXCEPT ![id] = x]
      /\ stage' = [stage EXCEPT ![x] = "new"] /\ running' = [running EXCEPT ![x] = FALSE]
      /\ serves' = [serves EXCEPT ![x] = id]
      /\ pc' = [pc EXCEPT ![t] = "start"] /\ op' = [op EXCEPT ![t].thread = x]
  BY <1>1 DEF At, Goto
<1>3. id \in Ids
  BY <1>2 DEF IInv, Sound, ActivationOK, Activating
<1>4. op'[t].id = id /\ pc'[t] = "start"
      /\ \A u \in Workers \ {t} : pc'[u] = pc[u] /\ op'[u] = op[u]
  BY <1>0, <1>2 DEF Ops
<1>5. \A u \in Workers \ {t} : Activating(u) => op[u].id # id
  BY <1>2 DEF IInv, Sound, Exclusive, Activating
<1>6. x # None /\ controller'[id] = x /\ stage'[x] = "new" /\ serves'[x] = id /\ ~running'[x]
  BY <1>0, <1>2, <1>3, DaemonAssumption
<1>7. \A i \in Ids \ {id} : controller'[i] = controller[i] /\ controller[i] # x
  BY <1>0, <1>2 DEF Unused
<1>8. \A y \in Objects \ {x} : stage'[y] = stage[y] /\ running'[y] = running[y] /\ serves'[y] = serves[y]
  BY <1>0, <1>2
<1>9. Exclusive'
  BY <1>2, <1>4, <1>5 DEF IInv, Sound, Exclusive, Activating
<1>10. PendingOK'
  BY <1>4 DEF IInv, Sound, PendingOK
<1>11. ObjectsOK'
  BY <1>3, <1>6, <1>8 DEF IInv, Sound, ObjectsOK
<1>12. ActivationOK'
  <2> SUFFICES ASSUME NEW u \in Workers
               PROVE  /\ Activating(u)' => op'[u].id \in Ids
                      /\ pc'[u] \in {"save", "create"} /\ controller'[op'[u].id] # None
                           => Asleep(controller[op[u].id])'
                      /\ pc'[u] = "start" =>
                           /\ controller'[op'[u].id] # None
                           /\ stage'[controller'[op'[u].id]] = "new"
                           /\ serves'[controller'[op'[u].id]] = op'[u].id
    BY DEF ActivationOK, Known, Asleep, Sampling
  <2>1. CASE u = t
    BY <1>3, <1>4, <1>6, <2>1
  <2>2. CASE u # t /\ Activating(u)
    <3>1. /\ pc'[u] = pc[u] /\ op'[u] = op[u] /\ op[u].id # id /\ op[u].id \in Ids
      BY <1>4, <1>5, <2>2 DEF IInv, Sound, ActivationOK
    <3>2. controller'[op[u].id] = controller[op[u].id] /\ controller[op[u].id] # x
      BY <1>7, <3>1
    <3>3. controller[op[u].id] # None => controller[op[u].id] \in Objects \ {x}
      BY <1>0, <3>1, <3>2
    <3> QED BY <1>8, <3>1, <3>2, <3>3 DEF IInv, Sound, ActivationOK, Known, Asleep, Sampling, Activating
  <2>3. CASE u # t /\ ~Activating(u)
    BY <1>4, <2>3 DEF Activating
  <2> QED BY <2>1, <2>2, <2>3
<1>13. NoOrphan'
  <2> SUFFICES ASSUME NEW y \in Objects, Sampling(y)' PROVE controller'[serves'[y]] = y
    BY DEF NoOrphan
  <2>1. y # x
    BY <1>6 DEF Sampling
  <2>2. Sampling(y) /\ serves'[y] = serves[y] /\ controller[serves[y]] = y
    BY <1>8, <2>1 DEF Sampling, IInv, Sound, NoOrphan
  <2>3. serves[y] \in Ids
    BY <2>2 DEF Sampling, IInv, Sound, ObjectsOK
  <2>4. serves[y] # id
    <3>1. Known(id) => Asleep(controller[id])
      BY <1>2 DEF IInv, Sound, ActivationOK
    <3>2. y # None
      BY DaemonAssumption
    <3> QED BY <2>2, <3>1, <3>2 DEF Known, Asleep
  <2> QED BY <1>7, <2>2, <2>3, <2>4
<1> QED BY <1>9, <1>10, <1>11, <1>12, <1>13 DEF Sound

\* The thread that is started is the one in the dictionary.
LEMMA StartThreadSound ==
  ASSUME IInv, NEW t \in Workers, StartThread(t)
  PROVE  Sound'
<1> DEFINE id == op[t].id
           x  == controller[id]
<1>0. /\ pc \in [Workers -> Labels] /\ op \in [Workers -> Ops]
      /\ controller \in [Ids -> Objects \cup {None}]
      /\ stage \in [Objects -> {"unborn", "new", "initializing", "ready", "loop", "finally", "dead"}]
  BY DEF IInv, TypeOK
<1>1. /\ pc[t] = "start" /\ id \in Ids /\ x # None /\ stage[x] = "new" /\ serves[x] = id
  BY DEF StartThread, At, IInv, Sound, ActivationOK, Activating, Known
<1>2. x \in Objects
  BY <1>0, <1>1
<1>3. /\ stage' = [stage EXCEPT ![x] = "initializing"] /\ pc' = [pc EXCEPT ![t] = "ready"]
      /\ UNCHANGED <<op, controller, running, serves>>
  BY <1>1 DEF StartThread, Startable, Goto
<1>4. /\ stage'[x] = "initializing" /\ pc'[t] = "ready"
      /\ \A y \in Objects \ {x} : stage'[y] = stage[y]
      /\ \A u \in Workers \ {t} : pc'[u] = pc[u]
  BY <1>0, <1>2, <1>3
<1>5. Exclusive' /\ PendingOK'
  BY <1>1, <1>3, <1>4 DEF IInv, Sound, Exclusive, PendingOK, Activating
<1>6. ObjectsOK' /\ NoOrphan'
  BY <1>1, <1>2, <1>3, <1>4 DEF IInv, Sound, ObjectsOK, NoOrphan, Sampling
<1>7. ActivationOK'
  <2> SUFFICES ASSUME NEW u \in Workers, u # t, Activating(u)
               PROVE  /\ op[u].id \in Ids
                      /\ pc[u] \in {"save", "create"} /\ controller[op[u].id] # None
                           => Asleep(controller[op[u].id])'
                      /\ pc[u] = "start" =>
                           /\ controller[op[u].id] # None
                           /\ stage'[controller[op[u].id]] = "new"
                           /\ serves[controller[op[u].id]] = op[u].id
    BY <1>1, <1>3, <1>4 DEF ActivationOK, Known, Asleep, Sampling, Activating
  <2>1. op[u].id \in Ids /\ op[u].id # id
    BY <1>1 DEF IInv, Sound, ActivationOK, Exclusive, Activating
  <2>2. pc[u] \in {"save", "create"} /\ controller[op[u].id] # None => controller[op[u].id] # x
    BY <1>1 DEF IInv, Sound, ActivationOK, Asleep, Known
  <2>3. pc[u] = "start" => controller[op[u].id] # x
    BY <1>1, <2>1 DEF IInv, Sound, ActivationOK
  <2>4. controller[op[u].id] # None => controller[op[u].id] \in Objects
    BY <1>0, <2>1
  <2> QED BY <1>3, <1>4, <2>1, <2>2, <2>3, <2>4 DEF IInv, Sound, ActivationOK, Asleep, Known, Sampling
<1> QED BY <1>5, <1>6, <1>7 DEF Sound

\* A thread's own step: it ends its set-up, its loop or itself.
LEMMA ThreadStepSound ==
  ASSUME IInv, NEW x \in Objects, ThreadStep(x)
  PROVE  Sound'
<1>0. /\ stage \in [Objects -> {"unborn", "new", "initializing", "ready", "loop", "finally", "dead"}]
      /\ running \in [Objects -> BOOLEAN]
  BY DEF IInv, TypeOK
<1>1. UNCHANGED <<controller, serves, workVars>>
  BY DEF ThreadStep, Initialize, BeginLoop, EndLoop, RunFinally
<1>2. ObjectsCalm
  <2>0. \A y \in Objects : running[y] => stage[y] = "loop"
    BY DEF IInv, Sound, ObjectsOK
  <2>1. CASE Initialize(x)
    BY <1>0, <2>0, <2>1 DEF Initialize, ObjectsCalm, Sampling
  <2>2. CASE BeginLoop(x)
    BY <1>0, <2>0, <2>2 DEF BeginLoop, ObjectsCalm, Sampling
  <2>3. CASE EndLoop(x)
    BY <1>0, <2>0, <2>3 DEF EndLoop, ObjectsCalm, Sampling
  <2>4. CASE RunFinally(x)
    BY <1>0, <2>0, <2>4 DEF RunFinally, ObjectsCalm, Sampling
  <2> QED BY <2>1, <2>2, <2>3, <2>4 DEF ThreadStep
<1> QED BY <1>1, <1>2, SameWorkersCalm, CalmSound

\* The invariant is kept by every step, as long as no two requests are for one
\* controller at once.
LEMMA SoundStep ==
  ASSUME IInv, ExclusionAssumption, DaemonAssumption, [Next]_vars
  PROVE  Sound'
<1> USE DEF mainVars, objectVars, workVars
<1>0. /\ pc \in [Workers -> Labels] /\ op \in [Workers -> Ops] /\ Main \in Workers
      /\ controller \in [Ids -> Objects \cup {None}]
  BY DEF IInv, TypeOK, Workers
<1>1. CASE UNCHANGED vars
  BY <1>1, SameWorkersCalm, SameObjectsCalm, CalmSound DEF vars
<1>2. ASSUME NEW t \in Workers, RequestStep(t) PROVE Sound'
  <2>1. CASE SaveActive(t)
    <3>1. WorkersCalm
      BY <1>0, <2>1, OneWorkerCalm DEF SaveActive, At, Goto
    <3> QED BY <2>1, <3>1, SameObjectsCalm, CalmSound DEF SaveActive
  <2>2. CASE ReadyWait(t) \/ Join(t) \/ Terminated(t)
    <3>1. WorkersCalm
      BY <1>0, <2>2, OneWorkerCalm DEF ReadyWait, Join, Terminated, Return
    <3> QED BY <2>2, <3>1, SameObjectsCalm, CalmSound DEF ReadyWait, Join, Terminated
  <2>3. CASE WebCall(t)
    <3>1. op[t].id \in Ids
      BY <2>3 DEF WebCall, IInv, Sound, PendingOK, At
    <3>2. CASE MayBegin(t, op[t].id) /\ EnterActivate(t, op[t].id)
               /\ UNCHANGED <<controller, stage, running, serves>>
      BY <3>1, <3>2, EnterActivateSound
    <3>3. CASE EnterDeactivate(t, op[t].id) /\ UNCHANGED <<controller, stage, serves>>
      BY <3>1, <3>3, EnterDeactivateSound
    <3>4. CASE Return(t) /\ UNCHANGED <<controller, objectVars>>
      <4>1. WorkersCalm
        BY <1>0, <3>4, OneWorkerCalm DEF Return
      <4> QED BY <3>4, <4>1, SameObjectsCalm, CalmSound
    <3> QED BY <2>3, <3>2, <3>3, <3>4 DEF WebCall
  <2> QED BY <1>2, <2>1, <2>2, <2>3, CreateThreadSound, StartThreadSound DEF RequestStep
<1>3. ASSUME NEW t \in Clients, NewRequest(t) PROVE Sound'
  <2>0. t \in Workers
    BY DEF Workers
  <2>1. ASSUME NEW id \in Ids, ApiActivate(t, id) PROVE Sound'
    BY <2>0, <2>1, EnterActivateSound DEF ApiActivate
  <2>2. ASSUME NEW id \in Ids, ApiDeactivate(t, id) PROVE Sound'
    BY <2>0, <2>2, EnterDeactivateSound DEF ApiDeactivate
  <2>3. ASSUME NEW id \in Ids, NEW active \in BOOLEAN, WebSave(t, id, active) PROVE Sound'
    <3>1. WorkersCalm
      BY <1>0, <2>0, <2>3, OneWorkerCalm DEF WebSave, Goto
    <3> QED BY <2>3, <3>1, SameObjectsCalm, CalmSound DEF WebSave
  <2> QED BY <1>3, <2>1, <2>2, <2>3 DEF NewRequest
<1>4. ASSUME NEW x \in Objects, MethodEnds(x) PROVE Sound'
  BY <1>4, StopCalm, SameWorkersCalm, CalmSound DEF MethodEnds
<1>5. CASE MainStep
  <2>1. CASE ReadTables \/ StartTier \/ BeginStop \/ StopTier \/ StopFails \/ JoinTier \/ JoinOutput
    <3>1. UNCHANGED <<controller, objectVars, workVars>>
      BY <2>1 DEF ReadTables, StartTier, BeginStop, StopTier, StopFails, JoinTier, JoinOutput
    <3> QED BY <3>1, SameWorkersCalm, SameObjectsCalm, CalmSound
  <2>2. CASE MainJoin
    <3>1. WorkersCalm
      BY <1>0, <2>2, OneWorkerCalm DEF MainJoin, Return
    <3> QED BY <2>2, <3>1, SameObjectsCalm, CalmSound DEF MainJoin
  <2>3. ASSUME NEW id \in Ids, StartNext(id) PROVE Sound'
    BY <1>0, <2>3, EnterActivateSound DEF StartNext
  <2>4. ASSUME NEW id \in Ids, StopNext(id) PROVE Sound'
    <3>1. CASE Stoppable(id)
      <4>1. controller[id] \in Objects
        BY <1>0, <3>1 DEF Stoppable, is_running, Known
      <4> QED BY <2>4, <3>1, <4>1, StopCalm, SameWorkersCalm, CalmSound DEF StopNext
    <3>2. CASE ~Stoppable(id)
      BY <2>4, <3>2, SameObjectsCalm, SameWorkersCalm, CalmSound DEF StopNext
    <3> QED BY <3>1, <3>2
  <2>5. ASSUME NEW id \in Ids, JoinNext(id) PROVE Sound'
    <3>1. CASE stage[controller[id]] = "new"
      BY <2>5, <3>1, SameWorkersCalm, SameObjectsCalm, CalmSound DEF JoinNext
    <3>2. CASE stage[controller[id]] # "new"
      <4>1. WorkersCalm
        BY <1>0, <2>5, <3>2, OneWorkerCalm DEF JoinNext, Goto
      <4> QED BY <2>5, <4>1, SameObjectsCalm, CalmSound DEF JoinNext
    <3> QED BY <3>1, <3>2
  <2> QED BY <1>5, <2>1, <2>2, <2>3, <2>4, <2>5 DEF MainStep
<1>6. CASE OutputEnds \/ LoopRaises \/ Restart
  <2>1. UNCHANGED <<controller, objectVars, workVars>>
    BY <1>6 DEF OutputEnds, LoopRaises, Restart
  <2> QED BY <2>1, SameWorkersCalm, SameObjectsCalm, CalmSound
<1>7. CASE Gone
  <2>1. \A x \in Objects : ~Sampling(x)' /\ stage'[x] = "unborn" /\ ~running'[x]
    BY <1>7 DEF Gone, Sampling
  <2>2. \A t \in Workers : /\ ~Activating(t)'
                           /\ pc'[t] \in {"webActivate", "webDeactivate"} =>
                                pc'[t] = pc[t] /\ op'[t] = op[t]
    BY <1>7 DEF Gone, Busy, Activating
  <2> QED BY <2>1, <2>2 DEF IInv, Sound, Exclusive, ActivationOK, PendingOK, ObjectsOK, NoOrphan, Activating
<1>8. ASSUME NEW t \in Stoppers, TerminateDaemon(t) PROVE Sound'
  <2>0. t \in Workers
    BY DEF Workers
  <2>1. WorkersCalm
    BY <1>0, <1>8, <2>0, OneWorkerCalm DEF TerminateDaemon, Goto
  <2> QED BY <1>8, <2>1, SameObjectsCalm, CalmSound DEF TerminateDaemon
<1> QED BY <1>1, <1>2, <1>3, <1>4, <1>5, <1>6, <1>7, <1>8, ThreadStepSound DEF Next, Exit, Crash

\* The types of the model hold for any controllers and clients, as long as no two
\* requests are for one controller at once.
THEOREM TypeCorrect ==
  ASSUME ExclusionAssumption
  PROVE  Spec => []TypeOK
<1>1. Init => IInv
  BY TypeInit, SoundInit DEF IInv
<1>2. IInv /\ [Next]_vars => IInv'
  BY TypeStep, SoundStep, DaemonAssumption DEF IInv, Sound
<1>3. IInv => TypeOK
  BY DEF IInv
<1> QED BY <1>1, <1>2, <1>3, PTL DEF Spec

\* When no two requests are for one controller at once, and none comes before the
\* last one's thread is in its loop, a controller never has two threads at work.
THEOREM OneThreadEach ==
  ASSUME ExclusionAssumption
  PROVE  Spec => []NoOrphan
<1>1. Init => IInv
  BY TypeInit, SoundInit DEF IInv
<1>2. IInv /\ [Next]_vars => IInv'
  BY TypeStep, SoundStep, DaemonAssumption DEF IInv, Sound
<1>3. IInv => NoOrphan
  BY DEF IInv, Sound
<1> QED BY <1>1, <1>2, <1>3, PTL DEF Spec

(***************************************************************************)
(* The outputs stop last                                                   *)
(***************************************************************************)
\* The schedules in which no two requests are in progress at once, and threads
\* that load, end when they are told to and let the daemon go on.
OneAtATime == Exclusion = "all" /\ Faults \subseteq {"crash", "ended"}

Ending(x) == Alive(x) /\ ~Sampling(x)

\* Every thread at work is in the dictionary, and whoever replaces one has seen
\* it end.
ThreadsOK ==
  /\ \A id \in Ids : Known(id) => serves[controller[id]] = id
  /\ \A x \in Objects : loaded[x]
  /\ \A x \in Objects : Alive(x) => controller[serves[x]] = x
  /\ \A t \in Workers : pc[t] \in {"save", "create"} /\ Known(op[t].id)
                          => stage[controller[op[t].id]] = "dead"

\* A thread that is told to stop is waited for, or will be.
EndingSeen ==
  \A x \in Objects : Ending(x) =>
    \/ \E t \in Workers : pc[t] = "join" /\ op[t].thread = x
    \/ phase \in {"stopping", "joining"} /\ serves[x] \in controller_running

Leaving == phase \in {"stopping", "joining", "outputs", "terminated"}

\* Where Main is in a request of its own.
MainOK ==
  /\ phase # "failed"
  /\ phase = "starting" => pc[Main] \in {"idle", "save", "create", "start", "ready"}
  /\ phase = "joining" => pc[Main] \in {"idle", "join"}
  /\ phase \notin {"starting", "joining"} => pc[Main] = "idle"

\* Once the daemon is told to shut down, no request begins.
LeavingOK ==
  /\ Leaving => ~daemon_run
  /\ ~daemon_run =>
       /\ Leaving \/ phase = "serving"
       /\ AllSettled
       /\ \A t \in Workers \ {Main} : pc[t] \in {"idle", "webActivate", "webDeactivate", "terminate"}

\* The threads that are still to be told to stop are in what is left to do.
StoppingOK ==
  phase = "stopping" =>
    /\ keys = InDictionary(tier)
    /\ \A x \in Objects : running[x] =>
         serves[x] \in todo \/ \E i \in Tiers : i < tier /\ serves[x] \in Tier(i)

\* All have been told, and those that are still to be joined are in what is left.
JoiningOK ==
  phase = "joining" =>
    /\ \A x \in Objects : ~Sampling(x)
    /\ \A id \in controller_running : \E i \in Tiers : i <= tier /\ id \in Tier(i)

OutputsOK ==
  /\ phase \in {"outputs", "terminated"} <=> output \in {"stopping", "dead"}
  /\ phase \in {"outputs", "terminated"} => \A x \in Objects : ~Alive(x)

StopInv == /\ IInv /\ ThreadsOK /\ EndingSeen /\ MainOK /\ LeavingOK
           /\ StoppingOK /\ JoiningOK /\ OutputsOK

\* Every controller is in one of the tables.
LEMMA SomeTier ==
  ASSUME NEW id \in Ids
  PROVE  \E i \in Tiers : id \in Tier(i)
BY DaemonAssumption DEF Tier

\* When the daemon leaves, a thread at work that is not told to stop is in its loop.
LEMMA LeavingSettled ==
  ASSUME StopInv, ~daemon_run, NEW x \in Objects
  PROVE  /\ stage[x] \notin {"initializing", "ready"}
         /\ Sampling(x) <=> running[x]
         /\ Alive(x) => controller[serves[x]] = x /\ serves[x] \in Ids
<1>1. Alive(x) => controller[serves[x]] = x /\ serves[x] \in Ids /\ x # None
  BY DaemonAssumption DEF StopInv, ThreadsOK, IInv, Sound, ObjectsOK, Alive
<1>2. Alive(x) => stage[x] \in {"loop", "finally", "dead"}
  BY <1>1 DEF StopInv, LeavingOK, AllSettled, Settled, Known
<1> QED BY <1>1, <1>2 DEF Sampling, Alive

\* A step that leaves the threads and the dictionary alone, and in which no
\* activation begins and nobody who joins a thread gives up.
LEMMA ThreadsKept ==
  ASSUME StopInv, UNCHANGED <<controller, objectVars>>,
         \A t \in Workers : pc'[t] \in {"save", "create"}
           => pc[t] \in {"save", "create"} /\ op'[t].id = op[t].id
  PROVE  ThreadsOK'
BY DEF StopInv, ThreadsOK, objectVars, Alive, Known

\* Nobody who joins a thread gives it up before it has ended.
JoinersStay ==
  \A t \in Workers : pc[t] = "join" =>
    (pc'[t] = "join" /\ op'[t] = op[t]) \/ stage[op[t].thread] = "dead"

LEMMA EndingKept ==
  ASSUME StopInv, JoinersStay, UNCHANGED serves,
         \A x \in Objects : Ending(x)' => Ending(x) /\ stage[x] # "dead",
         phase \in {"stopping", "joining"} =>
           phase' \in {"stopping", "joining"} /\ controller_running \subseteq controller_running'
  PROVE  EndingSeen'
<1> SUFFICES ASSUME NEW x \in Objects, Ending(x)'
             PROVE  \/ \E t \in Workers : pc'[t] = "join" /\ op'[t].thread = x
                    \/ phase' \in {"stopping", "joining"} /\ serves'[x] \in controller_running'
  BY DEF EndingSeen
<1>1. Ending(x) /\ stage[x] # "dead"
  OBVIOUS
<1>2. CASE \E t \in Workers : pc[t] = "join" /\ op[t].thread = x
  BY <1>1, <1>2 DEF JoinersStay
<1>3. CASE phase \in {"stopping", "joining"} /\ serves[x] \in controller_running
  BY <1>3
<1> QED BY <1>1, <1>2, <1>3 DEF StopInv, EndingSeen

\* Of a step that changes no thread.
LEMMA SameEnding ==
  ASSUME UNCHANGED <<stage, running>>, NEW x \in Objects, Ending(x)'
  PROVE  Ending(x) /\ stage[x] # "dead"
BY DEF Ending, Alive, Sampling

\* Entering an activation: the thread that is to be replaced has ended.
LEMMA EnterActivateThreads ==
  ASSUME OneAtATime, StopInv, NEW t \in Workers, NEW id \in Ids, MayBegin(t, id),
         pc[t] \in {"idle", "webActivate"}, t = Main => phase = "starting",
         EnterActivate(t, id), UNCHANGED <<controller, objectVars, phase, controller_running>>
  PROVE  ThreadsOK' /\ EndingSeen'
<1>0. /\ pc \in [Workers -> Labels] /\ op \in [Workers -> Ops]
      /\ controller \in [Ids -> Objects \cup {None}]
      /\ stage \in [Objects -> {"unborn", "new", "initializing", "ready", "loop", "finally", "dead"}]
      /\ \A u \in Workers \ {t} : pc'[u] = pc[u] /\ op'[u] = op[u]
  BY DEF StopInv, IInv, TypeOK, EnterActivate, Return, Goto
<1>1. EndingSeen'
  <2>1. JoinersStay
    BY <1>0 DEF JoinersStay
  <2> QED BY <2>1, SameEnding, EndingKept DEF objectVars
<1>2. CASE AlreadyActive(id)
  BY <1>0, <1>1, <1>2, ThreadsKept DEF EnterActivate, Return
<1>3. CASE ~AlreadyActive(id)
  <2>1. pc'[t] = "save" /\ op'[t].id = id
    BY <1>0, <1>3 DEF EnterActivate, Goto
  <2>2. ASSUME Known(id) PROVE stage[controller[id]] = "dead"
    <3>1. controller[id] \in Objects /\ ~running[controller[id]]
      BY <1>0, <1>3, <2>2 DEF AlreadyActive, is_running, Known
    <3>2. stage[controller[id]] \in {"loop", "finally", "dead"} /\ \A u \in Workers : pc[u] # "join"
      BY <2>2 DEF MayBegin, OneAtATime, AllSettled, Settled, Busy
    <3>3. phase \notin {"stopping", "joining"}
      BY DEF MayBegin, OneAtATime
    <3>4. ~Ending(controller[id])
      BY <3>1, <3>2, <3>3 DEF StopInv, EndingSeen
    <3> QED BY <3>1, <3>2, <3>4 DEF Ending, Alive, Sampling
  <2>3. ThreadsOK'
    BY <1>0, <2>1, <2>2 DEF StopInv, ThreadsOK, objectVars, Alive, Known
  <2> QED BY <1>1, <2>3
<1> QED BY <1>2, <1>3

\* Entering a deactivation: the thread that is told to stop is waited for.
LEMMA EnterDeactivateThreads ==
  ASSUME StopInv, NEW t \in Workers, NEW id \in Ids, pc[t] \in {"idle", "webDeactivate"},
         EnterDeactivate(t, id),
         UNCHANGED <<controller, stage, serves, loaded, phase, controller_running>>
  PROVE  ThreadsOK' /\ EndingSeen'
<1>0. /\ pc \in [Workers -> Labels] /\ op \in [Workers -> Ops]
      /\ controller \in [Ids -> Objects \cup {None}] /\ running \in [Objects -> BOOLEAN]
      /\ \A u \in Workers \ {t} : pc'[u] = pc[u] /\ op'[u] = op[u]
      /\ pc'[t] \in {"idle", "join"}
  BY DEF StopInv, IInv, TypeOK, EnterDeactivate, Return, Goto
<1>1. ThreadsOK'
  BY <1>0 DEF StopInv, ThreadsOK, Alive, Known
<1>2. CASE UNCHANGED running
  <2>1. JoinersStay
    BY <1>0 DEF JoinersStay
  <2> QED BY <1>1, <1>2, <2>1, SameEnding, EndingKept
<1>3. CASE ~UNCHANGED running
  <2> DEFINE x == controller[id]
  <2>1. /\ x \in Objects /\ pc'[t] = "join" /\ op'[t].thread = x
        /\ running' = [running EXCEPT ![x] = FALSE]
    BY <1>0, <1>3 DEF EnterDeactivate, is_running, Known, StopRunning, Goto
  <2>2. ASSUME NEW y \in Objects, Ending(y)', y # x
        PROVE  \/ \E u \in Workers : pc'[u] = "join" /\ op'[u].thread = y
               \/ phase' \in {"stopping", "joining"} /\ serves'[y] \in controller_running'
    <3>1. Ending(y)
      BY <1>0, <2>1, <2>2 DEF Ending, Alive, Sampling
    <3>2. \/ \E u \in Workers \ {t} : pc[u] = "join" /\ op[u].thread = y
          \/ phase \in {"stopping", "joining"} /\ serves[y] \in controller_running
      BY <3>1 DEF StopInv, EndingSeen
    <3> QED BY <1>0, <3>2
  <2> QED BY <1>1, <2>1, <2>2 DEF EndingSeen
<1> QED BY <1>2, <1>3

\* The thread that is created takes the place of one that has ended.
LEMMA CreateThreadThreads ==
  ASSUME StopInv, NEW t \in Workers, CreateThread(t)
  PROVE  ThreadsOK' /\ EndingSeen'
<1>1. PICK x \in Objects : CreateThread(t)!(x)
  BY DEF CreateThread
<1> DEFINE id == op[t].id
<1>0. /\ pc \in [Workers -> Labels] /\ op \in [Workers -> Ops]
      /\ controller \in [Ids -> Objects \cup {None}]
      /\ stage \in [Objects -> {"unborn", "new", "initializing", "ready", "loop", "finally", "dead"}]
      /\ running \in [Objects -> BOOLEAN] /\ serves \in [Objects -> Ids \cup {None}]
      /\ loaded \in [Objects -> BOOLEAN] /\ None \notin Objects
  BY DaemonAssumption DEF StopInv, IInv, TypeOK
<1>2. /\ pc[t] = "create" /\ id \in Ids /\ Unused(x, id) /\ UNCHANGED <<phase, controller_running>>
      /\ controller'[id] = x /\ stage'[x] = "new" /\ ~running'[x] /\ serves'[x] = id /\ loaded'[x]
      /\ pc'[t] = "start"
  BY <1>0, <1>1 DEF At, Goto, StopInv, IInv, Sound, ActivationOK, Activating, mainVars
<1>3. /\ \A i \in Ids \ {id} : controller'[i] = controller[i] /\ controller[i] # x
      /\ \A y \in Objects \ {x} : /\ stage'[y] = stage[y] /\ running'[y] = running[y]
                                  /\ serves'[y] = serves[y] /\ loaded'[y] = loaded[y]
      /\ \A u \in Workers \ {t} : pc'[u] = pc[u] /\ op'[u] = op[u]
  BY <1>0, <1>1, <1>2 DEF Unused, Goto
<1>4. \A u \in Workers \ {t} : pc[u] \in {"save", "create"} => op[u].id # id /\ op[u].id \in Ids
  BY <1>2 DEF StopInv, IInv, Sound, Exclusive, ActivationOK, Activating
<1>5. ASSUME NEW i \in Ids, controller'[i] # None PROVE serves'[controller'[i]] = i
  <2>1. CASE i = id
    BY <1>2, <2>1
  <2>2. CASE i # id
    <3>1. controller'[i] = controller[i] /\ controller[i] \in Objects \ {x}
      BY <1>0, <1>3, <1>5, <2>2
    <3> QED BY <1>3, <1>5, <3>1 DEF StopInv, ThreadsOK, Known
  <2> QED BY <2>1, <2>2
<1>6. ASSUME NEW y \in Objects, Alive(y)' PROVE controller'[serves'[y]] = y
  <2>1. y # x /\ Alive(y)
    BY <1>2, <1>3, <1>6 DEF Alive
  <2>2. controller[serves[y]] = y /\ serves[y] \in Ids
    BY <2>1 DEF StopInv, ThreadsOK, IInv, Sound, ObjectsOK, Alive
  <2>3. serves[y] # id
    BY <1>0, <1>2, <2>1, <2>2 DEF StopInv, ThreadsOK, Known, Alive
  <2> QED BY <1>3, <2>1, <2>2, <2>3
<1>7. ASSUME NEW u \in Workers, pc'[u] \in {"save", "create"}, controller'[op'[u].id] # None
      PROVE  stage'[controller'[op'[u].id]] = "dead"
  <2>1. u # t
    BY <1>2, <1>7
  <2>2. op'[u] = op[u] /\ op[u].id # id /\ op[u].id \in Ids /\ pc[u] \in {"save", "create"}
    BY <1>3, <1>4, <1>7, <2>1
  <2>3. controller'[op[u].id] = controller[op[u].id] /\ controller[op[u].id] \in Objects \ {x}
    BY <1>0, <1>3, <1>7, <2>2
  <2>4. stage[controller[op[u].id]] = "dead"
    BY <1>0, <2>2, <2>3 DEF StopInv, ThreadsOK, Known
  <2> QED BY <1>3, <2>2, <2>3, <2>4
<1>8. ThreadsOK'
  BY <1>2, <1>3, <1>5, <1>6, <1>7 DEF ThreadsOK, Known, StopInv
<1>9. EndingSeen'
  <2> SUFFICES ASSUME NEW y \in Objects, Ending(y)'
               PROVE  \/ \E u \in Workers : pc'[u] = "join" /\ op'[u].thread = y
                      \/ phase' \in {"stopping", "joining"} /\ serves'[y] \in controller_running'
    BY DEF EndingSeen
  <2>1. y # x /\ Ending(y)
    BY <1>2, <1>3 DEF Ending, Alive, Sampling
  <2>2. \/ \E u \in Workers \ {t} : pc[u] = "join" /\ op[u].thread = y
        \/ phase \in {"stopping", "joining"} /\ serves[y] \in controller_running
    BY <1>2, <2>1 DEF StopInv, EndingSeen
  <2> QED BY <1>2, <1>3, <2>1, <2>2
<1> QED BY <1>8, <1>9

\* The thread that is started is in the dictionary.
LEMMA StartThreadThreads ==
  ASSUME StopInv, NEW t \in Workers, StartThread(t)
  PROVE  ThreadsOK' /\ EndingSeen'
<1> DEFINE id == op[t].id
           x  == controller[id]
<1>0. /\ pc \in [Workers -> Labels] /\ op \in [Workers -> Ops]
      /\ controller \in [Ids -> Objects \cup {None}]
      /\ stage \in [Objects -> {"unborn", "new", "initializing", "ready", "loop", "finally", "dead"}]
      /\ UNCHANGED <<phase, controller_running>>
  BY DEF StopInv, IInv, TypeOK, StartThread, mainVars
<1>1. /\ pc[t] = "start" /\ id \in Ids /\ x \in Objects /\ Known(id) /\ stage[x] = "new" /\ serves[x] = id
  BY <1>0 DEF StartThread, At, StopInv, IInv, Sound, ActivationOK, Activating, Known
<1>2. /\ stage'[x] = "initializing" /\ pc'[t] = "ready"
      /\ UNCHANGED <<op, controller, running, serves, loaded>>
      /\ \A y \in Objects \ {x} : stage'[y] = stage[y]
      /\ \A u \in Workers \ {t} : pc'[u] = pc[u]
  BY <1>0, <1>1 DEF StartThread, Startable, Goto
<1>3. \A u \in Workers : pc[u] \in {"save", "create"} => op[u].id \in Ids
  BY DEF StopInv, IInv, Sound, ActivationOK, Activating
<1>4. ASSUME NEW u \in Workers, pc'[u] \in {"save", "create"}, controller'[op'[u].id] # None
      PROVE  stage'[controller'[op'[u].id]] = "dead"
  <2>1. pc[u] \in {"save", "create"} /\ controller[op[u].id] # None /\ op[u].id \in Ids
    BY <1>2, <1>3, <1>4
  <2>2. stage[controller[op[u].id]] = "dead" /\ controller[op[u].id] \in Objects
    BY <1>0, <2>1 DEF StopInv, ThreadsOK, Known
  <2> QED BY <1>1, <1>2, <2>2
<1>5. ThreadsOK'
  BY <1>1, <1>2, <1>4 DEF StopInv, ThreadsOK, Known, Alive
<1>6. EndingSeen'
  <2>1. JoinersStay
    BY <1>1, <1>2 DEF JoinersStay
  <2>2. \A y \in Objects : Ending(y)' => Ending(y) /\ stage[y] # "dead"
    BY <1>1, <1>2 DEF Ending, Alive, Sampling
  <2> QED BY <1>0, <1>2, <2>1, <2>2, EndingKept
<1> QED BY <1>5, <1>6

\* A thread's own step: it only comes nearer to its end.
LEMMA ThreadStepThreads ==
  ASSUME OneAtATime, StopInv, NEW x \in Objects, ThreadStep(x)
  PROVE  ThreadsOK' /\ EndingSeen'
<1>0. /\ stage \in [Objects -> {"unborn", "new", "initializing", "ready", "loop", "finally", "dead"}]
      /\ running \in [Objects -> BOOLEAN] /\ controller \in [Ids -> Objects \cup {None}]
      /\ UNCHANGED <<controller, serves, pc, op, phase, controller_running>>
  BY DEF StopInv, IInv, TypeOK, ThreadStep, Initialize, BeginLoop, EndLoop, RunFinally, mainVars, workVars
<1>1. UNCHANGED loaded
  BY DEF ThreadStep, Initialize, BeginLoop, EndLoop, RunFinally, OneAtATime
<1>2. /\ stage[x] \notin {"unborn", "new", "dead"}
      /\ \A y \in Objects \ {x} : stage'[y] = stage[y] /\ running'[y] = running[y]
      /\ \/ stage[x] = "initializing" /\ stage'[x] = "ready" /\ running'[x] = running[x]
         \/ stage[x] = "ready" /\ stage'[x] = "loop" /\ running'[x]
         \/ stage[x] = "loop" /\ ~running[x] /\ stage'[x] = "finally" /\ running'[x] = running[x]
         \/ stage[x] = "finally" /\ stage'[x] = "dead" /\ ~running'[x]
  BY <1>0 DEF ThreadStep, Initialize, BeginLoop, EndLoop, RunFinally
<1>3. \A y \in Objects : /\ Alive(y)' => Alive(y)
                         /\ stage[y] = "dead" => stage'[y] = "dead"
                         /\ Ending(y)' => Ending(y) /\ stage[y] # "dead"
  BY <1>2 DEF Alive, Ending, Sampling
<1>4. \A t \in Workers : pc[t] \in {"save", "create"} => op[t].id \in Ids
  BY DEF StopInv, IInv, Sound, ActivationOK, Activating
<1>5. ThreadsOK'
  BY <1>0, <1>1, <1>3, <1>4 DEF StopInv, ThreadsOK, Known
<1>6. EndingSeen'
  BY <1>0, <1>3, EndingKept DEF JoinersStay
<1> QED BY <1>5, <1>6

\* The threads at work stay in the dictionary and those that end are waited for.
LEMMA ThreadsStep ==
  ASSUME OneAtATime, StopInv, [Next]_vars
  PROVE  ThreadsOK' /\ EndingSeen'
<1> USE DEF mainVars, objectVars, workVars
<1>0. /\ pc \in [Workers -> Labels] /\ op \in [Workers -> Ops] /\ Main \in Workers
      /\ controller \in [Ids -> Objects \cup {None}] /\ running \in [Objects -> BOOLEAN]
      /\ None \notin Objects
  BY DaemonAssumption DEF StopInv, IInv, TypeOK, Workers
<1>k. ASSUME UNCHANGED <<controller, objectVars>>, JoinersStay,
             \A t \in Workers : pc'[t] \in {"save", "create"}
               => pc[t] \in {"save", "create"} /\ op'[t].id = op[t].id,
             phase \in {"stopping", "joining"} =>
               phase' \in {"stopping", "joining"} /\ controller_running \subseteq controller_running'
      PROVE  ThreadsOK' /\ EndingSeen'
  BY <1>k, ThreadsKept, EndingKept, SameEnding
<1>j. ASSUME NEW t \in Workers, pc[t] # "join",
             \A u \in Workers \ {t} : pc'[u] = pc[u] /\ op'[u] = op[u]
      PROVE  JoinersStay
  BY <1>j DEF JoinersStay
<1>1. CASE UNCHANGED vars
  BY <1>k, <1>1 DEF vars, JoinersStay
<1>2. ASSUME NEW t \in Workers, RequestStep(t) PROVE ThreadsOK' /\ EndingSeen'
  <2>1. CASE SaveActive(t) \/ ReadyWait(t) \/ Terminated(t)
    <3>1. /\ pc[t] # "join" /\ UNCHANGED <<controller, objectVars, phase, controller_running>>
          /\ \A u \in Workers \ {t} : pc'[u] = pc[u] /\ op'[u] = op[u]
          /\ pc'[t] \in {"save", "create"} => pc[t] = "save" /\ op'[t] = op[t]
      BY <1>0, <2>1 DEF SaveActive, ReadyWait, Terminated, At, Goto, Return
    <3> QED BY <1>j, <1>k, <3>1
  <2>2. CASE Join(t)
    <3>1. /\ UNCHANGED <<controller, objectVars, phase, controller_running>>
          /\ \A u \in Workers \ {t} : pc'[u] = pc[u] /\ op'[u] = op[u]
          /\ pc'[t] = "idle" /\ stage[op[t].thread] = "dead"
      BY <1>0, <2>2 DEF Join, At, Return
    <3>2. JoinersStay
      BY <3>1 DEF JoinersStay
    <3> QED BY <1>k, <3>1, <3>2
  <2>3. CASE WebCall(t)
    <3>1. op[t].id \in Ids /\ pc[t] \in {"webActivate", "webDeactivate"}
      BY <2>3 DEF WebCall, StopInv, IInv, Sound, PendingOK, At
    <3>2. t # Main
      BY <3>1 DEF StopInv, MainOK
    <3>3. CASE At(t, "webActivate") /\ MayBegin(t, op[t].id) /\ EnterActivate(t, op[t].id)
               /\ UNCHANGED <<mainVars, controller, objectVars>>
      BY <3>1, <3>2, <3>3, EnterActivateThreads DEF At
    <3>4. CASE At(t, "webDeactivate") /\ EnterDeactivate(t, op[t].id)
               /\ UNCHANGED <<mainVars, controller, stage, serves, loaded>>
      BY <3>1, <3>4, EnterDeactivateThreads DEF At
    <3>5. CASE Return(t) /\ UNCHANGED <<mainVars, controller, objectVars>>
      <4>1. pc'[t] = "idle" /\ \A u \in Workers \ {t} : pc'[u] = pc[u] /\ op'[u] = op[u]
        BY <1>0, <3>5 DEF Return
      <4> QED BY <1>j, <1>k, <3>1, <3>5, <4>1
    <3> QED BY <2>3, <3>3, <3>4, <3>5 DEF WebCall
  <2> QED BY <1>2, <2>1, <2>2, <2>3, CreateThreadThreads, StartThreadThreads DEF RequestStep
<1>3. ASSUME NEW t \in Clients, NewRequest(t) PROVE ThreadsOK' /\ EndingSeen'
  <2>0. t \in Workers /\ t # Main
    BY DaemonAssumption DEF Workers
  <2>1. ASSUME NEW id \in Ids, ApiActivate(t, id) PROVE ThreadsOK' /\ EndingSeen'
    BY <2>0, <2>1, EnterActivateThreads DEF ApiActivate, At
  <2>2. ASSUME NEW id \in Ids, ApiDeactivate(t, id) PROVE ThreadsOK' /\ EndingSeen'
    BY <2>0, <2>2, EnterDeactivateThreads DEF ApiDeactivate, At
  <2>3. ASSUME NEW id \in Ids, NEW active \in BOOLEAN, WebSave(t, id, active)
        PROVE  ThreadsOK' /\ EndingSeen'
    <3>1. /\ pc[t] = "idle" /\ pc'[t] \in {"webActivate", "webDeactivate"}
          /\ \A u \in Workers \ {t} : pc'[u] = pc[u] /\ op'[u] = op[u]
          /\ UNCHANGED <<mainVars, controller, objectVars>>
      BY <1>0, <2>0, <2>3 DEF WebSave, At, Goto
    <3> QED BY <1>j, <1>k, <2>0, <3>1
  <2> QED BY <1>3, <2>1, <2>2, <2>3 DEF NewRequest
<1>4. ASSUME NEW x \in Objects, MethodEnds(x) PROVE FALSE
  BY <1>4 DEF MethodEnds, OneAtATime
<1>5. CASE MainStep
  <2>1. CASE ReadTables \/ StartTier \/ StopTier \/ JoinOutput
    BY <1>k, <2>1 DEF ReadTables, StartTier, StopTier, JoinOutput, JoinersStay
  <2>2. CASE BeginStop
    BY <1>k, <2>2 DEF BeginStop, JoinersStay
  <2>3. CASE StopFails
    BY <2>3 DEF StopFails, Grown, StopInv, StoppingOK
  <2>4. CASE JoinTier
    <3>1. CASE tier > 1
      BY <1>k, <2>4, <3>1 DEF JoinTier, JoinersStay
    <3>2. CASE ~(tier > 1)
      <4>1. /\ UNCHANGED <<controller, objectVars, workVars>>
            /\ phase = "joining" /\ controller_running \cap Tier(tier) = {} /\ tier \in Tiers
        BY <2>4, <3>2 DEF JoinTier, StopInv, IInv, TypeOK
      <4>2. \A id \in controller_running : \E i \in Tiers : i <= tier /\ id \in Tier(i)
        BY <4>1 DEF StopInv, JoiningOK
      <4>3. \A i \in Tiers : i <= tier => i = tier
        BY <3>2, <4>1 DEF Tiers
      <4>4. controller_running = {}
        BY <4>1, <4>2, <4>3
      <4>5. EndingSeen'
        BY <4>1, <4>4 DEF StopInv, EndingSeen, Ending, Alive, Sampling
      <4>6. ThreadsOK'
        BY <4>1, ThreadsKept
      <4> QED BY <4>5, <4>6
    <3> QED BY <3>1, <3>2
  <2>5. CASE MainJoin
    <3>1. /\ UNCHANGED <<controller, objectVars, phase, controller_running>>
          /\ \A u \in Workers \ {Main} : pc'[u] = pc[u] /\ op'[u] = op[u]
          /\ pc'[Main] = "idle" /\ stage[op[Main].thread] = "dead"
      BY <1>0, <2>5 DEF MainJoin, Return
    <3>2. JoinersStay
      BY <3>1 DEF JoinersStay
    <3> QED BY <1>k, <3>1, <3>2
  <2>6. ASSUME NEW id \in Ids, StartNext(id) PROVE ThreadsOK' /\ EndingSeen'
    BY <1>0, <2>6, EnterActivateThreads DEF StartNext, At
  <2>7. ASSUME NEW id \in Ids, StopNext(id) PROVE ThreadsOK' /\ EndingSeen'
    <3>1. CASE ~Stoppable(id)
      BY <1>k, <2>7, <3>1 DEF StopNext, JoinersStay
    <3>2. CASE Stoppable(id)
      <4> DEFINE x == controller[id]
      <4>1. /\ x \in Objects /\ serves[x] = id /\ running' = [running EXCEPT ![x] = FALSE]
            /\ controller_running' = controller_running \cup {id} /\ phase = "stopping"
            /\ UNCHANGED <<phase, controller, stage, serves, loaded, pc, op>>
        BY <1>0, <2>7, <3>2 DEF Stoppable, StopNext, StopRunning, is_running, Known, StopInv, ThreadsOK
      <4>2. ThreadsOK'
        BY <4>1 DEF StopInv, ThreadsOK, Alive, Known
      <4>3. ASSUME NEW y \in Objects, Ending(y)'
            PROVE  \/ \E u \in Workers : pc'[u] = "join" /\ op'[u].thread = y
                   \/ phase' \in {"stopping", "joining"} /\ serves'[y] \in controller_running'
        <5>1. CASE y = x
          BY <4>1, <5>1
        <5>2. CASE y # x
          <6>1. Ending(y)
            BY <1>0, <4>1, <4>3, <5>2 DEF Ending, Alive, Sampling
          <6> QED BY <4>1, <6>1 DEF StopInv, EndingSeen
        <5> QED BY <5>1, <5>2
      <4> QED BY <4>2, <4>3 DEF EndingSeen
    <3> QED BY <3>1, <3>2
  <2>8. ASSUME NEW id \in Ids, JoinNext(id) PROVE ThreadsOK' /\ EndingSeen'
    <3> DEFINE x == controller[id]
    <3>1. /\ phase = "joining" /\ pc[Main] = "idle"
          /\ controller_running' = controller_running \ {id}
          /\ UNCHANGED <<phase, controller, objectVars>>
          /\ \A u \in Workers \ {Main} : pc'[u] = pc[u] /\ op'[u] = op[u]
          /\ \/ stage[x] = "new" /\ UNCHANGED workVars
             \/ pc'[Main] = "join" /\ op'[Main].thread = x
      BY <1>0, <2>8 DEF JoinNext, At, Goto
    <3>2. ThreadsOK'
      BY <3>1, ThreadsKept
    <3>3. ASSUME NEW y \in Objects, Ending(y)'
          PROVE  \/ \E u \in Workers : pc'[u] = "join" /\ op'[u].thread = y
                 \/ phase' \in {"stopping", "joining"} /\ serves'[y] \in controller_running'
      <4>1. Ending(y) /\ stage[y] # "new" /\ controller[serves[y]] = y
        BY <3>1, <3>3 DEF Ending, Alive, Sampling, StopInv, ThreadsOK
      <4>2. CASE serves[y] = id
        BY <1>0, <3>1, <4>1, <4>2
      <4>3. CASE serves[y] # id
        <5>1. \/ \E u \in Workers \ {Main} : pc[u] = "join" /\ op[u].thread = y
              \/ serves[y] \in controller_running
          BY <3>1, <4>1 DEF StopInv, EndingSeen
        <5> QED BY <3>1, <4>3, <5>1
      <4> QED BY <4>2, <4>3
    <3> QED BY <3>2, <3>3 DEF EndingSeen
  <2> QED BY <1>5, <2>1, <2>2, <2>3, <2>4, <2>5, <2>6, <2>7, <2>8 DEF MainStep
<1>6. CASE OutputEnds \/ Restart
  BY <1>k, <1>6 DEF OutputEnds, Restart, JoinersStay
<1>7. CASE LoopRaises
  BY <1>7 DEF LoopRaises, OneAtATime
<1>8. CASE Gone
  BY <1>8 DEF Gone, ThreadsOK, EndingSeen, Ending, Alive, Known, Busy
<1>9. ASSUME NEW t \in Stoppers, TerminateDaemon(t) PROVE ThreadsOK' /\ EndingSeen'
  <2>1. /\ t \in Workers /\ pc[t] = "idle" /\ pc'[t] = "terminate"
        /\ \A u \in Workers \ {t} : pc'[u] = pc[u] /\ op'[u] = op[u]
        /\ UNCHANGED <<phase, controller_running, controller, objectVars>>
    BY <1>0, <1>9 DEF TerminateDaemon, At, Goto, Workers
  <2> QED BY <1>j, <1>k, <2>1
<1> QED BY <1>1, <1>2, <1>3, <1>4, <1>5, <1>6, <1>7, <1>8, <1>9, ThreadStepThreads DEF Next, Exit, Crash

LeaveInv == MainOK /\ LeavingOK /\ StoppingOK /\ JoiningOK /\ OutputsOK

\* While the daemon is not told to shut down, LeaveInv is about Main's request.
LEMMA ServingLeave ==
  ASSUME StopInv, daemon_run, ~Leaving, UNCHANGED <<phase, daemon_run, output>>, MainOK'
  PROVE  LeaveInv'
BY DEF StopInv, LeaveInv, LeavingOK, StoppingOK, JoiningOK, OutputsOK, Leaving

\* The threads' own steps while the daemon leaves.
LEMMA ThreadStepLeave ==
  ASSUME StopInv, NEW x \in Objects, ThreadStep(x)
  PROVE  LeaveInv'
<1>0. /\ UNCHANGED <<mainVars, controller, serves, workVars>>
      /\ stage \in [Objects -> {"unborn", "new", "initializing", "ready", "loop", "finally", "dead"}]
      /\ running \in [Objects -> BOOLEAN] /\ controller \in [Ids -> Objects \cup {None}]
  BY DEF ThreadStep, Initialize, BeginLoop, EndLoop, RunFinally, StopInv, IInv, TypeOK
<1> USE DEF mainVars, workVars
<1>1. MainOK'
  BY <1>0 DEF StopInv, MainOK
<1>2. CASE daemon_run
  BY <1>0, <1>1, <1>2, ServingLeave DEF StopInv, LeavingOK
<1>3. CASE ~daemon_run
  <2>1. /\ stage[x] \in {"loop", "finally"} /\ stage'[x] \in {"finally", "dead"}
        /\ running'[x] => running[x]
        /\ \A y \in Objects \ {x} : stage'[y] = stage[y] /\ running'[y] = running[y]
    BY <1>0, <1>3, LeavingSettled DEF ThreadStep, Initialize, BeginLoop, EndLoop, RunFinally
  <2>2. AllSettled'
    BY <1>0, <1>3, <2>1 DEF StopInv, LeavingOK, AllSettled, Settled, Known
  <2>3. LeavingOK'
    BY <1>0, <1>3, <2>2 DEF StopInv, LeavingOK, Leaving
  <2>4. \A y \in Objects : /\ running'[y] => running[y] /\ (Sampling(y)' => Sampling(y))
                           /\ Alive(y)' => Alive(y)
    BY <2>1 DEF Sampling, Alive
  <2>5. InDictionary(tier)' = InDictionary(tier)
    BY <1>0 DEF InDictionary, Known, Tier
  <2>6. StoppingOK'
    BY <1>0, <2>4, <2>5 DEF StopInv, StoppingOK, Tier
  <2>7. JoiningOK'
    BY <1>0, <2>1, <2>4 DEF StopInv, JoiningOK, Tier, Sampling
  <2>8. OutputsOK'
    BY <1>0, <2>1, <2>4 DEF StopInv, OutputsOK, Alive
  <2> QED BY <1>1, <2>3, <2>6, <2>7, <2>8 DEF LeaveInv
<1> QED BY <1>2, <1>3

\* What a request that may begin knows of the daemon.
LEMMA MayBeginServes ==
  ASSUME OneAtATime, StopInv, NEW t \in Workers, t # Main, NEW id, MayBegin(t, id)
  PROVE  phase = "serving" /\ daemon_run /\ ~Leaving
BY DEF OneAtATime, MayBegin, Leaving

\* A daemon that is told to shut down starts nothing, misses nobody who is to be
\* told to stop and waits for everybody.
LEMMA LeaveStep ==
  ASSUME OneAtATime, StopInv, [Next]_vars
  PROVE  LeaveInv'
<1> USE DEF mainVars, objectVars, workVars
<1>0. /\ pc \in [Workers -> Labels] /\ op \in [Workers -> Ops] /\ Main \in Workers
      /\ controller \in [Ids -> Objects \cup {None}] /\ running \in [Objects -> BOOLEAN]
      /\ None \notin Objects /\ tier \in Tiers /\ todo \subseteq Ids /\ controller_running \subseteq Ids
      /\ MainOK /\ LeavingOK /\ StoppingOK /\ JoiningOK /\ OutputsOK
  BY DaemonAssumption DEF StopInv, IInv, TypeOK, Workers
<1>u. ASSUME UNCHANGED <<mainVars, controller, objectVars>>, pc'[Main] = pc[Main],
             \A t \in Workers \ {Main} :
               pc'[t] = pc[t] \/ pc'[t] \in {"idle", "webActivate", "webDeactivate", "terminate"}
      PROVE  LeaveInv'
  <2>1. MainOK'
    BY <1>0, <1>u DEF MainOK
  <2>2. LeavingOK'
    BY <1>0, <1>u DEF LeavingOK, Leaving, AllSettled, Settled, Known
  <2>3. InDictionary(tier)' = InDictionary(tier)
    BY <1>u DEF InDictionary, Known, Tier
  <2>4. StoppingOK'
    BY <1>0, <1>u, <2>3 DEF StoppingOK, Tier
  <2>5. JoiningOK' /\ OutputsOK'
    BY <1>0, <1>u DEF JoiningOK, OutputsOK, Tier, Sampling, Alive
  <2> QED BY <2>1, <2>2, <2>4, <2>5 DEF LeaveInv
<1>1. CASE UNCHANGED vars
  BY <1>u, <1>1 DEF vars
<1>2. ASSUME NEW t \in Workers, RequestStep(t) PROVE LeaveInv'
  <2>0. /\ UNCHANGED mainVars
        /\ \A u \in Workers \ {t} : pc'[u] = pc[u]
    BY <1>0, <1>2 DEF RequestStep, SaveActive, CreateThread, StartThread, ReadyWait, Join, WebCall, Terminated,
      EnterActivate, EnterDeactivate, Goto, Return
  <2>1. CASE SaveActive(t) \/ CreateThread(t) \/ StartThread(t) \/ ReadyWait(t)
    <3>1. pc[t] \in {"save", "create", "start", "ready"} /\ pc'[t] \in {"idle", "create", "start", "ready"}
      BY <1>0, <2>1 DEF SaveActive, CreateThread, StartThread, ReadyWait, At, Goto, Return
    <3>2. t # Main => daemon_run /\ ~Leaving
      BY <1>0, <3>1 DEF LeavingOK
    <3>3. t = Main => phase = "starting"
      BY <1>0, <3>1 DEF MainOK
    <3>4. daemon_run /\ ~Leaving
      BY <1>0, <3>2, <3>3 DEF LeavingOK, Leaving
    <3>5. MainOK'
      BY <1>0, <2>0, <3>1, <3>3 DEF MainOK
    <3> QED BY <2>0, <3>4, <3>5, ServingLeave
  <2>2. CASE Join(t)
    <3>1. t # Main /\ pc[t] = "join"
      BY <2>2 DEF Join, At
    <3>2. daemon_run /\ ~Leaving
      BY <1>0, <3>1 DEF LeavingOK
    <3>3. MainOK'
      BY <1>0, <2>0, <3>1 DEF MainOK
    <3> QED BY <2>0, <3>2, <3>3, ServingLeave
  <2>3. CASE Terminated(t)
    <3>1. t # Main /\ pc'[t] = "idle" /\ UNCHANGED <<mainVars, controller, objectVars>>
      BY <1>0, <2>3 DEF Terminated, At, Return, MainOK
    <3> QED BY <1>0, <1>u, <2>0, <3>1
  <2>4. CASE WebCall(t)
    <3>1. t # Main
      BY <1>0, <2>4 DEF WebCall, At, MainOK
    <3>2. (phase = "serving" /\ daemon_run /\ ~Leaving) \/ ~Up
      BY <2>4, <3>1, MayBeginServes DEF WebCall
    <3>3. daemon_run /\ ~Leaving
      BY <1>0, <3>2 DEF Up, MainOK, LeavingOK, Leaving
    <3>4. MainOK'
      BY <1>0, <2>0, <3>1 DEF MainOK
    <3> QED BY <2>0, <3>3, <3>4, ServingLeave
  <2> QED BY <1>2, <2>1, <2>2, <2>3, <2>4 DEF RequestStep
<1>3. ASSUME NEW t \in Clients, NewRequest(t) PROVE LeaveInv'
  <2>0. t \in Workers /\ t # Main
    BY DaemonAssumption DEF Workers
  <2>1. UNCHANGED mainVars /\ \A u \in Workers \ {t} : pc'[u] = pc[u]
    BY <1>0, <1>3, <2>0 DEF NewRequest, ApiActivate, ApiDeactivate, WebSave, EnterActivate, EnterDeactivate,
      Goto, Return
  <2>2. (phase = "serving" /\ daemon_run /\ ~Leaving) \/ ~Up
    BY <1>3, <2>0, MayBeginServes DEF NewRequest, ApiActivate, ApiDeactivate, WebSave
  <2>3. daemon_run /\ ~Leaving
    BY <1>0, <2>2 DEF Up, MainOK, LeavingOK, Leaving
  <2>4. MainOK'
    BY <1>0, <2>0, <2>1 DEF MainOK
  <2> QED BY <2>1, <2>3, <2>4, ServingLeave
<1>4. ASSUME NEW x \in Objects, MethodEnds(x) PROVE FALSE
  BY <1>4 DEF MethodEnds, OneAtATime
<1>5. CASE MainStep
  <2>1. CASE ReadTables
    BY <1>0, <2>1 DEF ReadTables, LeaveInv, MainOK, LeavingOK, StoppingOK, JoiningOK, OutputsOK, Leaving
  <2>2. CASE StartTier
    BY <1>0, <2>2 DEF StartTier, At, LeaveInv, MainOK, LeavingOK, StoppingOK, JoiningOK, OutputsOK, Leaving
  <2>3. ASSUME NEW id \in Ids, StartNext(id) PROVE LeaveInv'
    <3>1. /\ phase = "starting" /\ UNCHANGED <<phase, daemon_run, output>>
          /\ pc'[Main] \in {"idle", "save"}
      BY <1>0, <2>3 DEF StartNext, EnterActivate, Goto, Return
    <3>2. MainOK'
      BY <1>0, <3>1 DEF MainOK
    <3>3. daemon_run /\ ~Leaving
      BY <1>0, <3>1 DEF LeavingOK, Leaving
    <3> QED BY <3>1, <3>2, <3>3, ServingLeave
  <2>4. CASE BeginStop
    <3>1. /\ phase = "serving" /\ ~daemon_run /\ phase' = "stopping" /\ tier' = 7
          /\ keys' = InDictionary(7) /\ todo' = InDictionary(7)
          /\ UNCHANGED <<daemon_run, output, controller, objectVars, workVars>>
      BY <2>4 DEF BeginStop
    <3>2. MainOK' /\ LeavingOK' /\ JoiningOK' /\ OutputsOK'
      BY <1>0, <3>1 DEF MainOK, LeavingOK, JoiningOK, OutputsOK, Leaving, AllSettled, Settled, Known
    <3>3. InDictionary(7)' = InDictionary(7)
      BY <3>1 DEF InDictionary, Known
    <3>4. ASSUME NEW x \in Objects, running[x]
          PROVE  serves[x] \in InDictionary(7) \/ \E i \in Tiers : i < 7 /\ serves[x] \in Tier(i)
      <4>1. Alive(x)
        BY <3>4 DEF StopInv, IInv, Sound, ObjectsOK, Alive
      <4>2. controller[serves[x]] = x /\ serves[x] \in Ids
        BY <3>1, <4>1, LeavingSettled
      <4>3. PICK i \in Tiers : serves[x] \in Tier(i)
        BY <4>2, SomeTier
      <4>4. CASE i = 7
        BY <1>0, <4>2, <4>3, <4>4 DEF InDictionary, Known
      <4>5. CASE i # 7
        BY <4>3, <4>5 DEF Tiers
      <4> QED BY <4>4, <4>5
    <3>5. StoppingOK'
      BY <3>1, <3>3, <3>4 DEF StoppingOK, Tier
    <3> QED BY <3>2, <3>5 DEF LeaveInv
  <2>5. ASSUME NEW id \in Ids, StopNext(id) PROVE LeaveInv'
    <3>1. /\ phase = "stopping" /\ ~daemon_run /\ todo' = todo \ {id}
          /\ UNCHANGED <<phase, daemon_run, keys, tier, output, controller, stage, serves, pc, op>>
          /\ \/ Stoppable(id) /\ running' = [running EXCEPT ![controller[id]] = FALSE]
             \/ ~Stoppable(id) /\ UNCHANGED running
      BY <1>0, <2>5 DEF StopNext, StopRunning, LeavingOK, Leaving
    <3>2. MainOK' /\ LeavingOK' /\ JoiningOK' /\ OutputsOK'
      BY <1>0, <3>1 DEF MainOK, LeavingOK, JoiningOK, OutputsOK, Leaving, AllSettled, Settled, Known
    <3>3. ASSUME NEW x \in Objects, running'[x] PROVE running[x] /\ serves[x] # id
      <4>1. running[x]
        BY <1>0, <3>1, <3>3
      <4>2. controller[serves[x]] = x
        BY <4>1, <3>1, LeavingSettled DEF StopInv, IInv, Sound, ObjectsOK, Alive
      <4>3. ASSUME serves[x] = id PROVE FALSE
        <5>1. controller[id] = x /\ Stoppable(id)
          BY <1>0, <4>1, <4>2, <4>3 DEF Stoppable, is_running, Known, StopRaises, StopInv, ThreadsOK
        <5> QED BY <1>0, <3>1, <3>3, <5>1
      <4> QED BY <4>1, <4>3
    <3>4. InDictionary(tier)' = InDictionary(tier)
      BY <3>1 DEF InDictionary, Known
    <3>5. StoppingOK'
      BY <1>0, <3>1, <3>3, <3>4 DEF StoppingOK, Tier
    <3> QED BY <3>2, <3>5 DEF LeaveInv
  <2>6. CASE StopTier
    <3>0. /\ phase = "stopping" /\ todo = {} /\ ~daemon_run
          /\ UNCHANGED <<daemon_run, output, controller, objectVars, workVars, controller_running>>
          /\ \A x \in Objects : running[x] => \E i \in Tiers : i < tier /\ serves[x] \in Tier(i)
      BY <1>0, <2>6 DEF StopTier, LeavingOK, Leaving, StoppingOK
    <3>1. CASE tier > 1
      <4>1. /\ UNCHANGED phase /\ tier' = tier - 1
            /\ keys' = InDictionary(tier - 1) /\ todo' = InDictionary(tier - 1)
        BY <2>6, <3>1 DEF StopTier
      <4>2. MainOK' /\ LeavingOK' /\ JoiningOK' /\ OutputsOK'
        BY <1>0, <3>0, <4>1 DEF MainOK, LeavingOK, JoiningOK, OutputsOK, Leaving, AllSettled, Settled, Known
      <4>3. InDictionary(tier)' = InDictionary(tier - 1)
        BY <3>0, <4>1 DEF InDictionary, Known, Tier
      <4>4. ASSUME NEW x \in Objects, running[x]
            PROVE  serves[x] \in todo' \/ \E i \in Tiers : i < tier - 1 /\ serves[x] \in Tier(i)
        <5>1. PICK i \in Tiers : i < tier /\ serves[x] \in Tier(i)
          BY <3>0, <4>4
        <5>2. CASE i = tier - 1
          <6>1. Known(serves[x])
            BY <1>0, <3>0, <4>4, LeavingSettled DEF Known, StopInv, IInv, Sound, ObjectsOK, Alive
          <6> QED BY <4>1, <5>1, <5>2, <6>1 DEF InDictionary
        <5>3. CASE i # tier - 1
          BY <1>0, <5>1, <5>3 DEF Tiers
        <5> QED BY <5>2, <5>3
      <4>5. StoppingOK'
        BY <3>0, <4>1, <4>3, <4>4 DEF StoppingOK, Tier
      <4> QED BY <4>2, <4>5 DEF LeaveInv
    <3>2. CASE ~(tier > 1)
      <4>1. phase' = "joining" /\ tier' = 7
        BY <2>6, <3>2 DEF StopTier
      <4>2. \A x \in Objects : ~running[x]
        BY <1>0, <3>0, <3>2 DEF Tiers
      <4>3. \A x \in Objects : ~Sampling(x)'
        BY <3>0, <4>2, LeavingSettled DEF Sampling
      <4>4. \A id \in Ids : \E i \in Tiers : i <= 7 /\ id \in Tier(i)
        BY SomeTier DEF Tiers
      <4>5. JoiningOK'
        BY <1>0, <3>0, <4>1, <4>3, <4>4 DEF JoiningOK, Tier
      <4>6. MainOK' /\ LeavingOK' /\ StoppingOK' /\ OutputsOK'
        BY <1>0, <3>0, <4>1 DEF MainOK, LeavingOK, StoppingOK, OutputsOK, Leaving, AllSettled, Settled, Known
      <4> QED BY <4>5, <4>6 DEF LeaveInv
    <3> QED BY <3>1, <3>2
  <2>7. CASE StopFails
    BY <1>0, <2>7 DEF StopFails, Grown, StoppingOK
  <2>8. ASSUME NEW id \in Ids, JoinNext(id) PROVE LeaveInv'
    <3>1. /\ phase = "joining" /\ controller_running' \subseteq controller_running
          /\ UNCHANGED <<phase, daemon_run, tier, output, controller, objectVars>>
          /\ \A u \in Workers \ {Main} : pc'[u] = pc[u]
          /\ pc'[Main] \in {"idle", "join"}
      BY <1>0, <2>8 DEF JoinNext, At, Goto
    <3>2. MainOK' /\ LeavingOK' /\ StoppingOK' /\ OutputsOK'
      BY <1>0, <3>1 DEF MainOK, LeavingOK, StoppingOK, OutputsOK, Leaving, AllSettled, Settled, Known
    <3>3. JoiningOK'
      BY <1>0, <3>1 DEF JoiningOK, Tier, Sampling
    <3> QED BY <3>2, <3>3 DEF LeaveInv
  <2>9. CASE MainJoin
    <3>1. /\ phase = "joining" /\ UNCHANGED <<mainVars, controller, objectVars>>
          /\ \A u \in Workers \ {Main} : pc'[u] = pc[u]
          /\ pc'[Main] = "idle"
      BY <1>0, <2>9 DEF MainJoin, At, Return, MainOK
    <3>2. MainOK' /\ LeavingOK' /\ StoppingOK' /\ JoiningOK' /\ OutputsOK'
      BY <1>0, <3>1 DEF MainOK, LeavingOK, StoppingOK, JoiningOK, OutputsOK, Leaving, AllSettled, Settled, Known,
        Tier, Sampling
    <3> QED BY <3>2 DEF LeaveInv
  <2>10. CASE JoinTier
    <3>0. /\ phase = "joining" /\ pc[Main] = "idle" /\ controller_running \cap Tier(tier) = {}
          /\ ~daemon_run
          /\ UNCHANGED <<daemon_run, controller_running, controller, objectVars, workVars>>
          /\ \A x \in Objects : ~Sampling(x)
          /\ \A id \in controller_running : \E i \in Tiers : i <= tier /\ id \in Tier(i)
      BY <1>0, <2>10 DEF JoinTier, At, JoiningOK, LeavingOK, Leaving
    <3>1. CASE tier > 1
      <4>1. UNCHANGED <<phase, output>> /\ tier' = tier - 1
        BY <2>10, <3>1 DEF JoinTier
      <4>2. MainOK' /\ LeavingOK' /\ StoppingOK' /\ OutputsOK'
        BY <1>0, <3>0, <4>1 DEF MainOK, LeavingOK, StoppingOK, OutputsOK, Leaving, AllSettled, Settled, Known
      <4>3. ASSUME NEW id \in controller_running PROVE \E i \in Tiers : i <= tier - 1 /\ id \in Tier(i)
        <5>1. PICK i \in Tiers : i <= tier /\ id \in Tier(i)
          BY <3>0
        <5>2. i # tier
          BY <3>0, <5>1
        <5> QED BY <1>0, <5>1, <5>2 DEF Tiers
      <4>4. JoiningOK'
        BY <3>0, <4>1, <4>3 DEF JoiningOK, Tier, Sampling
      <4> QED BY <4>2, <4>4 DEF LeaveInv
    <3>2. CASE ~(tier > 1)
      <4>1. phase' = "outputs" /\ output' = "stopping"
        BY <2>10, <3>2 DEF JoinTier
      <4>2. controller_running = {}
        BY <1>0, <3>0, <3>2 DEF Tiers
      <4>3. \A t \in Workers : pc[t] # "join"
        BY <1>0, <3>0 DEF LeavingOK
      <4>4. \A x \in Objects : ~Ending(x)
        BY <4>2, <4>3 DEF StopInv, EndingSeen
      <4>5. \A x \in Objects : ~Alive(x)'
        BY <3>0, <4>4 DEF Ending, Alive
      <4>6. MainOK' /\ LeavingOK' /\ StoppingOK' /\ JoiningOK'
        BY <1>0, <3>0, <4>1 DEF MainOK, LeavingOK, StoppingOK, JoiningOK, Leaving, AllSettled, Settled, Known
      <4>7. OutputsOK'
        BY <4>1, <4>5 DEF OutputsOK
      <4> QED BY <4>6, <4>7 DEF LeaveInv
    <3> QED BY <3>1, <3>2
  <2>11. CASE JoinOutput
    BY <1>0, <2>11 DEF JoinOutput, LeaveInv, MainOK, LeavingOK, StoppingOK, JoiningOK, OutputsOK, Leaving,
      AllSettled, Settled, Known, Alive
  <2> QED BY <1>5, <2>1, <2>2, <2>3, <2>4, <2>5, <2>6, <2>7, <2>8, <2>9, <2>10, <2>11 DEF MainStep
<1>6. CASE OutputEnds
  <2>1. /\ UNCHANGED <<phase, daemon_run, todo, keys, tier, controller_running, controller, objectVars, workVars>>
        /\ output = "stopping" /\ output' = "dead"
    BY <1>6 DEF OutputEnds
  <2>2. MainOK' /\ LeavingOK' /\ StoppingOK' /\ JoiningOK' /\ OutputsOK'
    BY <1>0, <2>1 DEF MainOK, LeavingOK, StoppingOK, JoiningOK, OutputsOK, Leaving, AllSettled, Settled, Known,
      Tier, InDictionary, Sampling, Alive
  <2> QED BY <2>2 DEF LeaveInv
<1>7. CASE Restart
  BY <1>0, <1>7 DEF Restart, LeaveInv, MainOK, LeavingOK, StoppingOK, JoiningOK, OutputsOK, Leaving
<1>8. CASE LoopRaises
  BY <1>8 DEF LoopRaises, OneAtATime
<1>9. CASE Gone
  <2>1. pc'[Main] = "idle"
    BY <1>0, <1>9 DEF Gone, Busy, MainOK
  <2> QED BY <1>9, <2>1 DEF Gone, LeaveInv, MainOK, LeavingOK, StoppingOK, JoiningOK, OutputsOK, Leaving
<1>10. ASSUME NEW t \in Stoppers, TerminateDaemon(t) PROVE LeaveInv'
  <2>1. /\ t \in Workers /\ t # Main /\ pc'[t] = "terminate"
        /\ \A u \in Workers \ {t} : pc'[u] = pc[u]
        /\ AllSettled /\ phase = "serving" /\ ~daemon_run' /\ \A u \in Workers : ~Busy(u)
        /\ UNCHANGED <<phase, todo, keys, tier, controller_running, output, controller, objectVars>>
    BY <1>0, <1>10, DaemonAssumption DEF TerminateDaemon, Goto, Workers, OneAtATime
  <2>2. MainOK' /\ StoppingOK' /\ JoiningOK' /\ OutputsOK'
    BY <1>0, <2>1 DEF MainOK, StoppingOK, JoiningOK, OutputsOK
  <2>3. LeavingOK'
    BY <1>0, <2>1 DEF LeavingOK, Leaving, Busy, AllSettled, Settled, Known
  <2> QED BY <2>2, <2>3 DEF LeaveInv
<1> QED BY <1>1, <1>2, <1>3, <1>4, <1>5, <1>6, <1>7, <1>8, <1>9, <1>10, ThreadStepLeave DEF Next, Exit, Crash

\* StopInv is inductive.
LEMMA StopStep == ASSUME OneAtATime PROVE StopInv /\ [Next]_vars => StopInv'
<1> SUFFICES ASSUME StopInv, [Next]_vars PROVE StopInv'
  OBVIOUS
<1>1. IInv'
  BY TypeStep, SoundStep, DaemonAssumption DEF StopInv, IInv, Sound, OneAtATime, ExclusionAssumption
<1>2. ThreadsOK' /\ EndingSeen'
  BY ThreadsStep
<1>3. LeaveInv'
  BY LeaveStep
<1> QED BY <1>1, <1>2, <1>3 DEF StopInv, LeaveInv

\* StopInv holds initially.
LEMMA StopInit == Init => StopInv
<1> SUFFICES ASSUME Init PROVE StopInv
  OBVIOUS
<1>1. IInv
  BY TypeInit, SoundInit DEF IInv
<1>2. ThreadsOK /\ EndingSeen
  BY DEF Init, ThreadsOK, EndingSeen, Ending, Alive, Known
<1>3. MainOK /\ LeavingOK /\ StoppingOK /\ JoiningOK /\ OutputsOK
  BY DEF Init, MainOK, LeavingOK, StoppingOK, JoiningOK, OutputsOK, Leaving, Workers
<1> QED BY <1>1, <1>2, <1>3 DEF StopInv

\* When no two requests are in progress at once and the threads end when they are
\* told to, outputs get their shutdown states only when no controller is left
\* that could switch them, whoever asked for what and wherever the daemon was
\* killed and started again before.
THEOREM OutputsEndLast ==
  ASSUME OneAtATime
  PROVE  Spec => []OutputsStopLast
<1>1. StopInv => OutputsStopLast
  BY DEF StopInv, MainOK, OutputsOK, OutputsStopLast
<1>2. StopInv /\ [Next]_vars => StopInv'
  BY StopStep
<1> QED BY <1>1, <1>2, StopInit, PTL DEF Spec

(***************************************************************************)
(* What runs is what the database calls activated                          *)
(***************************************************************************)
\* The pages make all requests, one at a time, and no method ends by itself: a
\* request through the API never writes the database, see ActiveMatches.
FromPages == OneAtATime /\ Faults \subseteq {"crash"} /\ Requests \subseteq {"web"}

\* A thread of the controller samples or is going to.
Goes(id) == Known(id) /\ Sampling(controller[id])

\* A page has written the database, and the threads have still to follow.
Changing(id) ==
  \E t \in Workers :
    op[t].id = id /\ pc[t] \in {"webActivate", "webDeactivate", "save", "create", "start"}

\* What a request does is what the database says by then.
SavedFirst ==
  \A t \in Workers :
    /\ pc[t] \in {"webActivate", "save", "create", "start"} => is_activated[op[t].id]
    /\ pc[t] = "webDeactivate" => ~is_activated[op[t].id]
    /\ pc[t] \in {"webActivate", "webDeactivate"} => t \in Clients

\* Before the daemon has started there are neither threads nor requests to it.
QuietOK ==
  phase \in {"down", "boot"} => /\ \A id \in Ids : ~Known(id)
                                /\ \A t \in Workers : ~Busy(t)

\* What is left to be started is activated, and its table is still to come.
StartingOK ==
  phase = "starting" =>
    \A id \in todo : is_activated[id] /\ \E i \in Tiers : tier <= i /\ id \in Tier(i)

\* Of each controller that is neither left to be started nor in a request.
Match ==
  phase \in {"starting", "serving"} /\ daemon_run =>
    \A id \in Ids : (phase = "starting" => id \notin todo) /\ ~Changing(id)
      => (is_activated[id] <=> Goes(id))

PagesOK == SavedFirst /\ QuietOK /\ StartingOK /\ Match

GoesInv == StopInv /\ PagesOK

\* The types the proofs below use.
LEMMA GoesTypes ==
  ASSUME StopInv
  PROVE  /\ pc \in [Workers -> Labels] /\ op \in [Workers -> Ops] /\ Main \in Workers
         /\ controller \in [Ids -> Objects \cup {None}] /\ running \in [Objects -> BOOLEAN]
         /\ stage \in [Objects -> {"unborn", "new", "initializing", "ready", "loop", "finally", "dead"}]
         /\ None \notin Objects /\ tier \in Tiers /\ todo \subseteq Ids
         /\ is_activated \in [Ids -> BOOLEAN]
BY DaemonAssumption DEF StopInv, IInv, TypeOK, Workers

\* A step of the daemon's that changes neither the database nor what goes, and in
\* which no request begins to write or comes to its threads.
LEMMA SamePages ==
  ASSUME GoesInv, UNCHANGED is_activated,
         \A id \in Ids : (Known(id)' <=> Known(id)) /\ (Goes(id)' <=> Goes(id)),
         \A t \in Workers :
           \/ pc'[t] = pc[t] /\ op'[t] = op[t]
           \/ /\ pc[t] \notin {"webActivate", "webDeactivate", "create", "start"}
              /\ pc'[t] \notin {"webActivate", "webDeactivate", "save", "start"}
              /\ pc[t] = "save" <=> pc'[t] = "create"
              /\ pc[t] = "save" => op'[t] = op[t],
         phase' \in {"down", "boot"} => phase' = phase /\ \A t \in Workers : ~Busy(t)'
  PROVE  /\ SavedFirst' /\ QuietOK'
         /\ UNCHANGED <<phase, daemon_run, todo>> => Match'
         /\ UNCHANGED <<phase, todo, tier>> => StartingOK'
<1>1. SavedFirst'
  BY DEF GoesInv, PagesOK, SavedFirst
<1>2. QuietOK'
  BY DEF GoesInv, PagesOK, QuietOK
<1>3. \A id : Changing(id)' <=> Changing(id)
  BY DEF Changing
<1>4. UNCHANGED <<phase, daemon_run, todo>> => Match'
  BY <1>3 DEF GoesInv, PagesOK, Match
<1>5. UNCHANGED <<phase, todo, tier>> => StartingOK'
  BY DEF GoesInv, PagesOK, StartingOK, Tier
<1> QED BY <1>1, <1>2, <1>4, <1>5

\* An activation of what the database calls activated.
LEMMA EnterActivatePages ==
  ASSUME FromPages, GoesInv, NEW t \in Workers, NEW id \in Ids, MayBegin(t, id),
         \/ t = Main /\ pc[t] = "idle" /\ phase = "starting" /\ id \in todo /\ todo' = todo \ {id}
         \/ /\ pc[t] = "webActivate" /\ op[t].id = id /\ phase = "serving" /\ daemon_run
            /\ UNCHANGED todo,
         is_activated[id], EnterActivate(t, id),
         UNCHANGED <<phase, daemon_run, tier, controller, objectVars, is_activated>>
  PROVE  PagesOK'
<1> USE DEF objectVars
<1>0. /\ pc \in [Workers -> Labels] /\ op \in [Workers -> Ops]
      /\ \A u \in Workers \ {t} : pc'[u] = pc[u] /\ op'[u] = op[u]
      /\ \/ is_running(id) /\ pc'[t] = "idle" /\ op'[t] = NoOp
         \/ pc'[t] = "save" /\ op'[t].id = id
  BY GoesTypes DEF GoesInv, EnterActivate, AlreadyActive, Return, Goto
<1>1. SavedFirst'
  BY <1>0 DEF GoesInv, PagesOK, SavedFirst
<1>2. QuietOK'
  BY DEF QuietOK
<1>3. StartingOK'
  BY DEF GoesInv, PagesOK, StartingOK, Tier
<1>4. \A i \in Ids : Goes(i)' <=> Goes(i)
  BY DEF Goes, Known, Sampling
<1>5. is_running(id) => Goes(id)
  BY DEF is_running, Goes, Sampling
<1>6. \A i \in Ids \ {id} : Changing(i)' <=> Changing(i)
  BY <1>0, DaemonAssumption DEF Changing, NoOp
<1>7. pc'[t] = "save" => Changing(id)'
  BY <1>0 DEF Changing
<1>8. Match'
  BY <1>0, <1>4, <1>5, <1>6, <1>7 DEF GoesInv, PagesOK, Match
<1> QED BY <1>1, <1>2, <1>3, <1>8 DEF PagesOK

\* A deactivation of what the database no longer calls activated.
LEMMA EnterDeactivatePages ==
  ASSUME FromPages, GoesInv, NEW t \in Workers, NEW id \in Ids, MayBegin(t, id),
         pc[t] = "webDeactivate", op[t].id = id, phase = "serving",
         EnterDeactivate(t, id),
         UNCHANGED <<mainVars, controller, stage, serves, loaded>>
  PROVE  PagesOK'
<1> USE DEF mainVars
<1> DEFINE x == controller[id]
<1>0. /\ pc \in [Workers -> Labels] /\ op \in [Workers -> Ops] /\ is_activated \in [Ids -> BOOLEAN]
      /\ running \in [Objects -> BOOLEAN] /\ controller \in [Ids -> Objects \cup {None}]
      /\ \A u \in Workers \ {t} : pc'[u] = pc[u] /\ op'[u] = op[u]
      /\ pc'[t] \in {"idle", "join"} /\ op'[t].id \in {None, id}
      /\ ~is_activated[id]
  BY GoesTypes DEF GoesInv, EnterDeactivate, Return, Goto, NoOp, PagesOK, SavedFirst
<1>1. is_activated' = is_activated
  <2>1. is_activated[id] = FALSE
    BY <1>0
  <2>2. is_activated = [i \in Ids |-> is_activated[i]]
    BY <1>0
  <2>3. [is_activated EXCEPT ![id] = FALSE] = is_activated
    BY <2>1, <2>2
  <2> QED BY <2>3 DEF EnterDeactivate
<1>2. SavedFirst'
  BY <1>0, <1>1 DEF GoesInv, PagesOK, SavedFirst
<1>3. QuietOK' /\ StartingOK'
  BY DEF QuietOK, StartingOK
<1>4. \A i \in Ids \ {id} : Changing(i)' <=> Changing(i)
  BY <1>0, DaemonAssumption DEF Changing
<1>5. \A i \in Ids \ {id} : Goes(i)' <=> Goes(i)
  <2>1. \A i \in Ids \ {id} : Known(i) /\ Known(id) => controller[i] # x
    BY DEF GoesInv, StopInv, ThreadsOK, Known
  <2> QED BY <1>0, <2>1 DEF EnterDeactivate, is_running, StopRunning, Goes, Known, Sampling
<1>6. ~Goes(id)'
  <2>1. Known(id) => x \in Objects /\ stage[x] \notin {"initializing", "ready"} /\ loaded[x]
    BY <1>0 DEF FromPages, OneAtATime, MayBegin, AllSettled, Settled, GoesInv, StopInv, ThreadsOK, Known
  <2> QED BY <1>0, <2>1 DEF EnterDeactivate, is_running, StopRaises, StopRunning, Goes, Known, Sampling
<1>7. Match'
  BY <1>0, <1>1, <1>4, <1>5, <1>6 DEF GoesInv, PagesOK, Match
<1> QED BY <1>2, <1>3, <1>7 DEF PagesOK

\* A page that writes the database.
LEMMA WebSavePages ==
  ASSUME FromPages, GoesInv, NEW t \in Clients, NEW id \in Ids, NEW active \in BOOLEAN,
         WebSave(t, id, active)
  PROVE  PagesOK'
<1> USE DEF mainVars, objectVars
<1>0. /\ t \in Workers /\ t # Main /\ pc \in [Workers -> Labels] /\ op \in [Workers -> Ops]
      /\ is_activated \in [Ids -> BOOLEAN]
      /\ \A u \in Workers \ {t} : pc'[u] = pc[u] /\ op'[u] = op[u]
      /\ pc'[t] = (IF active THEN "webActivate" ELSE "webDeactivate") /\ op'[t].id = id
      /\ is_activated' = [is_activated EXCEPT ![id] = active]
      /\ pc[t] = "idle" /\ UNCHANGED <<mainVars, controller, objectVars>>
  BY GoesTypes, DaemonAssumption DEF GoesInv, WebSave, WebSaved, Goto, At, Workers
<1>1. \A u \in Workers : ~Busy(u)
  <2>1. CASE Up
    BY <1>0, <2>1 DEF WebSave, MayBegin, FromPages, OneAtATime, Busy
  <2>2. CASE ~Up
    BY <2>2 DEF Up, GoesInv, StopInv, MainOK, PagesOK, QuietOK
  <2> QED BY <2>1, <2>2
<1>2. phase # "starting"
  BY <1>0 DEF WebSave, Up, MayBegin, FromPages, OneAtATime
<1>3. \A u \in Workers \ {t} : pc[u] \in {"webActivate", "webDeactivate"} => op[u].id # id
  BY DEF WebSave, GoesInv, PagesOK, SavedFirst, FromPages, OneAtATime
<1>4. \A u \in Workers \ {t} : pc[u] \in {"webActivate", "webDeactivate"} => op[u].id \in Ids
  BY DEF GoesInv, StopInv, IInv, Sound, PendingOK
<1>5. SavedFirst'
  BY <1>0, <1>1, <1>3, <1>4 DEF GoesInv, PagesOK, SavedFirst, Busy
<1>6. QuietOK' /\ StartingOK'
  BY <1>0, <1>1, <1>2 DEF GoesInv, PagesOK, QuietOK, StartingOK, Known, Busy
<1>7. Changing(id)' /\ \A i \in Ids \ {id} : Changing(i) => Changing(i)'
  BY <1>0 DEF Changing
<1>8. \A i \in Ids : Goes(i)' <=> Goes(i)
  BY <1>0 DEF Goes, Known, Sampling
<1>9. Match'
  BY <1>0, <1>7, <1>8 DEF GoesInv, PagesOK, Match
<1> QED BY <1>5, <1>6, <1>9 DEF PagesOK

\* The thread that is created is not yet at work.
LEMMA CreateThreadPages ==
  ASSUME FromPages, GoesInv, NEW t \in Workers, CreateThread(t)
  PROVE  PagesOK'
<1> USE DEF mainVars
<1>1. PICK x \in Objects : CreateThread(t)!(x)
  BY DEF CreateThread
<1> DEFINE id == op[t].id
<1>0. /\ pc \in [Workers -> Labels] /\ op \in [Workers -> Ops] /\ is_activated \in [Ids -> BOOLEAN]
      /\ running \in [Objects -> BOOLEAN] /\ controller \in [Ids -> Objects \cup {None}]
      /\ stage \in [Objects -> {"unborn", "new", "initializing", "ready", "loop", "finally", "dead"}]
  BY GoesTypes DEF GoesInv
<1>2. /\ pc[t] = "create" /\ pc'[t] = "start" /\ op'[t].id = id /\ id \in Ids /\ Busy(t)
      /\ \A u \in Workers \ {t} : pc'[u] = pc[u] /\ op'[u] = op[u]
      /\ \A i \in Ids \ {id} : controller'[i] = controller[i] /\ controller[i] # x
      /\ \A y \in Objects \ {x} : stage'[y] = stage[y] /\ running'[y] = running[y]
      /\ UNCHANGED <<mainVars, is_activated>>
  BY <1>0, <1>1 DEF At, Goto, Unused, Busy, GoesInv, StopInv, IInv, Sound, ActivationOK, Activating
<1>3. SavedFirst'
  BY <1>2 DEF GoesInv, PagesOK, SavedFirst
<1>4. QuietOK' /\ StartingOK'
  BY <1>2 DEF GoesInv, PagesOK, QuietOK, StartingOK, Tier
<1>5. Changing(id)' /\ \A i \in Ids \ {id} : Changing(i) => Changing(i)'
  BY <1>2 DEF Changing
<1>6. \A i \in Ids \ {id} : Goes(i)' <=> Goes(i)
  BY <1>0, <1>2 DEF Goes, Known, Sampling
<1>7. Match'
  BY <1>2, <1>5, <1>6 DEF GoesInv, PagesOK, Match
<1> QED BY <1>3, <1>4, <1>7 DEF PagesOK

\* The thread that is started goes.
LEMMA StartThreadPages ==
  ASSUME FromPages, GoesInv, NEW t \in Workers, StartThread(t)
  PROVE  PagesOK'
<1> USE DEF mainVars
<1> DEFINE id == op[t].id
           x == controller[id]
<1>0. /\ pc \in [Workers -> Labels] /\ op \in [Workers -> Ops] /\ is_activated \in [Ids -> BOOLEAN]
      /\ running \in [Objects -> BOOLEAN] /\ controller \in [Ids -> Objects \cup {None}]
      /\ stage \in [Objects -> {"unborn", "new", "initializing", "ready", "loop", "finally", "dead"}]
  BY GoesTypes DEF GoesInv
<1>1. /\ pc[t] = "start" /\ Busy(t) /\ id \in Ids /\ x \in Objects /\ stage[x] = "new" /\ is_activated[id]
      /\ \A i \in Ids \ {id} : Known(i) => controller[i] # x
  BY <1>0 DEF StartThread, At, Busy, GoesInv, PagesOK, SavedFirst, StopInv, ThreadsOK, IInv, Sound, ActivationOK,
    Activating, Known
<1>2. /\ pc'[t] = "ready" /\ UNCHANGED op
      /\ \A u \in Workers \ {t} : pc'[u] = pc[u]
      /\ stage'[x] = "initializing" /\ \A y \in Objects \ {x} : stage'[y] = stage[y]
      /\ UNCHANGED <<mainVars, controller, running, is_activated>>
  BY <1>0, <1>1 DEF StartThread, Startable, Goto
<1>3. SavedFirst'
  BY <1>2 DEF GoesInv, PagesOK, SavedFirst
<1>4. QuietOK' /\ StartingOK'
  BY <1>1, <1>2 DEF GoesInv, PagesOK, QuietOK, StartingOK, Tier
<1>5. \A i \in Ids \ {id} : Changing(i) => Changing(i)'
  BY <1>2 DEF Changing
<1>6. Goes(id)' /\ \A i \in Ids \ {id} : Goes(i)' <=> Goes(i)
  BY <1>0, <1>1, <1>2, DaemonAssumption DEF Goes, Known, Sampling
<1>7. Match'
  BY <1>1, <1>2, <1>5, <1>6 DEF GoesInv, PagesOK, Match
<1> QED BY <1>3, <1>4, <1>7 DEF PagesOK

\* The threads' own steps change nothing of what goes.
LEMMA ThreadStepPages ==
  ASSUME FromPages, GoesInv, NEW x \in Objects, ThreadStep(x)
  PROVE  PagesOK'
<1>1. /\ UNCHANGED <<mainVars, controller, is_activated, workVars>>
      /\ \A y \in Objects : Sampling(y)' <=> Sampling(y)
  <2>1. CASE Initialize(x)
    BY <2>1, GoesTypes DEF Initialize, Sampling, FromPages, GoesInv
  <2>2. CASE BeginLoop(x)
    BY <2>2, GoesTypes DEF BeginLoop, Sampling, GoesInv
  <2>3. CASE EndLoop(x)
    BY <2>3, GoesTypes DEF EndLoop, Sampling, GoesInv
  <2>4. CASE RunFinally(x)
    BY <2>4, GoesTypes DEF RunFinally, Sampling, GoesInv, StopInv, IInv, Sound, ObjectsOK
  <2> QED BY <2>1, <2>2, <2>3, <2>4 DEF ThreadStep
<1>2. \A id \in Ids : (Known(id)' <=> Known(id)) /\ (Goes(id)' <=> Goes(id))
  <2> SUFFICES ASSUME NEW id \in Ids PROVE (Known(id)' <=> Known(id)) /\ (Goes(id)' <=> Goes(id))
    OBVIOUS
  <2>1. controller'[id] = controller[id] /\ (Known(id) => controller[id] \in Objects)
    BY <1>1, GoesTypes DEF Known, GoesInv
  <2>2. CASE Known(id)
    <3>1. PICK y \in Objects : y = controller[id]
      BY <2>1, <2>2
    <3>2. Sampling(y)' <=> Sampling(y)
      BY <1>1
    <3>3. Goes(id) <=> Sampling(y)
      BY <2>2, <3>1 DEF Goes
    <3>4. Goes(id)' <=> Sampling(y)'
      BY <2>1, <2>2, <3>1 DEF Goes, Known, Sampling
    <3> QED BY <2>1, <3>2, <3>3, <3>4 DEF Known
  <2>3. CASE ~Known(id)
    BY <2>1, <2>3 DEF Goes, Known
  <2> QED BY <2>2, <2>3
<1>3. phase' \in {"down", "boot"} => phase' = phase /\ \A t \in Workers : ~Busy(t)'
  BY <1>1 DEF mainVars, workVars, GoesInv, PagesOK, QuietOK, Busy
<1> QED BY <1>1, <1>2, <1>3, SamePages DEF mainVars, workVars, PagesOK

\* What runs is what the database calls activated, whatever the daemon and the
\* pages do next.
LEMMA PagesStep ==
  ASSUME FromPages, GoesInv, [Next]_vars
  PROVE  PagesOK'
<1> USE DEF mainVars, objectVars, workVars
<1>0. /\ pc \in [Workers -> Labels] /\ op \in [Workers -> Ops] /\ Main \in Workers
      /\ controller \in [Ids -> Objects \cup {None}] /\ is_activated \in [Ids -> BOOLEAN]
      /\ tier \in Tiers /\ todo \subseteq Ids /\ OneAtATime
      /\ SavedFirst /\ QuietOK /\ StartingOK /\ Match /\ MainOK /\ LeavingOK
  BY GoesTypes DEF GoesInv, PagesOK, FromPages, StopInv
\* A step that leaves the tables and the threads alone.
<1>s. ASSUME UNCHANGED <<is_activated, controller, objectVars>>,
             \A t \in Workers :
               \/ pc'[t] = pc[t] /\ op'[t] = op[t]
               \/ /\ pc[t] \notin {"webActivate", "webDeactivate", "create", "start"}
                  /\ pc'[t] \notin {"webActivate", "webDeactivate", "save", "start"}
                  /\ pc[t] = "save" <=> pc'[t] = "create"
                  /\ pc[t] = "save" => op'[t] = op[t],
             phase' \in {"down", "boot"} => phase' = phase /\ \A t \in Workers : ~Busy(t)'
      PROVE  /\ SavedFirst' /\ QuietOK'
             /\ UNCHANGED <<phase, daemon_run, todo>> => Match'
             /\ UNCHANGED <<phase, todo, tier>> => StartingOK'
  <2>1. \A id \in Ids : (Known(id)' <=> Known(id)) /\ (Goes(id)' <=> Goes(id))
    BY <1>s DEF Goes, Known, Sampling
  <2> QED BY <1>s, <2>1, SamePages
\* A step after which Match and StartingOK say nothing.
<1>v. ASSUME phase' \notin {"starting", "serving"} \/ (phase' # "starting" /\ ~daemon_run')
      PROVE  StartingOK' /\ Match'
  BY <1>v DEF StartingOK, Match
<1>1. CASE UNCHANGED vars
  BY <1>0, <1>s, <1>1 DEF vars, PagesOK, QuietOK, Busy
<1>2. ASSUME NEW t \in Workers, RequestStep(t) PROVE PagesOK'
  <2>1. CASE SaveActive(t)
    <3>1. pc[t] = "save" /\ is_activated[op[t].id] = TRUE
      BY <1>0, <2>1 DEF SaveActive, At, SavedFirst
    <3>2. is_activated' = is_activated
      <4>1. is_activated = [i \in Ids |-> is_activated[i]]
        BY <1>0
      <4>2. [is_activated EXCEPT ![op[t].id] = TRUE] = is_activated
        BY <3>1, <4>1
      <4> QED BY <2>1, <4>2 DEF SaveActive
    <3>3. /\ pc'[t] = "create" /\ UNCHANGED <<mainVars, controller, objectVars, op>>
          /\ \A u \in Workers \ {t} : pc'[u] = pc[u]
      BY <1>0, <2>1 DEF SaveActive, Goto
    <3>4. phase \notin {"down", "boot"}
      BY <1>0, <3>1 DEF QuietOK, Busy
    <3> QED BY <1>s, <3>1, <3>2, <3>3, <3>4 DEF PagesOK
  <2>2. CASE ReadyWait(t) \/ Join(t) \/ Terminated(t)
    <3>1. /\ pc[t] \in {"ready", "join", "terminate"} /\ pc'[t] = "idle"
          /\ UNCHANGED <<mainVars, controller, objectVars, is_activated>>
          /\ \A u \in Workers \ {t} : pc'[u] = pc[u] /\ op'[u] = op[u]
      BY <1>0, <2>2 DEF ReadyWait, Join, Terminated, At, Return
    <3>2. phase \notin {"down", "boot"}
      BY <1>0, <3>1 DEF QuietOK, Busy
    <3> QED BY <1>s, <3>1, <3>2 DEF PagesOK
  <2>3. CASE WebCall(t)
    <3>1. /\ op[t].id \in Ids /\ pc[t] \in {"webActivate", "webDeactivate"} /\ t # Main /\ pc[t] # "idle"
      BY <1>0, <2>3 DEF WebCall, GoesInv, StopInv, IInv, Sound, PendingOK, At, MainOK
    <3>2. CASE At(t, "webActivate") /\ Up /\ MayBegin(t, op[t].id) /\ EnterActivate(t, op[t].id)
               /\ UNCHANGED <<mainVars, controller, objectVars, is_activated>>
      <4>1. phase = "serving" /\ daemon_run /\ is_activated[op[t].id] /\ pc[t] = "webActivate"
        BY <1>0, <3>1, <3>2 DEF MayBegin, OneAtATime, SavedFirst, At
      <4> QED BY <3>1, <3>2, <4>1, EnterActivatePages
    <3>3. CASE At(t, "webDeactivate") /\ Up /\ MayBegin(t, op[t].id) /\ EnterDeactivate(t, op[t].id)
               /\ UNCHANGED <<mainVars, controller, stage, serves, loaded>>
      <4>1. phase = "serving" /\ pc[t] = "webDeactivate"
        BY <1>0, <3>1, <3>3 DEF MayBegin, OneAtATime, At
      <4> QED BY <3>1, <3>3, <4>1, EnterDeactivatePages
    <3>4. CASE ~Up /\ Return(t) /\ UNCHANGED <<mainVars, controller, objectVars, is_activated>>
      <4>1. phase = "down"
        BY <1>0, <3>4 DEF Up, MainOK
      <4>2. StartingOK' /\ Match'
        BY <1>v, <3>4, <4>1
      <4>3. /\ pc'[t] = "idle"
            /\ \A u \in Workers \ {t} : pc'[u] = pc[u] /\ op'[u] = op[u]
        BY <1>0, <3>4 DEF Return
      <4>4. SavedFirst'
        BY <1>0, <3>4, <4>3 DEF SavedFirst
      <4>5. QuietOK'
        BY <1>0, <3>4, <4>1, <4>3 DEF QuietOK, Busy, Known
      <4> QED BY <4>2, <4>4, <4>5 DEF PagesOK
    <3> QED BY <2>3, <3>2, <3>3, <3>4 DEF WebCall
  <2> QED BY <1>2, <2>1, <2>2, <2>3, CreateThreadPages, StartThreadPages DEF RequestStep
<1>3. ASSUME NEW t \in Clients, NewRequest(t) PROVE PagesOK'
  BY <1>3, WebSavePages DEF NewRequest, ApiActivate, ApiDeactivate, FromPages
<1>4. ASSUME NEW x \in Objects, MethodEnds(x) PROVE FALSE
  BY <1>0, <1>4 DEF MethodEnds, OneAtATime
<1>5. CASE MainStep
  <2>1. CASE ReadTables
    <3>1. /\ phase = "boot" /\ phase' = "starting" /\ todo' = {id \in Ids : is_activated[id]} /\ tier' = 1
          /\ UNCHANGED <<controller, objectVars, is_activated, workVars>>
      BY <2>1 DEF ReadTables
    <3>2. SavedFirst' /\ QuietOK'
      BY <1>s, <3>1
    <3>3. StartingOK'
      BY <3>1, SomeTier DEF StartingOK, Tier, Tiers
    <3>4. Match'
      BY <1>0, <3>1 DEF Match, QuietOK, Goes, Known
    <3> QED BY <3>2, <3>3, <3>4 DEF PagesOK
  <2>2. CASE StartTier
    <3>1. /\ phase = "starting" /\ todo \cap Tier(tier) = {}
          /\ UNCHANGED <<daemon_run, todo, controller, objectVars, is_activated, workVars>>
          /\ \/ tier < 7 /\ tier' = tier + 1 /\ phase' = phase
             \/ ~(tier < 7) /\ phase' = "serving" /\ tier' = tier
      BY <2>2 DEF StartTier
    <3>2. SavedFirst' /\ QuietOK'
      BY <1>s, <3>1
    <3>3. \A id \in todo : is_activated[id] /\ \E i \in Tiers : tier + 1 <= i /\ id \in Tier(i)
      <4> SUFFICES ASSUME NEW id \in todo PROVE is_activated[id] /\ \E i \in Tiers : tier + 1 <= i /\ id \in Tier(i)
        OBVIOUS
      <4>1. PICK i \in Tiers : tier <= i /\ id \in Tier(i)
        BY <1>0, <3>1 DEF StartingOK
      <4>2. i # tier
        BY <3>1, <4>1
      <4>3. tier + 1 <= i
        BY <1>0, <4>1, <4>2 DEF Tiers
      <4> QED BY <1>0, <3>1, <4>1, <4>3 DEF StartingOK
    <3>4. CASE tier < 7
      BY <1>s, <1>0, <3>1, <3>2, <3>3, <3>4 DEF PagesOK, StartingOK, Tier
    <3>5. CASE ~(tier < 7)
      <4>1. todo = {}
        BY <1>0, <3>3, <3>5 DEF Tiers
      <4>2. \A id \in Ids : (Goes(id)' <=> Goes(id)) /\ (Changing(id)' <=> Changing(id))
        BY <3>1 DEF Goes, Known, Sampling, Changing
      <4>3. Match'
        BY <1>0, <3>1, <4>1, <4>2 DEF Match
      <4>4. StartingOK'
        BY <3>1, <3>5 DEF StartingOK
      <4> QED BY <3>2, <4>3, <4>4 DEF PagesOK
    <3> QED BY <3>4, <3>5
  <2>3. ASSUME NEW id \in Ids, StartNext(id) PROVE PagesOK'
    <3>1. is_activated[id]
      BY <1>0, <2>3 DEF StartNext, StartingOK
    <3> QED BY <1>0, <2>3, <3>1, EnterActivatePages DEF StartNext, At
  <2>4. CASE BeginStop \/ StopTier \/ StopFails \/ JoinTier \/ JoinOutput
    <3>1. /\ UNCHANGED <<controller, objectVars, is_activated, workVars>>
          /\ phase' \in {"stopping", "joining", "outputs", "terminated", "failed"}
      BY <2>4 DEF BeginStop, StopTier, StopFails, JoinTier, JoinOutput
    <3>2. SavedFirst' /\ QuietOK'
      BY <1>s, <3>1
    <3> QED BY <1>v, <3>1, <3>2 DEF PagesOK
  <2>5. ASSUME NEW id \in Ids, StopNext(id) PROVE PagesOK'
    <3>1. phase' = "stopping" /\ UNCHANGED <<is_activated, workVars>>
      BY <2>5 DEF StopNext
    <3> QED BY <1>0, <1>v, <3>1 DEF PagesOK, SavedFirst, QuietOK
  <2>6. ASSUME MainJoin \/ \E id \in Ids : JoinNext(id) PROVE PagesOK'
    <3>1. /\ phase' = phase /\ UNCHANGED is_activated
          /\ \A u \in Workers \ {Main} : pc'[u] = pc[u] /\ op'[u] = op[u]
          /\ pc'[Main] \in {"idle", "join"}
      BY <1>0, <2>6 DEF MainJoin, JoinNext, At, Return, Goto
    <3>2. phase = "joining"
      BY <1>0, <2>6 DEF MainJoin, JoinNext, MainOK, At
    <3> QED BY <1>0, <1>v, <3>1, <3>2 DEF PagesOK, SavedFirst, QuietOK
  <2> QED BY <1>5, <2>1, <2>2, <2>3, <2>4, <2>5, <2>6 DEF MainStep
<1>6. CASE OutputEnds
  <2>1. phase \notin {"starting", "serving", "down", "boot"} /\ UNCHANGED <<phase, is_activated, workVars>>
    BY <1>6 DEF OutputEnds, GoesInv, StopInv, OutputsOK
  <2> QED BY <1>0, <1>v, <2>1 DEF PagesOK, SavedFirst, QuietOK
<1>7. CASE Restart
  BY <1>0, <1>v, <1>7 DEF Restart, PagesOK, SavedFirst, QuietOK, Known, Busy
<1>8. CASE LoopRaises
  BY <1>0, <1>8 DEF LoopRaises, OneAtATime
<1>9. CASE Gone
  BY <1>0, <1>v, <1>9 DEF Gone, PagesOK, SavedFirst, QuietOK, Known, Busy
<1>10. ASSUME NEW t \in Stoppers, TerminateDaemon(t) PROVE PagesOK'
  <2>1. /\ t \in Workers /\ pc[t] = "idle" /\ pc'[t] = "terminate"
        /\ \A u \in Workers \ {t} : pc'[u] = pc[u] /\ op'[u] = op[u]
        /\ phase' = "serving" /\ ~daemon_run'
        /\ UNCHANGED <<is_activated, controller, objectVars>>
    BY <1>0, <1>10 DEF TerminateDaemon, At, Goto, Workers, OneAtATime
  <2>2. SavedFirst' /\ QuietOK'
    BY <1>s, <2>1
  <2> QED BY <1>v, <2>1, <2>2 DEF PagesOK
<1> QED BY <1>1, <1>2, <1>3, <1>4, <1>5, <1>6, <1>7, <1>8, <1>9, <1>10, ThreadStepPages DEF Next, Exit, Crash

\* When the pages make all requests, one at a time, and nobody has a request in
\* progress, the controllers that run are those the database calls activated,
\* wherever the daemon was killed, shut down or started again before.
THEOREM ActiveAsSaved ==
  ASSUME FromPages
  PROVE  Spec => []ActiveMatches
<1>1. Init => GoesInv
  BY StopInit DEF Init, GoesInv, PagesOK, SavedFirst, QuietOK, StartingOK, Match, Known, Busy
<1>2. GoesInv /\ [Next]_vars => GoesInv'
  BY StopStep, PagesStep DEF GoesInv, FromPages
<1>3. GoesInv => ActiveMatches
  <2> SUFFICES ASSUME GoesInv, phase = "serving", daemon_run, AllSettled, \A t \in Workers : pc[t] = "idle",
                      NEW id \in Ids
               PROVE  is_activated[id] <=> is_running(id)
    BY DEF ActiveMatches, At
  <2>1. is_activated[id] <=> Goes(id)
    BY DEF GoesInv, PagesOK, Match, Changing
  <2>2. Goes(id) <=> is_running(id)
    BY DEF AllSettled, Settled, Goes, Sampling, is_running
  <2> QED BY <2>1, <2>2
<1> QED BY <1>1, <1>2, <1>3, PTL DEF Spec
=============================================================================
