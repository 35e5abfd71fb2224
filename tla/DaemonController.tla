-------------------------- MODULE DaemonController --------------------------
(***************************************************************************)
(* The daemon's controllers and their threads: DaemonController            *)
(* (mycodo/mycodo_daemon.py) starts, activates, deactivates and stops      *)
(* them; each is a thread object that runs AbstractController.run()        *)
(* (mycodo/controllers/base_controller.py).  Requests come from the web    *)
(* pages, which write the database before they call the daemon, and from   *)
(* the API, which only calls it.                                           *)
(*                                                                         *)
(* The Pyro server runs every request in a thread of its own (Clients,     *)
(* Stoppers) next to the daemon's main thread (Main), and nothing is       *)
(* locked.                                                                 *)
(***************************************************************************)
EXTENDS Integers, Sequences, FiniteSets

CONSTANTS
  Ids,          \* unique ids of the controllers in the database
  Type,         \* the table each is in, one of cont_types
  Clients,      \* who asks for (de)activations
  Stoppers,     \* who asks the daemon to shut down
  Main,         \* the daemon's main thread
  Objects,      \* BOUND: thread objects that may exist at once
  Requests,     \* where (de)activations come from: "web", "api"
  Faults,       \* "crash": the daemon is killed; "input": an input's device module
                \* does not load; "ended": a trigger or PID starts with a method
                \* that has ended; "ends": its method ends while it runs; "error":
                \* the daemon's own loop raises
  Exclusion,    \* schedules looked at: "none" all of them; "id" those in which no
                \* two requests are for one controller at once; "all" those in
                \* which no two requests are in progress at once
  None          \* Python's None

Workers == Clients \cup Stoppers \cup {Main}

\* Controllers are started in this order and stopped in its reverse.
cont_types == <<"Conditional", "Trigger", "Input", "Math", "PID", "LCD", "Custom">>

Tiers == 1..7

ASSUME DaemonAssumption ==
  /\ Type \in [Ids -> {cont_types[i] : i \in Tiers}]
  /\ Main \notin Clients \cup Stoppers /\ Clients \cap Stoppers = {}
  /\ Requests \subseteq {"web", "api"}
  /\ Faults \subseteq {"crash", "input", "ended", "ends", "error"}
  /\ Exclusion \in {"none", "id", "all"}
  /\ None \notin Ids \cup Objects

VARIABLES
  phase,           \* where Main is
  daemon_run,      \* whether it is to go on
  todo, keys,      \* what is left of the list or dictionary it goes through, and
                   \* that dictionary's keys when it began
  tier,            \* the index in cont_types it has come to
  controller_running,  \* those it has told to stop and will join
  output,          \* the output controller's thread
  controller,      \* the dictionary: the thread object of each id
  stage, running, serves, loaded,  \* of each thread object: where it is, its
                   \* attribute running, its id, whether its set-up went well
  is_activated,    \* the column in the database
  pc, op           \* each worker's place in its request, and its locals

mainVars   == <<phase, daemon_run, todo, keys, tier, controller_running, output>>
objectVars == <<stage, running, serves, loaded>>
workVars   == <<pc, op>>
vars == <<mainVars, controller, objectVars, is_activated, workVars>>

(***************************************************************************)
(* Queries                                                                 *)
(***************************************************************************)
Up == phase \notin {"down", "failed"}

Known(id) == controller[id] # None

is_running(id) == Known(id) /\ running[controller[id]]

NoOp == [id |-> None, thread |-> None]

Busy(t) == pc[t] \notin {"idle", "webActivate", "webDeactivate"}

\* The thread of an activation is in its loop, or has ended.
Settled(id) == Known(id) => stage[controller[id]] \in {"loop", "finally", "dead"}

AllSettled == \A id \in Ids : Settled(id)

\* Schedule restrictions, see Exclusion.
MayBegin(t, id) ==
  /\ Exclusion = "id" =>
       Settled(id) /\ \A u \in Workers \ {t} : Busy(u) => op[u].id # id
  /\ Exclusion = "all" =>
       /\ AllSettled /\ \A u \in Workers \ {t} : ~Busy(u)
       /\ t = Main \/ (phase = "serving" /\ daemon_run)

Goto(t, label) == pc' = [pc EXCEPT ![t] = label]

Return(t) == pc' = [pc EXCEPT ![t] = "idle"] /\ op' = [op EXCEPT ![t] = NoOp]

At(t, label) == pc[t] = label

(***************************************************************************)
(* controller_activate                                                     *)
(***************************************************************************)
\* MUTANT of AlreadyActive: the test of lines 270-276 is missing.
NeverActive(id) == FALSE

AlreadyActive(id) == is_running(id)

\* A thread that has ended is forgotten when another takes its place.
Unused(x, id) == /\ stage[x] \in {"unborn", "dead"}
                 /\ \A other \in Ids \ {id} : controller[other] # x
                 /\ \A t \in Workers : op[t].thread # x

\* BOUND: a request that will create a thread waits for a free object.
Room(id) == Cardinality({x \in Objects : Unused(x, id)})
              > Cardinality({t \in Workers : pc[t] \in {"save", "create"}})

EnterActivate(t, id) ==
  IF AlreadyActive(id)
  THEN Return(t)
  ELSE /\ Room(id) /\ Goto(t, "save")
       /\ op' = [op EXCEPT ![t] = [id |-> id, thread |-> None]]

SaveActive(t) ==
  /\ At(t, "save")
  /\ is_activated' = [is_activated EXCEPT ![op[t].id] = TRUE]
  /\ Goto(t, "create")
  /\ UNCHANGED <<mainVars, controller, objectVars, op>>

CreateThread(t) ==
  \E x \in Objects :
    /\ At(t, "create")
    /\ Unused(x, op[t].id)
    /\ controller' = [controller EXCEPT ![op[t].id] = x]
    /\ stage' = [stage EXCEPT ![x] = "new"]
    /\ running' = [running EXCEPT ![x] = FALSE]
    /\ serves' = [serves EXCEPT ![x] = op[t].id]
    /\ loaded' = [loaded EXCEPT ![x] = TRUE]
    /\ op' = [op EXCEPT ![t].thread = x]
    /\ Goto(t, "start")
    /\ UNCHANGED <<mainVars, is_activated>>

Startable(x) == stage[x] = "new"

\* start() is called on what the dictionary holds by then; Python starts a
\* thread only once and raises otherwise, which ends the request.
StartThread(t) ==
  LET x == controller[op[t].id] IN
  /\ At(t, "start")
  /\ IF Startable(x)
     THEN stage' = [stage EXCEPT ![x] = "initializing"] /\ Goto(t, "ready") /\ UNCHANGED op
     ELSE Return(t) /\ UNCHANGED stage
  /\ UNCHANGED <<mainVars, controller, running, serves, loaded, is_activated>>

\* MUTANT of EventSet: a notification that is not kept for who waits later.
EventPulse(x) == stage[x] = "ready"

EventSet(x) == stage[x] \in {"ready", "loop", "finally", "dead"}

\* ready.wait(): the event is the one given to the thread this request created.
ReadyWait(t) ==
  /\ At(t, "ready")
  /\ EventSet(op[t].thread)
  /\ Return(t)
  /\ UNCHANGED <<mainVars, controller, objectVars, is_activated>>

(***************************************************************************)
(* controller_deactivate and stop_controller                               *)
(***************************************************************************)
\* An input whose device module did not load has nothing to call stop_input() on.
StopRaises(x) == ~loaded[x]

\* MUTANT of StopRunning: an override of stop_controller() that forgets the flag.
StopForgotten(x) == UNCHANGED running

\* stop_controller(); a PID deactivated by a request also writes the database.
StopRunning(x) == running' = [running EXCEPT ![x] = FALSE]

EnterDeactivate(t, id) ==
  LET x == controller[id] IN
  IF ~is_running(id) \/ StopRaises(x)
  THEN Return(t) /\ UNCHANGED <<running, is_activated>>
  ELSE /\ StopRunning(x)
       /\ is_activated' = IF Type[id] = "PID" THEN [is_activated EXCEPT ![id] = FALSE]
                          ELSE is_activated
       /\ Goto(t, "join")
       /\ op' = [op EXCEPT ![t] = [id |-> id, thread |-> x]]

Join(t) ==
  /\ At(t, "join") /\ t # Main
  /\ stage[op[t].thread] = "dead"
  /\ Return(t)
  /\ UNCHANGED <<mainVars, controller, objectVars, is_activated>>

(***************************************************************************)
(* Requests                                                                *)
(***************************************************************************)
\* The API calls the daemon and nothing else.
ApiActivate(t, id) ==
  /\ "api" \in Requests /\ Up /\ At(t, "idle") /\ MayBegin(t, id)
  /\ EnterActivate(t, id)
  /\ UNCHANGED <<mainVars, controller, objectVars, is_activated>>

ApiDeactivate(t, id) ==
  /\ "api" \in Requests /\ Up /\ At(t, "idle") /\ MayBegin(t, id)
  /\ EnterDeactivate(t, id)
  /\ UNCHANGED <<mainVars, controller, stage, serves, loaded>>

\* MUTANT of WebSaved: the page forgets to write the database.
WebNotSaved(id, active) == is_activated

WebSaved(id, active) == [is_activated EXCEPT ![id] = active]

\* A page writes the database first, whether the daemon is up or not.
WebSave(t, id, active) ==
  /\ "web" \in Requests /\ At(t, "idle")
  /\ Up => MayBegin(t, id)
  /\ \A u \in Clients : pc[u] \in {"webActivate", "webDeactivate"} => Exclusion = "none" \/ op[u].id # id
  /\ is_activated' = WebSaved(id, active)
  /\ Goto(t, IF active THEN "webActivate" ELSE "webDeactivate")
  /\ op' = [op EXCEPT ![t] = [id |-> id, thread |-> None]]
  /\ UNCHANGED <<mainVars, controller, objectVars>>

\* Then it calls the daemon; nothing happens when there is none.
WebCall(t) ==
  \/ /\ At(t, "webActivate") /\ Up /\ MayBegin(t, op[t].id)
     /\ EnterActivate(t, op[t].id)
     /\ UNCHANGED <<mainVars, controller, objectVars, is_activated>>
  \/ /\ At(t, "webDeactivate") /\ Up /\ MayBegin(t, op[t].id)
     /\ EnterDeactivate(t, op[t].id)
     /\ UNCHANGED <<mainVars, controller, stage, serves, loaded>>
  \/ /\ pc[t] \in {"webActivate", "webDeactivate"} /\ ~Up
     /\ Return(t)
     /\ UNCHANGED <<mainVars, controller, objectVars, is_activated>>

TerminateDaemon(t) ==
  /\ Up /\ At(t, "idle")
  /\ Exclusion = "all" => AllSettled /\ phase = "serving" /\ \A u \in Workers : ~Busy(u)
  /\ daemon_run' = FALSE
  /\ Goto(t, "terminate")
  /\ UNCHANGED <<phase, todo, keys, tier, controller_running, output, controller,
                 objectVars, is_activated, op>>

Terminated(t) ==
  /\ At(t, "terminate") /\ phase = "terminated"
  /\ Return(t)
  /\ UNCHANGED <<mainVars, controller, objectVars, is_activated>>

(***************************************************************************)
(* A controller's thread                                                   *)
(***************************************************************************)
HasMethod(x) == Type[serves[x]] \in {"Trigger", "PID"}

\* initialize_variables(), whose exceptions are caught, then ready.set().  A
\* trigger whose method has ended deactivates itself here.
Initialize(x) ==
  /\ stage[x] = "initializing"
  /\ \/ UNCHANGED <<loaded, is_activated>>
     \/ /\ "input" \in Faults /\ Type[serves[x]] = "Input"
        /\ loaded' = [loaded EXCEPT ![x] = FALSE] /\ UNCHANGED is_activated
     \/ /\ "ended" \in Faults /\ HasMethod(x)
        /\ is_activated' = [is_activated EXCEPT ![serves[x]] = FALSE] /\ UNCHANGED loaded
  /\ stage' = [stage EXCEPT ![x] = "ready"]
  /\ UNCHANGED <<mainVars, controller, running, serves, workVars>>

\* The flag is set whatever happened before.
BeginLoop(x) ==
  /\ stage[x] = "ready"
  /\ stage' = [stage EXCEPT ![x] = "loop"]
  /\ running' = [running EXCEPT ![x] = TRUE]
  /\ UNCHANGED <<mainVars, controller, serves, loaded, is_activated, workVars>>

\* A method comes to its end: the controller deactivates and stops itself.
MethodEnds(x) ==
  /\ "ends" \in Faults /\ stage[x] = "loop" /\ running[x] /\ HasMethod(x)
  /\ StopRunning(x)
  /\ is_activated' = [is_activated EXCEPT ![serves[x]] = FALSE]
  /\ UNCHANGED <<mainVars, controller, stage, serves, loaded, workVars>>

\* The loop ends, run_finally() and the end of the thread.
EndLoop(x) ==
  /\ stage[x] = "loop" /\ ~running[x]
  /\ stage' = [stage EXCEPT ![x] = "finally"]
  /\ UNCHANGED <<mainVars, controller, running, serves, loaded, is_activated, workVars>>

RunFinally(x) ==
  /\ stage[x] = "finally"
  /\ stage' = [stage EXCEPT ![x] = "dead"]
  /\ running' = [running EXCEPT ![x] = FALSE]
  /\ UNCHANGED <<mainVars, controller, serves, loaded, is_activated, workVars>>

(***************************************************************************)
(* The daemon's main thread                                                *)
(***************************************************************************)
\* start_all_controllers(): the tables are read once, then the output controller
\* is started and waited for, then every controller activated in the tables.
ReadTables ==
  /\ phase = "boot"
  /\ todo' = {id \in Ids : is_activated[id]}
  /\ output' = "running"
  /\ tier' = 1
  /\ phase' = "starting"
  /\ UNCHANGED <<daemon_run, keys, controller_running, controller, objectVars, is_activated, workVars>>

Tier(i) == {id \in Ids : Type[id] = cont_types[i]}

StartNext(id) ==
  /\ phase = "starting" /\ At(Main, "idle")
  /\ id \in todo \cap Tier(tier) /\ MayBegin(Main, id)
  /\ todo' = todo \ {id}
  /\ EnterActivate(Main, id)
  /\ UNCHANGED <<phase, daemon_run, keys, tier, controller_running, output, controller,
                 objectVars, is_activated>>

StartTier ==
  /\ phase = "starting" /\ At(Main, "idle") /\ todo \cap Tier(tier) = {}
  /\ IF tier < 7
     THEN tier' = tier + 1 /\ UNCHANGED phase
     ELSE phase' = "serving" /\ UNCHANGED tier
  /\ UNCHANGED <<daemon_run, todo, keys, controller_running, output, controller,
                 objectVars, is_activated, workVars>>

InDictionary(i) == {id \in Tier(i) : Known(id)}

\* stop_all_controllers(): first every running controller is told to stop, one
\* dictionary after the other.
BeginStop ==
  /\ phase = "serving" /\ ~daemon_run
  /\ phase' = "stopping"
  /\ tier' = 7
  /\ keys' = InDictionary(7) /\ todo' = InDictionary(7)
  /\ controller_running' = {}
  /\ UNCHANGED <<daemon_run, output, controller, objectVars, is_activated, workVars>>

\* MUTANT of Grown: the dictionary is compared with what is left to do.
GrownOfRest == Cardinality(InDictionary(tier)) # Cardinality(todo)

\* Python refuses to go on iterating over a dictionary that has grown.
Grown == Cardinality(InDictionary(tier)) # Cardinality(keys)

\* MUTANT of Stoppable: the test is inverted.
StoppableInverted(id) == Known(id) /\ ~is_running(id)

Stoppable(id) == is_running(id) /\ ~StopRaises(controller[id])

StopNext(id) ==
  /\ phase = "stopping" /\ id \in todo /\ ~Grown
  /\ todo' = todo \ {id}
  /\ IF Stoppable(id)
     THEN StopRunning(controller[id]) /\ controller_running' = controller_running \cup {id}
     ELSE UNCHANGED <<running, controller_running>>
  /\ UNCHANGED <<phase, daemon_run, keys, tier, output, controller, stage, serves, loaded,
                 is_activated, workVars>>

StopTier ==
  /\ phase = "stopping" /\ todo = {} /\ ~Grown
  /\ IF tier > 1
     THEN /\ tier' = tier - 1
          /\ keys' = InDictionary(tier - 1) /\ todo' = InDictionary(tier - 1)
          /\ UNCHANGED phase
     ELSE phase' = "joining" /\ tier' = 7 /\ UNCHANGED <<keys, todo>>
  /\ UNCHANGED <<daemon_run, controller_running, output, controller, objectVars, is_activated, workVars>>

\* The loop in run() raises again what it catches: nothing is stopped.
LoopRaises ==
  /\ "error" \in Faults /\ phase = "serving"
  /\ phase' = "failed"
  /\ UNCHANGED <<daemon_run, todo, keys, tier, controller_running, output, controller,
                 objectVars, is_activated, workVars>>

\* The exception leaves run(): the process ends.
StopFails ==
  /\ phase = "stopping" /\ Grown
  /\ phase' = "failed"
  /\ UNCHANGED <<daemon_run, todo, keys, tier, controller_running, output, controller,
                 objectVars, is_activated, workVars>>

\* Then it waits for each, in the same order; join() of a thread that was not
\* started raises and is passed over.
JoinNext(id) ==
  /\ phase = "joining" /\ id \in controller_running \cap Tier(tier) /\ At(Main, "idle")
  /\ controller_running' = controller_running \ {id}
  /\ IF stage[controller[id]] = "new"
     THEN UNCHANGED workVars
     ELSE /\ Goto(Main, "join")
          /\ op' = [op EXCEPT ![Main] = [id |-> id, thread |-> controller[id]]]
  /\ UNCHANGED <<phase, daemon_run, todo, keys, tier, output, controller, objectVars, is_activated>>

MainJoin ==
  /\ At(Main, "join") /\ stage[op[Main].thread] = "dead"
  /\ Return(Main)
  /\ UNCHANGED <<mainVars, controller, objectVars, is_activated>>

JoinTier ==
  /\ phase = "joining" /\ At(Main, "idle") /\ controller_running \cap Tier(tier) = {}
  /\ IF tier > 1
     THEN tier' = tier - 1 /\ UNCHANGED <<phase, output>>
     ELSE phase' = "outputs" /\ output' = "stopping" /\ UNCHANGED tier
  /\ UNCHANGED <<daemon_run, todo, keys, controller_running, controller, objectVars, is_activated, workVars>>

\* The output controller sets the shutdown states and ends, or join(15) times out.
OutputEnds ==
  /\ output = "stopping" /\ output' = "dead"
  /\ UNCHANGED <<phase, daemon_run, todo, keys, tier, controller_running, controller,
                 objectVars, is_activated, workVars>>

JoinOutput ==
  /\ phase = "outputs"
  /\ phase' = "terminated"
  /\ UNCHANGED <<daemon_run, todo, keys, tier, controller_running, output, controller,
                 objectVars, is_activated, workVars>>

\* The process is gone and its threads with it; requests to it fail, and a page
\* that was about to call it has still to find out.
Gone ==
  /\ phase' = "down"
  /\ daemon_run' = TRUE /\ todo' = {} /\ keys' = {} /\ tier' = 1 /\ controller_running' = {}
  /\ output' = "none"
  /\ controller' = [id \in Ids |-> None]
  /\ stage' = [x \in Objects |-> "unborn"]
  /\ running' = [x \in Objects |-> FALSE]
  /\ serves' = [x \in Objects |-> None]
  /\ loaded' = [x \in Objects |-> TRUE]
  /\ pc' = [t \in Workers |-> IF Busy(t) THEN "idle" ELSE pc[t]]
  /\ op' = [t \in Workers |-> IF Busy(t) THEN NoOp ELSE op[t]]
  /\ UNCHANGED is_activated

\* run() waits a second for the answer to whoever asked it to shut down.
Exit == /\ phase = "failed" \/ (phase = "terminated" /\ \A t \in Stoppers : ~At(t, "terminate"))
        /\ Gone

Crash == "crash" \in Faults /\ phase # "down" /\ Gone

Restart ==
  /\ phase = "down" /\ phase' = "boot"
  /\ UNCHANGED <<daemon_run, todo, keys, tier, controller_running, output, controller,
                 objectVars, is_activated, workVars>>

(***************************************************************************)
(* Specification                                                           *)
(***************************************************************************)
Init ==
  /\ phase = "boot" /\ daemon_run = TRUE /\ todo = {} /\ keys = {} /\ tier = 1
  /\ controller_running = {} /\ output = "none"
  /\ controller = [id \in Ids |-> None]
  /\ stage = [x \in Objects |-> "unborn"]
  /\ running = [x \in Objects |-> FALSE]
  /\ serves = [x \in Objects |-> None]
  /\ loaded = [x \in Objects |-> TRUE]
  /\ is_activated \in [Ids -> BOOLEAN]
  /\ pc = [t \in Workers |-> "idle"]
  /\ op = [t \in Workers |-> NoOp]

RequestStep(t) ==
  \/ SaveActive(t) \/ CreateThread(t) \/ StartThread(t) \/ ReadyWait(t)
  \/ Join(t) \/ WebCall(t) \/ Terminated(t)

NewRequest(t) ==
  \/ \E id \in Ids : ApiActivate(t, id) \/ ApiDeactivate(t, id)
  \/ \E id \in Ids, active \in BOOLEAN : WebSave(t, id, active)

ThreadStep(x) == Initialize(x) \/ BeginLoop(x) \/ EndLoop(x) \/ RunFinally(x)

MainStep ==
  \/ ReadTables \/ StartTier \/ BeginStop \/ StopTier \/ StopFails \/ JoinTier
  \/ MainJoin \/ JoinOutput
  \/ \E id \in Ids : StartNext(id) \/ StopNext(id) \/ JoinNext(id)

Next ==
  \/ \E t \in Workers : RequestStep(t)
  \/ \E t \in Clients : NewRequest(t)
  \/ \E t \in Stoppers : TerminateDaemon(t)
  \/ \E x \in Objects : ThreadStep(x) \/ MethodEnds(x)
  \/ MainStep \/ OutputEnds \/ LoopRaises \/ Exit \/ Crash \/ Restart

Spec == Init /\ [][Next]_vars

\* Threads are scheduled; nobody has to ask for anything, and neither crashes nor
\* restarts have to happen.
Fairness ==
  /\ \A t \in Workers : WF_vars(RequestStep(t))
  /\ \A x \in Objects : WF_vars(ThreadStep(x))
  /\ WF_vars(MainStep)

FairSpec == Spec /\ Fairness

(***************************************************************************)
(* Properties                                                              *)
(***************************************************************************)
Ops == [id : Ids \cup {None}, thread : Objects \cup {None}]

Labels == {"idle", "webActivate", "webDeactivate", "save", "create", "start", "ready",
           "join", "terminate"}

\* Every variable stays in its type.
TypeOK ==
  /\ phase \in {"down", "boot", "starting", "serving", "stopping", "joining", "outputs",
                "terminated", "failed"}
  /\ daemon_run \in BOOLEAN /\ todo \subseteq Ids /\ keys \subseteq Ids /\ tier \in Tiers
  /\ controller_running \subseteq Ids
  /\ output \in {"none", "running", "stopping", "dead"}
  /\ controller \in [Ids -> Objects \cup {None}]
  /\ stage \in [Objects -> {"unborn", "new", "initializing", "ready", "loop", "finally", "dead"}]
  /\ running \in [Objects -> BOOLEAN] /\ loaded \in [Objects -> BOOLEAN]
  /\ serves \in [Objects -> Ids \cup {None}]
  /\ is_activated \in [Ids -> BOOLEAN]
  /\ pc \in [Workers -> Labels] /\ op \in [Workers -> Ops]

Alive(x) == stage[x] \in {"initializing", "ready", "loop", "finally"}

\* A thread that samples or is going to: it has not been told to stop.
Sampling(x) == stage[x] \in {"initializing", "ready"} \/ running[x]

\* A controller never has two threads at work: one the dictionary has lost can be
\* neither found by is_running() nor stopped (controller_activate's
\* "It's already active", mycodo_daemon.py:270-276).
NoOrphan == \A x \in Objects : Sampling(x) => controller[serves[x]] = x

\* While the daemon serves and no request is in progress, the controllers that
\* run are those the database calls activated: what the pages show, and what
\* a restart will bring back.
ActiveMatches ==
  /\ phase = "serving" /\ daemon_run /\ AllSettled
  /\ \A t \in Workers : At(t, "idle")
  => \A id \in Ids : is_activated[id] <=> is_running(id)

\* Outputs get their shutdown states only when no controller is left that could
\* switch them again, and a daemon that was told to shut down does not end before
\* they do (the order of stop_all_controllers, mycodo_daemon.py:219-221, 904-933).
OutputsStopLast ==
  /\ output = "stopping" => \A x \in Objects : ~Alive(x)
  /\ phase \in {"terminated", "failed"} => output \in {"stopping", "dead"}

\* A daemon told to shut down does.
TerminateEnds == ~daemon_run ~> phase \in {"terminated", "failed", "down"}

\* A request is answered: the thread it has started becomes ready, and the thread
\* it has told to stop and joins does end (mycodo_daemon.py:335-336, 362-367).
RequestsReturn ==
  /\ \A t \in Workers : pc[t] \in {"save", "create", "start", "ready"} ~> At(t, "idle")
  /\ \A t \in Clients : At(t, "join") ~> At(t, "idle")
=============================================================================
