--------------------------- MODULE RefreshSettings ---------------------------
(***************************************************************************)
(* How an active Trigger or Conditional takes over new settings            *)
(* (mycodo/controllers/controller_trigger.py, controller_conditional.py).  *)
(* A page saves them and has the daemon call refresh_settings(), which     *)
(* asks the controller's loop to pause with pause_loop and waits for       *)
(* verify_pause_loop; another page may deactivate the controller.  The     *)
(* pages' requests (Pages) run in threads of their own.                    *)
(***************************************************************************)
EXTENDS Integers

CONSTANTS
  Pages,      \* requests that may be in progress at once
  Versions,   \* settings a page may save
  Faulty,     \* those initialize_variables() raises for, such as a
              \* Conditional's code that does not compile
  Initial,    \* the settings the controller was activated with
  Requests,   \* "refresh", "deactivate"
  Spaced,     \* TRUE: the schedules in which a page begins only when no other
              \* is in progress and the loop is not on its way into or out of a pause
  Changing    \* settings some of whose attributes are new and some old

ASSUME RefreshAssumption ==
  /\ Faulty \subseteq Versions /\ Initial \in Versions \ Faulty
  /\ Requests \subseteq {"refresh", "deactivate"}
  /\ Spaced \in BOOLEAN
  /\ Changing \notin Versions

VARIABLES
  saved, is_activated,            \* the row in the database
  settings,                       \* the controller's attributes
  pause_loop, verify_pause_loop,  \* its two flags
  running,                        \* AbstractController.running
  loop,                           \* where its thread is
  pc, op                          \* where each page's request is, and its locals

flagVars == <<pause_loop, verify_pause_loop>>
dbVars   == <<saved, is_activated>>
vars == <<dbVars, settings, flagVars, running, loop, pc, op>>

NoOp == [read |-> Initial, waited |-> FALSE]

Goto(r, label) == pc' = [pc EXCEPT ![r] = label]

At(r, label) == pc[r] = label

MayBegin == Spaced => /\ \A r \in Pages : At(r, "idle")
                      /\ loop \notin {"verify", "paused"}

(***************************************************************************)
(* The pages and refresh_settings                                          *)
(***************************************************************************)
\* The settings are committed, and an active controller is to be refreshed.
SaveSettings(r) ==
  \E v \in Versions :
    /\ "refresh" \in Requests /\ At(r, "idle") /\ MayBegin
    /\ saved' = v
    /\ IF is_activated THEN Goto(r, "refresh") ELSE UNCHANGED pc
    /\ UNCHANGED <<is_activated, settings, flagVars, running, loop, op>>

\* Whether the request will have to wait is remembered for WaitedIsSafe.
SignalPause(r) ==
  /\ At(r, "refresh")
  /\ pause_loop' = TRUE
  /\ op' = [op EXCEPT ![r].waited = ~verify_pause_loop]
  /\ Goto(r, "wait")
  /\ UNCHANGED <<dbVars, settings, verify_pause_loop, running, loop>>

\* MUTANT of ReadRow: the row is the one read at activation.
ReadStale == Initial

ReadRow == saved

\* initialize_variables() begins, reads the row and changes attributes.
BeginInitialize(r) ==
  /\ At(r, "wait") /\ verify_pause_loop
  /\ op' = [op EXCEPT ![r].read = ReadRow]
  /\ settings' = Changing
  /\ Goto(r, "initialize")
  /\ UNCHANGED <<dbVars, flagVars, running, loop>>

\* It ends, or raises what the daemon catches: the request is over either way.
EndInitialize(r) ==
  /\ At(r, "initialize")
  /\ IF op[r].read \in Faulty
     THEN Goto(r, "idle") /\ op' = [op EXCEPT ![r] = NoOp] /\ UNCHANGED settings
     ELSE Goto(r, "resume") /\ settings' = op[r].read /\ UNCHANGED op
  /\ UNCHANGED <<dbVars, flagVars, running, loop>>

Resume(r) ==
  /\ At(r, "resume")
  /\ pause_loop' = FALSE
  /\ Goto(r, "reset")
  /\ UNCHANGED <<dbVars, settings, verify_pause_loop, running, loop, op>>

Reset(r) ==
  /\ At(r, "reset")
  /\ verify_pause_loop' = FALSE
  /\ Goto(r, "idle") /\ op' = [op EXCEPT ![r] = NoOp]
  /\ UNCHANGED <<dbVars, settings, pause_loop, running, loop>>

\* A page deactivates: the row, then stop_controller() and join().
SaveInactive(r) ==
  /\ "deactivate" \in Requests /\ At(r, "idle") /\ MayBegin /\ is_activated
  /\ is_activated' = FALSE
  /\ Goto(r, "stop")
  /\ UNCHANGED <<saved, settings, flagVars, running, loop, op>>

StopController(r) ==
  /\ At(r, "stop")
  /\ running' = FALSE
  /\ Goto(r, IF running THEN "join" ELSE "idle")
  /\ UNCHANGED <<dbVars, settings, flagVars, loop, op>>

Join(r) ==
  /\ At(r, "join") /\ loop = "ended"
  /\ Goto(r, "idle")
  /\ UNCHANGED <<dbVars, settings, flagVars, running, loop, op>>

(***************************************************************************)
(* The controller's thread                                                 *)
(***************************************************************************)
\* MUTANT of NextTurn: the loop does not end.
NextTurnAlways == IF pause_loop THEN "verify" ELSE "acting"

\* MUTANT of NextTurn: the loop is not asked to pause.
NextTurnUnpaused == IF running THEN "acting" ELSE "ended"

\* A turn of the loop begins with the test of running, then of pause_loop.
NextTurn == IF ~running THEN "ended" ELSE IF pause_loop THEN "verify" ELSE "acting"

TopOfLoop ==
  /\ loop = "top" /\ loop' = NextTurn
  /\ UNCHANGED <<dbVars, settings, flagVars, running, pc, op>>

VerifyPause ==
  /\ loop = "verify"
  /\ verify_pause_loop' = TRUE
  /\ loop' = "paused"
  /\ UNCHANGED <<dbVars, settings, pause_loop, running, pc, op>>

\* MUTANT of Resumed: it sleeps once where the code sleeps in a loop.
ResumedAtOnce == TRUE

Resumed == ~pause_loop

Paused ==
  /\ loop = "paused" /\ Resumed
  /\ loop' = "acting"
  /\ UNCHANGED <<dbVars, settings, flagVars, running, pc, op>>

\* The rest of loop(), which uses the settings, and the sleep until its next turn.
Act ==
  /\ loop = "acting" /\ loop' = "sleeping"
  /\ UNCHANGED <<dbVars, settings, flagVars, running, pc, op>>

WakeUp ==
  /\ loop = "sleeping" /\ loop' = "top"
  /\ UNCHANGED <<dbVars, settings, flagVars, running, pc, op>>

(***************************************************************************)
(* Specification                                                           *)
(***************************************************************************)
Init ==
  /\ saved = Initial /\ is_activated = TRUE /\ settings = Initial
  /\ pause_loop = FALSE /\ verify_pause_loop = TRUE
  /\ running = TRUE /\ loop = "top"
  /\ pc = [r \in Pages |-> "idle"]
  /\ op = [r \in Pages |-> NoOp]

RequestStep(r) ==
  \/ SignalPause(r) \/ BeginInitialize(r) \/ EndInitialize(r) \/ Resume(r) \/ Reset(r)
  \/ StopController(r) \/ Join(r)

LoopStep == TopOfLoop \/ VerifyPause \/ Paused \/ Act \/ WakeUp

Next ==
  \/ \E r \in Pages : RequestStep(r) \/ SaveSettings(r) \/ SaveInactive(r)
  \/ LoopStep

Spec == Init /\ [][Next]_vars

\* Threads are scheduled; no page has to make a request.
FairSpec == Spec /\ WF_vars(LoopStep) /\ \A r \in Pages : WF_vars(RequestStep(r))

(***************************************************************************)
(* Properties                                                              *)
(***************************************************************************)
Ops == [read : Versions, waited : BOOLEAN]

\* Every variable stays in its type: in particular the settings read are ones
\* that were saved.
TypeOK ==
  /\ saved \in Versions /\ is_activated \in BOOLEAN
  /\ settings \in Versions \cup {Changing}
  /\ pause_loop \in BOOLEAN /\ verify_pause_loop \in BOOLEAN /\ running \in BOOLEAN
  /\ loop \in {"top", "verify", "paused", "acting", "sleeping", "ended"}
  /\ pc \in [Pages -> {"idle", "refresh", "wait", "initialize", "resume", "reset", "stop", "join"}]
  /\ op \in [Pages -> Ops]

\* The controller does not act while a request that had to wait for its loop is
\* changing the settings (the handshake of refresh_settings and loop).
WaitedIsSafe ==
  \A r \in Pages : At(r, "initialize") /\ op[r].waited => loop # "acting"

\* The controller never acts on settings that are being changed: the comment in
\* loop() says so of every refresh (controller_trigger.py:107-109).
NotWhileChanging ==
  (\E r \in Pages : At(r, "initialize")) => loop # "acting"

\* When no page is waiting for an answer, an active controller has the settings
\* that were saved last, unless these do not work.
UpToDate ==
  /\ is_activated /\ \A r \in Pages : At(r, "idle")
  => settings = saved \/ saved \in Faulty

\* A request to refresh the settings or to deactivate the controller is answered:
\* it does not wait for a loop that waits for it, or that no longer looks.
RequestsReturn == \A r \in Pages : pc[r] \in {"wait", "join"} ~> At(r, "idle")
=============================================================================
