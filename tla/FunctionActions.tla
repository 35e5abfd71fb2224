-------------------------- MODULE FunctionActions --------------------------
(***************************************************************************)
(* Functions (Conditionals and Triggers) that carry out their Actions:     *)
(* activate and deactivate controllers, themselves included, change the    *)
(* setpoint of a PID or resume it, switch outputs, send a mail             *)
(* (mycodo/utils/function_actions.py).                                     *)
(*                                                                         *)
(* An Action reads and writes rows itself, and gives its command to the    *)
(* daemon through a thread of its own, which comes to it when it comes.    *)
(***************************************************************************)
EXTENDS Integers, Sequences

CONSTANTS
  Functions, PIDs, Outputs,
  Actions,   \* of each Function, in order: records of what to do, on what, and how much
  HourlyMax, \* hourly_max of the table of mail settings
  Pages,     \* the controllers that users activate and deactivate meanwhile
  Overlap    \* FALSE: see MayAct

Controllers == Functions \cup PIDs

Kinds == {"activate", "deactivate", "resume", "set", "raise", "on", "off", "email", "photo_email", "other"}

ASSUME ActionsAssumption ==
  /\ Functions \cap PIDs = {} /\ HourlyMax \in Nat /\ Overlap \in BOOLEAN
  /\ Pages \subseteq Controllers
  /\ Actions \in [Functions -> Seq([do : Kinds, on : Controllers \cup Outputs, by : Int])]
  /\ \A f \in Functions : \A n \in 1..Len(Actions[f]) :
       LET a == Actions[f][n]
       IN  /\ a.do \in {"activate", "deactivate"} => a.on \in Controllers
           /\ a.do \in {"resume", "set", "raise"} => a.on \in PIDs
           /\ a.do \in {"on", "off"} => a.on \in Outputs

VARIABLES
  active,     \* is_activated of each controller's row
  row,        \* of each PID: is_paused and setpoint
  stage,      \* of each controller the daemon's object: "none", "on" or "off"
  pid,        \* what a PID's controller has of its row
  lamp,       \* is the output on?
  next,       \* the Action a Function is at; 0 when it rests
  recipients, \* email_recipients is not empty
  seen,       \* what check_allowed_to_email() has read
  calls,      \* commands on their way, and calls that join a controller
  email_count,
  waiting,    \* smtp_wait_timer lies in the future
  asked,      \* HISTORY: the setpoint each PID should have by now
  lit,        \* HISTORY: whether each output should be on by now
  sent        \* HISTORY: mails since smtp_wait_timer was set

database == <<active, row>>
daemon == <<stage, pid, lamp>>
run == <<next, recipients, seen>>
smtp == <<email_count, waiting, sent>>
told == <<asked, lit>>
vars == <<database, daemon, run, calls, smtp, told>>

Command(f, do, on, by) == [from |-> f, do |-> do, on |-> on, by |-> by]

User == "user"

(***************************************************************************)
(* Schedules                                                               *)
(***************************************************************************)
\* FALSE for Overlap: one Function carries out its Actions at a time, and a
\* command is received before the next Action, if not answered.
MayAct(f) ==
  Overlap \/ ((\A c \in calls : c.do = "join") /\ \A g \in Functions \ {f} : next[g] = 0)

\* MUTANT of Waiting: the Action itself gives the command.
WaitsForAnswer(f) == \E c \in calls : c.from = f

\* As commands are given by threads of their own a Function waits for no answer.
Waiting(f) == FALSE

(***************************************************************************)
(* The Actions                                                             *)
(***************************************************************************)
Give(f, do, on, by) == calls' = calls \cup {Command(f, do, on, by)}

Activates(f, c) ==
  IF active[c]
  THEN UNCHANGED <<database, calls>>
  ELSE active' = [active EXCEPT ![c] = TRUE] /\ Give(f, "activate", c, 0) /\ UNCHANGED row

Deactivates(f, c) ==
  IF ~active[c]
  THEN UNCHANGED <<database, calls>>
  ELSE active' = [active EXCEPT ![c] = FALSE] /\ Give(f, "deactivate", c, 0) /\ UNCHANGED row

Resumes(f, p) ==
  IF row[p].paused /\ active[p]
  THEN row' = [row EXCEPT ![p].paused = FALSE] /\ Give(f, "resume", p, 0) /\ UNCHANGED active
  ELSE UNCHANGED <<database, calls>>

\* MUTANT of SetsPoint: the row is written whether or not there is a controller.
SetsRow(f, p, value) == row' = [row EXCEPT ![p].setpoint = value] /\ UNCHANGED <<active, calls>>

\* set_setpoint() of an active PID writes the row, too.
SetsPoint(f, p, value) ==
  IF active[p]
  THEN Give(f, "set", p, value) /\ UNCHANGED database
  ELSE row' = [row EXCEPT ![p].setpoint = value] /\ UNCHANGED <<active, calls>>

AsksPID(p, value) == asked' = [asked EXCEPT ![p] = value] /\ UNCHANGED lit

AsksOutput(o, on) == lit' = [lit EXCEPT ![o] = on] /\ UNCHANGED asked

\* trigger_action(): an Action that raises, and one that tells nobody anything
\* (a pause, a command, a note, a photo), has no effect here.  "photo_email" is
\* looked for among the photos first, and not among the mails any more.
trigger_action(f, a) ==
  /\ CASE a.do = "activate" -> Activates(f, a.on) /\ UNCHANGED told
       [] a.do = "deactivate" -> Deactivates(f, a.on) /\ UNCHANGED told
       [] a.do = "resume" -> Resumes(f, a.on) /\ UNCHANGED told
       [] a.do = "set" -> SetsPoint(f, a.on, a.by) /\ AsksPID(a.on, a.by)
       [] a.do = "raise" ->
            SetsPoint(f, a.on, row[a.on].setpoint + a.by) /\ AsksPID(a.on, asked[a.on] + a.by)
       [] a.do \in {"on", "off"} ->
            Give(f, a.do, a.on, a.by) /\ AsksOutput(a.on, a.do = "on") /\ UNCHANGED database
       [] OTHER -> UNCHANGED <<database, calls, told>>
  /\ recipients' = IF a.do = "email" THEN [recipients EXCEPT ![f] = TRUE] ELSE recipients

(***************************************************************************)
(* trigger_function_actions()                                              *)
(***************************************************************************)
IsRunning(c) == stage[c] = "on"

\* Told to stop, and joined.
IsEnding(c) == \E call \in calls : call.do = "join" /\ call.on = c

Goes(f, n) == next' = [next EXCEPT ![f] = n]

\* The loop of an active Function finds that its time has come.
\* BOUND: not while an earlier thread of the Function is at work yet.
Begin(f) ==
  /\ IsRunning(f) /\ ~IsEnding(f) /\ next[f] = 0 /\ MayAct(f)
  /\ Goes(f, 1)
  /\ UNCHANGED <<database, daemon, recipients, seen, calls, smtp, told>>

Perform(f) ==
  /\ next[f] \in 1..Len(Actions[f]) /\ MayAct(f) /\ ~Waiting(f)
  /\ trigger_action(f, Actions[f][next[f]])
  /\ Goes(f, next[f] + 1)
  /\ UNCHANGED <<daemon, seen, smtp>>

IsAtEnd(f) == next[f] = Len(Actions[f]) + 1 /\ MayAct(f)

NoRecipients(f) == recipients' = [recipients EXCEPT ![f] = FALSE]

End(f) ==
  /\ IsAtEnd(f) /\ ~recipients[f]
  /\ Goes(f, 0)
  /\ UNCHANGED <<database, daemon, recipients, seen, calls, smtp, told>>

\* check_allowed_to_email() reads the row ...
ReadMailCount(f) ==
  /\ IsAtEnd(f) /\ recipients[f]
  /\ seen' = [seen EXCEPT ![f] = [count |-> email_count, waiting |-> waiting]]
  /\ Goes(f, next[f] + 1)
  /\ UNCHANGED <<database, daemon, recipients, calls, smtp, told>>

\* MUTANT of Allowed: the mail that reaches the limit is not the last.
AllowedOnce(f) == seen[f].count <= HourlyMax \/ ~seen[f].waiting

Allowed(f) == seen[f].count < HourlyMax \/ ~seen[f].waiting

\* ... begins another hour, if it is time, and counts the mail, sent or not (more
\* than HourlyMax are not told apart).
WriteMailCount(f) ==
  /\ next[f] = Len(Actions[f]) + 2
  /\ LET again == ~seen[f].waiting
         count == IF again THEN 0 ELSE email_count
     IN  /\ email_count' = IF count < HourlyMax THEN count + 1 ELSE HourlyMax
         /\ waiting' = (waiting \/ again)
         /\ sent' = (IF again THEN 0 ELSE sent) + (IF Allowed(f) THEN 1 ELSE 0)
  /\ NoRecipients(f) /\ Goes(f, 0)
  /\ seen' = [seen EXCEPT ![f] = [count |-> 0, waiting |-> FALSE]]
  /\ UNCHANGED <<database, daemon, calls, told>>

(***************************************************************************)
(* The daemon                                                              *)
(***************************************************************************)
\* The controller reads its row.
ActivateArrives(c) ==
  /\ c.do = "activate"
  /\ stage' = [stage EXCEPT ![c.on] = "on"]
  /\ active' = [active EXCEPT ![c.on] = IF IsRunning(c.on) THEN @ ELSE TRUE]
  /\ pid' = IF c.on \in PIDs /\ ~IsRunning(c.on) THEN [pid EXCEPT ![c.on] = row[c.on]] ELSE pid
  /\ calls' = calls \ {c}
  /\ UNCHANGED <<row, lamp>>

\* The controller is told to stop, and the call joins its thread; a PID writes its
\* row itself.
DeactivateArrives(c) ==
  /\ c.do = "deactivate"
  /\ IF IsRunning(c.on)
     THEN /\ stage' = [stage EXCEPT ![c.on] = "off"]
          /\ active' = IF c.on \in PIDs THEN [active EXCEPT ![c.on] = FALSE] ELSE active
          /\ calls' = (calls \ {c}) \cup {[c EXCEPT !.do = "join"]}
     ELSE calls' = calls \ {c} /\ UNCHANGED <<stage, active>>
  /\ UNCHANGED <<row, pid, lamp>>

\* A PID that was never activated is not in the dictionary.
PIDCallArrives(c) ==
  /\ c.do \in {"resume", "set"}
  /\ IF stage[c.on] = "none"
     THEN UNCHANGED <<pid, row>>
     ELSE CASE c.do = "set" ->
                 /\ pid' = [pid EXCEPT ![c.on].setpoint = c.by]
                 /\ row' = [row EXCEPT ![c.on].setpoint = c.by]
            [] OTHER -> pid' = [pid EXCEPT ![c.on].paused = FALSE] /\ UNCHANGED row
  /\ calls' = calls \ {c}
  /\ UNCHANGED <<active, stage, lamp>>

OutputCallArrives(c) ==
  /\ c.do \in {"on", "off"}
  /\ lamp' = [lamp EXCEPT ![c.on] = (c.do = "on")]
  /\ calls' = calls \ {c}
  /\ UNCHANGED <<database, stage, pid>>

Arrives ==
  /\ \E c \in calls :
       ActivateArrives(c) \/ DeactivateArrives(c) \/ PIDCallArrives(c) \/ OutputCallArrives(c)
  /\ UNCHANGED <<run, smtp, told>>

\* A thread that was told to stop ends when its Function has done its Actions, and
\* the calls that join it return.
ThreadEnds(c) ==
  /\ IsEnding(c) /\ (c \in Functions => next[c] = 0)
  /\ calls' = {call \in calls : ~(call.do = "join" /\ call.on = c)}
  /\ UNCHANGED <<database, daemon, run, smtp, told>>

(***************************************************************************)
(* Users and time                                                          *)
(***************************************************************************)
MayAsk == Overlap \/ \A c \in calls : c.do = "join"

ActivatePage(c) ==
  /\ c \in Pages /\ ~active[c] /\ MayAsk /\ Activates(User, c)
  /\ UNCHANGED <<daemon, run, smtp, told>>

DeactivatePage(c) ==
  /\ c \in Pages /\ active[c] /\ MayAsk /\ Deactivates(User, c)
  /\ UNCHANGED <<daemon, run, smtp, told>>

HourPasses ==
  /\ waiting
  /\ waiting' = FALSE /\ sent' = 0
  /\ UNCHANGED <<database, daemon, run, calls, email_count, told>>

(***************************************************************************)
(* Specification                                                           *)
(***************************************************************************)
Init ==
  /\ active = [c \in Controllers |-> FALSE]
  /\ row \in [PIDs -> [paused : BOOLEAN, setpoint : {0}]]
  /\ stage = [c \in Controllers |-> "none"] /\ pid = row
  /\ lamp = [o \in Outputs |-> FALSE]
  /\ next = [f \in Functions |-> 0] /\ recipients = [f \in Functions |-> FALSE]
  /\ seen = [f \in Functions |-> [count |-> 0, waiting |-> FALSE]]
  /\ calls = {}
  /\ email_count = 0 /\ waiting = FALSE
  /\ asked = [p \in PIDs |-> 0] /\ lit = [o \in Outputs |-> FALSE] /\ sent = 0

Run(f) == Begin(f) \/ Perform(f) \/ End(f) \/ ReadMailCount(f) \/ WriteMailCount(f)

Next ==
  \/ \E f \in Functions : Run(f)
  \/ Arrives
  \/ \E c \in Controllers : ThreadEnds(c) \/ ActivatePage(c) \/ DeactivatePage(c)
  \/ HourPasses

\* What has begun goes on; a Function that rests need not begin.  Strong fairness,
\* as only Overlap makes the thread wait for the calls of users.
Fairness ==
  /\ \A f \in Functions : SF_vars(next[f] # 0 /\ Run(f))
  /\ WF_vars(Arrives) /\ \A c \in Controllers : WF_vars(ThreadEnds(c))

Spec == Init /\ [][Next]_vars /\ Fairness

(***************************************************************************)
(* Properties                                                              *)
(***************************************************************************)
Settings == [paused : BOOLEAN, setpoint : Int]

To(what, whom) == [from : Functions \cup {User}, do : what, on : whom, by : Int]

Commands ==
  To({"activate", "deactivate", "join"}, Controllers) \cup To({"resume", "set"}, PIDs)
    \cup To({"on", "off"}, Outputs)

\* Every variable stays in its type; a Function that rests has nobody to write to.
TypeOK ==
  /\ active \in [Controllers -> BOOLEAN]
  /\ row \in [PIDs -> Settings] /\ pid \in [PIDs -> Settings]
  /\ stage \in [Controllers -> {"none", "on", "off"}]
  /\ lamp \in [Outputs -> BOOLEAN]
  /\ next \in [Functions -> Nat] /\ \A f \in Functions : next[f] \in 0..(Len(Actions[f]) + 2)
  /\ recipients \in [Functions -> BOOLEAN] /\ \A f \in Functions : recipients[f] => next[f] # 0
  /\ seen \in [Functions -> [count : 0..HourlyMax, waiting : BOOLEAN]]
  /\ calls \subseteq Commands
  /\ asked \in [PIDs -> Int] /\ lit \in [Outputs -> BOOLEAN]
  /\ email_count \in 0..HourlyMax /\ waiting \in BOOLEAN /\ sent \in Nat

\* When Functions rest and no command is on its way, the tables and the daemon
\* agree, and what was to be done in order has been done in order ("executed
\* sequentially", mycodo-api.rst:415).
InStep ==
  calls = {} /\ (\A f \in Functions : next[f] = 0) =>
    /\ \A c \in Controllers : active[c] <=> IsRunning(c)
    /\ \A p \in PIDs : row[p].setpoint = asked[p] /\ (IsRunning(p) => pid[p] = row[p])
    /\ \A o \in Outputs : lamp[o] = lit[o]

\* No more than hourly_max mails are sent before smtp_wait_timer passes
\* (check_allowed_to_email, function_actions.py:41-63).
MailLimit == waiting => sent <= HourlyMax

\* Functions come to the end of their Actions, also one that deactivates itself or
\* another that deactivates it: who is told to stop does stop, and the call that
\* joins its thread returns.
FunctionsEnd ==
  /\ \A f \in Functions : next[f] # 0 ~> next[f] = 0
  /\ \A f \in Functions : IsEnding(f) ~> ~IsEnding(f)

\* A Function that is to send a mail with a photo sends a mail ("Email with Photo
\* Attachment", mycodo/config.py:566).
PhotosAreMailed ==
  \A f \in Functions :
    (IsAtEnd(f) /\ \E n \in 1..Len(Actions[f]) : Actions[f][n].do = "photo_email") => recipients[f]
=============================================================================
