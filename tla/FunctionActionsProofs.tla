----------------------- MODULE FunctionActionsProofs -----------------------
(***************************************************************************)
(* Theorems about FunctionActions, for any Functions and any lists of      *)
(* Actions.                                                                *)
(***************************************************************************)
EXTENDS FunctionActions, TLAPS

(***************************************************************************)
(* Types                                                                   *)
(***************************************************************************)
\* What a Function does is done to what it can be done to.
LEMMA ActionType ==
  ASSUME NEW f \in Functions, NEW n \in 1..Len(Actions[f])
  PROVE  LET a == Actions[f][n]
         IN  /\ a.by \in Int
             /\ a.do \in {"activate", "deactivate"} => a.on \in Controllers
             /\ a.do \in {"resume", "set", "raise"} => a.on \in PIDs
             /\ a.do \in {"on", "off"} => a.on \in Outputs
<1> DEFINE S == [do : Kinds, on : Controllers \cup Outputs, by : Int]
<1>1. Actions[f] \in Seq(S)
  BY ActionsAssumption
<1> HIDE DEF S
<1>2. Actions[f][n] \in S
  BY <1>1
<1>3. Actions[f][n].by \in Int
  BY <1>2 DEF S
<1> QED BY <1>3, ActionsAssumption

\* A list of Actions has an end.
LEMMA LengthType == ASSUME NEW f \in Functions PROVE Len(Actions[f]) \in Nat
<1> DEFINE S == [do : Kinds, on : Controllers \cup Outputs, by : Int]
<1>1. Actions[f] \in Seq(S)
  BY ActionsAssumption
<1> HIDE DEF S
<1> QED BY <1>1

\* A command is given to what takes it.
LEMMA CommandType ==
  ASSUME NEW f \in Functions \cup {User}, NEW by \in Int
  PROVE  /\ \A c \in Controllers : \A what \in {"activate", "deactivate", "join"} : Command(f, what, c, by) \in Commands
         /\ \A p \in PIDs : \A what \in {"resume", "set"} : Command(f, what, p, by) \in Commands
         /\ \A o \in Outputs : \A what \in {"on", "off"} : Command(f, what, o, by) \in Commands
BY DEF Command, Commands, To

\* The other way round.
LEMMA CommandIs ==
  ASSUME NEW c \in Commands
  PROVE  /\ c.from \in Functions \cup {User} /\ c.by \in Int
         /\ c.do \in {"activate", "deactivate", "join", "resume", "set", "on", "off"}
         /\ c.do \in {"activate", "deactivate", "join"} => c.on \in Controllers
         /\ c.do \in {"resume", "set"} => c.on \in PIDs
         /\ c.do \in {"on", "off"} => c.on \in Outputs
         /\ c.do = "deactivate" => [c EXCEPT !.do = "join"] \in Commands
BY DEF Commands, To

\* A row that is changed is a row.
LEMMA SettingsType ==
  ASSUME NEW r \in Settings
  PROVE  [r EXCEPT !.paused = FALSE] \in Settings /\ \A v \in Int : [r EXCEPT !.setpoint = v] \in Settings
BY DEF Settings

\* The types hold initially.
LEMMA TypeInit == Init => TypeOK
<1> SUFFICES ASSUME Init PROVE TypeOK
  OBVIOUS
<1>1. HourlyMax \in Nat
  BY ActionsAssumption
<1>2. \A p \in PIDs : row[p] \in Settings
  BY DEF Init, Settings
<1>3. row \in [PIDs -> Settings] /\ pid = row
  BY <1>2 DEF Init
<1>4. \A f \in Functions : next[f] \in 0..(Len(Actions[f]) + 2)
  <2> TAKE f \in Functions
  <2>1. Len(Actions[f]) \in Nat /\ next[f] = 0
    BY LengthType DEF Init
  <2> QED BY <2>1
<1>5. 0 \in 0..HourlyMax /\ [count |-> 0, waiting |-> FALSE] \in [count : 0..HourlyMax, waiting : BOOLEAN]
  BY <1>1
<1>6. seen \in [Functions -> [count : 0..HourlyMax, waiting : BOOLEAN]] /\ email_count \in 0..HourlyMax
  BY <1>5 DEF Init
<1>7. next \in [Functions -> Nat] /\ recipients \in [Functions -> BOOLEAN]
  BY DEF Init
<1>8. \A f \in Functions : recipients[f] => next[f] # 0
  BY DEF Init
<1>9. lamp \in [Outputs -> BOOLEAN] /\ lit \in [Outputs -> BOOLEAN] /\ asked \in [PIDs -> Int] /\ calls \subseteq Commands
  BY DEF Init
<1> QED BY <1>3, <1>4, <1>6, <1>7, <1>8, <1>9 DEF Init, TypeOK

\* Carrying out an Action keeps the types.
LEMMA TypePerform ==
  ASSUME TypeOK, NEW f \in Functions, Perform(f)
  PROVE  TypeOK'
<1> DEFINE a == Actions[f][next[f]]
<1> USE DEF database, told, smtp, daemon
<1>1. next[f] \in 1..Len(Actions[f]) /\ trigger_action(f, a) /\ Goes(f, next[f] + 1) /\ UNCHANGED <<daemon, seen, smtp>>
  BY DEF Perform
<1>2. /\ a.by \in Int /\ 0 \in Int
      /\ a.do \in {"activate", "deactivate"} => a.on \in Controllers
      /\ a.do \in {"resume", "set", "raise"} => a.on \in PIDs
      /\ a.do \in {"on", "off"} => a.on \in Outputs
  BY <1>1, ActionType
<1> HIDE DEF a
<1>3. /\ next' \in [Functions -> Nat] /\ \A g \in Functions : next'[g] \in 0..(Len(Actions[g]) + 2)
      /\ next'[f] # 0
  BY <1>1, LengthType DEF TypeOK, Goes
<1>4. recipients' \in [Functions -> BOOLEAN] /\ \A g \in Functions : recipients'[g] => next'[g] # 0
  BY <1>1, <1>3 DEF trigger_action, TypeOK, Goes
<1> DEFINE Fine == /\ active' \in [Controllers -> BOOLEAN] /\ row' \in [PIDs -> Settings]
                   /\ calls' \subseteq Commands
                   /\ asked' \in [PIDs -> Int] /\ lit' \in [Outputs -> BOOLEAN]
<1>5. ASSUME a.do \in {"activate", "deactivate"} PROVE Fine
  <2>1. (Activates(f, a.on) \/ Deactivates(f, a.on)) /\ UNCHANGED told
    BY <1>1, <1>5 DEF trigger_action
  <2>2. /\ Command(f, "activate", a.on, 0) \in Commands /\ Command(f, "deactivate", a.on, 0) \in Commands
        /\ a.on \in Controllers
    BY <1>2, <1>5, CommandType
  <2> QED BY <2>1, <2>2 DEF TypeOK, Activates, Deactivates, Give
<1>6. ASSUME a.do = "resume" PROVE Fine
  <2>1. Resumes(f, a.on) /\ UNCHANGED told
    BY <1>1, <1>6 DEF trigger_action
  <2>2. a.on \in PIDs /\ row[a.on] \in Settings /\ Command(f, "resume", a.on, 0) \in Commands
    BY <1>2, <1>6, CommandType DEF TypeOK
  <2>3. [row[a.on] EXCEPT !.paused = FALSE] \in Settings
    BY <2>2, SettingsType
  <2> QED BY <2>1, <2>2, <2>3 DEF TypeOK, Resumes, Give
<1>7. ASSUME NEW v \in Int, a.on \in PIDs, SetsPoint(f, a.on, v), NEW w \in Int, AsksPID(a.on, w) PROVE Fine
  <2>1. row[a.on] \in Settings /\ Command(f, "set", a.on, v) \in Commands
    BY <1>7, CommandType DEF TypeOK
  <2>2. [row[a.on] EXCEPT !.setpoint = v] \in Settings
    BY <2>1, SettingsType
  <2> QED BY <1>7, <2>1, <2>2 DEF TypeOK, SetsPoint, AsksPID, Give
<1>8. ASSUME a.do \in {"set", "raise"} PROVE Fine
  <2>1. row[a.on].setpoint + a.by \in Int /\ asked[a.on] + a.by \in Int /\ a.on \in PIDs
    BY <1>1, <1>2, <1>8 DEF TypeOK, Settings, trigger_action, SetsPoint, AsksPID
  <2> QED BY <1>1, <1>2, <1>7, <1>8, <2>1 DEF trigger_action
<1>9. ASSUME a.do \in {"on", "off"} PROVE Fine
  <2>1. Give(f, a.do, a.on, a.by) /\ AsksOutput(a.on, a.do = "on") /\ UNCHANGED database
    BY <1>1, <1>9 DEF trigger_action
  <2> QED BY <1>2, <1>9, <2>1, CommandType DEF TypeOK, AsksOutput, Give
<1>10. ASSUME a.do \notin {"activate", "deactivate", "resume", "set", "raise", "on", "off"} PROVE Fine
  <2>1. UNCHANGED <<database, calls, told>>
    BY <1>1, <1>10 DEF trigger_action
  <2> QED BY <2>1 DEF TypeOK
<1>11. Fine
  BY <1>5, <1>6, <1>8, <1>9, <1>10
<1> QED BY <1>1, <1>3, <1>4, <1>11 DEF TypeOK

\* So does what the daemon does with a command.
LEMMA TypeArrives ==
  ASSUME TypeOK, Arrives
  PROVE  TypeOK'
<1> USE DEF run, smtp, told, database
<1>1. PICK c \in calls :
        ActivateArrives(c) \/ DeactivateArrives(c) \/ PIDCallArrives(c) \/ OutputCallArrives(c)
  BY DEF Arrives
<1>2. c \in Commands /\ UNCHANGED <<run, smtp, told>>
  BY DEF TypeOK, Arrives
<1>3. CASE ActivateArrives(c)
  <2>1. c.on \in Controllers
    BY <1>2, <1>3, CommandIs DEF ActivateArrives
  <2>2. pid' \in [PIDs -> Settings]
    BY <1>3 DEF ActivateArrives, TypeOK
  <2> QED BY <1>2, <1>3, <2>1, <2>2 DEF ActivateArrives, TypeOK
<1>4. CASE DeactivateArrives(c)
  <2>1. c.on \in Controllers /\ [c EXCEPT !.do = "join"] \in Commands
    BY <1>2, <1>4, CommandIs DEF DeactivateArrives
  <2>2. stage' \in [Controllers -> {"none", "on", "off"}] /\ active' \in [Controllers -> BOOLEAN]
    BY <1>4 DEF DeactivateArrives, TypeOK
  <2>3. calls' \subseteq Commands
    BY <1>4, <2>1 DEF DeactivateArrives, TypeOK
  <2> QED BY <1>2, <1>4, <2>2, <2>3 DEF DeactivateArrives, TypeOK
<1>5. CASE PIDCallArrives(c)
  <2>1. c.on \in PIDs /\ c.by \in Int
    BY <1>2, <1>5, CommandIs DEF PIDCallArrives
  <2>2. row[c.on] \in Settings /\ pid[c.on] \in Settings
    BY <2>1 DEF TypeOK
  <2>3. /\ [row[c.on] EXCEPT !.setpoint = c.by] \in Settings /\ [pid[c.on] EXCEPT !.setpoint = c.by] \in Settings
        /\ [pid[c.on] EXCEPT !.paused = FALSE] \in Settings
    BY <2>1, <2>2, SettingsType
  <2>4. row' \in [PIDs -> Settings] /\ pid' \in [PIDs -> Settings]
    BY <1>5, <2>3 DEF PIDCallArrives, TypeOK
  <2> QED BY <1>2, <1>5, <2>4 DEF PIDCallArrives, TypeOK
<1>6. CASE OutputCallArrives(c)
  <2>1. lamp' \in [Outputs -> BOOLEAN]
    BY <1>6 DEF OutputCallArrives, TypeOK
  <2> QED BY <1>2, <1>6, <2>1 DEF OutputCallArrives, TypeOK
<1> QED BY <1>1, <1>3, <1>4, <1>5, <1>6

\* So does every step.
LEMMA TypeStep == TypeOK /\ [Next]_vars => TypeOK'
<1> SUFFICES ASSUME TypeOK, [Next]_vars PROVE TypeOK'
  OBVIOUS
<1> USE DEF database, daemon, run, smtp, told
<1>1. CASE UNCHANGED vars
  BY <1>1 DEF vars, TypeOK
<1>2. ASSUME NEW f \in Functions, Begin(f) PROVE TypeOK'
  BY <1>2, LengthType DEF Begin, Goes, TypeOK
<1>3. ASSUME NEW f \in Functions, End(f) PROVE TypeOK'
  BY <1>3, LengthType DEF End, Goes, TypeOK
<1>4. ASSUME NEW f \in Functions, ReadMailCount(f) PROVE TypeOK'
  <2>1. [count |-> email_count, waiting |-> waiting] \in [count : 0..HourlyMax, waiting : BOOLEAN]
    BY DEF TypeOK
  <2>2. seen' \in [Functions -> [count : 0..HourlyMax, waiting : BOOLEAN]]
    BY <1>4, <2>1 DEF ReadMailCount, TypeOK
  <2>3. Len(Actions[f]) \in Nat /\ next'[f] = Len(Actions[f]) + 2 /\ next' = [next EXCEPT ![f] = @ + 1]
    BY <1>4, LengthType DEF ReadMailCount, IsAtEnd, Goes, TypeOK
  <2>4. next' \in [Functions -> Nat] /\ \A g \in Functions : next'[g] \in 0..(Len(Actions[g]) + 2)
    BY <2>3 DEF TypeOK
  <2>5. \A g \in Functions : recipients'[g] => next'[g] # 0
    BY <1>4, <2>3 DEF ReadMailCount, TypeOK
  <2> QED BY <1>4, <2>2, <2>4, <2>5 DEF ReadMailCount, TypeOK
<1>5. ASSUME NEW f \in Functions, WriteMailCount(f) PROVE TypeOK'
  <2>1. HourlyMax \in Nat /\ 0 \in 0..HourlyMax
    BY ActionsAssumption
  <2>2. [count |-> 0, waiting |-> FALSE] \in [count : 0..HourlyMax, waiting : BOOLEAN]
    BY <2>1
  <2>3. seen' \in [Functions -> [count : 0..HourlyMax, waiting : BOOLEAN]]
    BY <1>5, <2>2 DEF WriteMailCount, TypeOK
  <2>4. email_count' \in 0..HourlyMax /\ sent' \in Nat /\ waiting' \in BOOLEAN
    BY <1>5, <2>1 DEF WriteMailCount, TypeOK
  <2>5. /\ next' \in [Functions -> Nat] /\ \A g \in Functions : next'[g] \in 0..(Len(Actions[g]) + 2)
        /\ recipients' \in [Functions -> BOOLEAN] /\ \A g \in Functions : recipients'[g] => next'[g] # 0
    BY <1>5, LengthType DEF WriteMailCount, NoRecipients, Goes, TypeOK
  <2> QED BY <1>5, <2>3, <2>4, <2>5 DEF WriteMailCount, TypeOK
<1>6. ASSUME NEW c \in Controllers, ThreadEnds(c) PROVE TypeOK'
  BY <1>6 DEF ThreadEnds, TypeOK
<1>7. ASSUME NEW c \in Controllers, ActivatePage(c) \/ DeactivatePage(c) PROVE TypeOK'
  <2>1. Command(User, "activate", c, 0) \in Commands /\ Command(User, "deactivate", c, 0) \in Commands
    BY CommandType
  <2> QED BY <1>7, <2>1 DEF ActivatePage, DeactivatePage, Activates, Deactivates, Give, TypeOK
<1>8. CASE HourPasses
  BY <1>8 DEF HourPasses, TypeOK
<1> QED BY <1>1, <1>2, <1>3, <1>4, <1>5, <1>6, <1>7, <1>8, TypePerform, TypeArrives DEF Next, Run

\* Whatever Actions a Function has, and whoever else gives commands, rows,
\* controllers and commands are what they can be.
THEOREM TypeCorrect == Spec => []TypeOK
BY TypeInit, TypeStep, PTL DEF Spec

(***************************************************************************)
(* Mails                                                                   *)
(***************************************************************************)
\* One Function's run at a time.
OneRun == \A f \in Functions : \A g \in Functions \ {f} : next[f] = 0 \/ next[g] = 0

\* Mails that were sent were counted, and the Function that is to count one has
\* read the count as it is.
MailsCounted ==
  /\ waiting => sent <= email_count
  /\ \A f \in Functions : next[f] = Len(Actions[f]) + 2 => seen[f].count = email_count

MailInv == OneRun /\ MailsCounted

\* Runs do not overlap, and what is read stays true till it is written back.
LEMMA MailStep ==
  ASSUME ~Overlap, HourlyMax # 0, TypeOK, MailInv, [Next]_vars
  PROVE  MailInv'
<1> USE DEF database, daemon, run, smtp, told
<1>0. HourlyMax \in Nat /\ email_count \in 0..HourlyMax /\ sent \in Nat /\ waiting \in BOOLEAN
  BY ActionsAssumption DEF TypeOK
<1>1. ASSUME UNCHANGED <<next, seen>>, UNCHANGED email_count, waiting' => waiting /\ sent' = sent PROVE MailInv'
  BY <1>1 DEF MailInv, OneRun, MailsCounted
<1>2. CASE UNCHANGED vars
  BY <1>1, <1>2 DEF vars
<1>3. ASSUME NEW f \in Functions, Begin(f) \/ Perform(f) \/ End(f), UNCHANGED smtp PROVE MailInv'
  <2>1. /\ MayAct(f) /\ UNCHANGED seen /\ Len(Actions[f]) \in Nat /\ next[f] \in Nat
        /\ next' = [next EXCEPT ![f] = next'[f]] /\ next'[f] \in Nat /\ next'[f] # Len(Actions[f]) + 2
    <3>1. Len(Actions[f]) \in Nat /\ next[f] \in Nat
      BY LengthType DEF TypeOK
    <3>2. CASE Begin(f)
      BY <3>1, <3>2 DEF Begin, Goes, TypeOK
    <3>3. CASE Perform(f)
      BY <3>1, <3>3 DEF Perform, Goes, TypeOK
    <3>4. CASE End(f)
      BY <3>1, <3>4 DEF End, Goes, IsAtEnd, TypeOK
    <3> QED BY <1>3, <3>1, <3>2, <3>3, <3>4
  <2>2. \A g \in Functions \ {f} : next[g] = 0
    BY <2>1, <1>3 DEF MayAct
  <2>3. OneRun'
    BY <2>1, <2>2 DEF OneRun, TypeOK
  <2>4. \A g \in Functions : next'[g] = Len(Actions[g]) + 2 => g # f /\ next'[g] = next[g]
    BY <2>1 DEF TypeOK
  <2> QED BY <1>3, <2>1, <2>3, <2>4 DEF MailInv, MailsCounted
<1>4. ASSUME NEW f \in Functions, ReadMailCount(f) PROVE MailInv'
  <2>1. MayAct(f) /\ Goes(f, next[f] + 1) /\ seen' = [seen EXCEPT ![f] = [count |-> email_count, waiting |-> waiting]]
    BY <1>4 DEF ReadMailCount, IsAtEnd
  <2>2. \A g \in Functions \ {f} : next[g] = 0
    BY <2>1, <1>4 DEF MayAct
  <2>3. OneRun'
    BY <2>1, <2>2 DEF OneRun, Goes, TypeOK
  <2>4. \A g \in Functions \ {f} : next'[g] # Len(Actions[g]) + 2
    <3> TAKE g \in Functions \ {f}
    <3>1. next'[g] = 0 /\ Len(Actions[g]) \in Nat
      BY <2>1, <2>2, LengthType DEF Goes, TypeOK
    <3> QED BY <3>1
  <2>5. seen'[f].count = email_count
    BY <2>1 DEF TypeOK
  <2> QED BY <1>4, <2>3, <2>4, <2>5 DEF MailInv, MailsCounted, ReadMailCount
<1>5. ASSUME NEW f \in Functions, WriteMailCount(f) PROVE MailInv'
  <2>1. next[f] = Len(Actions[f]) + 2 /\ next[f] # 0 /\ Goes(f, 0)
    BY <1>5, LengthType DEF WriteMailCount
  <2>2. OneRun'
    BY <2>1 DEF OneRun, Goes, TypeOK, MailInv
  <2>3. \A g \in Functions : next'[g] = 0
    BY <2>1 DEF OneRun, Goes, TypeOK, MailInv
  <2>4. \A g \in Functions : next'[g] # Len(Actions[g]) + 2
    <3> TAKE g \in Functions
    <3>1. next'[g] = 0 /\ Len(Actions[g]) \in Nat
      BY <2>3, LengthType
    <3> QED BY <3>1
  <2>5. seen[f].count = email_count
    BY <2>1 DEF MailInv, MailsCounted
  <2>6. ASSUME waiting' PROVE sent' <= email_count'
    <3>1. CASE seen[f].waiting
      <4>1. waiting /\ email_count' = (IF email_count < HourlyMax THEN email_count + 1 ELSE HourlyMax)
        BY <1>5, <2>6, <3>1 DEF WriteMailCount
      <4>2. sent' = sent + (IF email_count < HourlyMax THEN 1 ELSE 0)
        BY <1>5, <2>5, <3>1 DEF WriteMailCount, Allowed
      <4>3. sent <= email_count
        BY <4>1 DEF MailInv, MailsCounted
      <4> QED BY <1>0, <4>1, <4>2, <4>3
    <3>2. CASE ~seen[f].waiting
      <4>1. email_count' = 1 /\ sent' = 1
        BY <1>0, <1>5, <3>2 DEF WriteMailCount, Allowed
      <4> QED BY <4>1
    <3> QED BY <3>1, <3>2
  <2> QED BY <2>2, <2>4, <2>6 DEF MailInv, MailsCounted
<1>6. ASSUME NEW c \in Controllers, ThreadEnds(c) \/ ActivatePage(c) \/ DeactivatePage(c) PROVE MailInv'
  BY <1>1, <1>6 DEF ThreadEnds, ActivatePage, DeactivatePage
<1>7. CASE Arrives
  BY <1>1, <1>7 DEF Arrives
<1>8. CASE HourPasses
  BY <1>1, <1>8 DEF HourPasses
<1>9. ASSUME NEW f \in Functions, Run(f) PROVE MailInv'
  BY <1>3, <1>4, <1>5, <1>9 DEF Run, Begin, Perform, End
<1> QED BY <1>2, <1>6, <1>7, <1>8, <1>9 DEF Next

\* When one Function carries out its Actions at a time, no more than hourly_max mails
\* are sent in an hour, if that allows any at all.
THEOREM MailsAreLimited == ~Overlap /\ HourlyMax # 0 /\ Spec => []MailLimit
<1> SUFFICES ASSUME ~Overlap, HourlyMax # 0 PROVE Spec => []MailLimit
  OBVIOUS
<1>1. Init => MailInv
  <2> SUFFICES ASSUME Init PROVE MailInv
    OBVIOUS
  <2>1. \A f \in Functions : next[f] = 0 /\ Len(Actions[f]) \in Nat
    BY LengthType DEF Init
  <2>2. \A f \in Functions : next[f] # Len(Actions[f]) + 2
    <3> TAKE f \in Functions
    <3>1. next[f] = 0 /\ Len(Actions[f]) \in Nat
      BY <2>1
    <3> QED BY <3>1
  <2> QED BY <2>1, <2>2 DEF Init, MailInv, OneRun, MailsCounted
<1>2. TypeOK /\ MailInv /\ [Next]_vars => MailInv'
  BY MailStep
<1>3. TypeOK /\ MailInv => MailLimit
  <2> SUFFICES ASSUME TypeOK, MailInv, waiting PROVE sent <= HourlyMax
    BY DEF MailLimit
  <2>1. HourlyMax \in Int /\ email_count \in Int /\ email_count <= HourlyMax /\ sent \in Int /\ sent <= email_count
    BY ActionsAssumption DEF TypeOK, MailInv, MailsCounted
  <2> QED BY <2>1
<1> QED BY <1>1, <1>2, <1>3, TypeCorrect, PTL DEF Spec

(***************************************************************************)
(* Tables and daemon                                                       *)
(***************************************************************************)
Quiet == \A c \in calls : c.do = "join"

Pends(do, x) == \E c \in calls : c.do = do /\ c.on = x

OneCommand == \A c, d \in calls : c.do # "join" /\ d.do # "join" => c = d

\* A row is what its controller is, but for the command on its way.
ControllersFollow ==
  \A c \in Controllers :
    active[c] <=> Pends("activate", c) \/ (IsRunning(c) /\ ~Pends("deactivate", c))

PIDsFollow ==
  \A p \in PIDs :
    /\ \A c \in calls : c.do = "set" /\ c.on = p =>
         c.by = asked[p] /\ stage[p] # "none" /\ (IsRunning(p) => pid[p].paused = row[p].paused)
    /\ ~Pends("set", p) => row[p].setpoint = asked[p]
    /\ Pends("resume", p) =>
         stage[p] # "none" /\ ~row[p].paused /\ (IsRunning(p) => pid[p].setpoint = row[p].setpoint)
    /\ IsRunning(p) /\ ~Pends("set", p) /\ ~Pends("resume", p) => pid[p] = row[p]

OutputsFollow ==
  \A o \in Outputs :
    /\ \A c \in calls : c.do \in {"on", "off"} /\ c.on = o => lit[o] = (c.do = "on")
    /\ ~Pends("on", o) /\ ~Pends("off", o) => lamp[o] = lit[o]

Follow == OneCommand /\ ControllersFollow /\ PIDsFollow /\ OutputsFollow

\* With no command on its way the two are the same.
Agree ==
  /\ \A c \in Controllers : active[c] <=> IsRunning(c)
  /\ \A p \in PIDs : row[p].setpoint = asked[p] /\ (IsRunning(p) => pid[p] = row[p])
  /\ \A o \in Outputs : lamp[o] = lit[o]

LEMMA QuietFollow == Quiet => (Follow <=> Agree)
<1> SUFFICES ASSUME Quiet PROVE Follow <=> Agree
  OBVIOUS
<1>1. OneCommand
  BY DEF Quiet, OneCommand
<1>2. \A x : \A do \in {"activate", "deactivate", "set", "resume", "on", "off"} : ~Pends(do, x)
  BY DEF Quiet, Pends
<1>3. \A c \in calls : c.do \notin {"set", "on", "off"}
  BY DEF Quiet
<1>4. ControllersFollow <=> \A c \in Controllers : active[c] <=> IsRunning(c)
  BY <1>2 DEF ControllersFollow
<1>5. PIDsFollow <=> \A p \in PIDs : row[p].setpoint = asked[p] /\ (IsRunning(p) => pid[p] = row[p])
  BY <1>2, <1>3 DEF PIDsFollow
<1>6. OutputsFollow <=> \A o \in Outputs : lamp[o] = lit[o]
  BY <1>2, <1>3 DEF OutputsFollow
<1> QED BY <1>1, <1>4, <1>5, <1>6 DEF Follow, Agree

LEMMA QuietFollowNext == (Quiet => (Follow <=> Agree))'
BY QuietFollow, PTL

\* A command that is given when there is none is the only one.
LEMMA Given ==
  ASSUME Quiet, NEW f, NEW do, do # "join", NEW on, NEW by, Give(f, do, on, by)
  PROVE  /\ OneCommand'
         /\ \A x : \A d : d # "join" => (Pends(d, x)' <=> d = do /\ x = on)
         /\ \A c \in calls' : c.do # "join" => c = Command(f, do, on, by)
<1>1. calls' = calls \cup {Command(f, do, on, by)}
  BY DEF Give
<1>2. Command(f, do, on, by).do = do /\ Command(f, do, on, by).on = on
  BY DEF Command
<1>3. \A c \in calls' : c.do # "join" => c = Command(f, do, on, by)
  BY <1>1 DEF Quiet
<1>4. Command(f, do, on, by) \in calls'
  BY <1>1
<1> QED BY <1>2, <1>3, <1>4 DEF OneCommand, Pends

\* Users and Functions that activate or deactivate a controller ...
LEMMA FollowActivation ==
  ASSUME TypeOK, Quiet, Follow, NEW f, NEW k \in Controllers, Activates(f, k) \/ Deactivates(f, k),
         UNCHANGED <<daemon, told>>
  PROVE  Follow'
<1> USE DEF database, daemon, told
<1>1. Agree /\ UNCHANGED <<row, stage, pid, lamp, asked, lit>> /\ active \in [Controllers -> BOOLEAN]
  BY QuietFollow DEF Activates, Deactivates, TypeOK
<1>2. CASE UNCHANGED <<active, calls>>
  <2>1. Quiet' /\ Agree'
    BY <1>1, <1>2 DEF Quiet, Agree, IsRunning
  <2> QED BY <2>1, QuietFollowNext
<1>3. ASSUME NEW do \in {"activate", "deactivate"}, Give(f, do, k, 0),
             active[k] = (do = "deactivate"), active' = [active EXCEPT ![k] = (do = "activate")]
      PROVE  Follow'
  <2>0. PICK none : none = 0 /\ do # "join"
    OBVIOUS
  <2>1. /\ OneCommand'
        /\ \A x : \A d : d # "join" => (Pends(d, x)' <=> d = do /\ x = k)
        /\ \A c \in calls' : c.do # "join" => c = Command(f, do, k, none)
    BY <1>3, <2>0, Given
  <2>2. \A c \in calls' : c.do \notin {"set", "resume", "on", "off"}
    BY <2>1, <1>3 DEF Command
  <2>3. ControllersFollow'
    BY <1>1, <1>3, <2>1 DEF ControllersFollow, Agree, IsRunning
  <2>4. PIDsFollow'
    BY <1>1, <2>1, <2>2 DEF PIDsFollow, Agree, IsRunning, Pends
  <2>5. OutputsFollow'
    BY <1>1, <2>1, <2>2 DEF OutputsFollow, Agree, Pends
  <2> QED BY <2>1, <2>3, <2>4, <2>5 DEF Follow
<1>4. CASE Activates(f, k)
  <2>1. CASE active[k]
    BY <1>2, <1>4, <2>1 DEF Activates
  <2>2. CASE ~active[k]
    BY <1>1, <1>3, <1>4, <2>2 DEF Activates
  <2> QED BY <2>1, <2>2
<1>5. CASE Deactivates(f, k)
  <2>1. CASE ~active[k]
    BY <1>2, <1>5, <2>1 DEF Deactivates
  <2>2. CASE active[k]
    BY <1>1, <1>3, <1>5, <2>2 DEF Deactivates
  <2> QED BY <2>1, <2>2
<1> QED BY <1>4, <1>5

\* ... Functions that resume a PID ...
LEMMA FollowResumption ==
  ASSUME TypeOK, Quiet, Follow, NEW f, NEW p \in PIDs, Resumes(f, p), UNCHANGED <<daemon, told>>
  PROVE  Follow'
<1> USE DEF database, daemon, told
<1>1. Agree /\ UNCHANGED <<active, stage, pid, lamp, asked, lit>> /\ row \in [PIDs -> Settings] /\ p \in Controllers
  BY QuietFollow DEF Resumes, TypeOK, Controllers
<1>2. CASE UNCHANGED <<row, calls>>
  <2>1. Quiet' /\ Agree'
    BY <1>1, <1>2 DEF Quiet, Agree, IsRunning
  <2> QED BY <2>1, QuietFollowNext
<1>3. CASE active[p] /\ row' = [row EXCEPT ![p].paused = FALSE] /\ Give(f, "resume", p, 0)
  <2>0. PICK none : none = 0
    OBVIOUS
  <2>8. Give(f, "resume", p, none) /\ "resume" # "join"
    BY <1>3, <2>0
  <2>1. /\ OneCommand'
        /\ \A x : \A d : d # "join" => (Pends(d, x)' <=> d = "resume" /\ x = p)
        /\ \A c \in calls' : c.do # "join" => c = Command(f, "resume", p, none)
    BY <2>8, Given
  <2>2. \A c \in calls' : c.do \notin {"set", "on", "off"}
    BY <2>1 DEF Command
  <2>3. ControllersFollow'
    BY <1>1, <2>1 DEF ControllersFollow, Agree, IsRunning
  <2>4. stage[p] # "none" /\ ~row'[p].paused /\ row'[p].setpoint = row[p].setpoint /\ pid[p] = row[p]
    BY <1>1, <1>3 DEF Agree, IsRunning, Settings
  <2>5. \A q \in PIDs \ {p} : row'[q] = row[q]
    BY <1>1, <1>3
  <2>6. PIDsFollow'
    BY <1>1, <2>1, <2>2, <2>4, <2>5 DEF PIDsFollow, Agree, IsRunning
  <2>7. OutputsFollow'
    BY <1>1, <2>1, <2>2 DEF OutputsFollow, Agree
  <2> QED BY <2>1, <2>3, <2>6, <2>7 DEF Follow
<1> QED BY <1>2, <1>3 DEF Resumes

\* ... change its setpoint ...
LEMMA FollowSetpoint ==
  ASSUME TypeOK, Quiet, Follow, NEW f, NEW p \in PIDs, NEW v \in Int, SetsPoint(f, p, v), AsksPID(p, v),
         UNCHANGED daemon
  PROVE  Follow'
<1> USE DEF database, daemon
<1>1. /\ Agree /\ UNCHANGED <<active, stage, pid, lamp, lit>> /\ row \in [PIDs -> Settings] /\ p \in Controllers
      /\ asked' = [asked EXCEPT ![p] = v] /\ asked \in [PIDs -> Int]
  BY QuietFollow DEF SetsPoint, AsksPID, TypeOK, Controllers
<1>2. CASE ~active[p]
  <2>1. row' = [row EXCEPT ![p].setpoint = v] /\ UNCHANGED calls /\ ~IsRunning(p)
    BY <1>1, <1>2 DEF SetsPoint, Agree
  <2>2. row'[p].setpoint = v
    BY <1>1, <2>1 DEF Settings
  <2>3. \A q \in PIDs \ {p} : row'[q] = row[q]
    BY <1>1, <2>1
  <2>4. Quiet' /\ Agree'
    BY <1>1, <2>1, <2>2, <2>3 DEF Quiet, Agree, IsRunning
  <2> QED BY <2>4, QuietFollowNext
<1>3. CASE active[p]
  <2>1. Give(f, "set", p, v) /\ UNCHANGED row /\ IsRunning(p)
    BY <1>1, <1>3 DEF SetsPoint, Agree
  <2>2. /\ OneCommand'
        /\ \A x : \A d : d # "join" => (Pends(d, x)' <=> d = "set" /\ x = p)
        /\ \A c \in calls' : c.do # "join" => c = Command(f, "set", p, v)
    BY <2>1, Given
  <2>3. \A c \in calls' : c.do \notin {"on", "off"} /\ (c.do = "set" => c.on = p /\ c.by = v)
    BY <2>2 DEF Command
  <2>4. ControllersFollow'
    BY <1>1, <2>2 DEF ControllersFollow, Agree, IsRunning
  <2>5. PIDsFollow'
    BY <1>1, <2>1, <2>2, <2>3 DEF PIDsFollow, Agree, IsRunning
  <2>6. OutputsFollow'
    BY <1>1, <2>2, <2>3 DEF OutputsFollow, Agree
  <2> QED BY <2>2, <2>4, <2>5, <2>6 DEF Follow
<1> QED BY <1>2, <1>3

\* ... and switch an output.
LEMMA FollowSwitch ==
  ASSUME TypeOK, Quiet, Follow, NEW f, NEW o \in Outputs, NEW do \in {"on", "off"}, NEW by,
         Give(f, do, o, by), AsksOutput(o, do = "on"), UNCHANGED <<database, daemon>>
  PROVE  Follow'
<1> USE DEF database, daemon
<1>1. /\ Agree /\ UNCHANGED <<active, row, stage, pid, lamp, asked>>
      /\ lit' = [lit EXCEPT ![o] = (do = "on")] /\ lit \in [Outputs -> BOOLEAN]
  BY QuietFollow DEF AsksOutput, TypeOK
<1>2. /\ OneCommand'
      /\ \A x : \A d : d # "join" => (Pends(d, x)' <=> d = do /\ x = o)
      /\ \A c \in calls' : c.do # "join" => c = Command(f, do, o, by)
  BY Given
<1>3. \A c \in calls' : c.do # "set" /\ (c.do \in {"on", "off"} => c.do = do /\ c.on = o)
  BY <1>2 DEF Command
<1>4. ControllersFollow'
  BY <1>1, <1>2 DEF ControllersFollow, Agree, IsRunning
<1>5. PIDsFollow'
  BY <1>1, <1>2, <1>3 DEF PIDsFollow, Agree, IsRunning
<1>6. OutputsFollow'
  BY <1>1, <1>2, <1>3 DEF OutputsFollow, Agree
<1> QED BY <1>2, <1>4, <1>5, <1>6 DEF Follow

\* A Function has no Action done while a command is on its way.
LEMMA FollowPerform ==
  ASSUME ~Overlap, TypeOK, Follow, NEW f \in Functions, Perform(f)
  PROVE  Follow'
<1> DEFINE a == Actions[f][next[f]]
<1>1. Quiet /\ trigger_action(f, a) /\ next[f] \in 1..Len(Actions[f]) /\ UNCHANGED daemon
  BY DEF Perform, MayAct, Quiet
<1>2. /\ a.by \in Int
      /\ a.do \in {"activate", "deactivate"} => a.on \in Controllers
      /\ a.do \in {"resume", "set", "raise"} => a.on \in PIDs
      /\ a.do \in {"on", "off"} => a.on \in Outputs
  BY <1>1, ActionType
<1> HIDE DEF a
<1>3. Agree
  BY <1>1, QuietFollow
<1>4. CASE a.do \in {"activate", "deactivate"}
  <2>1. (Activates(f, a.on) \/ Deactivates(f, a.on)) /\ UNCHANGED told
    BY <1>1, <1>4 DEF trigger_action
  <2> QED BY <1>1, <1>2, <1>4, <2>1, FollowActivation
<1>5. CASE a.do = "resume"
  <2>1. Resumes(f, a.on) /\ UNCHANGED told
    BY <1>1, <1>5 DEF trigger_action
  <2> QED BY <1>1, <1>2, <1>5, <2>1, FollowResumption
<1>6. CASE a.do = "set"
  <2>1. SetsPoint(f, a.on, a.by) /\ AsksPID(a.on, a.by)
    BY <1>1, <1>6 DEF trigger_action
  <2> QED BY <1>1, <1>2, <1>6, <2>1, FollowSetpoint
<1>7. CASE a.do = "raise"
  <2>1. SetsPoint(f, a.on, row[a.on].setpoint + a.by) /\ AsksPID(a.on, asked[a.on] + a.by)
    BY <1>1, <1>7 DEF trigger_action
  <2>2. a.on \in PIDs /\ asked[a.on] = row[a.on].setpoint /\ asked[a.on] + a.by \in Int
    BY <1>2, <1>3, <1>7 DEF Agree, TypeOK
  <2> QED BY <1>1, <2>1, <2>2, FollowSetpoint
<1>8. CASE a.do \in {"on", "off"}
  <2>1. Give(f, a.do, a.on, a.by) /\ AsksOutput(a.on, a.do = "on") /\ UNCHANGED database
    BY <1>1, <1>8 DEF trigger_action
  <2> QED BY <1>1, <1>2, <1>8, <2>1, FollowSwitch
<1>9. CASE a.do \notin {"activate", "deactivate", "resume", "set", "raise", "on", "off"}
  <2>1. UNCHANGED <<database, calls, told>>
    BY <1>1, <1>9 DEF trigger_action
  <2>2. Quiet' /\ Agree'
    BY <1>1, <1>3, <2>1 DEF Quiet, Agree, IsRunning, database, told, daemon
  <2> QED BY <2>2, QuietFollowNext
<1> QED BY <1>4, <1>5, <1>6, <1>7, <1>8, <1>9

\* The command that comes to the daemon was the only one, and does what was asked.
LEMMA FollowArrives ==
  ASSUME TypeOK, Follow, Arrives
  PROVE  Follow'
<1> USE DEF database, told
<1>1. PICK c \in calls :
        ActivateArrives(c) \/ DeactivateArrives(c) \/ PIDCallArrives(c) \/ OutputCallArrives(c)
  BY DEF Arrives
<1>2. c \in Commands /\ UNCHANGED <<asked, lit>>
  BY DEF TypeOK, Arrives
<1>3. c.do # "join"
  BY <1>1 DEF ActivateArrives, DeactivateArrives, PIDCallArrives, OutputCallArrives
<1>4. /\ \A d \in calls : d.do # "join" => d = c
      /\ \A x : \A do : do # "join" => (Pends(do, x) <=> do = c.do /\ x = c.on)
  BY <1>3 DEF Follow, OneCommand, Pends
<1>5. Quiet'
  <2>1. calls' \subseteq (calls \ {c}) \cup {[c EXCEPT !.do = "join"]}
    BY <1>1 DEF ActivateArrives, DeactivateArrives, PIDCallArrives, OutputCallArrives
  <2>2. [c EXCEPT !.do = "join"].do = "join"
    BY <1>2 DEF Commands, To
  <2> QED BY <1>4, <2>1, <2>2 DEF Quiet
<1>6. CASE ActivateArrives(c)
  <2>1. c.on \in Controllers /\ UNCHANGED <<row, lamp>> /\ c.do = "activate"
    BY <1>2, <1>6, CommandIs DEF ActivateArrives
  <2>2. \A k \in Controllers : active'[k] <=> stage'[k] = "on"
    BY <1>4, <1>6, <2>1 DEF ActivateArrives, Follow, ControllersFollow, IsRunning, TypeOK
  <2>3. \A p \in PIDs : row[p].setpoint = asked[p] /\ (IsRunning(p) => pid[p] = row[p])
    BY <1>4, <2>1 DEF Follow, PIDsFollow
  <2>4. \A p \in PIDs : stage'[p] = "on" => pid'[p] = row[p]
    BY <1>6, <2>1, <2>3 DEF ActivateArrives, IsRunning, TypeOK
  <2>5. \A o \in Outputs : lamp[o] = lit[o]
    BY <1>4, <2>1 DEF Follow, OutputsFollow
  <2>6. Agree'
    BY <1>2, <2>1, <2>2, <2>3, <2>4, <2>5 DEF Agree, IsRunning
  <2> QED BY <1>5, <2>6, QuietFollowNext
<1>7. CASE DeactivateArrives(c)
  <2>1. c.on \in Controllers /\ UNCHANGED <<row, lamp, pid>> /\ c.do = "deactivate"
    BY <1>2, <1>7, CommandIs DEF DeactivateArrives
  <2>2. \A k \in Controllers : active[k] <=> IsRunning(k) /\ k # c.on
    BY <1>4, <2>1 DEF Follow, ControllersFollow
  <2>3. \A k \in Controllers : active'[k] <=> stage'[k] = "on"
    BY <1>7, <2>1, <2>2 DEF DeactivateArrives, IsRunning, TypeOK
  <2>4. \A p \in PIDs : row[p].setpoint = asked[p] /\ (IsRunning(p) => pid[p] = row[p])
    BY <1>4, <2>1 DEF Follow, PIDsFollow
  <2>5. \A p \in PIDs : stage'[p] = "on" => stage[p] = "on"
    BY <1>7, <2>1 DEF DeactivateArrives, TypeOK, Controllers
  <2>6. \A o \in Outputs : lamp[o] = lit[o]
    BY <1>4, <2>1 DEF Follow, OutputsFollow
  <2>7. Agree'
    BY <1>2, <2>1, <2>3, <2>4, <2>5, <2>6 DEF Agree, IsRunning
  <2> QED BY <1>5, <2>7, QuietFollowNext
<1>8. CASE PIDCallArrives(c)
  <2>1. c.on \in PIDs /\ UNCHANGED <<active, stage, lamp>> /\ c.do \in {"resume", "set"}
    BY <1>2, <1>8, CommandIs DEF PIDCallArrives
  <2>2. \A k \in Controllers : active[k] <=> IsRunning(k)
    BY <1>4, <2>1 DEF Follow, ControllersFollow
  <2>3. \A o \in Outputs : lamp[o] = lit[o]
    BY <1>4, <2>1 DEF Follow, OutputsFollow
  <2>4. \A p \in PIDs \ {c.on} : /\ row[p].setpoint = asked[p] /\ (IsRunning(p) => pid[p] = row[p])
                                /\ row'[p] = row[p] /\ pid'[p] = pid[p]
    BY <1>4, <1>8, <2>1 DEF Follow, PIDsFollow, PIDCallArrives, TypeOK
  <2>5. row[c.on] \in Settings /\ pid[c.on] \in Settings
    BY <2>1 DEF TypeOK
  <2>6. row'[c.on].setpoint = asked[c.on] /\ (IsRunning(c.on) => pid'[c.on] = row'[c.on])
    <3>1. CASE c.do = "set"
      <4>1. c.by = asked[c.on] /\ stage[c.on] # "none" /\ (IsRunning(c.on) => pid[c.on].paused = row[c.on].paused)
        BY <2>1, <3>1 DEF Follow, PIDsFollow
      <4>2. /\ pid'[c.on] = [pid[c.on] EXCEPT !.setpoint = c.by]
            /\ row'[c.on] = [row[c.on] EXCEPT !.setpoint = c.by]
        BY <1>8, <2>1, <3>1, <4>1 DEF PIDCallArrives, TypeOK
      <4> QED BY <2>5, <4>1, <4>2 DEF Settings
    <3>2. CASE c.do = "resume"
      <4>1. /\ stage[c.on] # "none" /\ ~row[c.on].paused
            /\ IsRunning(c.on) => pid[c.on].setpoint = row[c.on].setpoint
            /\ row[c.on].setpoint = asked[c.on]
        BY <1>4, <2>1, <3>2 DEF Follow, PIDsFollow
      <4>2. pid'[c.on] = [pid[c.on] EXCEPT !.paused = FALSE] /\ UNCHANGED row
        BY <1>8, <2>1, <3>2, <4>1 DEF PIDCallArrives, TypeOK
      <4> QED BY <2>5, <4>1, <4>2 DEF Settings
    <3> QED BY <2>1, <3>1, <3>2
  <2>7. Agree'
    BY <1>2, <2>1, <2>2, <2>3, <2>4, <2>6 DEF Agree, IsRunning
  <2> QED BY <1>5, <2>7, QuietFollowNext
<1>9. CASE OutputCallArrives(c)
  <2>1. c.on \in Outputs /\ UNCHANGED <<active, row, stage, pid>> /\ c.do \in {"on", "off"}
    BY <1>2, <1>9, CommandIs DEF OutputCallArrives
  <2>2. \A k \in Controllers : active[k] <=> IsRunning(k)
    BY <1>4, <2>1 DEF Follow, ControllersFollow
  <2>3. \A p \in PIDs : row[p].setpoint = asked[p] /\ (IsRunning(p) => pid[p] = row[p])
    BY <1>4, <2>1 DEF Follow, PIDsFollow
  <2>4. \A o \in Outputs : lamp'[o] = lit[o]
    BY <1>4, <1>9, <2>1 DEF Follow, OutputsFollow, OutputCallArrives, TypeOK
  <2>5. Agree'
    BY <1>2, <2>1, <2>2, <2>3, <2>4 DEF Agree, IsRunning
  <2> QED BY <1>5, <2>5, QuietFollowNext
<1> QED BY <1>1, <1>6, <1>7, <1>8, <1>9

\* So does every other step.
LEMMA FollowStep ==
  ASSUME ~Overlap, TypeOK, Follow, [Next]_vars
  PROVE  Follow'
<1> USE DEF database, daemon, told
<1>1. ASSUME UNCHANGED <<database, daemon, calls, told>> PROVE Follow'
  <2>1. OneCommand' /\ ControllersFollow'
    BY <1>1 DEF Follow, OneCommand, ControllersFollow, Pends, IsRunning
  <2>2. PIDsFollow' /\ OutputsFollow'
    BY <1>1 DEF Follow, PIDsFollow, OutputsFollow, Pends, IsRunning
  <2> QED BY <2>1, <2>2 DEF Follow
<1>2. CASE UNCHANGED vars
  BY <1>1, <1>2 DEF vars
<1>3. ASSUME NEW f \in Functions, Run(f) PROVE Follow'
  BY <1>1, <1>3, FollowPerform DEF Run, Begin, End, ReadMailCount, WriteMailCount
<1>4. ASSUME NEW c \in Controllers, ThreadEnds(c) PROVE Follow'
  <2>1. \A do, x : do # "join" => (Pends(do, x)' <=> Pends(do, x))
    BY <1>4 DEF ThreadEnds, Pends
  <2>2. calls' \subseteq calls /\ UNCHANGED <<database, daemon, told>>
    BY <1>4 DEF ThreadEnds
  <2>3. OneCommand' /\ ControllersFollow'
    BY <2>1, <2>2 DEF Follow, OneCommand, ControllersFollow, IsRunning
  <2>4. PIDsFollow' /\ OutputsFollow'
    BY <2>1, <2>2 DEF Follow, PIDsFollow, OutputsFollow, IsRunning
  <2> QED BY <2>3, <2>4 DEF Follow
<1>5. ASSUME NEW c \in Controllers, ActivatePage(c) \/ DeactivatePage(c) PROVE Follow'
  <2>1. Quiet /\ (Activates(User, c) \/ Deactivates(User, c)) /\ UNCHANGED <<daemon, told>>
    BY <1>5 DEF ActivatePage, DeactivatePage, MayAsk, Quiet
  <2> QED BY <2>1, FollowActivation
<1>6. CASE HourPasses
  BY <1>1, <1>6 DEF HourPasses
<1> QED BY <1>2, <1>3, <1>4, <1>5, <1>6, FollowArrives DEF Next

\* When one Function carries out its Actions at a time and a command is received
\* before the next, what its Actions do, and users who activate and deactivate
\* meanwhile, leaves tables and daemon the same, and in the order of the Actions.
THEOREM OrderIsKept == ~Overlap /\ Spec => []InStep
<1> SUFFICES ASSUME ~Overlap PROVE Spec => []InStep
  OBVIOUS
<1>1. Init => Follow
  <2> SUFFICES ASSUME Init PROVE Follow
    OBVIOUS
  <2>1. Quiet /\ Agree
    BY DEF Init, Quiet, Agree, IsRunning, Controllers
  <2> QED BY <2>1, QuietFollow
<1>2. TypeOK /\ Follow /\ [Next]_vars => Follow'
  BY FollowStep
<1>3. Follow => InStep
  BY QuietFollow DEF InStep, Quiet, Agree
<1> QED BY <1>1, <1>2, <1>3, TypeCorrect, PTL DEF Spec
=============================================================================
