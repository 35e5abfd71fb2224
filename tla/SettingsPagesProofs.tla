------------------------ MODULE SettingsPagesProofs ------------------------
(***************************************************************************)
(* Theorems about SettingsPages, in four parts: the plans that handlers    *)
(* begin with; for each part of the invariant, that the steps of a page,   *)
(* its beginning with a plan and a restart of the daemon keep it; that     *)
(* each handler, past its checks, begins with a plan; the theorems.        *)
(***************************************************************************)
EXTENDS SettingsPages, FiniteSetTheorems, SequenceTheorems, TLAPS

(***************************************************************************)
(* Plans                                                                   *)
(***************************************************************************)
\* The sorts of children that each kind has.
Suits(p) ==
  \/ p.sort = "measurement" /\ Kind[p.of] \in {"Input", "Math", "PID", "Output"}
  \/ p.sort = "condition" /\ Kind[p.of] = "Conditional"
  \/ p.sort = "action" /\ Kind[p.of] \in {"Conditional", "Trigger", "Function"}
  \/ p.sort = "display" /\ Kind[p.of] = "LCD"
  \/ p.sort = "widget" /\ Kind[p.of] = "Dashboard"

\* The children that may be: each suits its row.
Children == {p \in Parts : Suits(p)}

\* Those that may have a conversion.
Convertible == {p \in Children : Kind[p.of] \in {"Input", "Math"}}

\* What pages call the daemon for.
Calls == {"activate", "deactivate", "refresh", "setup", "remove"}

\* What a page may have to do.
Steps ==
  [do : {"insert", "erase", "inactive", "resume"}, id : Ids]
    \cup [do : {"list", "unlist"}, id : {i \in Ids : Kind[i] # "Dashboard"}]
    \cup [do : {"active"}, id : {i \in Ids : Kind[i] \in Controllers}]
    \cup [do : {"part"}, part : Children, full : BOOLEAN] \cup [do : {"unpart"}, part : Children]
    \cup [do : {"order"}, list : Lists, ids : Seq(Ids)]
    \cup [do : {"save"}, id : Ids, full : SUBSET Children, conv : SUBSET Convertible,
          src : Ids \cup {NoSource}, settings : BOOLEAN]
    \cup [do : {"clear", "drop", "convert"}] \cup [do : {"call"}, id : Ids, call : Calls]

\* Position i of the plan s is the step `what` of id, or of the child p.
Is(s, i, what, id) == s[i].do = what /\ s[i].id = id

\* Position i is the call c for id, ...
Calling(s, i, c, id) == s[i].do = "call" /\ s[i].call = c /\ s[i].id = id

\* ... or the deletion of the child p.
Removing(s, i, p) == s[i].do = "unpart" /\ s[i].part = p

\* Such a step comes before position i.
Before(s, i, what, id) == \E j \in 1..(i - 1) : Is(s, j, what, id)

\* Such a call comes after it.
After(s, i, C, id) == \E k \in 1..Len(s) : i < k /\ \E c \in C : Calling(s, k, c, id)

\* What makes a row active, or tells the daemon that it is.
Activates(x) == x.do = "active" \/ (x.do = "call" /\ x.call = "activate")

\* What holds of a plan whatever is left of it.
InPlace(s) ==
  /\ \A i \in 1..Len(s) : s[i].do \in {"save", "order", "convert", "clear", "resume"} => i = 1
  /\ \A i \in 1..Len(s) : s[i].do = "resume" => s[i].id \in active
  /\ \A i, k \in 1..Len(s) : Activates(s[i]) => s[k].do = "save" \/ Activates(s[k])
  /\ \A i \in 1..Len(s) : s[i].do = "call" /\ s[i].call = "activate" =>
       s[i].id \in active \/ Before(s, i, "active", s[i].id)

(***************************************************************************)
(* What the tables are                                                     *)
(***************************************************************************)
\* What each table holds; TypeOK says less of children and of what is active.
TableTypes ==
  /\ rows \subseteq Ids /\ active \subseteq rows /\ (\A id \in active : Kind[id] \in Controllers)
  /\ order \in [Lists -> Seq(Ids)]
  /\ parts \subseteq Children /\ filled \subseteq parts /\ converted \subseteq parts \cap Convertible
  /\ conversion \in BOOLEAN /\ source \in [Ids -> Ids \cup {NoSource}]
  /\ running \subseteq Ids /\ stale \subseteq running
  /\ called \in BOOLEAN /\ whole \in BOOLEAN
  /\ IsFiniteSet(rows) /\ IsFiniteSet(parts)

\* No more than one page is in progress: what ~Overlap comes to.
OnePage == \A v, w \in Workers : ~Idle(v) /\ ~Idle(w) => v = w

\* What every page in progress has left keeps its shape.
PlansInPlace == \A w \in Workers : InPlace(todo[w])

\* The part of the invariant that every other part needs.
Base == TableTypes /\ todo \in [Workers -> Seq(Steps)] /\ OnePage /\ PlansInPlace

(***************************************************************************)
(* The plans that pages begin with                                         *)
(***************************************************************************)
\* Nothing is left of a row of this id, and nothing names it.
Fresh(id) == /\ id \notin rows \cup running /\ ~Listed(id) /\ PartsOf(id) = {}
             /\ \A r \in rows : source[r] # id

\* The checks of an activation: nothing blank, nothing missing.
Complete(id) == /\ PartsOf(id) \subseteq filled
                /\ Kind[id] \in {"Input", "Math", "Trigger"} => PartsOf(id) # {}
                /\ PartsOf(id) \cap converted # {} => conversion

\* A new row, its children, its place in the list, its device.
Adding(s, id) ==
  /\ Fresh(id) /\ Len(s) > 0 /\ Is(s, 1, "insert", id)
  /\ \A i \in 2..Len(s) :
       \/ Is(s, i, "list", id)
       \/ s[i].do = "part" /\ s[i].part.of = id
       \/ Kind[id] = "Output" /\ Calling(s, i, "setup", id)
  /\ Kind[id] # "Dashboard" =>
       \E k \in 2..Len(s) : \A i \in 1..Len(s) : s[i].do = "list" <=> i = k
  /\ Kind[id] = "Output" => After(s, 1, {"setup"}, id)

\* A controller and those that depend on it are deactivated.
Stopping(s, id) ==
  /\ \A i \in 1..Len(s) : s[i].do = "inactive" =>
       /\ s[i].id = id \/ Kind[s[i].id] = "PID"
       /\ Kind[s[i].id] \in Controllers
       /\ After(s, i, {"deactivate"}, s[i].id)
  /\ \A i \in 1..Len(s) : s[i].do = "call" /\ s[i].call = "deactivate" =>
       Before(s, i, "inactive", s[i].id)
  /\ Kind[id] = "Input" =>
       \A p \in active : Kind[p] = "PID" /\ source[p] = id =>
         \A i \in 1..Len(s) : Is(s, i, "inactive", id) \/ Is(s, i, "erase", id)
                                => Before(s, i, "inactive", p)

\* Deactivations and nothing else.
Deactivating(s, id) ==
  /\ Stopping(s, id)
  /\ \A i \in 1..Len(s) : s[i].do = "inactive" \/ (s[i].do = "call" /\ s[i].call = "deactivate")

\* The children of a row, the row and its place in the list, in this order, at m.
Deleting(s, id, m) ==
  /\ id \in rows /\ Stopping(s, id)
  /\ m \in 1..Len(s) /\ (\A i \in 1..Len(s) : s[i].do = "erase" <=> i = m) /\ s[m].id = id
  /\ \A p \in PartsOf(id) : \E j \in 1..(m - 1) : Removing(s, j, p)
  /\ \A i \in 1..Len(s) :
       \/ i < m /\ (s[i].do = "inactive" \/ (s[i].do = "call" /\ s[i].call = "deactivate"))
       \/ i < m /\ s[i].do = "unpart" /\ s[i].part.of = id
            /\ (id \in active => Before(s, i, "inactive", id))
       \/ i = m
       \/ i > m /\ Is(s, i, "unlist", id)
       \/ i > m /\ Kind[id] = "Output" /\ Calling(s, i, "remove", id)
  /\ id \in active => Before(s, m, "inactive", id)
  /\ Kind[id] = "Output" => After(s, m, {"remove"}, id)

\* One child more, or less.
Growing(s) ==
  /\ Len(s) = 1 /\ s[1].do = "part" /\ s[1].part.of \in rows
  /\ s[1].part.of \notin active \/ s[1].full

\* A child goes only from a row that is not active.
Shrinking(s) ==
  Len(s) = 1 /\ s[1].do = "unpart" /\ s[1].part.of \notin active

\* The id is there, and only once.
Once(list, id) == \E k \in 1..Len(list) : \A i \in 1..Len(list) : list[i] = id <=> i = k

\* The row is once in the list of its page.
InList(id) == Once(order[ListOf[Kind[id]]], id)

\* Each row of a list is once in the list that replaces it.
Ordering(s) ==
  /\ Len(s) = 1 /\ s[1].do = "order"
  /\ \A id \in rows : Kind[id] # "Dashboard" /\ ListOf[Kind[id]] = s[1].list /\ InList(id)
                       => Once(s[1].ids, id)

\* A row with the fields of its children, and what is done about them.
Saving(s, id) ==
  /\ id \in rows /\ Len(s) > 0 /\ Is(s, 1, "save", id)
  /\ s[1].src = source[id] \/ (id \notin active /\ Kind[id] = "PID")
  /\ \A p \in s[1].conv : p.of = id
  /\ id \in active /\ Kind[id] # "PID" =>
       PartsOf(id) \cap filled \subseteq s[1].full /\ PartsOf(id) \cap s[1].conv \subseteq converted
  /\ \A i \in 2..Len(s) :
       \/ id \in active /\ Calling(s, i, "refresh", id)
       \/ Kind[id] = "Output" /\ Calling(s, i, "setup", id)
       \/ Kind[id] = "Input" /\ id \notin active /\ s[i].do = "unpart" /\ s[i].part.of = id
       \/ Kind[id] = "Input" /\ id \notin active /\ s[i].do = "part" /\ s[i].part.of = id
  /\ s[1].settings => \/ id \notin active /\ Kind[id] # "Output"
                      \/ After(s, 1, {"refresh", "setup"}, id)

\* A controller that may be activated, perhaps saved before.
Activating(s, id) ==
  /\ id \in rows \ active /\ Kind[id] \in Controllers
  /\ Kind[id] = "PID" => source[id] \in active
  /\ Kind[id] \notin {"PID", "Input", "Math"} => Complete(id)
  /\ Kind[id] \in {"Input", "Math"} => ~\E i \in 1..Len(s) : s[i].do = "save"
  /\ Len(s) \in {2, 3} /\ Is(s, Len(s) - 1, "active", id) /\ Calling(s, Len(s), "activate", id)
  /\ Len(s) = 3 => /\ Kind[id] = "PID" /\ Is(s, 1, "save", id) /\ s[1].src = source[id]
                 /\ \A p \in s[1].conv : p.of = id

\* A PID that is active resumes, and is told.
Resuming(s, id) ==
  /\ Kind[id] = "PID" /\ id \in active
  /\ Len(s) = 2 /\ Is(s, 1, "resume", id) /\ Calling(s, 2, "refresh", id)

\* The conversion of units is saved, or no active row uses it.
Converting(s) ==
  \/ Len(s) = 1 /\ s[1].do = "convert" /\ (~conversion \/ check_conversion_being_used)
  \/ Len(s) = 2 /\ s[1].do = "clear" /\ s[2].do = "drop" /\ check_conversion_being_used

\* What a handler begins with, if its checks let it begin.
Plan(s) ==
  \/ \E id \in Ids : \/ Adding(s, id) \/ Deactivating(s, id)
                     \/ \E m \in 1..Len(s) : Deleting(s, id, m)
                     \/ Saving(s, id) \/ Activating(s, id) \/ Resuming(s, id)
  \/ Growing(s) \/ Shrinking(s) \/ Ordering(s) \/ Converting(s)
(***************************************************************************)
(* The inputs of active PIDs                                               *)
(***************************************************************************)
\* The input that a PID uses is active, if it uses one.
SourceActive(id) == source[id] \in Ids /\ Kind[source[id]] = "Input" => source[id] \in active

\* No input is deactivated or deleted before the PIDs that use it.
SourcesLast(s) ==
  /\ \A i \in 1..Len(s) : s[i].do \in {"inactive", "erase"} /\ Kind[s[i].id] = "Input" =>
       \A p \in active : Kind[p] = "PID" /\ source[p] = s[i].id => Before(s, i, "inactive", p)
  /\ \A i \in 1..Len(s) : s[i].do = "active" /\ Kind[s[i].id] = "PID" => SourceActive(s[i].id)
  /\ \A i \in 1..Len(s) : s[i].do = "save" /\ Kind[s[i].id] = "PID" =>
       \/ s[i].src = source[s[i].id]
       \/ s[i].id \notin active /\ \A k \in 1..Len(s) : ~Activates(s[k])

\* PIDs keep their inputs active, and what is left to do will not change that.
SourceInv == Base /\ SourceIsSampled /\ \A w \in Workers : SourcesLast(todo[w])

(***************************************************************************)
(* What activations asked for                                              *)
(***************************************************************************)
\* Nothing that is left to do takes from an active row what its activation asked for.
KeepsComplete(s) ==
  /\ \A i \in 1..Len(s) : s[i].do = "part" => s[i].part.of \notin active \/ s[i].full
  /\ \A i \in 1..Len(s) :
       s[i].do = "unpart" /\ Kind[s[i].part.of] \in {"Input", "Math", "Trigger"} =>
         s[i].part.of \notin active \/ Before(s, i, "inactive", s[i].part.of)
  /\ \A i \in 1..Len(s) : s[i].do = "save" => \A p \in s[i].conv : p.of = s[i].id
  /\ \A i \in 1..Len(s) : s[i].do = "save" =>
       \/ s[i].id \notin active \/ Kind[s[i].id] = "PID"
       \/ /\ PartsOf(s[i].id) \cap filled \subseteq s[i].full
          /\ PartsOf(s[i].id) \cap s[i].conv \subseteq converted
  /\ \A i \in 1..Len(s) : s[i].do = "active" /\ Kind[s[i].id] # "PID" =>
       /\ \A k \in 1..Len(s) : s[k].do # "save"
       /\ Kind[s[i].id] \in {"Input", "Math"} \/ Complete(s[i].id)
  /\ \A i \in 1..Len(s) : s[i].do = "drop" =>
       /\ \A k \in 1..Len(s) : s[k].do # "save"
       /\ \A p \in converted : p.of \notin active

\* Active rows are complete, and stay so.
CompleteInv == Base /\ ActiveComplete /\ \A w \in Workers : KeepsComplete(todo[w])

(***************************************************************************)
(* Rows, their children and the lists                                      *)
(***************************************************************************)
\* A child comes after its row, and a row goes after its children.
ParentsLast(s) ==
  /\ \A i \in 1..Len(s) : s[i].do = "part" =>
       s[i].part.of \in rows \/ Before(s, i, "insert", s[i].part.of)
  /\ \A i \in 1..Len(s) : s[i].do = "erase" =>
       /\ \A k \in 1..Len(s) : s[k].do \notin {"part", "insert"}
       /\ \A p \in PartsOf(s[i].id) : \E j \in 1..(i - 1) : Removing(s, j, p)

\* A row joins its list once, leaves it after it is gone, and keeps its place otherwise.
ListedWell(s) ==
  /\ \A i \in 1..Len(s) : s[i].do = "list" =>
       /\ \A k \in 1..Len(s) : s[k].do \notin {"unlist", "unpart", "erase", "active", "order"}
       /\ \A k \in 1..Len(s) : s[k].do = "list" => i = k
       /\ \A j \in 1..Len(order[ListOf[Kind[s[i].id]]]) : order[ListOf[Kind[s[i].id]]][j] # s[i].id
  /\ \A i \in 1..Len(s) : s[i].do = "insert" /\ Kind[s[i].id] # "Dashboard" =>
       \E k \in 1..Len(s) : i < k /\ Is(s, k, "list", s[i].id)
  /\ \A i \in 1..Len(s) : s[i].do = "unlist" =>
       s[i].id \notin rows \/ Before(s, i, "erase", s[i].id)
  /\ \A i \in 1..Len(s) : s[i].do = "order" =>
       \A id \in rows : Kind[id] # "Dashboard" /\ ListOf[Kind[id]] = s[i].list /\ InList(id)
                         => Once(s[i].ids, id)

\* The row is still to join its list.
Pending(s, id) == \E i \in 1..Len(s) : Is(s, i, "list", id)

\* Unless a page broke off, every row is in its list or about to be.
RowsInLists ==
  whole => \A id \in rows : Kind[id] # "Dashboard" =>
             InList(id) \/ \E w \in Workers : Pending(todo[w], id)

\* The tables agree but for what the page in progress will do.
TablesInv == /\ Base /\ NoOrphans /\ RowsInLists
             /\ \A w \in Workers : ParentsLast(todo[w]) /\ ListedWell(todo[w])

(***************************************************************************)
(* The daemon                                                              *)
(***************************************************************************)
\* The daemon runs the row if and only if the tables say so.
Runs(id) == id \in running <=> id \in active \/ (id \in rows /\ Kind[id] = "Output")

\* The calls that start or stop a thread or a device, ...
Changers == {"activate", "deactivate", "setup", "remove"}
\* ... and those that have it read its settings again, or end it.
Refreshers == {"refresh", "setup", "deactivate", "remove"}

\* One of the calls C for id is still to come.
Owed(s, C, id) == \E k \in 1..Len(s) : \E c \in C : Calling(s, k, c, id)

\* Each change of a row that runs is followed by the call that tells the daemon, and no
\* call comes before the change it is about.
CallsFollow(s) ==
  /\ \A i \in 1..Len(s) :
       /\ s[i].do = "active" => After(s, i, {"activate"}, s[i].id)
       /\ s[i].do = "inactive" => After(s, i, {"deactivate"}, s[i].id)
       /\ s[i].do = "resume" => After(s, i, {"refresh"}, s[i].id)
       /\ s[i].do = "insert" /\ Kind[s[i].id] = "Output" => After(s, i, {"setup"}, s[i].id)
       /\ s[i].do = "erase" => /\ Kind[s[i].id] = "Output" => After(s, i, {"remove"}, s[i].id)
                               /\ s[i].id \notin active \/ Before(s, i, "inactive", s[i].id)
       /\ s[i].do = "save" /\ s[i].settings =>
            \/ s[i].id \notin active /\ Kind[s[i].id] # "Output"
            \/ After(s, i, {"refresh", "setup"}, s[i].id)
       /\ s[i].do \in {"clear", "drop", "convert"} =>
            \A p \in converted : p.of \notin active /\ (called => p.of \notin running)
       /\ s[i].do = "save" => (called => \A id \in Ids : Runs(id) /\ id \notin stale)
  /\ \A i \in 1..Len(s) : s[i].do = "call" =>
       /\ s[i].call = "deactivate" => /\ Kind[s[i].id] # "Output"
                                      /\ s[i].id \notin active \/ Before(s, i, "inactive", s[i].id)
       /\ s[i].call = "setup" => Kind[s[i].id] = "Output"
       /\ s[i].call = "activate" => Kind[s[i].id] # "Output"
       /\ s[i].call = "remove" => /\ Kind[s[i].id] = "Output"
                                  /\ \A k \in 1..Len(s) : s[k].do # "insert"
                                  /\ s[i].id \notin rows \/ Before(s, i, "erase", s[i].id)

\* If no call failed, whatever differs is about to be told.
Follows ==
  called => \A id \in Ids :
    /\ Runs(id) \/ \E w \in Workers : Owed(todo[w], Changers, id)
    /\ id \notin stale \/ \E w \in Workers : Owed(todo[w], Refreshers, id)

\* The daemon is in step but for what the page in progress will tell it.
DaemonInv == CompleteInv /\ Follows /\ \A w \in Workers : CallsFollow(todo[w])

(***************************************************************************)
(* Plans and what is left of them                                          *)
(***************************************************************************)
\* A step has the fields that its sort of step has.
LEMMA StepFields ==
  ASSUME NEW x \in Steps
  PROVE  /\ x.do \in {"insert", "erase", "inactive", "resume"} => x.id \in Ids
         /\ x.do \in {"list", "unlist"} => x.id \in Ids /\ Kind[x.id] # "Dashboard"
         /\ x.do = "active" => x.id \in Ids /\ Kind[x.id] \in Controllers
         /\ x.do = "part" => x.part \in Children /\ x.full \in BOOLEAN
         /\ x.do = "unpart" => x.part \in Children
         /\ x.do = "order" => x.list \in Lists /\ x.ids \in Seq(Ids)
         /\ x.do = "save" => /\ x.id \in Ids /\ x.full \in SUBSET Children
                             /\ x.conv \in SUBSET Convertible
                             /\ x.src \in Ids \cup {NoSource} /\ x.settings \in BOOLEAN
         /\ x.do = "call" => x.id \in Ids /\ x.call \in Calls
         /\ x.do \in {"insert", "erase", "inactive", "resume", "list", "unlist", "active", "part",
                      "unpart", "order", "save", "clear", "drop", "convert", "call"}
BY DEF Steps

\* What is left after the first step: each step, one place earlier.
LEMMA TailPoints ==
  ASSUME NEW s \in Seq(Steps), s # <<>>
  PROVE  /\ Tail(s) \in Seq(Steps) /\ Len(s) \in Nat /\ Len(s) >= 1
         /\ Len(Tail(s)) \in Nat /\ Len(Tail(s)) = Len(s) - 1
         /\ Head(s) = s[1] /\ s[1] \in Steps
         /\ \A i \in 1..Len(Tail(s)) : i + 1 \in 1..Len(s) /\ Tail(s)[i] = s[i + 1]
<1>1. /\ Tail(s) \in Seq(Steps) /\ Len(Tail(s)) = Len(s) - 1
      /\ \A i \in 1..Len(Tail(s)) : Tail(s)[i] = s[i + 1]
  BY HeadTailProperties
<1>2. Len(s) \in Nat /\ Len(s) >= 1
  BY EmptySeq
<1>3. Head(s) = s[1] /\ s[1] \in Steps
  BY <1>2, ElementOfSeq
<1> QED BY <1>1, <1>2, <1>3

\* What came before a step that is left came before it, or has been done now.
LEMMA BeforeTail ==
  ASSUME NEW s \in Seq(Steps), s # <<>>, NEW t, t = Tail(s), NEW i \in 1..Len(t), NEW what, NEW id,
         Before(s, i + 1, what, id)
  PROVE  Before(t, i, what, id) \/ Is(s, 1, what, id)
<1>1. PICK j \in 1..(i + 1 - 1) : Is(s, j, what, id)
  BY DEF Before
<1>2. CASE j = 1
  BY <1>1, <1>2
<1>3. CASE j # 1
  <2>1. j - 1 \in 1..(i - 1) /\ j - 1 \in 1..Len(t) /\ (j - 1) + 1 = j
    BY <1>1, <1>3, TailPoints
  <2>2. Is(t, j - 1, what, id)
    BY <1>1, <2>1, TailPoints DEF Is
  <2> QED BY <2>1, <2>2 DEF Before
<1> QED BY <1>2, <1>3

\* So with the deletion of a child.
LEMMA RemovedTail ==
  ASSUME NEW s \in Seq(Steps), s # <<>>, NEW t, t = Tail(s), NEW i \in 1..Len(t), NEW p,
         \E j \in 1..i : Removing(s, j, p)
  PROVE  (\E j \in 1..(i - 1) : Removing(t, j, p)) \/ Removing(s, 1, p)
<1>1. PICK j \in 1..i : Removing(s, j, p)
  OBVIOUS
<1>2. CASE j = 1
  BY <1>1, <1>2
<1>3. CASE j # 1
  <2>1. j - 1 \in 1..(i - 1) /\ j - 1 \in 1..Len(t) /\ (j - 1) + 1 = j
    BY <1>1, <1>3, TailPoints
  <2>2. Removing(t, j - 1, p)
    BY <1>1, <2>1, TailPoints DEF Removing
  <2> QED BY <2>1, <2>2
<1> QED BY <1>2, <1>3

\* A call that comes after a step that is left is still to come, ...
LEMMA AfterTail ==
  ASSUME NEW s \in Seq(Steps), s # <<>>, NEW t, t = Tail(s), NEW i \in 1..Len(t), NEW C, NEW id,
         After(s, i + 1, C, id)
  PROVE  After(t, i, C, id)
<1>1. PICK k \in 1..Len(s) : i + 1 < k /\ \E c \in C : Calling(s, k, c, id)
  BY DEF After
<1>2. k - 1 \in 1..Len(t) /\ i < k - 1 /\ (k - 1) + 1 = k
  BY <1>1, TailPoints
<1>3. \E c \in C : Calling(t, k - 1, c, id)
  BY <1>1, <1>2, TailPoints DEF Calling
<1> QED BY <1>2, <1>3 DEF After

\* ... as is one that comes after the step just done.
LEMMA AfterFirst ==
  ASSUME NEW s \in Seq(Steps), s # <<>>, NEW t, t = Tail(s), NEW C, NEW id, After(s, 1, C, id)
  PROVE  Owed(t, C, id)
<1>1. PICK k \in 1..Len(s) : 1 < k /\ \E c \in C : Calling(s, k, c, id)
  BY DEF After
<1>2. k - 1 \in 1..Len(t) /\ (k - 1) + 1 = k
  BY <1>1, TailPoints
<1>3. \E c \in C : Calling(t, k - 1, c, id)
  BY <1>1, <1>2, TailPoints DEF Calling
<1> QED BY <1>2, <1>3 DEF Owed

\* A call that is owed is owed still, or was the step just done.
LEMMA OwedTail ==
  ASSUME NEW s \in Seq(Steps), s # <<>>, NEW t, t = Tail(s), NEW C, NEW id, Owed(s, C, id)
  PROVE  Owed(t, C, id) \/ \E c \in C : Calling(s, 1, c, id)
<1>1. PICK k \in 1..Len(s) : \E c \in C : Calling(s, k, c, id)
  BY DEF Owed
<1>2. CASE k = 1
  BY <1>1, <1>2
<1>3. CASE k # 1
  <2>1. k - 1 \in 1..Len(t) /\ (k - 1) + 1 = k
    BY <1>1, <1>3, TailPoints
  <2>2. \E c \in C : Calling(t, k - 1, c, id)
    BY <1>1, <2>1, TailPoints DEF Calling
  <2> QED BY <2>1, <2>2 DEF Owed
<1> QED BY <1>2, <1>3

\* Of an empty plan nothing has to be shown.
LEMMA NothingLeft ==
  /\ <<>> \in Seq(Steps) /\ Len(<<>>) = 0
  /\ \A i \in 1..Len(<<>>) : FALSE
<1>1. <<>> \in Seq(Steps) /\ Len(<<>>) = 0
  BY EmptySeq
<1> QED BY <1>1

(***************************************************************************)
(* One step of a page                                                      *)
(***************************************************************************)
\* A step of a page that has begun.
Works(w) == Commit(w) \/ DaemonDoes(w) \/ CallFails(w) \/ BreakOff(w)

\* The page of w has the plan s, of which t is left.
Goes(w, s, t) ==
  /\ s \in Seq(Steps) /\ s # <<>> /\ todo[w] = s /\ InPlace(s)
  /\ t = Tail(s) /\ t # <<>> /\ todo'[w] = t

\* Which step is next is what the plan says.
LEMMA NextStep ==
  ASSUME NEW w, NEW s \in Seq(Steps), s # <<>>, todo[w] = s
  PROVE  Step(w) = s[1] /\ ~Idle(w) /\ \A d : Doing(w, d) => s[1].do = d
BY TailPoints DEF Step, Doing, Idle

\* A page goes on to its next step or ends, the others do nothing.
LEMMA Progress ==
  ASSUME Base, NEW w \in Workers, Works(w)
  PROVE  /\ todo' \in [Workers -> Seq(Steps)]
         /\ \A v \in Workers : v # w => todo[v] = <<>> /\ todo'[v] = <<>>
         /\ todo'[w] = <<>> \/ Goes(w, todo[w], todo'[w])
<1>1. ~Idle(w)
  BY DEF Works, Commit, InsertRow, ListRow, UnlistRow, WriteOrder, InsertPart, DeletePart, DeleteRow,
         SaveRow, ActivateRow, ResumeRow, DeactivateRow, ChangeConversion, DaemonDoes, CallFails,
         BreakOff, Doing
<1>2. \/ todo' = [todo EXCEPT ![w] = Tail(todo[w])]
      \/ todo' = [todo EXCEPT ![w] = <<>>]
  BY DEF Works, Commit, InsertRow, ListRow, UnlistRow, WriteOrder, InsertPart, DeletePart, DeleteRow,
         SaveRow, ActivateRow, ResumeRow, DeactivateRow, ChangeConversion, DaemonDoes, CallFails,
         BreakOff, Advance, Abort
<1>3. todo \in [Workers -> Seq(Steps)] /\ todo[w] # <<>> /\ todo[w] \in Seq(Steps) /\ InPlace(todo[w])
  BY <1>1 DEF Base, Idle, PlansInPlace
<1>4. Tail(todo[w]) \in Seq(Steps) /\ <<>> \in Seq(Steps)
  BY <1>3, TailPoints, NothingLeft
<1>5. \A v \in Workers : v # w => todo[v] = <<>>
  BY <1>1 DEF Base, OnePage, Idle
<1>6. todo' \in [Workers -> Seq(Steps)]
  BY <1>2, <1>3, <1>4
<1>7. \A v \in Workers : v # w => todo'[v] = todo[v]
  BY <1>2, <1>3
<1>8. todo'[w] = <<>> \/ todo'[w] = Tail(todo[w])
  BY <1>2, <1>3
<1>9. todo'[w] = <<>> \/ Goes(w, todo[w], todo'[w])
  BY <1>3, <1>8 DEF Goes
<1> QED BY <1>5, <1>6, <1>7, <1>9

\* What a page that goes on from s to t has to do, and does.
LEMMA GoesOn ==
  ASSUME NEW w, NEW s, NEW t, Goes(w, s, t)
  PROVE  /\ s \in Seq(Steps) /\ s # <<>> /\ t = Tail(s) /\ todo[w] = s /\ InPlace(s)
         /\ t \in Seq(Steps) /\ Len(s) \in Nat /\ Len(s) >= 1
         /\ Len(t) \in Nat /\ Len(t) = Len(s) - 1 /\ s[1] \in Steps /\ 1 \in 1..Len(s)
         /\ \A i \in 1..Len(t) : i + 1 \in 1..Len(s) /\ t[i] = s[i + 1]
         /\ Step(w) = s[1] /\ \A d : Doing(w, d) => s[1].do = d
<1>1. s \in Seq(Steps) /\ s # <<>> /\ t = Tail(s) /\ todo[w] = s /\ InPlace(s)
  BY DEF Goes
<1>2. Step(w) = s[1] /\ \A d : Doing(w, d) => s[1].do = d
  BY <1>1, NextStep
<1>3. /\ t \in Seq(Steps) /\ Len(s) \in Nat /\ Len(s) >= 1 /\ Len(t) \in Nat /\ Len(t) = Len(s) - 1
      /\ s[1] \in Steps /\ \A i \in 1..Len(t) : i + 1 \in 1..Len(s) /\ t[i] = s[i + 1]
  BY <1>1, TailPoints
<1> QED BY <1>1, <1>2, <1>3

\* A page that goes on has not been broken off.
LEMMA NotAborted ==
  ASSUME NEW w \in Workers, NEW s, NEW t, Goes(w, s, t), todo \in [Workers -> Seq(Steps)]
  PROVE  ~Abort(w)
BY DEF Goes, Abort

\* The step that a page goes on with is the one its plan says.
LEMMA Doings ==
  ASSUME NEW w \in Workers, NEW s, NEW t, Goes(w, s, t), todo \in [Workers -> Seq(Steps)], Works(w)
  PROVE  /\ s[1].do = "insert" => InsertRow(w)
         /\ s[1].do = "list" => ListRow(w)
         /\ s[1].do = "unlist" => UnlistRow(w)
         /\ s[1].do = "order" => WriteOrder(w)
         /\ s[1].do = "part" => InsertPart(w)
         /\ s[1].do = "unpart" => DeletePart(w)
         /\ s[1].do = "erase" => DeleteRow(w)
         /\ s[1].do = "save" => SaveRow(w)
         /\ s[1].do = "active" => ActivateRow(w)
         /\ s[1].do = "resume" => ResumeRow(w)
         /\ s[1].do = "inactive" => DeactivateRow(w)
         /\ s[1].do \in {"clear", "drop", "convert"} => ChangeConversion(w)
         /\ s[1].do = "call" => DaemonDoes(w) \/ CallFails(w)
<1>1. ~BreakOff(w)
  BY NotAborted DEF BreakOff
<1>2. \A d : Doing(w, d) => s[1].do = d
  BY GoesOn
<1> QED BY <1>1, <1>2 DEF Works, Commit, InsertRow, ListRow, UnlistRow, WriteOrder, InsertPart,
             DeletePart, DeleteRow, SaveRow, ActivateRow, ResumeRow, DeactivateRow, ChangeConversion,
             DaemonDoes, CallFails

\* Each kind but the dashboard has a list.
LEMMA ListsOfKinds == \A id \in Ids : Kind[id] # "Dashboard" => ListOf[Kind[id]] \in Lists
BY PagesAssumption DEF ListOf, Lists, Kinds, Controllers

(***************************************************************************)
(* The types of the tables                                                 *)
(***************************************************************************)
\* Some naturals have a least one.
LEMMA LeastOf ==
  ASSUME NEW T \in SUBSET Nat, T # {}
  PROVE  \E n \in T : \A m \in T : n <= m
<1>1. IsWellFoundedOn(OpToRel(<, Nat), Nat)
  BY NatLessThanWellFounded
<1>2. PICK n \in T : \A m \in T : ~(<<m, n>> \in OpToRel(<, Nat))
  BY <1>1, WFMin
<1>3. \A m \in T : ~(m < n)
  BY <1>2 DEF OpToRel
<1> QED BY <1>3

\* Without what came at i, the rest is there in its order.
LEMMA Removal ==
  ASSUME NEW S, NEW s \in Seq(S), NEW i \in 1..Len(s)
  PROVE  /\ RemoveAt(s, i) \in Seq(S)
         /\ Len(s) \in Nat /\ Len(RemoveAt(s, i)) = Len(s) - 1
         /\ \A j \in 1..(Len(s) - 1) : RemoveAt(s, i)[j] = IF j < i THEN s[j] ELSE s[j + 1]
<1> DEFINE before == SubSeq(s, 1, i - 1)
           after  == SubSeq(s, i + 1, Len(s))
<1>1. Len(s) \in Nat /\ i \in Int /\ 1 <= i /\ i <= Len(s) /\ Len(s) \in Int
  BY LenProperties
<1>2. \A j \in 1..Len(s) : s[j] \in S
  BY ElementOfSeq
<1>3. (\A j \in 1..(i - 1) : s[j] \in S) /\ \A j \in (i + 1)..Len(s) : s[j] \in S
  BY <1>1, <1>2
<1>4. /\ before \in Seq(S) /\ Len(before) = i - 1
      /\ \A j \in 1..(i - 1) : before[j] = s[j]
  <2>1. 1 \in Int /\ i - 1 \in Int
    BY <1>1
  <2>2. /\ before \in Seq(S) /\ Len(before) = IF 1 <= i - 1 THEN i - 1 - 1 + 1 ELSE 0
        /\ \A j \in 1..(i - 1 - 1 + 1) : before[j] = s[1 + j - 1]
    BY <1>3, <2>1, SubSeqProperties
  <2> QED BY <1>1, <2>2
<1>5. /\ after \in Seq(S) /\ Len(after) = Len(s) - i
      /\ \A j \in 1..(Len(s) - i) : after[j] = s[i + j]
  <2>1. i + 1 \in Int /\ Len(s) \in Int
    BY <1>1
  <2>2. /\ after \in Seq(S) /\ Len(after) = IF i + 1 <= Len(s) THEN Len(s) - (i + 1) + 1 ELSE 0
        /\ \A j \in 1..(Len(s) - (i + 1) + 1) : after[j] = s[i + 1 + j - 1]
    BY <1>3, <2>1, SubSeqProperties
  <2> QED BY <1>1, <2>2
<1> HIDE DEF before, after
<1>6. /\ before \o after \in Seq(S)
      /\ Len(before \o after) = Len(before) + Len(after)
      /\ \A j \in 1..(Len(before) + Len(after)) :
           (before \o after)[j] = IF j <= Len(before) THEN before[j] ELSE after[j - Len(before)]
  BY <1>4, <1>5, ConcatProperties
<1>7. RemoveAt(s, i) = before \o after
  BY DEF RemoveAt, before, after
<1>8. ASSUME NEW j \in 1..(Len(s) - 1)
      PROVE  (before \o after)[j] = IF j < i THEN s[j] ELSE s[j + 1]
  <2>1. j \in 1..(Len(before) + Len(after)) /\ j \in Int
    BY <1>1, <1>4, <1>5
  <2>2. CASE j < i
    BY <1>1, <1>4, <1>5, <1>6, <2>1, <2>2
  <2>3. CASE ~(j < i)
    <3>1. j - (i - 1) \in 1..(Len(s) - i) /\ i + (j - (i - 1)) = j + 1
      BY <1>1, <2>1, <2>3
    <3>2. (before \o after)[j] = after[j - (i - 1)]
      BY <1>1, <1>4, <1>5, <1>6, <2>1, <2>3
    <3> QED BY <1>5, <3>1, <3>2, <2>3
  <2> QED BY <2>2, <2>3
<1>9. before \o after \in Seq(S) /\ Len(before \o after) = Len(s) - 1
  BY <1>1, <1>4, <1>5, <1>6
<1> QED BY <1>1, <1>7, <1>8, <1>9

\* An id that is in a list comes first in one place.
LEMMA Places ==
  ASSUME NEW s \in Seq(Ids), NEW id, id \in ToSet(s)
  PROVE  Place(s, id) \in 1..Len(s) /\ s[Place(s, id)] = id
<1> DEFINE At == {i \in 1..Len(s) : s[i] = id}
<1>1. DOMAIN s = 1..Len(s) /\ Len(s) \in Nat
  BY LenProperties
<1>2. PICK k \in 1..Len(s) : s[k] = id
  BY <1>1 DEF ToSet
<1>4. \E i \in At : \A j \in At : i <= j
  <2>1. At \in SUBSET Nat /\ At # {}
    BY <1>1, <1>2
  <2> HIDE DEF At
  <2> QED BY <2>1, LeastOf
<1>5. PICK i \in At : \A j \in At : i <= j
  BY <1>4
<1>6. \A j \in 1..(i - 1) : s[j] # id
  BY <1>1, <1>5
<1>7. \E m \in DOMAIN s : s[m] = id /\ \A j \in 1..(m - 1) : s[j] # id
  BY <1>1, <1>5, <1>6
<1> QED BY <1>1, <1>7 DEF Place

\* A list without one of its rows is a list.
LEMMA WithoutIsSeq ==
  ASSUME NEW s \in Seq(Ids), NEW id, id \in ToSet(s)
  PROVE  Without(s, id) \in Seq(Ids)
BY Places, Removal DEF Without

\* The lists stay lists of ids.
LEMMA OrderTyped ==
  ASSUME Base, NEW w \in Workers, Commit(w)
  PROVE  order' \in [Lists -> Seq(Ids)]
<1>1. order \in [Lists -> Seq(Ids)]
  BY DEF Base, TableTypes
<1>2. ~Idle(w) /\ todo[w] \in Seq(Steps) /\ todo[w] # <<>>
  BY DEF Commit, InsertRow, ListRow, UnlistRow, WriteOrder, InsertPart, DeletePart, DeleteRow,
         SaveRow, ActivateRow, ResumeRow, DeactivateRow, ChangeConversion, Doing, Idle, Base
<1> DEFINE x == Step(w)
<1>3. x \in Steps /\ \A d : Doing(w, d) => x.do = d
  BY <1>2, TailPoints DEF Step, Doing
<1>4. UNCHANGED order \/ ListRow(w) \/ UnlistRow(w) \/ WriteOrder(w)
  BY DEF Commit, InsertRow, InsertPart, DeletePart, DeleteRow,
         SaveRow, ActivateRow, ResumeRow, DeactivateRow, ChangeConversion
<1>5. CASE ListRow(w)
  <2>1. x.id \in Ids /\ Kind[x.id] # "Dashboard"
    BY <1>3, <1>5, StepFields DEF ListRow
  <2>2. ListOf[Kind[x.id]] \in Lists
    BY <2>1, ListsOfKinds
  <2>3. Append(order[ListOf[Kind[x.id]]], x.id) \in Seq(Ids)
    BY <1>1, <2>1, <2>2, AppendProperties
  <2> QED BY <1>1, <1>5, <2>2, <2>3 DEF ListRow, add_display_order
<1>6. CASE UnlistRow(w)
  <2>1. x.id \in Ids /\ Kind[x.id] # "Dashboard"
    BY <1>3, <1>6, StepFields DEF UnlistRow
  <2>2. ListOf[Kind[x.id]] \in Lists
    BY <2>1, ListsOfKinds
  <2>3. x.id \in ToSet(order[ListOf[Kind[x.id]]]) =>
          Without(order[ListOf[Kind[x.id]]], x.id) \in Seq(Ids)
    BY <1>1, <2>1, <2>2, WithoutIsSeq
  <2> QED BY <1>1, <1>6, <2>2, <2>3 DEF UnlistRow
<1>7. CASE WriteOrder(w)
  <2>1. x.list \in Lists /\ x.ids \in Seq(Ids)
    BY <1>3, <1>7, StepFields DEF WriteOrder
  <2> QED BY <1>1, <1>7, <2>1 DEF WriteOrder
<1> QED BY <1>1, <1>4, <1>5, <1>6, <1>7

\* The tables stay in their types.
LEMMA TypesKept ==
  ASSUME Base, NEW w \in Workers, Works(w)
  PROVE  TableTypes'
<1> DEFINE x == Step(w)
<1>1. TableTypes /\ ~Idle(w) /\ todo[w] \in Seq(Steps) /\ todo[w] # <<>> /\ InPlace(todo[w])
  BY DEF Works, Commit, InsertRow, ListRow, UnlistRow, WriteOrder, InsertPart, DeletePart, DeleteRow,
         SaveRow, ActivateRow, ResumeRow, DeactivateRow, ChangeConversion, DaemonDoes, CallFails,
         BreakOff, Doing, Idle, Base, PlansInPlace
<1>2. x \in Steps /\ x = todo[w][1] /\ 1 \in 1..Len(todo[w]) /\ \A d : Doing(w, d) => x.do = d
  BY <1>1, TailPoints DEF Step, Doing
<1>3. x.do = "resume" => x.id \in active
  BY <1>1, <1>2 DEF InPlace
<1>4. x.do = "call" /\ x.call = "activate" => x.id \in active
  <2>1. ~Before(todo[w], 1, "active", x.id)
    BY DEF Before
  <2> QED BY <1>1, <1>2, <2>1 DEF InPlace
<1>5. Commit(w) => order' \in [Lists -> Seq(Ids)]
  BY OrderTyped
<1> HIDE DEF x
<1>6. CASE InsertRow(w)
  <2>1. x.id \in Ids
    BY <1>2, <1>6, StepFields DEF InsertRow
  <2>2. IsFiniteSet(rows')
    BY <1>1, <1>6, FS_AddElement DEF InsertRow, TableTypes
  <2> QED BY <1>1, <1>5, <1>6, <2>1, <2>2 DEF InsertRow, TableTypes, Commit, x, daemon, Advance
<1>7. CASE ListRow(w) \/ UnlistRow(w) \/ WriteOrder(w)
  BY <1>1, <1>5, <1>7 DEF ListRow, UnlistRow, WriteOrder, TableTypes, Commit, daemon, Advance, Abort
<1>8. CASE InsertPart(w)
  <2>1. x.part \in Children
    BY <1>2, <1>8, StepFields DEF InsertPart
  <2>2. IsFiniteSet(parts')
    BY <1>1, <1>8, FS_AddElement DEF InsertPart, TableTypes
  <2> QED BY <1>1, <1>5, <1>8, <2>1, <2>2 DEF InsertPart, TableTypes, Commit, x, daemon, Advance
<1>9. CASE DeletePart(w)
  <2>2. IsFiniteSet(parts')
    BY <1>1, <1>9, FS_RemoveElement DEF DeletePart, TableTypes
  <2> QED BY <1>1, <1>5, <1>9, <2>2 DEF DeletePart, TableTypes, Commit, daemon, Advance, Abort
<1>10. CASE DeleteRow(w)
  <2>1. x.id \in Ids
    BY <1>2, <1>10, StepFields DEF DeleteRow
  <2>2. IsFiniteSet(rows')
    BY <1>1, <1>10, FS_RemoveElement DEF DeleteRow, TableTypes
  <2> QED BY <1>1, <1>5, <1>10, <2>1, <2>2 DEF DeleteRow, TableTypes, Commit, daemon, Advance, Abort
<1>11. CASE SaveRow(w)
  <2>1. /\ x.id \in Ids /\ x.full \in SUBSET Children /\ x.conv \in SUBSET Convertible
        /\ x.src \in Ids \cup {NoSource}
    BY <1>2, <1>11, StepFields DEF SaveRow
  <2>2. filled' \subseteq parts' /\ converted' \subseteq parts' \cap Convertible
    BY <1>1, <1>11, <2>1 DEF SaveRow, TableTypes, x
  <2>3. source' \in [Ids -> Ids \cup {NoSource}] /\ stale' \subseteq running'
    BY <1>1, <1>11, <2>1 DEF SaveRow, TableTypes, x
  <2> QED BY <1>1, <1>5, <1>11, <2>2, <2>3 DEF SaveRow, TableTypes, Commit, Advance
<1>12. CASE ActivateRow(w)
  <2>1. x.id \in Ids /\ Kind[x.id] \in Controllers
    BY <1>2, <1>12, StepFields DEF ActivateRow
  <2> QED BY <1>1, <1>5, <1>12, <2>1 DEF ActivateRow, TableTypes, Commit, x, daemon, Advance, Abort
<1>13. CASE ResumeRow(w)
  <2>1. x.id \in active
    BY <1>2, <1>3, <1>13 DEF ResumeRow
  <2> QED BY <1>1, <1>5, <1>13, <2>1 DEF ResumeRow, TableTypes, Commit, x, Advance
<1>14. CASE DeactivateRow(w)
  BY <1>1, <1>5, <1>14 DEF DeactivateRow, TableTypes, Commit, daemon, Advance
<1>15. CASE ChangeConversion(w)
  BY <1>1, <1>5, <1>15 DEF ChangeConversion, TableTypes, Commit, Advance
<1>16. CASE DaemonDoes(w)
  <2>1. x.do = "call" /\ x.id \in Ids
    BY <1>2, <1>16, StepFields DEF DaemonDoes
  <2>2. active' \subseteq active
    BY <1>4, <1>16, <2>1 DEF DaemonDoes, x
  <2>3. running' \subseteq Ids /\ stale' \subseteq running'
    BY <1>1, <1>16, <2>1 DEF DaemonDoes, TableTypes, x, Forgotten
  <2> QED BY <1>1, <1>16, <2>2, <2>3 DEF DaemonDoes, TableTypes, Advance
<1>17. CASE CallFails(w) \/ BreakOff(w)
  BY <1>1, <1>17 DEF CallFails, BreakOff, Abort, TableTypes, tables, daemon
<1> QED BY <1>6, <1>7, <1>8, <1>9, <1>10, <1>11, <1>12, <1>13, <1>14, <1>15, <1>16, <1>17
        DEF Works, Commit

(***************************************************************************)
(* One page, and what is left of it                                        *)
(***************************************************************************)
\* Where a controller is activated, nothing is deactivated or deleted.
LEMMA ActiveGrows ==
  ASSUME Base, NEW w \in Workers, Works(w), NEW s, NEW t, Goes(w, s, t),
         s[1].do = "save" \/ Activates(s[1])
  PROVE  active \subseteq active' /\ (s[1].do = "active" => s[1].id \in active')
<1>1. ~Abort(w) /\ s[1] = Step(w) /\ \A d : Doing(w, d) => s[1].do = d
  BY NotAborted, GoesOn DEF Base
<1>2. s[1].do \in {"save", "active", "call"} /\ (s[1].do = "call" => s[1].call = "activate")
  BY DEF Activates
<1>3. SaveRow(w) \/ ActivateRow(w) \/ DaemonDoes(w) \/ CallFails(w)
  BY <1>1, <1>2 DEF Works, Commit, InsertRow, ListRow, UnlistRow, WriteOrder, InsertPart, DeletePart,
         DeleteRow, ResumeRow, DeactivateRow, ChangeConversion, BreakOff
<1>4. CASE SaveRow(w) \/ CallFails(w)
  BY <1>1, <1>4 DEF SaveRow, CallFails, Doing, tables
<1>5. CASE ActivateRow(w)
  BY <1>1, <1>5 DEF ActivateRow
<1>6. CASE DaemonDoes(w)
  BY <1>1, <1>2, <1>6 DEF DaemonDoes
<1> QED BY <1>3, <1>4, <1>5, <1>6

\* What is left after a step keeps the shape of plans.
LEMMA InPlaceKept ==
  ASSUME Base, NEW w \in Workers, Works(w), NEW s, NEW t, Goes(w, s, t)
  PROVE  InPlace(t)'
<1>1. /\ s \in Seq(Steps) /\ s # <<>> /\ t = Tail(s) /\ InPlace(s) /\ 1 \in 1..Len(s)
      /\ \A i \in 1..Len(t) : i + 1 \in 1..Len(s) /\ t[i] = s[i + 1]
  BY GoesOn
<1>2. \A i \in 1..Len(t) : i + 1 # 1
  OBVIOUS
<1>3. \A i \in 1..Len(t) : t[i].do \notin {"save", "order", "convert", "clear", "resume"}
  BY <1>1, <1>2 DEF InPlace
<1>4. \A i, k \in 1..Len(t) : Activates(t[i]) => t[k].do = "save" \/ Activates(t[k])
  BY <1>1 DEF InPlace
<1>5. ASSUME NEW i \in 1..Len(t), t[i].do = "call", t[i].call = "activate"
      PROVE  t[i].id \in active' \/ Before(t, i, "active", t[i].id)
  <2>1. Activates(s[i + 1]) /\ t[i] = s[i + 1] /\ i + 1 \in 1..Len(s)
    BY <1>1, <1>5 DEF Activates
  <2>2. s[1].do = "save" \/ Activates(s[1])
    BY <1>1, <2>1 DEF InPlace
  <2>3. s[i + 1].id \in active \/ Before(s, i + 1, "active", s[i + 1].id)
    BY <1>1, <1>5, <2>1 DEF InPlace
  <2>4. CASE s[i + 1].id \in active
    BY <2>1, <2>2, <2>4, ActiveGrows
  <2>5. CASE Before(s, i + 1, "active", s[i + 1].id)
    <3>1. Before(t, i, "active", t[i].id) \/ Is(s, 1, "active", t[i].id)
      BY <1>1, <2>1, <2>5, BeforeTail
    <3>2. Is(s, 1, "active", t[i].id) => t[i].id \in active'
      BY <2>2, ActiveGrows DEF Is
    <3> QED BY <3>1, <3>2
  <2> QED BY <2>3, <2>4, <2>5
<1> QED BY <1>3, <1>4, <1>5 DEF InPlace, Activates

\* The step of a page, or of the daemon for it, keeps what every part needs.
LEMMA BaseWorks ==
  ASSUME Base, NEW w \in Workers, Works(w)
  PROVE  Base'
<1>1. /\ todo' \in [Workers -> Seq(Steps)]
      /\ \A v \in Workers : v # w => todo[v] = <<>> /\ todo'[v] = <<>>
      /\ todo'[w] = <<>> \/ Goes(w, todo[w], todo'[w])
  BY Progress
<1>2. OnePage'
  BY <1>1 DEF OnePage, Idle
<1>3. InPlace(<<>>)'
  BY NothingLeft DEF InPlace
<1>4. ASSUME NEW v \in Workers PROVE InPlace(todo[v])'
  <2>1. CASE todo'[v] = <<>>
    BY <1>3, <2>1
  <2>2. CASE todo'[v] # <<>>
    <3>1. v = w /\ Goes(w, todo[w], todo'[w])
      BY <1>1, <2>2
    <3>2. PICK s, t : s = todo[w] /\ t = todo'[w]
      OBVIOUS
    <3>3. InPlace(t)'
      BY <3>1, <3>2, InPlaceKept
    <3> QED BY <3>1, <3>2, <3>3
  <2> QED BY <2>1, <2>2
<1>5. PlansInPlace'
  BY <1>4 DEF PlansInPlace
<1> QED BY <1>1, <1>2, <1>5, TypesKept DEF Base

\* A restart of the daemon does.
LEMMA BaseRestart == ASSUME Base, Restart PROVE Base'
<1>1. running' \subseteq Ids /\ stale' \subseteq running'
  BY DEF Base, TableTypes, Restart, OfKind
<1>2. TableTypes'
  BY <1>1 DEF Base, TableTypes, Restart, tables
<1>3. OnePage' /\ todo' \in [Workers -> Seq(Steps)]
  BY DEF Base, OnePage, Idle, Restart
<1>4. PlansInPlace'
  BY DEF Base, PlansInPlace, InPlace, Restart, tables
<1> QED BY <1>2, <1>3, <1>4 DEF Base

(***************************************************************************)
(* A page begins with a plan                                               *)
(***************************************************************************)
\* A page begins with the plan s while no other is in progress.
Begins(w, s) ==
  /\ s \in Seq(Steps) /\ Plan(s) /\ AllIdle
  /\ todo' = [todo EXCEPT ![w] = s] /\ UNCHANGED <<tables, daemon, called, whole>>

\* What there is in a plan for a row, by its shape.
LEMMA PlansInPlaceAtFirst ==
  ASSUME Base, NEW s \in Seq(Steps), Plan(s)
  PROVE  InPlace(s)
<1>0. Len(s) \in Nat
  BY LenProperties
<1>1. ASSUME NEW id \in Ids, Adding(s, id) PROVE InPlace(s)
  <2>1. \A i \in 1..Len(s) : s[i].do \in {"insert", "list", "part"} \/ (s[i].do = "call" /\ s[i].call = "setup")
    BY <1>0, <1>1 DEF Adding, Is, Calling
  <2> QED BY <2>1 DEF InPlace, Activates
<1>2. ASSUME NEW id \in Ids, Deactivating(s, id) PROVE InPlace(s)
  <2>1. \A i \in 1..Len(s) : s[i].do = "inactive" \/ (s[i].do = "call" /\ s[i].call = "deactivate")
    BY <1>2 DEF Deactivating
  <2> QED BY <2>1 DEF InPlace, Activates
<1>3. ASSUME NEW id \in Ids, NEW m \in 1..Len(s), Deleting(s, id, m) PROVE InPlace(s)
  <2>1. \A i \in 1..Len(s) : \/ s[i].do \in {"inactive", "unpart", "erase", "unlist"}
                             \/ s[i].do = "call" /\ s[i].call \in {"deactivate", "remove"}
    BY <1>3 DEF Deleting, Is, Calling
  <2> QED BY <2>1 DEF InPlace, Activates
<1>4. ASSUME NEW id \in Ids, Saving(s, id) PROVE InPlace(s)
  <2>1. /\ s[1].do = "save"
        /\ \A i \in 2..Len(s) : \/ s[i].do \in {"part", "unpart"}
                                \/ s[i].do = "call" /\ s[i].call \in {"refresh", "setup"}
    BY <1>4 DEF Saving, Is, Calling
  <2> QED BY <1>0, <2>1 DEF InPlace, Activates
<1>5. ASSUME NEW id \in Ids, Activating(s, id) PROVE InPlace(s)
  <2>1. CASE Len(s) = 2
    <3>1. s[1].do = "active" /\ s[1].id = id /\ s[2].do = "call" /\ s[2].call = "activate" /\ s[2].id = id
      BY <1>5, <2>1 DEF Activating, Is, Calling
    <3>2. Before(s, 2, "active", id)
      BY <3>1 DEF Before, Is
    <3> QED BY <2>1, <3>1, <3>2 DEF InPlace, Activates
  <2>2. CASE Len(s) = 3
    <3>1. /\ s[1].do = "save" /\ s[2].do = "active" /\ s[2].id = id
          /\ s[3].do = "call" /\ s[3].call = "activate" /\ s[3].id = id
      BY <1>5, <2>2 DEF Activating, Is, Calling
    <3>2. Before(s, 3, "active", id)
      BY <3>1 DEF Before, Is
    <3> QED BY <2>2, <3>1, <3>2 DEF InPlace, Activates
  <2> QED BY <1>5, <2>1, <2>2 DEF Activating
<1>6. ASSUME NEW id \in Ids, Resuming(s, id) PROVE InPlace(s)
  BY <1>6 DEF Resuming, Is, Calling, InPlace, Activates
<1>7. ASSUME Growing(s) \/ Shrinking(s) \/ Ordering(s) PROVE InPlace(s)
  BY <1>7 DEF Growing, Shrinking, Ordering, InPlace, Activates
<1>8. ASSUME Converting(s) PROVE InPlace(s)
  BY <1>8 DEF Converting, InPlace, Activates
<1> QED BY <1>1, <1>2, <1>3, <1>4, <1>5, <1>6, <1>7, <1>8 DEF Plan

\* While a page begins only its plan changes.
LEMMA Beginning ==
  ASSUME Base, NEW w \in Workers, NEW s, Begins(w, s)
  PROVE  /\ todo' \in [Workers -> Seq(Steps)] /\ todo'[w] = s
         /\ \A v \in Workers : v # w => todo'[v] = <<>>
<1>1. \A v \in Workers : todo[v] = <<>>
  BY DEF Begins, AllIdle, Idle
<1> QED BY <1>1 DEF Begins, Base

\* A page that begins does.
LEMMA BaseBegins ==
  ASSUME Base, NEW w \in Workers, NEW s, Begins(w, s)
  PROVE  Base'
<1>1. /\ todo' \in [Workers -> Seq(Steps)] /\ todo'[w] = s
      /\ \A v \in Workers : v # w => todo'[v] = <<>>
  BY Beginning
<1>2. TableTypes'
  BY DEF Base, TableTypes, Begins, tables, daemon
<1>3. OnePage'
  BY <1>1 DEF OnePage, Idle
<1>4. InPlace(s)'
  <2>1. InPlace(s) /\ active' = active
    BY PlansInPlaceAtFirst DEF Begins, tables
  <2> QED BY <2>1 DEF InPlace
<1>5. InPlace(<<>>)'
  BY NothingLeft DEF InPlace
<1>6. PlansInPlace'
  BY <1>1, <1>4, <1>5 DEF PlansInPlace
<1> QED BY <1>1, <1>2, <1>3, <1>6 DEF Base

\* It holds at first.
LEMMA BaseAtFirst == Init => Base
<1> SUFFICES ASSUME Init PROVE Base
  OBVIOUS
<1>1. TableTypes
  <2>1. IsFiniteSet({Default}) /\ IsFiniteSet({})
    BY FS_Singleton, FS_EmptySet
  <2>2. \A l \in Lists : <<>> \in Seq(Ids)
    BY EmptySeq
  <2> QED BY <2>1, <2>2, PagesAssumption DEF Init, TableTypes
<1>2. todo \in [Workers -> Seq(Steps)] /\ \A w \in Workers : todo[w] = <<>>
  BY NothingLeft DEF Init
<1>3. OnePage
  BY <1>2 DEF OnePage, Idle
<1>4. PlansInPlace
  <2>1. InPlace(<<>>)
    BY NothingLeft DEF InPlace
  <2> QED BY <1>2, <2>1 DEF PlansInPlace
<1> QED BY <1>1, <1>2, <1>3, <1>4 DEF Base

(***************************************************************************)
(* The inputs of active PIDs                                               *)
(***************************************************************************)
\* The next step is the first of what is left, and before it there is none.
LEMMA FirstStep ==
  ASSUME Base, NEW w \in Workers, Works(w)
  PROVE  /\ todo[w] \in Seq(Steps) /\ todo[w] # <<>> /\ InPlace(todo[w])
         /\ Step(w) = todo[w][1] /\ Step(w) \in Steps /\ 1 \in 1..Len(todo[w])
         /\ \A d : Doing(w, d) => Step(w).do = d
         /\ \A what, id : ~Before(todo[w], 1, what, id)
<1>1. ~Idle(w)
  BY DEF Works, Commit, InsertRow, ListRow, UnlistRow, WriteOrder, InsertPart, DeletePart, DeleteRow,
         SaveRow, ActivateRow, ResumeRow, DeactivateRow, ChangeConversion, DaemonDoes, CallFails,
         BreakOff, Doing
<1>2. todo[w] \in Seq(Steps) /\ todo[w] # <<>> /\ InPlace(todo[w])
  BY <1>1 DEF Idle, Base, PlansInPlace
<1>3. Step(w) = todo[w][1] /\ Step(w) \in Steps /\ 1 \in 1..Len(todo[w])
  BY <1>2, TailPoints DEF Step
<1>4. \A d : Doing(w, d) => Step(w).do = d
  BY DEF Doing, Step
<1>5. \A what, id : ~Before(todo[w], 1, what, id)
  BY DEF Before
<1> QED BY <1>2, <1>3, <1>4, <1>5

\* The daemon activates what is, or is about to be, activated in its table.
LEMMA DaemonActivates ==
  ASSUME Base, NEW w \in Workers, DaemonDoes(w)
  PROVE  /\ active' \subseteq active
         /\ \A id \in active : id \in active' \/ (Kind[id] = "PID" /\ id = Step(w).id)
<1>1. /\ InPlace(todo[w]) /\ Step(w) = todo[w][1] /\ 1 \in 1..Len(todo[w])
      /\ \A what, id : ~Before(todo[w], 1, what, id)
      /\ \A d : Doing(w, d) => Step(w).do = d
  BY FirstStep DEF Works
<1>2. Step(w).do = "call" /\ (Step(w).call = "activate" => Step(w).id \in active)
  BY <1>1 DEF InPlace, DaemonDoes
<1> QED BY <1>2 DEF DaemonDoes

\* What is active after a step other than an activation was so before, and uses
\* the same input.
LEMMA SourcesStay ==
  ASSUME SourceInv, NEW w \in Workers, Works(w), ~ActivateRow(w),
         NEW p \in active', Kind[p] = "PID", source'[p] \in Ids
  PROVE  p \in active /\ source'[p] = source[p]
<1> DEFINE s == todo[w]
           x == Step(w)
<1>1. /\ InPlace(s) /\ x = s[1] /\ 1 \in 1..Len(s) /\ x \in Steps
      /\ \A d : Doing(w, d) => x.do = d
  BY FirstStep DEF SourceInv
<1>2. source \in [Ids -> Ids \cup {NoSource}] /\ active \subseteq Ids /\ NoSource \notin Ids
  BY PagesAssumption DEF SourceInv, Base, TableTypes
<1>3. SourcesLast(s)
  BY DEF SourceInv
<1> HIDE DEF s, x
<1>4. CASE UNCHANGED <<active, source>>
  BY <1>4
<1>5. CASE DeleteRow(w)
  BY <1>1, <1>2, <1>5 DEF DeleteRow, x
<1>6. CASE SaveRow(w)
  <2>1. x.id \in Ids /\ x.do = "save"
    BY <1>1, <1>6, StepFields DEF SaveRow
  <2>2. Kind[x.id] = "PID" => x.src = source[x.id] \/ x.id \notin active
    BY <1>1, <1>3, <2>1 DEF SourcesLast
  <2> QED BY <1>2, <1>6, <2>1, <2>2 DEF SaveRow, x
<1>7. CASE ResumeRow(w)
  <2>1. x.id \in active
    BY <1>1, <1>7 DEF ResumeRow, InPlace
  <2> QED BY <1>7, <2>1 DEF ResumeRow, x
<1>8. CASE DeactivateRow(w)
  BY <1>8 DEF DeactivateRow
<1>9. CASE DaemonDoes(w)
  BY <1>9, DaemonActivates DEF SourceInv, DaemonDoes
<1> QED BY <1>4, <1>5, <1>6, <1>7, <1>8, <1>9
        DEF Works, Commit, InsertRow, ListRow, UnlistRow, WriteOrder, InsertPart, DeletePart,
            ChangeConversion, CallFails, BreakOff, tables

\* A step keeps the inputs of active PIDs active.
LEMMA SampledKept ==
  ASSUME SourceInv, NEW w \in Workers, Works(w)
  PROVE  SourceIsSampled'
<1> DEFINE s == todo[w]
           x == Step(w)
<1>1. /\ InPlace(s) /\ x = s[1] /\ 1 \in 1..Len(s) /\ x \in Steps
      /\ \A d : Doing(w, d) => x.do = d
      /\ \A what, id : ~Before(s, 1, what, id)
  BY FirstStep DEF SourceInv
<1>2. /\ source \in [Ids -> Ids \cup {NoSource}] /\ active \subseteq Ids /\ NoSource \notin Ids
      /\ rows \subseteq Ids
  BY PagesAssumption DEF SourceInv, Base, TableTypes
<1>3. SourcesLast(s) /\ SourceIsSampled
  BY DEF SourceInv
<1> HIDE DEF s, x
<1>4. CASE ActivateRow(w)
  <2>1. x.id \in Ids /\ x.do = "active"
    BY <1>1, <1>4, StepFields DEF ActivateRow
  <2>2. Kind[x.id] = "PID" => SourceActive(x.id)
    BY <1>1, <1>3, <2>1 DEF SourcesLast
  <2>3. source' = source /\ active \subseteq active' /\ active' \subseteq active \cup {x.id}
    BY <1>4 DEF ActivateRow, x
  <2> QED BY <1>2, <1>3, <2>1, <2>2, <2>3 DEF SourceIsSampled, SourceActive
<1>5. CASE ~ActivateRow(w)
  <2> SUFFICES ASSUME NEW p \in active', Kind[p] = "PID",
                      source'[p] \in Ids, Kind[source'[p]] = "Input"
               PROVE  source'[p] \in active'
    BY DEF SourceIsSampled
  <2>1. p \in active /\ source'[p] = source[p]
    BY <1>5, SourcesStay
  <2>2. source[p] \in active
    BY <1>3, <2>1 DEF SourceIsSampled
  <2>3. x.do \in {"inactive", "erase"} => x.id # source[p]
    BY <1>1, <1>3, <2>1 DEF SourcesLast
  <2>4. CASE UNCHANGED active
    BY <2>1, <2>2, <2>4
  <2>5. CASE DeleteRow(w)
    BY <1>1, <2>1, <2>2, <2>3, <2>5 DEF DeleteRow, x
  <2>6. CASE DeactivateRow(w)
    BY <1>1, <2>1, <2>2, <2>3, <2>6 DEF DeactivateRow, x
  <2>7. CASE ResumeRow(w)
    BY <2>1, <2>2, <2>7 DEF ResumeRow
  <2>8. CASE DaemonDoes(w)
    BY <2>1, <2>2, <2>8, DaemonActivates DEF SourceInv
  <2> QED BY <1>5, <2>4, <2>5, <2>6, <2>7, <2>8
          DEF Works, Commit, InsertRow, ListRow, UnlistRow, WriteOrder, InsertPart, DeletePart,
              SaveRow, ChangeConversion, CallFails, BreakOff, tables
<1> QED BY <1>4, <1>5

\* What is left after it is no danger to them.
LEMMA SourcesLastKept ==
  ASSUME SourceInv, NEW w \in Workers, Works(w), NEW s, NEW t, Goes(w, s, t)
  PROVE  SourcesLast(t)'
<1>1. /\ s \in Seq(Steps) /\ s # <<>> /\ t = Tail(s) /\ InPlace(s) /\ 1 \in 1..Len(s) /\ s[1] \in Steps
      /\ \A i \in 1..Len(t) : i + 1 \in 1..Len(s) /\ t[i] = s[i + 1]
      /\ s[1] = Step(w) /\ \A d : Doing(w, d) => s[1].do = d
      /\ s = todo[w]
  BY GoesOn
<1>2. /\ SourcesLast(s) /\ Base
      /\ source \in [Ids -> Ids \cup {NoSource}] /\ active \subseteq Ids /\ NoSource \notin Ids
  BY <1>1, PagesAssumption DEF SourceInv, Base, TableTypes
<1>3. \A i \in 1..Len(t) : t[i] \in Steps
  BY <1>1, TailPoints, ElementOfSeq
<1>4. ASSUME NEW i \in 1..Len(t), t[i].do \in {"inactive", "erase"}, Kind[t[i].id] = "Input",
             NEW p \in active', Kind[p] = "PID", source'[p] = t[i].id
      PROVE  Before(t, i, "inactive", p)
  <2>1. t[i].id \in Ids
    BY <1>3, <1>4, StepFields
  <2>2. ~ActivateRow(w)
    <3>1. ~Activates(s[1])
      BY <1>1, <1>4 DEF InPlace, Activates
    <3> QED BY <1>1, <3>1 DEF ActivateRow, Activates
  <2>3. p \in active /\ source[p] = t[i].id
    BY <1>4, <2>1, <2>2, SourcesStay
  <2>4. Before(s, i + 1, "inactive", p)
    BY <1>1, <1>2, <1>4, <2>3 DEF SourcesLast
  <2>5. Before(t, i, "inactive", p) \/ Is(s, 1, "inactive", p)
    BY <1>1, <2>4, BeforeTail
  <2>6. Is(s, 1, "inactive", p) => p \notin active'
    <3>1. s[1].do = "inactive" => DeactivateRow(w)
      BY <1>2, Doings DEF Base
    <3> QED BY <1>1, <3>1 DEF Is, DeactivateRow
  <2> QED BY <1>4, <2>5, <2>6
<1>5. ASSUME NEW i \in 1..Len(t), t[i].do = "active", Kind[t[i].id] = "PID"
      PROVE  SourceActive(t[i].id)'
  <2>1. Activates(s[i + 1]) /\ i + 1 \in 1..Len(s) /\ t[i] = s[i + 1]
    BY <1>1, <1>5 DEF Activates
  <2>2. s[1].do = "save" \/ Activates(s[1])
    BY <1>1, <2>1 DEF InPlace
  <2>3. SourceActive(t[i].id) /\ t[i].id \in Ids
    BY <1>1, <1>2, <1>3, <1>5, StepFields DEF SourcesLast
  <2>4. active \subseteq active'
    BY <1>2, <2>2, ActiveGrows
  <2>5. source'[t[i].id] = source[t[i].id]
    <3>1. CASE s[1].do = "save"
      <4>1. s[1].id \in Ids
        BY <1>1, <3>1, StepFields
      <4>2. s[1].id = t[i].id => s[1].src = source[t[i].id]
        BY <1>1, <1>2, <1>5, <2>1, <3>1 DEF SourcesLast
      <4>3. source' = [source EXCEPT ![s[1].id] = s[1].src]
        BY <1>1, <1>2, <3>1, Doings DEF SaveRow, Base
      <4> QED BY <1>2, <2>3, <4>1, <4>2, <4>3
    <3>2. CASE Activates(s[1])
      BY <1>1, <1>2, <3>2, Doings DEF Activates, ActivateRow, DaemonDoes, CallFails, tables, Base
    <3> QED BY <2>2, <3>1, <3>2
  <2> QED BY <2>3, <2>4, <2>5 DEF SourceActive
<1>6. \A i \in 1..Len(t) : t[i].do # "save"
  <2>1. \A i \in 1..Len(t) : i + 1 # 1
    OBVIOUS
  <2> QED BY <1>1, <2>1 DEF InPlace
<1> QED BY <1>4, <1>5, <1>6 DEF SourcesLast, SourceActive

\* A step of a page keeps it, ...
LEMMA SourceWorks ==
  ASSUME SourceInv, NEW w \in Workers, Works(w)
  PROVE  SourceInv'
<1>1. /\ \A v \in Workers : v # w => todo'[v] = <<>>
      /\ todo'[w] = <<>> \/ Goes(w, todo[w], todo'[w])
  BY Progress DEF SourceInv
<1>2. SourcesLast(<<>>)'
  BY NothingLeft DEF SourcesLast
<1>3. ASSUME NEW v \in Workers PROVE SourcesLast(todo[v])'
  <2>1. CASE todo'[v] = <<>>
    BY <1>2, <2>1
  <2>2. CASE todo'[v] # <<>>
    <3>1. v = w /\ Goes(w, todo[w], todo'[w])
      BY <1>1, <2>2
    <3>2. PICK s, t : s = todo[w] /\ t = todo'[w]
      OBVIOUS
    <3>3. SourcesLast(t)'
      BY <3>1, <3>2, SourcesLastKept
    <3> QED BY <3>1, <3>2, <3>3
  <2> QED BY <2>1, <2>2
<1> QED BY <1>3, SampledKept, BaseWorks DEF SourceInv

\* No shape of plan deactivates or deletes an input before its PIDs.
LEMMA SourcesLastAtFirst ==
  ASSUME Base, NEW s \in Seq(Steps), Plan(s)
  PROVE  SourcesLast(s)
<1>0. Len(s) \in Nat
  BY LenProperties
<1>1. ASSUME NEW id \in Ids, Adding(s, id) PROVE SourcesLast(s)
  <2>1. \A i \in 1..Len(s) : s[i].do \in {"insert", "list", "part", "call"}
    BY <1>0, <1>1 DEF Adding, Is, Calling
  <2> QED BY <2>1 DEF SourcesLast
<1>2. ASSUME NEW id \in Ids, Stopping(s, id),
             \A i \in 1..Len(s) : s[i].do \in {"inactive", "call", "unpart", "erase", "unlist"},
             \A i \in 1..Len(s) : s[i].do = "erase" => s[i].id = id
      PROVE SourcesLast(s)
  <2>1. \A i \in 1..Len(s) : s[i].do \in {"inactive", "erase"} /\ Kind[s[i].id] = "Input" =>
          s[i].id = id /\ (Is(s, i, "inactive", id) \/ Is(s, i, "erase", id))
    BY <1>2 DEF Stopping, Is
  <2>2. ASSUME NEW i \in 1..Len(s), s[i].do \in {"inactive", "erase"}, Kind[s[i].id] = "Input",
               NEW p \in active, Kind[p] = "PID", source[p] = s[i].id
        PROVE  Before(s, i, "inactive", p)
    BY <1>2, <2>1, <2>2 DEF Stopping
  <2> QED BY <1>2, <2>2 DEF SourcesLast
<1>3. ASSUME NEW id \in Ids, Deactivating(s, id) PROVE SourcesLast(s)
  BY <1>2, <1>3 DEF Deactivating
<1>4. ASSUME NEW id \in Ids, NEW m \in 1..Len(s), Deleting(s, id, m) PROVE SourcesLast(s)
  <2>1. \A i \in 1..Len(s) : s[i].do \in {"inactive", "call", "unpart", "erase", "unlist"}
    BY <1>4 DEF Deleting, Is, Calling
  <2>2. Stopping(s, id) /\ \A i \in 1..Len(s) : s[i].do = "erase" => s[i].id = id
    BY <1>4 DEF Deleting
  <2> QED BY <1>2, <2>1, <2>2
<1>5. ASSUME NEW id \in Ids, Saving(s, id) PROVE SourcesLast(s)
  <2>1. /\ s[1].do = "save" /\ s[1].id = id
        /\ \A i \in 2..Len(s) : \/ s[i].do \in {"part", "unpart"}
                                \/ s[i].do = "call" /\ s[i].call \in {"refresh", "setup"}
    BY <1>5 DEF Saving, Is, Calling
  <2>2. \A k \in 1..Len(s) : ~Activates(s[k])
    BY <1>0, <2>1 DEF Activates
  <2>3. s[1].src = source[id] \/ id \notin active
    BY <1>5 DEF Saving
  <2>4. \A i \in 1..Len(s) : s[i].do \notin {"inactive", "erase", "active"} /\ (s[i].do = "save" => i = 1)
    BY <1>0, <2>1
  <2> QED BY <2>1, <2>2, <2>3, <2>4 DEF SourcesLast
<1>6. ASSUME NEW id \in Ids, Activating(s, id) PROVE SourcesLast(s)
  <2>1. Kind[id] = "PID" => SourceActive(id)
    BY <1>6 DEF Activating, SourceActive
  <2>2. CASE Len(s) = 2
    <3>1. s[1].do = "active" /\ s[1].id = id /\ s[2].do = "call"
      BY <1>6, <2>2 DEF Activating, Is, Calling
    <3> QED BY <2>1, <2>2, <3>1 DEF SourcesLast
  <2>3. CASE Len(s) = 3
    <3>1. /\ s[1].do = "save" /\ s[1].id = id /\ s[1].src = source[id]
          /\ s[2].do = "active" /\ s[2].id = id /\ s[3].do = "call"
      BY <1>6, <2>3 DEF Activating, Is, Calling
    <3> QED BY <2>1, <2>3, <3>1 DEF SourcesLast
  <2> QED BY <1>6, <2>2, <2>3 DEF Activating
<1>7. ASSUME NEW id \in Ids, Resuming(s, id) PROVE SourcesLast(s)
  BY <1>7 DEF Resuming, Is, Calling, SourcesLast
<1>8. ASSUME Growing(s) \/ Shrinking(s) \/ Ordering(s) \/ Converting(s) PROVE SourcesLast(s)
  BY <1>8 DEF Growing, Shrinking, Ordering, Converting, SourcesLast
<1> QED BY <1>1, <1>3, <1>4, <1>5, <1>6, <1>7, <1>8 DEF Plan

\* ... as does the beginning of one, ...
LEMMA SourceBegins ==
  ASSUME SourceInv, NEW w \in Workers, NEW s, Begins(w, s)
  PROVE  SourceInv'
<1>1. Base /\ todo'[w] = s /\ \A v \in Workers : v # w => todo'[v] = <<>>
  BY Beginning DEF SourceInv
<1>2. active' = active /\ source' = source
  BY DEF Begins, tables
<1>3. SourcesLast(<<>>)'
  BY NothingLeft DEF SourcesLast
<1>4. SourcesLast(s)'
  <2>1. SourcesLast(s)
    BY <1>1, SourcesLastAtFirst DEF Begins
  <2> QED BY <1>2, <2>1 DEF SourcesLast, SourceActive
<1>5. SourceIsSampled'
  BY <1>2 DEF SourceInv, SourceIsSampled
<1> QED BY <1>1, <1>3, <1>4, <1>5, BaseBegins DEF SourceInv

\* ... and a restart of the daemon, ...
LEMMA SourceRestart == ASSUME SourceInv, Restart PROVE SourceInv'
<1>1. active' = active /\ source' = source /\ todo' = todo
  BY DEF Restart, tables
<1>2. \A w \in Workers : SourcesLast(todo[w])'
  BY <1>1 DEF SourceInv, SourcesLast, SourceActive
<1> QED BY <1>1, <1>2, BaseRestart DEF SourceInv, SourceIsSampled

\* ... and it holds at first.
LEMMA SourceAtFirst == Init => SourceInv
<1> SUFFICES ASSUME Init PROVE SourceInv
  OBVIOUS
<1>1. SourcesLast(<<>>)
  BY NothingLeft DEF SourcesLast
<1>2. SourceIsSampled /\ \A w \in Workers : SourcesLast(todo[w])
  BY <1>1 DEF Init, SourceIsSampled
<1> QED BY <1>2, BaseAtFirst DEF SourceInv

(***************************************************************************)
(* What activations asked for                                              *)
(***************************************************************************)
\* Only one step makes a row active.
LEMMA ActiveShrinks ==
  ASSUME Base, NEW w \in Workers, Works(w), ~ActivateRow(w)
  PROVE  active' \subseteq active
<1>1. CASE ResumeRow(w)
  <2>1. Step(w).id \in active
    BY <1>1, FirstStep DEF ResumeRow, InPlace
  <2> QED BY <1>1, <2>1 DEF ResumeRow
<1>2. CASE DaemonDoes(w)
  BY <1>2, DaemonActivates
<1> QED BY <1>1, <1>2 DEF Works, Commit, InsertRow, ListRow, UnlistRow, WriteOrder, InsertPart,
            DeletePart, DeleteRow, SaveRow, DeactivateRow, ChangeConversion, CallFails, BreakOff, tables

\* A page that has something else to do activates nothing.
LEMMA NoneActivated ==
  ASSUME Base, NEW w \in Workers, Works(w), NEW s, NEW t, Goes(w, s, t),
         NEW i \in 1..Len(s), s[i].do # "save", ~Activates(s[i])
  PROVE  active' \subseteq active /\ ~Activates(s[1]) /\ ~ActivateRow(w)
<1>1. /\ InPlace(s) /\ 1 \in 1..Len(s) /\ \A d : Doing(w, d) => s[1].do = d
  BY GoesOn
<1>2. ~Activates(s[1])
  BY <1>1 DEF InPlace
<1>3. ~ActivateRow(w)
  BY <1>1, <1>2 DEF ActivateRow, Activates
<1> QED BY <1>2, <1>3, ActiveShrinks

\* A step leaves active rows complete.
LEMMA CompleteKept ==
  ASSUME CompleteInv, NEW w \in Workers, Works(w)
  PROVE  ActiveComplete'
<1> DEFINE s == todo[w]
           x == Step(w)
<1>1. /\ InPlace(s) /\ x = s[1] /\ 1 \in 1..Len(s) /\ x \in Steps
      /\ \A d : Doing(w, d) => x.do = d
      /\ \A what, id : ~Before(s, 1, what, id)
  BY FirstStep DEF CompleteInv
<1>2. /\ parts \subseteq Children /\ filled \subseteq parts /\ converted \subseteq parts
      /\ \A p \in converted : Kind[p.of] \in {"Input", "Math"}
  BY DEF CompleteInv, Base, TableTypes, Convertible
<1>3. KeepsComplete(s) /\ \A id \in active : Kind[id] # "PID" => Complete(id)
  BY DEF CompleteInv, ActiveComplete, Complete
<1> HIDE DEF s, x
<1> SUFFICES ASSUME NEW id \in active', Kind[id] # "PID" PROVE Complete(id)'
  BY DEF ActiveComplete, Complete
<1>4. CASE InsertRow(w) \/ ListRow(w) \/ UnlistRow(w) \/ WriteOrder(w) \/ DeleteRow(w) \/ ResumeRow(w)
           \/ DeactivateRow(w) \/ DaemonDoes(w) \/ CallFails(w) \/ BreakOff(w)
  <2>1. UNCHANGED <<parts, filled, converted, conversion>> /\ ~ActivateRow(w)
    BY <1>1, <1>4 DEF InsertRow, ListRow, UnlistRow, WriteOrder, DeleteRow, ResumeRow, DeactivateRow,
         DaemonDoes, CallFails, BreakOff, tables, Doing, ActivateRow
  <2>2. id \in active
    BY <2>1, ActiveShrinks DEF CompleteInv
  <2> QED BY <1>3, <2>1, <2>2 DEF Complete, PartsOf
<1>5. CASE InsertPart(w)
  <2>1. x.do = "part" /\ id \in active
    BY <1>1, <1>5 DEF InsertPart
  <2>2. x.part.of \notin active \/ x.full
    BY <1>1, <1>3, <2>1 DEF KeepsComplete
  <2>3. Complete(id)
    BY <1>3, <2>1
  <2> QED BY <1>2, <1>5, <2>1, <2>2, <2>3 DEF InsertPart, Complete, PartsOf, x
<1>6. CASE DeletePart(w)
  <2>1. x.do = "unpart" /\ id \in active
    BY <1>1, <1>6 DEF DeletePart
  <2>2. Kind[x.part.of] \in {"Input", "Math", "Trigger"} => x.part.of \notin active
    BY <1>1, <1>3, <2>1 DEF KeepsComplete
  <2>3. Complete(id)
    BY <1>3, <2>1
  <2> QED BY <1>2, <1>6, <2>1, <2>2, <2>3 DEF DeletePart, Complete, PartsOf, x
<1>7. CASE SaveRow(w)
  <2>1. x.do = "save" /\ id \in active /\ UNCHANGED <<parts, conversion>>
    BY <1>1, <1>7 DEF SaveRow
  <2>2. /\ \A p \in x.conv : p.of = x.id
        /\ id = x.id => PartsOf(id) \cap filled \subseteq x.full /\ PartsOf(id) \cap x.conv \subseteq converted
    BY <1>1, <1>3, <2>1 DEF KeepsComplete
  <2>3. Complete(id)
    BY <1>3, <2>1
  <2>4. filled' = (filled \ PartsOf(x.id)) \cup (x.full \cap parts)
        /\ converted' = (converted \ PartsOf(x.id)) \cup (x.conv \cap parts)
    BY <1>7 DEF SaveRow, x
  <2>5. PartsOf(id)' = PartsOf(id)
    BY <2>1 DEF PartsOf
  <2>6. PartsOf(id) \subseteq filled'
    BY <1>2, <2>2, <2>3, <2>4 DEF Complete, PartsOf
  <2>7. PartsOf(id) \cap converted' \subseteq converted
    BY <2>2, <2>4 DEF PartsOf
  <2> QED BY <2>1, <2>3, <2>5, <2>6, <2>7 DEF Complete
<1>8. CASE ActivateRow(w)
  <2>1. x.do = "active" /\ UNCHANGED <<parts, filled, converted, conversion>>
    BY <1>1, <1>8 DEF ActivateRow
  <2>2. CASE id \in active
    BY <1>3, <2>1, <2>2 DEF Complete, PartsOf
  <2>3. CASE id \notin active
    <3>1. id = x.id /\ (Kind[id] \in {"Input", "Math"} => Usable(id))
      BY <1>8, <2>3 DEF ActivateRow, x
    <3>2. Kind[id] \in {"Input", "Math"} \/ Complete(id)
      BY <1>1, <1>3, <2>1, <3>1 DEF KeepsComplete
    <3>3. CASE Kind[id] \in {"Input", "Math"}
      <4>1. PartsOf(id) = SortOf(id, "measurement")
        BY <1>2, <3>3 DEF PartsOf, SortOf, Children, Suits
      <4> QED BY <2>1, <3>1, <3>3, <4>1 DEF Usable, Complete, PartsOf
    <3> QED BY <2>1, <3>2, <3>3 DEF Complete, PartsOf
  <2> QED BY <2>2, <2>3
<1>9. CASE ChangeConversion(w)
  <2>1. id \in active /\ UNCHANGED <<parts, filled>>
    BY <1>9 DEF ChangeConversion
  <2>2. Complete(id)
    BY <1>3, <2>1
  <2>3. \/ converted' = {} \/ (x.do = "drop" /\ converted' = converted)
        \/ (conversion' = TRUE /\ converted' = converted)
    BY <1>1, <1>9 DEF ChangeConversion
  <2>4. x.do = "drop" => \A p \in converted : p.of \notin active
    BY <1>1, <1>3 DEF KeepsComplete
  <2> QED BY <2>1, <2>2, <2>3, <2>4 DEF Complete, PartsOf
<1> QED BY <1>4, <1>5, <1>6, <1>7, <1>8, <1>9 DEF Works, Commit

\* What is left after it will.
LEMMA KeepsCompleteKept ==
  ASSUME CompleteInv, NEW w \in Workers, Works(w), NEW s, NEW t, Goes(w, s, t)
  PROVE  KeepsComplete(t)'
<1>1. /\ s \in Seq(Steps) /\ s # <<>> /\ t = Tail(s) /\ InPlace(s) /\ 1 \in 1..Len(s) /\ s[1] \in Steps
      /\ \A i \in 1..Len(t) : i + 1 \in 1..Len(s) /\ t[i] = s[i + 1]
      /\ s[1] = Step(w) /\ \A d : Doing(w, d) => s[1].do = d
      /\ s = todo[w]
  BY GoesOn
<1>2. KeepsComplete(s) /\ Base
  BY <1>1 DEF CompleteInv
<1>3. \A i \in 1..Len(t) : t[i].do # "save"
  <2>1. \A i \in 1..Len(t) : i + 1 # 1
    OBVIOUS
  <2> QED BY <1>1, <2>1 DEF InPlace
<1>4. ASSUME NEW i \in 1..Len(t), t[i].do = "part"
      PROVE  t[i].part.of \notin active' \/ t[i].full
  <2>1. active' \subseteq active
    BY <1>1, <1>2, <1>4, NoneActivated DEF Activates
  <2> QED BY <1>1, <1>2, <1>4, <2>1 DEF KeepsComplete
<1>5. ASSUME NEW i \in 1..Len(t), t[i].do = "unpart", Kind[t[i].part.of] \in {"Input", "Math", "Trigger"}
      PROVE  t[i].part.of \notin active' \/ Before(t, i, "inactive", t[i].part.of)
  <2>1. active' \subseteq active
    BY <1>1, <1>2, <1>5, NoneActivated DEF Activates
  <2>2. t[i].part.of \notin active \/ Before(s, i + 1, "inactive", t[i].part.of)
    BY <1>1, <1>2, <1>5 DEF KeepsComplete
  <2>3. Before(s, i + 1, "inactive", t[i].part.of) =>
          Before(t, i, "inactive", t[i].part.of) \/ Is(s, 1, "inactive", t[i].part.of)
    BY <1>1, BeforeTail
  <2>4. Is(s, 1, "inactive", t[i].part.of) => t[i].part.of \notin active'
    <3>1. s[1].do = "inactive" => DeactivateRow(w)
      BY <1>2, Doings DEF Base
    <3> QED BY <1>1, <3>1 DEF Is, DeactivateRow
  <2> QED BY <2>1, <2>2, <2>3, <2>4
<1>6. ASSUME NEW i \in 1..Len(t), t[i].do = "active", Kind[t[i].id] # "PID",
             Kind[t[i].id] \notin {"Input", "Math"}
      PROVE  Complete(t[i].id)'
  <2>1. Complete(t[i].id) /\ s[1].do # "save"
    BY <1>1, <1>2, <1>6 DEF KeepsComplete
  <2>2. Activates(s[1])
    BY <1>1, <1>6, <2>1 DEF InPlace, Activates
  <2>3. UNCHANGED <<parts, filled, converted, conversion>>
    BY <1>1, <1>2, <2>2, Doings DEF Activates, ActivateRow, DaemonDoes, CallFails, tables, Base
  <2> QED BY <2>1, <2>3 DEF Complete, PartsOf
<1>7. ASSUME NEW i \in 1..Len(t), t[i].do = "drop", NEW p \in converted'
      PROVE  p.of \notin active'
  <2>1. active' \subseteq active
    BY <1>1, <1>2, <1>7, NoneActivated DEF Activates
  <2>2. ~SaveRow(w) /\ \A q \in converted : q.of \notin active
    BY <1>1, <1>2, <1>7 DEF KeepsComplete, SaveRow
  <2>3. converted' \subseteq converted
    BY <2>2 DEF Works, Commit, InsertRow, ListRow, UnlistRow, WriteOrder, InsertPart,
            DeletePart, DeleteRow, ActivateRow, ResumeRow, DeactivateRow, ChangeConversion,
            DaemonDoes, CallFails, BreakOff, tables
  <2> QED BY <2>1, <2>2, <2>3
<1> QED BY <1>3, <1>4, <1>5, <1>6, <1>7 DEF KeepsComplete

\* A step of a page keeps active rows complete, ...
LEMMA CompleteWorks ==
  ASSUME CompleteInv, NEW w \in Workers, Works(w)
  PROVE  CompleteInv'
<1>1. /\ \A v \in Workers : v # w => todo'[v] = <<>>
      /\ todo'[w] = <<>> \/ Goes(w, todo[w], todo'[w])
  BY Progress DEF CompleteInv
<1>2. KeepsComplete(<<>>)'
  BY NothingLeft DEF KeepsComplete
<1>3. ASSUME NEW v \in Workers PROVE KeepsComplete(todo[v])'
  <2>1. CASE todo'[v] = <<>>
    BY <1>2, <2>1
  <2>2. CASE todo'[v] # <<>>
    <3>1. v = w /\ Goes(w, todo[w], todo'[w])
      BY <1>1, <2>2
    <3>2. PICK s, t : s = todo[w] /\ t = todo'[w]
      OBVIOUS
    <3>3. KeepsComplete(t)'
      BY <3>1, <3>2, KeepsCompleteKept
    <3> QED BY <3>1, <3>2, <3>3
  <2> QED BY <2>1, <2>2
<1> QED BY <1>3, CompleteKept, BaseWorks DEF CompleteInv

\* No shape of plan takes from an active controller what its activation asked for.
LEMMA KeepsCompleteAtFirst ==
  ASSUME Base, NEW s \in Seq(Steps), Plan(s)
  PROVE  KeepsComplete(s)
<1>0. Len(s) \in Nat /\ active \subseteq rows /\ \A p \in converted : Kind[p.of] \in {"Input", "Math"}
  BY LenProperties DEF Base, TableTypes, Convertible
<1>1. ASSUME NEW id \in Ids, Adding(s, id) PROVE KeepsComplete(s)
  <2>1. \A i \in 1..Len(s) : s[i].do \in {"insert", "list", "part", "call"}
    BY <1>0, <1>1 DEF Adding, Is, Calling
  <2>2. \A i \in 1..Len(s) : s[i].do = "part" => s[i].part.of = id
    BY <1>0, <1>1 DEF Adding, Is, Calling
  <2>3. id \notin active
    BY <1>0, <1>1 DEF Adding, Fresh
  <2> QED BY <2>1, <2>2, <2>3 DEF KeepsComplete
<1>2. ASSUME NEW id \in Ids, Deactivating(s, id) PROVE KeepsComplete(s)
  <2>1. \A i \in 1..Len(s) : s[i].do \in {"inactive", "call"}
    BY <1>2 DEF Deactivating
  <2> QED BY <2>1 DEF KeepsComplete
<1>3. ASSUME NEW id \in Ids, NEW m \in 1..Len(s), Deleting(s, id, m) PROVE KeepsComplete(s)
  <2>1. \A i \in 1..Len(s) : s[i].do \in {"inactive", "call", "unpart", "erase", "unlist"}
    BY <1>3 DEF Deleting, Is, Calling
  <2>2. \A i \in 1..Len(s) : s[i].do = "unpart" =>
          s[i].part.of = id /\ (id \in active => Before(s, i, "inactive", id))
    BY <1>3 DEF Deleting, Is, Calling
  <2> QED BY <2>1, <2>2 DEF KeepsComplete
<1>4. ASSUME NEW id \in Ids, Saving(s, id) PROVE KeepsComplete(s)
  <2>1. /\ s[1].do = "save" /\ s[1].id = id /\ \A p \in s[1].conv : p.of = id
        /\ \/ id \notin active \/ Kind[id] = "PID"
           \/ PartsOf(id) \cap filled \subseteq s[1].full /\ PartsOf(id) \cap s[1].conv \subseteq converted
    BY <1>4 DEF Saving, Is
  <2>2. \A i \in 2..Len(s) : \/ s[i].do \in {"part", "unpart"} /\ s[i].part.of = id /\ id \notin active
                             \/ s[i].do = "call"
    BY <1>4 DEF Saving, Is, Calling
  <2>3. \A i \in 1..Len(s) : s[i].do = "save" => i = 1
    BY <1>0, <2>2
  <2>4. \A i \in 1..Len(s) : s[i].do \notin {"active", "drop"}
    BY <1>0, <2>1, <2>2
  <2>5. \A i \in 1..Len(s) : s[i].do \in {"part", "unpart"} => s[i].part.of \notin active
    BY <1>0, <2>1, <2>2
  <2> QED BY <2>1, <2>3, <2>4, <2>5 DEF KeepsComplete
<1>5. ASSUME NEW id \in Ids, Activating(s, id) PROVE KeepsComplete(s)
  <2>1. CASE Len(s) = 2
    <3>1. s[1].do = "active" /\ s[1].id = id /\ s[2].do = "call"
      BY <1>5, <2>1 DEF Activating, Is, Calling
    <3>2. Kind[id] \in {"PID", "Input", "Math"} \/ Complete(id)
      BY <1>5 DEF Activating
    <3> QED BY <2>1, <3>1, <3>2 DEF KeepsComplete
  <2>2. CASE Len(s) = 3
    <3>1. /\ s[1].do = "save" /\ s[1].id = id /\ Kind[id] = "PID"
          /\ s[2].do = "active" /\ s[2].id = id /\ s[3].do = "call"
          /\ \A p \in s[1].conv : p.of = id
      BY <1>5, <2>2 DEF Activating, Is, Calling
    <3> QED BY <2>2, <3>1 DEF KeepsComplete
  <2> QED BY <1>5, <2>1, <2>2 DEF Activating
<1>6. ASSUME NEW id \in Ids, Resuming(s, id) PROVE KeepsComplete(s)
  BY <1>6 DEF Resuming, Is, Calling, KeepsComplete
<1>7. ASSUME Growing(s) \/ Shrinking(s) \/ Ordering(s) PROVE KeepsComplete(s)
  BY <1>7 DEF Growing, Shrinking, Ordering, KeepsComplete
<1>8. ASSUME Converting(s) PROVE KeepsComplete(s)
  <2>1. \A i \in 1..Len(s) : s[i].do \in {"convert", "clear", "drop"}
    BY <1>8 DEF Converting
  <2>2. ASSUME NEW i \in 1..Len(s), s[i].do = "drop" PROVE \A p \in converted : p.of \notin active
    <3>1. check_conversion_being_used
      BY <1>8, <2>2 DEF Converting
    <3> QED BY <1>0, <3>1 DEF check_conversion_being_used
  <2> QED BY <2>1, <2>2 DEF KeepsComplete
<1> QED BY <1>1, <1>2, <1>3, <1>4, <1>5, <1>6, <1>7, <1>8 DEF Plan

\* ... as does the beginning of one, ...
LEMMA CompleteBegins ==
  ASSUME CompleteInv, NEW w \in Workers, NEW s, Begins(w, s)
  PROVE  CompleteInv'
<1>1. Base /\ todo'[w] = s /\ \A v \in Workers : v # w => todo'[v] = <<>>
  BY Beginning DEF CompleteInv
<1>2. UNCHANGED tables
  BY DEF Begins
<1>3. KeepsComplete(<<>>)'
  BY NothingLeft DEF KeepsComplete
<1>4. KeepsComplete(s)'
  <2>1. KeepsComplete(s)
    BY <1>1, KeepsCompleteAtFirst DEF Begins
  <2> QED BY <1>2, <2>1 DEF KeepsComplete, Complete, PartsOf, tables
<1>5. ActiveComplete'
  BY <1>2 DEF CompleteInv, ActiveComplete, PartsOf, tables
<1> QED BY <1>1, <1>3, <1>4, <1>5, BaseBegins DEF CompleteInv

\* ... and a restart of the daemon, ...
LEMMA CompleteRestart == ASSUME CompleteInv, Restart PROVE CompleteInv'
<1>1. UNCHANGED <<tables, todo>>
  BY DEF Restart
<1>2. \A w \in Workers : KeepsComplete(todo[w])'
  BY <1>1 DEF CompleteInv, KeepsComplete, Complete, PartsOf, tables
<1>3. ActiveComplete'
  BY <1>1 DEF CompleteInv, ActiveComplete, PartsOf, tables
<1> QED BY <1>2, <1>3, BaseRestart DEF CompleteInv

\* ... and they are at first.
LEMMA CompleteAtFirst == Init => CompleteInv
<1> SUFFICES ASSUME Init PROVE CompleteInv
  OBVIOUS
<1>1. KeepsComplete(<<>>)
  BY NothingLeft DEF KeepsComplete
<1>2. ActiveComplete /\ \A w \in Workers : KeepsComplete(todo[w])
  BY <1>1 DEF Init, ActiveComplete
<1> QED BY <1>2, BaseAtFirst DEF CompleteInv

(***************************************************************************)
(* Rows, their children and the lists                                      *)
(***************************************************************************)
\* A step leaves no child without its row.
LEMMA NoOrphansKept ==
  ASSUME TablesInv, NEW w \in Workers, Works(w)
  PROVE  NoOrphans'
<1> DEFINE s == todo[w]
           x == Step(w)
<1>1. /\ x = s[1] /\ 1 \in 1..Len(s) /\ x \in Steps /\ \A d : Doing(w, d) => x.do = d
      /\ \A what, id : ~Before(s, 1, what, id)
  BY FirstStep DEF TablesInv
<1>2. ParentsLast(s) /\ \A p \in parts : p.of \in rows
  BY DEF TablesInv, NoOrphans
<1> HIDE DEF s, x
<1>3. CASE InsertRow(w)
  BY <1>2, <1>3 DEF InsertRow, NoOrphans
<1>4. CASE DeleteRow(w)
  <2>1. \A p \in parts : p.of # x.id
    <3>1. \A p \in PartsOf(x.id) : \E j \in 1..0 : Removing(s, j, p)
      BY <1>1, <1>2, <1>4 DEF DeleteRow, ParentsLast
    <3> QED BY <3>1 DEF PartsOf
  <2> QED BY <1>2, <1>4, <2>1 DEF DeleteRow, NoOrphans, x
<1>5. CASE InsertPart(w)
  <2>1. x.part.of \in rows
    BY <1>1, <1>2, <1>5 DEF InsertPart, ParentsLast
  <2> QED BY <1>2, <1>5, <2>1 DEF InsertPart, NoOrphans, x
<1>6. CASE DeletePart(w)
  BY <1>2, <1>6 DEF DeletePart, NoOrphans
<1>7. CASE UNCHANGED <<rows, parts>>
  BY <1>2, <1>7 DEF NoOrphans
<1> QED BY <1>3, <1>4, <1>5, <1>6, <1>7
        DEF Works, Commit, ListRow, UnlistRow, WriteOrder, SaveRow, ActivateRow, ResumeRow,
            DeactivateRow, ChangeConversion, DaemonDoes, CallFails, BreakOff, tables

\* What is left after it keeps the order of rows and children, ...
LEMMA ParentsLastKept ==
  ASSUME TablesInv, NEW w \in Workers, Works(w), NEW s, NEW t, Goes(w, s, t)
  PROVE  ParentsLast(t)'
<1>1. /\ s \in Seq(Steps) /\ s # <<>> /\ t = Tail(s) /\ 1 \in 1..Len(s)
      /\ \A i \in 1..Len(t) : i + 1 \in 1..Len(s) /\ t[i] = s[i + 1]
      /\ s[1] = Step(w) /\ \A d : Doing(w, d) => s[1].do = d
      /\ s = todo[w]
  BY GoesOn
<1>2. ParentsLast(s) /\ Base
  BY <1>1 DEF TablesInv
<1>3. ASSUME NEW i \in 1..Len(t), t[i].do = "part"
      PROVE  t[i].part.of \in rows' \/ Before(t, i, "insert", t[i].part.of)
  <2>1. t[i].part.of \in rows \/ Before(s, i + 1, "insert", t[i].part.of)
    BY <1>1, <1>2, <1>3 DEF ParentsLast
  <2>2. CASE t[i].part.of \in rows
    <3>1. ~DeleteRow(w)
      BY <1>1, <1>2, <1>3 DEF ParentsLast, DeleteRow
    <3>2. rows \subseteq rows'
      BY <3>1 DEF Works, Commit, InsertRow, ListRow, UnlistRow, WriteOrder, InsertPart, DeletePart,
           SaveRow, ActivateRow, ResumeRow, DeactivateRow, ChangeConversion, DaemonDoes, CallFails,
           BreakOff, tables
    <3> QED BY <2>2, <3>2
  <2>3. CASE Before(s, i + 1, "insert", t[i].part.of)
    <3>1. Before(t, i, "insert", t[i].part.of) \/ Is(s, 1, "insert", t[i].part.of)
      BY <1>1, <2>3, BeforeTail
    <3>2. s[1].do = "insert" => InsertRow(w)
      BY <1>2, Doings DEF Base
    <3> QED BY <1>1, <3>1, <3>2 DEF Is, InsertRow
  <2> QED BY <2>1, <2>2, <2>3
<1>4. ASSUME NEW i \in 1..Len(t), t[i].do = "erase"
      PROVE  /\ \A k \in 1..Len(t) : t[k].do \notin {"part", "insert"}
             /\ \A p \in PartsOf(t[i].id)' : \E j \in 1..(i - 1) : Removing(t, j, p)
  <2>1. /\ \A k \in 1..Len(s) : s[k].do \notin {"part", "insert"}
        /\ \A p \in PartsOf(t[i].id) : \E j \in 1..(i + 1 - 1) : Removing(s, j, p)
    <3>1. PICK k \in 1..Len(s) : k = i + 1 /\ s[k].do = "erase" /\ t[i] = s[k]
      BY <1>1, <1>4
    <3>2. /\ \A n \in 1..Len(s) : s[n].do \notin {"part", "insert"}
          /\ \A p \in PartsOf(s[k].id) : \E j \in 1..(k - 1) : Removing(s, j, p)
      BY <1>2, <3>1 DEF ParentsLast
    <3> QED BY <3>1, <3>2
  <2>2. parts' \subseteq parts
    <3>1. ~InsertPart(w)
      BY <1>1, <2>1 DEF InsertPart
    <3> QED BY <3>1 DEF Works, Commit, InsertRow, ListRow, UnlistRow, WriteOrder, DeletePart, DeleteRow,
           SaveRow, ActivateRow, ResumeRow, DeactivateRow, ChangeConversion, DaemonDoes, CallFails,
           BreakOff, tables
  <2>3. ASSUME NEW p \in PartsOf(t[i].id)' PROVE \E j \in 1..(i - 1) : Removing(t, j, p)
    <3>1. p \in parts' /\ p \in PartsOf(t[i].id)
      BY <2>2, <2>3 DEF PartsOf
    <3>2. \E j \in 1..i : Removing(s, j, p)
      BY <2>1, <3>1
    <3>3. (\E j \in 1..(i - 1) : Removing(t, j, p)) \/ Removing(s, 1, p)
      BY <1>1, <3>2, RemovedTail
    <3>4. ~Removing(s, 1, p)
      <4>1. s[1].do = "unpart" => DeletePart(w)
        BY <1>2, Doings DEF Base
      <4> QED BY <1>1, <3>1, <4>1 DEF Removing, DeletePart
    <3> QED BY <3>3, <3>4
  <2> QED BY <1>1, <2>1, <2>3
<1> QED BY <1>3, <1>4 DEF ParentsLast

\* ... and of rows and lists.
LEMMA ListedWellKept ==
  ASSUME TablesInv, NEW w \in Workers, Works(w), NEW s, NEW t, Goes(w, s, t)
  PROVE  ListedWell(t)'
<1>1. /\ s \in Seq(Steps) /\ s # <<>> /\ t = Tail(s) /\ 1 \in 1..Len(s) /\ InPlace(s)
      /\ \A i \in 1..Len(t) : i + 1 \in 1..Len(s) /\ t[i] = s[i + 1]
      /\ s[1] = Step(w) /\ \A d : Doing(w, d) => s[1].do = d
      /\ s = todo[w] /\ Len(t) = Len(s) - 1 /\ Len(s) \in Nat
      /\ \A i \in 1..Len(t) : t[i] \in Steps
  BY GoesOn, ElementOfSeq
<1>2. ListedWell(s) /\ Base
  BY <1>1 DEF TablesInv
<1>3. ASSUME NEW i \in 1..Len(t), t[i].do = "list"
      PROVE  /\ \A k \in 1..Len(t) : t[k].do \notin {"unlist", "unpart", "erase", "active", "order"}
             /\ \A k \in 1..Len(t) : t[k].do = "list" => i = k
             /\ order' = order
             /\ \A j \in 1..Len(order[ListOf[Kind[t[i].id]]]) : order[ListOf[Kind[t[i].id]]][j] # t[i].id
  <2>1. /\ \A k \in 1..Len(s) : s[k].do \notin {"unlist", "unpart", "erase", "active", "order"}
        /\ \A k \in 1..Len(s) : s[k].do = "list" => i + 1 = k
        /\ \A j \in 1..Len(order[ListOf[Kind[t[i].id]]]) : order[ListOf[Kind[t[i].id]]][j] # t[i].id
    <3>1. PICK k \in 1..Len(s) : k = i + 1 /\ s[k].do = "list" /\ t[i] = s[k]
      BY <1>1, <1>3
    <3> QED BY <1>2, <3>1 DEF ListedWell
  <2>2. \A k \in 1..Len(t) : t[k].do = "list" => i = k
    <3>1. \A k \in 1..Len(t) : t[k].do = "list" => i + 1 = k + 1
      BY <1>1, <2>1
    <3> QED BY <3>1
  <2>3. ~ListRow(w) /\ ~UnlistRow(w) /\ ~WriteOrder(w)
    <3>1. i + 1 # 1
      OBVIOUS
    <3> QED BY <1>1, <2>1, <3>1 DEF ListRow, UnlistRow, WriteOrder
  <2>4. order' = order
    BY <2>3 DEF Works, Commit, InsertRow, InsertPart, DeletePart, DeleteRow, SaveRow, ActivateRow,
         ResumeRow, DeactivateRow, ChangeConversion, DaemonDoes, CallFails, BreakOff, tables
  <2> QED BY <1>1, <2>1, <2>2, <2>4
<1>4. ASSUME NEW i \in 1..Len(t), t[i].do = "insert", Kind[t[i].id] # "Dashboard"
      PROVE  \E k \in 1..Len(t) : i < k /\ Is(t, k, "list", t[i].id)
  <2>1. PICK k \in 1..Len(s) : i + 1 < k /\ Is(s, k, "list", t[i].id)
    BY <1>1, <1>2, <1>4 DEF ListedWell
  <2>2. k - 1 \in 1..Len(t) /\ i < k - 1 /\ (k - 1) + 1 = k
    BY <1>1, <2>1
  <2>3. Is(t, k - 1, "list", t[i].id)
    BY <1>1, <2>1, <2>2 DEF Is
  <2> QED BY <2>2, <2>3
<1>5. ASSUME NEW i \in 1..Len(t), t[i].do = "unlist"
      PROVE  t[i].id \notin rows' \/ Before(t, i, "erase", t[i].id)
  <2>1. t[i].id \notin rows \/ Before(s, i + 1, "erase", t[i].id)
    BY <1>1, <1>2, <1>5 DEF ListedWell
  <2>2. CASE t[i].id \notin rows
    <3>1. Kind[t[i].id] # "Dashboard"
      BY <1>1, <1>5, StepFields
    <3>2. ~(s[1].do = "insert" /\ s[1].id = t[i].id)
      <4>1. s[1].do = "insert" /\ s[1].id = t[i].id => \E k \in 1..Len(s) : s[k].do = "list"
        BY <1>1, <1>2, <3>1 DEF ListedWell, Is
      <4>2. ~\E k \in 1..Len(s) : s[k].do = "list"
        BY <1>1, <1>2, <1>5 DEF ListedWell
      <4> QED BY <4>1, <4>2
    <3>3. rows' \subseteq rows \cup {s[1].id} /\ (s[1].do # "insert" => rows' \subseteq rows)
      BY <1>1 DEF Works, Commit, InsertRow, ListRow, UnlistRow, WriteOrder, InsertPart, DeletePart,
           DeleteRow, SaveRow, ActivateRow, ResumeRow, DeactivateRow, ChangeConversion, DaemonDoes,
           CallFails, BreakOff, tables
    <3> QED BY <2>2, <3>2, <3>3
  <2>3. CASE Before(s, i + 1, "erase", t[i].id)
    <3>1. Before(t, i, "erase", t[i].id) \/ Is(s, 1, "erase", t[i].id)
      BY <1>1, <2>3, BeforeTail
    <3>2. s[1].do = "erase" => DeleteRow(w)
      BY <1>2, Doings DEF Base
    <3> QED BY <1>1, <3>1, <3>2 DEF Is, DeleteRow
  <2> QED BY <2>1, <2>2, <2>3
<1>6. \A i \in 1..Len(t) : t[i].do # "order"
  <2>1. \A i \in 1..Len(t) : i + 1 # 1
    OBVIOUS
  <2> QED BY <1>1, <2>1 DEF InPlace
<1> QED BY <1>3, <1>4, <1>5, <1>6 DEF ListedWell

\* An id that is not in a list is there once when it has been appended, and
\* what was there once still is.
LEMMA OnceAppended ==
  ASSUME NEW s \in Seq(Ids), NEW x \in Ids
  PROVE  /\ (\A j \in 1..Len(s) : s[j] # x) => Once(Append(s, x), x)
         /\ \A id : Once(s, id) /\ id # x => Once(Append(s, x), id)
<1> DEFINE a == Append(s, x)
<1>1. /\ Len(s) \in Nat /\ Len(a) = Len(s) + 1 /\ a[Len(s) + 1] = x
      /\ \A i \in 1..Len(s) : a[i] = s[i]
  BY AppendProperties, LenProperties
<1> HIDE DEF a
<1>2. \A i \in 1..Len(a) : i \in 1..Len(s) \/ i = Len(s) + 1
  BY <1>1
<1>3. (\A j \in 1..Len(s) : s[j] # x) => Once(a, x)
  <2>1. Len(s) + 1 \in 1..Len(a)
    BY <1>1
  <2>2. Len(s) + 1 \notin 1..Len(s)
    BY <1>1
  <2> QED BY <1>1, <1>2, <2>1, <2>2 DEF Once
<1>4. ASSUME NEW id, Once(s, id), id # x PROVE Once(a, id)
  <2>1. PICK k \in 1..Len(s) : \A i \in 1..Len(s) : s[i] = id <=> i = k
    BY <1>4 DEF Once
  <2>2. k \in 1..Len(a) /\ k # Len(s) + 1
    BY <1>1
  <2>3. \A i \in 1..Len(a) : a[i] = id <=> i = k
    BY <1>1, <1>2, <1>4, <2>1, <2>2
  <2> QED BY <2>2, <2>3 DEF Once
<1> QED BY <1>3, <1>4 DEF a

\* The removal of one row of a list does not touch the others.
LEMMA OnceWithout ==
  ASSUME NEW s \in Seq(Ids), NEW x, x \in ToSet(s), NEW id, id # x, Once(s, id)
  PROVE  Once(Without(s, x), id)
<1> DEFINE p == Place(s, x)
           a == Without(s, x)
<1>1. p \in 1..Len(s) /\ s[p] = x
  BY Places
<1>2. /\ Len(s) \in Nat /\ Len(a) = Len(s) - 1
      /\ \A j \in 1..(Len(s) - 1) : a[j] = IF j < p THEN s[j] ELSE s[j + 1]
  <2> HIDE DEF p
  <2>1. RemoveAt(s, p) = a
    BY DEF p, Without
  <2> HIDE DEF a
  <2> QED BY <1>1, <2>1, Removal
<1> HIDE DEF p, a
<1>3. PICK k \in 1..Len(s) : \A i \in 1..Len(s) : s[i] = id <=> i = k
  BY DEF Once
<1>4. k # p
  BY <1>1, <1>3
<1>5. CASE k < p
  <2>1. k \in 1..Len(a)
    BY <1>1, <1>2, <1>5
  <2>2. ASSUME NEW j \in 1..Len(a) PROVE a[j] = id <=> j = k
    <3>1. j \in 1..Len(s) /\ j + 1 \in 1..Len(s)
      BY <1>2
    <3>2. CASE j < p
      BY <1>2, <1>3, <3>1, <3>2
    <3>3. CASE ~(j < p)
      <4>1. a[j] = s[j + 1] /\ j + 1 # k /\ j # k
        BY <1>1, <1>2, <1>5, <3>3
      <4> QED BY <1>3, <3>1, <4>1
    <3> QED BY <3>2, <3>3
  <2> QED BY <2>1, <2>2 DEF Once, a
<1>6. CASE ~(k < p)
  <2>1. k - 1 \in 1..Len(a) /\ (k - 1) + 1 = k
    BY <1>1, <1>2, <1>4, <1>6
  <2>2. ASSUME NEW j \in 1..Len(a) PROVE a[j] = id <=> j = k - 1
    <3>1. j \in 1..Len(s) /\ j + 1 \in 1..Len(s)
      BY <1>2
    <3>2. CASE j < p
      <4>1. a[j] = s[j] /\ j # k /\ j # k - 1
        BY <1>1, <1>2, <1>4, <1>6, <3>2
      <4> QED BY <1>3, <3>1, <4>1
    <3>3. CASE ~(j < p)
      <4>1. a[j] = s[j + 1] /\ (j + 1 = k <=> j = k - 1)
        BY <1>1, <1>2, <3>3
      <4> QED BY <1>3, <3>1, <4>1
    <3> QED BY <3>2, <3>3
  <2> QED BY <2>1, <2>2 DEF Once, a
<1> QED BY <1>5, <1>6

\* What is still to be listed is left when another step has been done.
LEMMA PendingTail ==
  ASSUME NEW s \in Seq(Steps), s # <<>>, NEW id, Pending(s, id)
  PROVE  Pending(Tail(s), id) \/ Is(s, 1, "list", id)
<1> DEFINE t == Tail(s)
<1>1. PICK k \in 1..Len(s) : Is(s, k, "list", id)
  BY DEF Pending
<1>2. CASE k = 1
  BY <1>1, <1>2
<1>3. CASE k # 1
  <2>1. k - 1 \in 1..Len(t) /\ (k - 1) + 1 = k
    BY <1>1, <1>3, TailPoints
  <2>2. Is(t, k - 1, "list", id)
    BY <1>1, <2>1, TailPoints DEF Is
  <2> QED BY <2>1, <2>2 DEF Pending
<1> QED BY <1>2, <1>3

\* A step leaves each row in its list or about to join it.
LEMMA RowsInListsKept ==
  ASSUME TablesInv, NEW w \in Workers, Works(w)
  PROVE  RowsInLists'
<1> DEFINE s == todo[w]
           x == Step(w)
<1>1. /\ s \in Seq(Steps) /\ s # <<>> /\ x = s[1] /\ 1 \in 1..Len(s) /\ x \in Steps
      /\ \A d : Doing(w, d) => x.do = d
      /\ \A what, id : ~Before(s, 1, what, id)
  BY FirstStep DEF TablesInv
<1>2. /\ todo \in [Workers -> Seq(Steps)] /\ order \in [Lists -> Seq(Ids)] /\ rows \subseteq Ids
      /\ rows' \subseteq Ids
  BY TypesKept DEF TablesInv, Base, TableTypes
<1>3. ListedWell(s) /\ RowsInLists
  BY DEF TablesInv
<1>4. \A v \in Workers : v # w => todo[v] = <<>>
  BY Progress DEF TablesInv
<1>5. \A id : ~Pending(<<>>, id)
  BY NothingLeft DEF Pending
<1>6. todo' = [todo EXCEPT ![w] = Tail(s)] => todo'[w] = Tail(s)
  BY <1>2
<1> HIDE DEF s, x
<1>7. ASSUME whole, NEW id \in rows, Kind[id] # "Dashboard" PROVE InList(id) \/ Pending(s, id)
  BY <1>3, <1>4, <1>5, <1>7 DEF RowsInLists, s
<1>8. ASSUME \E k \in 1..Len(s) : s[k].do \in {"unlist", "unpart", "erase", "active", "order"}, NEW id
      PROVE  ~Pending(s, id)
  BY <1>3, <1>8 DEF ListedWell, Pending, Is
<1> SUFFICES ASSUME whole', NEW id \in rows', Kind[id] # "Dashboard"
             PROVE  InList(id)' \/ Pending(todo[w], id)'
  BY DEF RowsInLists
<1>9. id \in Ids /\ ListOf[Kind[id]] \in Lists
  BY <1>2, ListsOfKinds
<1>10. whole /\ ~BreakOff(w)
  BY DEF Works, Commit, InsertRow, ListRow, UnlistRow, WriteOrder, InsertPart, DeletePart, DeleteRow,
         SaveRow, ActivateRow, ResumeRow, DeactivateRow, ChangeConversion, DaemonDoes, CallFails,
         BreakOff
<1>11. CASE InsertRow(w)
  <2>1. todo'[w] = Tail(s) /\ order' = order /\ x.do = "insert"
    BY <1>1, <1>6, <1>11 DEF InsertRow, Advance, s
  <2>2. CASE id \in rows
    <3>1. InList(id) \/ Pending(Tail(s), id)
      BY <1>1, <1>7, <1>10, <2>1, <2>2, PendingTail DEF Is
    <3> QED BY <2>1, <3>1 DEF InList, Pending
  <2>3. CASE id \notin rows
    <3>1. x.id = id
      BY <1>11, <2>3 DEF InsertRow, x
    <3>2. Pending(s, id)
      BY <1>1, <1>3, <2>1, <3>1 DEF ListedWell, Pending
    <3>3. Pending(Tail(s), id)
      BY <1>1, <2>1, <3>2, PendingTail DEF Is
    <3> QED BY <2>1, <3>3 DEF Pending
  <2> QED BY <2>2, <2>3
<1>12. CASE ListRow(w)
  <2> DEFINE l == ListOf[Kind[x.id]]
  <2>1. x.do = "list" /\ id \in rows
    BY <1>1, <1>12 DEF ListRow
  <2>2. x.id \in Ids /\ Kind[x.id] # "Dashboard" /\ l \in Lists
    BY <1>1, <2>1, StepFields, ListsOfKinds
  <2>3. order' = [order EXCEPT ![l] = Append(order[l], x.id)]
    BY <1>12 DEF ListRow, add_display_order, x
  <2>4. InList(id) \/ id = x.id
    <3>1. ASSUME Pending(s, id) PROVE id = x.id
      BY <1>1, <1>3, <2>1, <3>1 DEF ListedWell, Pending, Is
    <3> QED BY <1>7, <1>10, <2>1, <3>1
  <2>5. CASE id = x.id
    <3>1. \A j \in 1..Len(order[l]) : order[l][j] # x.id
      BY <1>1, <1>3, <2>1 DEF ListedWell
    <3>2. order[l] \in Seq(Ids)
      BY <1>2, <2>2
    <3> HIDE DEF l
    <3>3. Once(Append(order[l], x.id), x.id)
      BY <2>2, <3>1, <3>2, OnceAppended
    <3>4. order'[l] = Append(order[l], x.id)
      BY <1>2, <2>2, <2>3
    <3> QED BY <2>5, <3>3, <3>4 DEF InList, l
  <2>6. CASE id # x.id /\ InList(id)
    <3>1. order[l] \in Seq(Ids) /\ order[ListOf[Kind[id]]] \in Seq(Ids)
      BY <1>2, <1>9, <2>2
    <3>2. CASE ListOf[Kind[id]] = l
      <4>1. Once(order[l], id)
        BY <2>6, <3>2 DEF InList
      <4> HIDE DEF l
      <4>2. Once(Append(order[l], x.id), id)
        BY <2>2, <2>6, <3>1, <4>1, OnceAppended
      <4>3. order'[l] = Append(order[l], x.id)
        BY <1>2, <2>2, <2>3
      <4> QED BY <3>2, <4>2, <4>3 DEF InList
    <3>3. CASE ListOf[Kind[id]] # l
      <4>1. order'[ListOf[Kind[id]]] = order[ListOf[Kind[id]]]
        BY <1>2, <1>9, <2>3, <3>3
      <4> QED BY <2>6, <4>1 DEF InList
    <3> QED BY <3>2, <3>3
  <2> QED BY <2>4, <2>5, <2>6
<1>13. CASE UnlistRow(w)
  <2> DEFINE l == ListOf[Kind[x.id]]
  <2>1. x.do = "unlist" /\ id \in rows
    BY <1>1, <1>13 DEF UnlistRow
  <2>2. x.id \in Ids /\ Kind[x.id] # "Dashboard" /\ l \in Lists
    BY <1>1, <2>1, StepFields, ListsOfKinds
  <2>3. x.id \notin rows
    BY <1>1, <1>3, <2>1 DEF ListedWell
  <2>4. InList(id) /\ id # x.id
    <3>1. ~Pending(s, id)
      BY <1>1, <1>8, <2>1
    <3> QED BY <1>7, <1>10, <2>1, <2>3, <3>1
  <2>5. \/ order' = order
        \/ x.id \in ToSet(order[l]) /\ order' = [order EXCEPT ![l] = Without(order[l], x.id)]
    BY <1>13 DEF UnlistRow, x
  <2>6. order[l] \in Seq(Ids)
    BY <1>2, <2>2
  <2> HIDE DEF l
  <2>7. CASE order' = order \/ ListOf[Kind[id]] # l
    <3>1. order'[ListOf[Kind[id]]] = order[ListOf[Kind[id]]]
      BY <1>2, <1>9, <2>5, <2>7
    <3> QED BY <2>4, <3>1 DEF InList
  <2>8. CASE /\ ListOf[Kind[id]] = l /\ x.id \in ToSet(order[l])
             /\ order' = [order EXCEPT ![l] = Without(order[l], x.id)]
    <3>1. Once(order[l], id)
      BY <2>4, <2>8 DEF InList
    <3>2. Once(Without(order[l], x.id), id)
      BY <2>4, <2>6, <2>8, <3>1, OnceWithout
    <3>3. order'[l] = Without(order[l], x.id)
      BY <1>2, <1>9, <2>8
    <3> QED BY <2>8, <3>2, <3>3 DEF InList
  <2> QED BY <2>5, <2>7, <2>8
<1>14. CASE WriteOrder(w)
  <2>1. x.do = "order" /\ id \in rows /\ order' = [order EXCEPT ![x.list] = x.ids]
    BY <1>1, <1>14 DEF WriteOrder, x
  <2>2. InList(id)
    <3>1. ~Pending(s, id)
      BY <1>1, <1>8, <2>1
    <3> QED BY <1>7, <1>10, <2>1, <3>1
  <2>3. ListOf[Kind[id]] = x.list => Once(x.ids, id)
    BY <1>1, <1>3, <2>1, <2>2 DEF ListedWell
  <2>4. order'[ListOf[Kind[id]]] = IF ListOf[Kind[id]] = x.list THEN x.ids ELSE order[ListOf[Kind[id]]]
    BY <1>2, <1>9, <2>1
  <2> QED BY <2>2, <2>3, <2>4 DEF InList
<1>15. CASE UNCHANGED <<rows, order>> \/ DeleteRow(w)
  <2>1. id \in rows /\ order' = order
    BY <1>15 DEF DeleteRow
  <2>2. CASE Pending(s, id)
    <3>1. x.do \notin {"unlist", "unpart", "erase", "active", "order"}
      BY <1>1, <1>8, <2>2
    <3>2. x.do # "list" \/ ListRow(w)
      BY <1>1, <1>10 DEF Works, Commit, InsertRow, ListRow, UnlistRow, WriteOrder, InsertPart, DeletePart,
           DeleteRow, SaveRow, ActivateRow, ResumeRow, DeactivateRow, ChangeConversion, DaemonDoes,
           CallFails
    <3>3. CASE x.do # "list"
      <4>1. Pending(Tail(s), id)
        BY <1>1, <2>2, <3>3, PendingTail DEF Is
      <4>2. todo'[w] = Tail(s)
        BY <1>1, <1>6, <1>10, <3>1 DEF Works, Commit, InsertRow, ListRow, UnlistRow, WriteOrder,
           InsertPart, DeletePart, DeleteRow, SaveRow, ActivateRow, ResumeRow, DeactivateRow,
           ChangeConversion, DaemonDoes, CallFails, Advance, s
      <4> QED BY <4>1, <4>2 DEF Pending
    <3> QED BY <1>12, <3>2, <3>3
  <2>3. CASE InList(id)
    BY <2>1, <2>3 DEF InList
  <2> QED BY <1>7, <1>10, <2>1, <2>2, <2>3
<1> QED BY <1>10, <1>11, <1>12, <1>13, <1>14, <1>15
        DEF Works, Commit, InsertPart, DeletePart, SaveRow, ActivateRow, ResumeRow,
            DeactivateRow, ChangeConversion, DaemonDoes, CallFails, tables

\* A step of a page keeps the tables in agreement, ...
LEMMA TablesWorks ==
  ASSUME TablesInv, NEW w \in Workers, Works(w)
  PROVE  TablesInv'
<1>1. /\ \A v \in Workers : v # w => todo'[v] = <<>>
      /\ todo'[w] = <<>> \/ Goes(w, todo[w], todo'[w])
  BY Progress DEF TablesInv
<1>2. ParentsLast(<<>>)' /\ ListedWell(<<>>)'
  BY NothingLeft DEF ParentsLast, ListedWell
<1>3. ASSUME NEW v \in Workers PROVE ParentsLast(todo[v])' /\ ListedWell(todo[v])'
  <2>1. CASE todo'[v] = <<>>
    BY <1>2, <2>1
  <2>2. CASE todo'[v] # <<>>
    <3>1. v = w /\ Goes(w, todo[w], todo'[w])
      BY <1>1, <2>2
    <3>2. PICK s, t : s = todo[w] /\ t = todo'[w]
      OBVIOUS
    <3>3. ParentsLast(t)' /\ ListedWell(t)'
      BY <3>1, <3>2, ParentsLastKept, ListedWellKept
    <3> QED BY <3>1, <3>2, <3>3
  <2> QED BY <2>1, <2>2
<1>4. Base'
  BY BaseWorks DEF TablesInv
<1> QED BY <1>3, <1>4, NoOrphansKept, RowsInListsKept DEF TablesInv

\* No shape of plan leaves a child without its row, nor a row out of its list.
LEMMA ParentsLastAtFirst ==
  ASSUME Base, NEW s \in Seq(Steps), Plan(s)
  PROVE  ParentsLast(s)
<1>0. Len(s) \in Nat
  BY LenProperties
<1>1. ASSUME NEW id \in Ids, Adding(s, id) PROVE ParentsLast(s)
  <2>1. \A i \in 1..Len(s) : s[i].do \in {"insert", "list", "part", "call"}
    BY <1>0, <1>1 DEF Adding, Is, Calling
  <2>2. \A i \in 1..Len(s) : s[i].do = "part" => s[i].part.of = id /\ 1 \in 1..(i - 1)
    BY <1>0, <1>1 DEF Adding, Is, Calling
  <2>3. Is(s, 1, "insert", id)
    BY <1>1 DEF Adding
  <2> QED BY <2>1, <2>2, <2>3 DEF ParentsLast, Before
<1>2. ASSUME NEW id \in Ids, Deactivating(s, id) PROVE ParentsLast(s)
  <2>1. \A i \in 1..Len(s) : s[i].do \in {"inactive", "call"}
    BY <1>2 DEF Deactivating
  <2> QED BY <2>1 DEF ParentsLast
<1>3. ASSUME NEW id \in Ids, NEW m \in 1..Len(s), Deleting(s, id, m) PROVE ParentsLast(s)
  <2>1. \A i \in 1..Len(s) : s[i].do \in {"inactive", "call", "unpart", "erase", "unlist"}
    BY <1>3 DEF Deleting, Is, Calling
  <2>2. \A i \in 1..Len(s) : s[i].do = "erase" => i = m /\ s[i].id = id
    BY <1>3 DEF Deleting
  <2>3. \A p \in PartsOf(id) : \E j \in 1..(m - 1) : Removing(s, j, p)
    BY <1>3 DEF Deleting
  <2> QED BY <2>1, <2>2, <2>3 DEF ParentsLast
<1>4. ASSUME NEW id \in Ids, Saving(s, id) PROVE ParentsLast(s)
  <2>1. s[1].do = "save" /\ id \in rows
    BY <1>4 DEF Saving, Is
  <2>2. \A i \in 2..Len(s) : \/ s[i].do = "part" /\ s[i].part.of = id
                             \/ s[i].do \in {"call", "unpart"}
    BY <1>4 DEF Saving, Is, Calling
  <2>3. \A i \in 1..Len(s) : s[i].do # "erase" /\ (s[i].do = "part" => s[i].part.of \in rows)
    BY <1>0, <2>1, <2>2
  <2> QED BY <2>3 DEF ParentsLast
<1>5. ASSUME NEW id \in Ids, Activating(s, id) PROVE ParentsLast(s)
  <2>1. CASE Len(s) = 2
    <3>1. s[1].do = "active" /\ s[2].do = "call"
      BY <1>5, <2>1 DEF Activating, Is, Calling
    <3> QED BY <2>1, <3>1 DEF ParentsLast
  <2>2. CASE Len(s) = 3
    <3>1. s[1].do = "save" /\ s[2].do = "active" /\ s[3].do = "call"
      BY <1>5, <2>2 DEF Activating, Is, Calling
    <3> QED BY <2>2, <3>1 DEF ParentsLast
  <2> QED BY <1>5, <2>1, <2>2 DEF Activating
<1>6. ASSUME NEW id \in Ids, Resuming(s, id) PROVE ParentsLast(s)
  BY <1>6 DEF Resuming, Is, Calling, ParentsLast
<1>7. ASSUME Growing(s) \/ Shrinking(s) \/ Ordering(s) \/ Converting(s) PROVE ParentsLast(s)
  BY <1>7 DEF Growing, Shrinking, Ordering, Converting, ParentsLast
<1> QED BY <1>1, <1>2, <1>3, <1>4, <1>5, <1>6, <1>7 DEF Plan

\* A plan treats the lists well from its first step on.
LEMMA ListedWellAtFirst ==
  ASSUME Base, NEW s \in Seq(Steps), Plan(s)
  PROVE  ListedWell(s)
<1>0. Len(s) \in Nat
  BY LenProperties
<1>1. ASSUME NEW id \in Ids, Adding(s, id) PROVE ListedWell(s)
  <2>1. \A i \in 1..Len(s) : s[i].do \in {"insert", "list", "part", "call"}
    BY <1>0, <1>1 DEF Adding, Is, Calling
  <2>2. \A i \in 1..Len(s) : s[i].do = "list" => s[i].id = id
    BY <1>0, <1>1 DEF Adding, Is, Calling
  <2>3. \A i \in 1..Len(s) : s[i].do = "insert" => i = 1 /\ s[i].id = id
    BY <1>0, <1>1 DEF Adding, Is, Calling
  <2>4. CASE Kind[id] = "Dashboard"
    <3>1. \A i \in 1..Len(s) : s[i].do # "list"
      <4>1. \A i \in 1..Len(s) : s[i] \in Steps
        BY ElementOfSeq
      <4> QED BY <2>2, <2>4, <4>1, StepFields
    <3> QED BY <2>1, <2>3, <2>4, <3>1 DEF ListedWell
  <2>5. CASE Kind[id] # "Dashboard"
    <3>1. PICK k \in 2..Len(s) : \A i \in 1..Len(s) : s[i].do = "list" <=> i = k
      BY <1>1, <2>5 DEF Adding
    <3>2. k \in 1..Len(s) /\ 1 < k /\ Is(s, k, "list", id)
      BY <1>0, <2>2, <3>1 DEF Is
    <3>3. \A j \in 1..Len(order[ListOf[Kind[id]]]) : order[ListOf[Kind[id]]][j] # id
      <4>1. ListOf[Kind[id]] \in Lists /\ order[ListOf[Kind[id]]] \in Seq(Ids)
        BY <2>5, ListsOfKinds DEF Base, TableTypes
      <4>2. id \notin ToSet(order[ListOf[Kind[id]]])
        BY <1>1, <4>1 DEF Adding, Fresh, Listed
      <4>3. DOMAIN order[ListOf[Kind[id]]] = 1..Len(order[ListOf[Kind[id]]])
        BY <4>1, LenProperties
      <4> QED BY <4>2, <4>3 DEF ToSet
    <3> QED BY <2>1, <2>2, <2>3, <3>1, <3>2, <3>3 DEF ListedWell
  <2> QED BY <2>4, <2>5
<1>2. ASSUME NEW id \in Ids, Deactivating(s, id) PROVE ListedWell(s)
  <2>1. \A i \in 1..Len(s) : s[i].do \in {"inactive", "call"}
    BY <1>2 DEF Deactivating
  <2> QED BY <2>1 DEF ListedWell
<1>3. ASSUME NEW id \in Ids, NEW m \in 1..Len(s), Deleting(s, id, m) PROVE ListedWell(s)
  <2>1. \A i \in 1..Len(s) : s[i].do \in {"inactive", "call", "unpart", "erase", "unlist"}
    BY <1>3 DEF Deleting, Is, Calling
  <2>2. Is(s, m, "erase", id)
    BY <1>3 DEF Deleting, Is
  <2>3. \A i \in 1..Len(s) : s[i].do = "unlist" => s[i].id = id /\ m \in 1..(i - 1)
    BY <1>3 DEF Deleting, Is, Calling
  <2> QED BY <2>1, <2>2, <2>3 DEF ListedWell, Before
<1>4. ASSUME NEW id \in Ids, Saving(s, id) PROVE ListedWell(s)
  <2>1. s[1].do = "save" /\ \A i \in 2..Len(s) : s[i].do \in {"part", "call", "unpart"}
    BY <1>4 DEF Saving, Is, Calling
  <2>2. \A i \in 1..Len(s) : s[i].do \in {"save", "part", "call", "unpart"}
    BY <1>0, <2>1
  <2> QED BY <2>2 DEF ListedWell
<1>5. ASSUME NEW id \in Ids, Activating(s, id) PROVE ListedWell(s)
  <2>1. CASE Len(s) = 2
    <3>1. s[1].do = "active" /\ s[2].do = "call"
      BY <1>5, <2>1 DEF Activating, Is, Calling
    <3> QED BY <2>1, <3>1 DEF ListedWell
  <2>2. CASE Len(s) = 3
    <3>1. s[1].do = "save" /\ s[2].do = "active" /\ s[3].do = "call"
      BY <1>5, <2>2 DEF Activating, Is, Calling
    <3> QED BY <2>2, <3>1 DEF ListedWell
  <2> QED BY <1>5, <2>1, <2>2 DEF Activating
<1>6. ASSUME NEW id \in Ids, Resuming(s, id) PROVE ListedWell(s)
  BY <1>6 DEF Resuming, Is, Calling, ListedWell
<1>7. ASSUME Growing(s) \/ Shrinking(s) \/ Converting(s) PROVE ListedWell(s)
  BY <1>7 DEF Growing, Shrinking, Converting, ListedWell
<1>8. ASSUME Ordering(s) PROVE ListedWell(s)
  BY <1>8 DEF Ordering, ListedWell
<1> QED BY <1>1, <1>2, <1>3, <1>4, <1>5, <1>6, <1>7, <1>8 DEF Plan

\* ... as does the beginning of one, ...
LEMMA TablesBegins ==
  ASSUME TablesInv, NEW w \in Workers, NEW s, Begins(w, s)
  PROVE  TablesInv'
<1>1. Base /\ todo'[w] = s /\ \A v \in Workers : v # w => todo'[v] = <<>>
  BY Beginning DEF TablesInv
<1>2. UNCHANGED <<tables, whole>> /\ \A v \in Workers : todo[v] = <<>>
  BY DEF Begins, AllIdle, Idle
<1>3. ParentsLast(<<>>)' /\ ListedWell(<<>>)'
  BY NothingLeft DEF ParentsLast, ListedWell
<1>4. ParentsLast(s)' /\ ListedWell(s)'
  <2>1. ParentsLast(s) /\ ListedWell(s)
    BY <1>1, ParentsLastAtFirst, ListedWellAtFirst DEF Begins
  <2>2. ParentsLast(s)'
    BY <1>2, <2>1 DEF ParentsLast, PartsOf, tables
  <2>3. ListedWell(s)'
    BY <1>2, <2>1 DEF ListedWell, InList, tables
  <2> QED BY <2>2, <2>3
<1>5. NoOrphans'
  BY <1>2 DEF TablesInv, NoOrphans, tables
<1>6. RowsInLists'
  <2>1. \A id : ~Pending(<<>>, id)
    BY NothingLeft DEF Pending
  <2>2. whole => \A id \in rows : Kind[id] # "Dashboard" => InList(id)
    BY <1>2, <2>1 DEF TablesInv, RowsInLists
  <2> QED BY <1>2, <2>2 DEF RowsInLists, InList, tables
<1>7. ASSUME NEW v \in Workers PROVE ParentsLast(todo[v])' /\ ListedWell(todo[v])'
  BY <1>1, <1>3, <1>4
<1>8. Base'
  BY <1>1, BaseBegins
<1> QED BY <1>5, <1>6, <1>7, <1>8 DEF TablesInv

\* ... and a restart of the daemon, ...
LEMMA TablesRestart == ASSUME TablesInv, Restart PROVE TablesInv'
<1>1. UNCHANGED <<tables, todo, whole>>
  BY DEF Restart
<1>2. ASSUME NEW w \in Workers PROVE ParentsLast(todo[w])' /\ ListedWell(todo[w])'
  <2>1. PICK s : s = todo[w]
    OBVIOUS
  <2>2. ParentsLast(s) /\ ListedWell(s) /\ todo'[w] = s
    BY <1>1, <2>1 DEF TablesInv
  <2>3. ParentsLast(s)'
    BY <1>1, <2>2 DEF ParentsLast, PartsOf, tables
  <2>4. ListedWell(s)'
    BY <1>1, <2>2 DEF ListedWell, InList, tables
  <2> QED BY <2>2, <2>3, <2>4
<1>3. NoOrphans' /\ RowsInLists'
  BY <1>1 DEF TablesInv, NoOrphans, RowsInLists, InList, tables
<1> QED BY <1>2, <1>3, BaseRestart DEF TablesInv

\* ... and they agree at first.
LEMMA TablesAtFirst == Init => TablesInv
<1> SUFFICES ASSUME Init PROVE TablesInv
  OBVIOUS
<1>1. ParentsLast(<<>>) /\ ListedWell(<<>>)
  BY NothingLeft DEF ParentsLast, ListedWell
<1>2. NoOrphans /\ RowsInLists
  BY PagesAssumption DEF Init, NoOrphans, RowsInLists
<1>3. \A w \in Workers : ParentsLast(todo[w]) /\ ListedWell(todo[w])
  BY <1>1 DEF Init
<1> QED BY <1>2, <1>3, BaseAtFirst DEF TablesInv

\* Between pages each row is once in its list.
LEMMA TablesDoAgree == TablesInv => TablesAgree
<1> SUFFICES ASSUME TablesInv PROVE TablesAgree
  OBVIOUS
<1>1. ASSUME whole, AllIdle, NEW id \in rows, Kind[id] # "Dashboard"
      PROVE  Cardinality({i \in DOMAIN order[ListOf[Kind[id]]] : order[ListOf[Kind[id]]][i] = id}) = 1
  <2>1. InList(id)
    <3>1. \A w \in Workers : ~Pending(todo[w], id)
      BY <1>1, NothingLeft DEF Pending, AllIdle, Idle
    <3> QED BY <1>1, <3>1 DEF TablesInv, RowsInLists
  <2>2. id \in Ids /\ order \in [Lists -> Seq(Ids)]
    BY DEF TablesInv, Base, TableTypes
  <2>3. order[ListOf[Kind[id]]] \in Seq(Ids)
    BY <1>1, <2>2, ListsOfKinds
  <2> DEFINE s == order[ListOf[Kind[id]]]
  <2>4. DOMAIN s = 1..Len(s)
    BY <2>3, LenProperties
  <2>5. PICK k \in 1..Len(s) : \A i \in 1..Len(s) : s[i] = id <=> i = k
    BY <2>1 DEF InList, Once
  <2>6. {i \in DOMAIN s : s[i] = id} = {k}
    BY <2>4, <2>5
  <2> QED BY <2>6, FS_Singleton
<1> QED BY <1>1 DEF TablesAgree, RowsListed, TablesInv

(***************************************************************************)
(* The daemon                                                              *)
(***************************************************************************)
\* What is left after a step still tells the daemon what has changed.
LEMMA CallsFollowKept ==
  ASSUME DaemonInv, NEW w \in Workers, Works(w), NEW s, NEW t, Goes(w, s, t)
  PROVE  CallsFollow(t)'
<1>1. /\ s \in Seq(Steps) /\ s # <<>> /\ t = Tail(s) /\ 1 \in 1..Len(s) /\ InPlace(s)
      /\ \A i \in 1..Len(t) : i + 1 \in 1..Len(s) /\ t[i] = s[i + 1]
      /\ s[1] = Step(w) /\ \A d : Doing(w, d) => s[1].do = d
      /\ s = todo[w] /\ s[1] \in Steps
  BY GoesOn
<1>2. CallsFollow(s) /\ KeepsComplete(s) /\ Base
  BY <1>1 DEF DaemonInv, CompleteInv
<1>3. /\ \A i \in 1..Len(t) : t[i].do \notin {"save", "convert", "clear", "resume"}
  <2>1. \A i \in 1..Len(t) : i + 1 # 1
    OBVIOUS
  <2> QED BY <1>1, <2>1 DEF InPlace
<1>4. called' => called
  BY DEF Works, Commit, InsertRow, ListRow, UnlistRow, WriteOrder, InsertPart, DeletePart, DeleteRow,
         SaveRow, ActivateRow, ResumeRow, DeactivateRow, ChangeConversion, DaemonDoes, CallFails,
         BreakOff, Advance, Abort
<1>5. \A id : Is(s, 1, "inactive", id) => id \notin active'
  <2>1. s[1].do = "inactive" => DeactivateRow(w)
    BY <1>2, Doings DEF Base
  <2> QED BY <1>1, <2>1 DEF Is, DeactivateRow
<1>6. ASSUME NEW i \in 1..Len(t)
      PROVE  /\ t[i].do = "active" => After(t, i, {"activate"}, t[i].id)
             /\ t[i].do = "inactive" => After(t, i, {"deactivate"}, t[i].id)
             /\ t[i].do = "insert" /\ Kind[t[i].id] = "Output" => After(t, i, {"setup"}, t[i].id)
             /\ t[i].do = "erase" /\ Kind[t[i].id] = "Output" => After(t, i, {"remove"}, t[i].id)
  <2>1. PICK k \in 1..Len(s) : k = i + 1 /\ t[i] = s[k]
    BY <1>1
  <2>2. \A C, id : After(s, k, C, id) => After(t, i, C, id)
    BY <1>1, <2>1, AfterTail
  <2> QED BY <1>2, <2>1, <2>2 DEF CallsFollow
<1>7. ASSUME NEW i \in 1..Len(t),
             t[i].do = "erase" \/ (t[i].do = "call" /\ t[i].call = "deactivate")
      PROVE  t[i].id \notin active' \/ Before(t, i, "inactive", t[i].id)
  <2>1. active' \subseteq active
    BY <1>1, <1>2, <1>7, NoneActivated DEF Activates
  <2>2. PICK k \in 1..Len(s) : k = i + 1 /\ t[i] = s[k]
    BY <1>1
  <2>3. t[i].id \notin active \/ Before(s, i + 1, "inactive", t[i].id)
    BY <1>2, <1>7, <2>2 DEF CallsFollow
  <2>4. Before(s, i + 1, "inactive", t[i].id) =>
          Before(t, i, "inactive", t[i].id) \/ Is(s, 1, "inactive", t[i].id)
    BY <1>1, BeforeTail
  <2> QED BY <1>5, <2>1, <2>3, <2>4
<1>8. ASSUME NEW i \in 1..Len(t), t[i].do = "drop", NEW p \in converted'
      PROVE  p.of \notin active' /\ (called' => p.of \notin running')
  <2>1. active' \subseteq active /\ ~Activates(s[1])
    BY <1>1, <1>2, <1>8, NoneActivated DEF Activates
  <2>2. PICK k \in 1..Len(s) : k = i + 1 /\ t[i] = s[k]
    BY <1>1
  <2>3. ~SaveRow(w) /\ \A q \in converted : q.of \notin active /\ (called => q.of \notin running)
    BY <1>1, <1>2, <1>8, <2>2 DEF KeepsComplete, SaveRow, CallsFollow
  <2>4. p \in converted /\ Kind[p.of] \in {"Input", "Math"}
    <3>1. p \in converted
      BY <1>8, <2>3 DEF Works, Commit, InsertRow, ListRow, UnlistRow, WriteOrder, InsertPart,
            DeletePart, DeleteRow, ActivateRow, ResumeRow, DeactivateRow, ChangeConversion,
            DaemonDoes, CallFails, BreakOff, tables
    <3> QED BY <1>2, <3>1 DEF Base, TableTypes, Convertible
  <2>5. p.of \in running' => p.of \in running
    <3>1. CASE DaemonDoes(w)
      <4>1. s[1].do = "call" /\ s[1].call # "activate"
        BY <1>1, <2>1, <3>1 DEF DaemonDoes, Activates
      <4>2. s[1].call = "setup" => Kind[s[1].id] = "Output"
        BY <1>1, <1>2, <4>1 DEF CallsFollow
      <4>3. Step(w) = s[1]
        BY <1>1
      <4> QED BY <2>4, <3>1, <4>1, <4>2, <4>3 DEF DaemonDoes
    <3>2. CASE ~DaemonDoes(w)
      BY <3>2 DEF Works, Commit, InsertRow, ListRow, UnlistRow, WriteOrder, InsertPart, DeletePart,
            DeleteRow, SaveRow, ActivateRow, ResumeRow, DeactivateRow, ChangeConversion, CallFails,
            BreakOff, daemon
    <3> QED BY <3>1, <3>2
  <2> QED BY <1>4, <2>1, <2>3, <2>4, <2>5
<1>9. ASSUME NEW i \in 1..Len(t), t[i].do = "call"
      PROVE  /\ t[i].call = "deactivate" => Kind[t[i].id] # "Output"
             /\ t[i].call = "setup" => Kind[t[i].id] = "Output"
             /\ t[i].call = "activate" => Kind[t[i].id] # "Output"
             /\ t[i].call = "remove" => /\ Kind[t[i].id] = "Output"
                                        /\ \A k \in 1..Len(t) : t[k].do # "insert"
  <2>1. PICK k \in 1..Len(s) : k = i + 1 /\ t[i] = s[k]
    BY <1>1
  <2>2. t[i].call = "remove" => \A j \in 1..Len(s) : s[j].do # "insert"
    BY <1>2, <1>9, <2>1 DEF CallsFollow
  <2>3. /\ t[i].call = "deactivate" => Kind[t[i].id] # "Output"
        /\ t[i].call = "setup" => Kind[t[i].id] = "Output"
        /\ t[i].call = "activate" => Kind[t[i].id] # "Output"
        /\ t[i].call = "remove" => Kind[t[i].id] = "Output"
    BY <1>2, <1>9, <2>1 DEF CallsFollow
  <2> QED BY <1>1, <2>2, <2>3
<1>10. ASSUME NEW i \in 1..Len(t), t[i].do = "call", t[i].call = "remove"
       PROVE  t[i].id \notin rows' \/ Before(t, i, "erase", t[i].id)
  <2>1. PICK k \in 1..Len(s) : k = i + 1 /\ t[i] = s[k]
    BY <1>1
  <2>2. /\ \A j \in 1..Len(s) : s[j].do # "insert"
        /\ t[i].id \notin rows \/ Before(s, i + 1, "erase", t[i].id)
    BY <1>2, <1>10, <2>1 DEF CallsFollow
  <2>3. rows' \subseteq rows
    <3>1. ~InsertRow(w)
      BY <1>1, <2>2 DEF InsertRow
    <3> QED BY <3>1 DEF Works, Commit, ListRow, UnlistRow, WriteOrder, InsertPart, DeletePart,
           DeleteRow, SaveRow, ActivateRow, ResumeRow, DeactivateRow, ChangeConversion, DaemonDoes,
           CallFails, BreakOff, tables
  <2>4. Before(s, i + 1, "erase", t[i].id) =>
          Before(t, i, "erase", t[i].id) \/ Is(s, 1, "erase", t[i].id)
    BY <1>1, BeforeTail
  <2>5. Is(s, 1, "erase", t[i].id) => t[i].id \notin rows'
    <3>1. s[1].do = "erase" => DeleteRow(w)
      BY <1>2, Doings DEF Base
    <3> QED BY <1>1, <3>1 DEF Is, DeleteRow
  <2> QED BY <2>2, <2>3, <2>4, <2>5
<1>11. ASSUME NEW i \in 1..Len(t), t[i].do \in {"clear", "drop", "convert"}
       PROVE  \A p \in converted' : p.of \notin active' /\ (called' => p.of \notin running')
  BY <1>3, <1>8, <1>11
<1> QED BY <1>3, <1>6, <1>7, <1>9, <1>10, <1>11 DEF CallsFollow, Runs

\* A page that breaks off with nothing left to call has changed nothing.
LEMMA AbortedInStep ==
  ASSUME DaemonInv, NEW w \in Workers, Works(w), todo'[w] # Tail(todo[w]), called'
  PROVE  UNCHANGED <<rows, active, running, stale>> /\ called /\ \A C, id : ~Owed(todo[w], C, id)
<1> DEFINE s == todo[w]
<1>1. /\ s \in Seq(Steps) /\ Step(w) = s[1] /\ 1 \in 1..Len(s) /\ DOMAIN s = 1..Len(s)
      /\ \A d : Doing(w, d) => Step(w).do = d
  BY FirstStep, LenProperties DEF DaemonInv, CompleteInv
<1>2. todo \in [Workers -> Seq(Steps)] /\ active \subseteq rows
  BY DEF DaemonInv, CompleteInv, Base, TableTypes
<1>3. ~Advance(w) /\ ~CallFails(w)
  BY <1>2 DEF Advance, CallFails
<1>4. Abort(w)
  BY <1>3 DEF Works, Commit, InsertRow, ListRow, UnlistRow, WriteOrder, InsertPart, DeletePart, DeleteRow,
         SaveRow, ActivateRow, ResumeRow, DeactivateRow, ChangeConversion, DaemonDoes, BreakOff
<1>5. called /\ \A i \in 1..Len(s) : s[i].do # "call"
  BY <1>1, <1>4 DEF Abort
<1>6. Step(w).do # "active"
  <2>1. CallsFollow(s)
    BY DEF DaemonInv
  <2>2. \A C, id : ~After(s, 1, C, id)
    BY <1>5 DEF After, Calling
  <2> QED BY <1>1, <2>1, <2>2 DEF CallsFollow
<1>7. \A C, id : ~Owed(s, C, id)
  BY <1>5 DEF Owed, Calling
<1> HIDE DEF s
<1>8. UnlistRow(w) \/ DeletePart(w) \/ BreakOff(w) \/ (DeleteRow(w) /\ Step(w).id \notin rows)
  BY <1>1, <1>3, <1>6 DEF Works, Commit, InsertRow, ListRow, WriteOrder, InsertPart, DeleteRow,
         SaveRow, ActivateRow, ResumeRow, DeactivateRow, ChangeConversion, DaemonDoes
<1>9. UNCHANGED <<rows, active, running, stale>>
  BY <1>2, <1>8 DEF UnlistRow, DeletePart, BreakOff, DeleteRow, tables, daemon
<1> QED BY <1>5, <1>7, <1>9 DEF s

\* What one step of a page changes, a later one tells the daemon, or has it
\* been told.
LEMMA FollowsStep ==
  ASSUME DaemonInv, NEW w \in Workers, Works(w), called', todo'[w] = Tail(todo[w]), NEW id \in Ids
  PROVE  /\ Runs(id)' \/ Owed(Tail(todo[w]), Changers, id)
         /\ id \notin stale' \/ Owed(Tail(todo[w]), Refreshers, id)
<1>1. PICK s, t : s = todo[w] /\ t = Tail(s)
  OBVIOUS
<1> DEFINE x == Step(w)
<1>2. /\ s \in Seq(Steps) /\ s # <<>> /\ x = s[1] /\ 1 \in 1..Len(s) /\ x \in Steps /\ InPlace(s)
      /\ \A d : Doing(w, d) => x.do = d
      /\ \A what, i : ~Before(s, 1, what, i)
  BY <1>1, FirstStep DEF DaemonInv, CompleteInv
<1>3. /\ rows \subseteq Ids /\ active \subseteq rows /\ stale \subseteq running /\ running \subseteq Ids
      /\ \A p \in converted : Kind[p.of] \in {"Input", "Math"}
      /\ \A i \in active : Kind[i] \in Controllers
  BY DEF DaemonInv, CompleteInv, Base, TableTypes, Convertible
<1>4. called /\ ~CallFails(w)
  BY DEF Works, Commit, InsertRow, ListRow, UnlistRow, WriteOrder, InsertPart, DeletePart, DeleteRow,
         SaveRow, ActivateRow, ResumeRow, DeactivateRow, ChangeConversion, DaemonDoes, CallFails,
         BreakOff, Advance, Abort
<1>5. CallsFollow(s) /\ Follows
  BY <1>1 DEF DaemonInv
<1>6. /\ Runs(id) \/ Owed(s, Changers, id)
      /\ id \notin stale \/ Owed(s, Refreshers, id)
  <2>1. \A v \in Workers : v # w => todo[v] = <<>>
    BY Progress DEF DaemonInv, CompleteInv
  <2>2. \A C, i : ~Owed(<<>>, C, i)
    BY NothingLeft DEF Owed
  <2>3. \A v \in Workers : todo[v] = s \/ todo[v] = <<>>
    BY <1>1, <2>1
  <2>4. \A C : (\E v \in Workers : Owed(todo[v], C, id)) => Owed(s, C, id)
    BY <2>2, <2>3
  <2> QED BY <1>4, <1>5, <2>4 DEF Follows
<1>7. \A C, i : Owed(s, C, i) => Owed(t, C, i) \/ (x.do = "call" /\ x.call \in C /\ x.id = i)
  <2> SUFFICES ASSUME NEW C, NEW i, Owed(s, C, i)
               PROVE  Owed(t, C, i) \/ (x.do = "call" /\ x.call \in C /\ x.id = i)
    OBVIOUS
  <2>1. Owed(t, C, i) \/ \E c \in C : Calling(s, 1, c, i)
    BY <1>1, <1>2, OwedTail
  <2> QED BY <1>2, <2>1 DEF Calling
<1>8. \A C : After(s, 1, C, x.id) => Owed(t, C, x.id)
  BY <1>1, <1>2, AfterFirst
<1>9. \A C, D, i : C \subseteq D /\ Owed(t, C, i) => Owed(t, D, i)
  BY DEF Owed
<1>10. /\ {"activate"} \subseteq Changers /\ {"setup"} \subseteq Changers /\ {"remove"} \subseteq Changers
       /\ {"deactivate"} \subseteq Changers /\ {"refresh", "setup"} \subseteq Refreshers
       /\ {"refresh"} \subseteq Refreshers /\ "activate" \notin Refreshers /\ "refresh" \notin Changers
  BY DEF Changers, Refreshers
<1> HIDE DEF x
<1> SUFFICES /\ Runs(id)' \/ Owed(t, Changers, id)
             /\ id \notin stale' \/ Owed(t, Refreshers, id)
  BY <1>1
<1>11. CASE x.do # "call" /\ UNCHANGED <<rows, active, running, stale>>
  BY <1>6, <1>7, <1>11 DEF Runs
<1>12. CASE InsertRow(w)
  <2>1. x.do = "insert" /\ rows' = rows \cup {x.id} /\ UNCHANGED <<active, running, stale>>
    BY <1>2, <1>12 DEF InsertRow, x, daemon
  <2>2. CASE id = x.id /\ Kind[id] = "Output"
    <3>1. After(s, 1, {"setup"}, x.id)
      BY <1>2, <1>5, <2>1, <2>2 DEF CallsFollow
    <3> QED BY <1>6, <1>7, <1>8, <1>9, <1>10, <2>1, <2>2, <3>1
  <2>3. CASE ~(id = x.id /\ Kind[id] = "Output")
    BY <1>6, <1>7, <2>1, <2>3 DEF Runs
  <2> QED BY <2>2, <2>3
<1>13. CASE DeleteRow(w)
  <2>1. x.do = "erase" /\ rows' = rows \ {x.id} /\ active' = active \ {x.id} /\ UNCHANGED <<running, stale>>
    BY <1>2, <1>13 DEF DeleteRow, x, daemon
  <2>2. x.id \notin active
    BY <1>2, <1>5, <2>1 DEF CallsFollow
  <2>3. CASE id = x.id /\ Kind[id] = "Output"
    <3>1. After(s, 1, {"remove"}, x.id)
      BY <1>2, <1>5, <2>1, <2>3 DEF CallsFollow
    <3> QED BY <1>6, <1>7, <1>8, <1>9, <1>10, <2>1, <2>3, <3>1
  <2>4. CASE ~(id = x.id /\ Kind[id] = "Output")
    BY <1>6, <1>7, <2>1, <2>2, <2>4 DEF Runs
  <2> QED BY <2>3, <2>4
<1>14. CASE SaveRow(w)
  <2>1. /\ x.do = "save" /\ UNCHANGED <<rows, active, running>>
        /\ stale' = IF x.settings /\ x.id \in running THEN stale \cup {x.id} ELSE stale
    BY <1>2, <1>14 DEF SaveRow, x
  <2>2. Runs(id)' \/ Owed(t, Changers, id)
    BY <1>6, <1>7, <2>1 DEF Runs
  <2>3. CASE id \in stale' /\ id \notin stale
    <3>1. x.settings /\ x.id \in running /\ id = x.id
      BY <2>1, <2>3
    <3>2. Runs(x.id)
      BY <1>2, <1>3, <1>4, <1>5, <2>1, <3>1 DEF CallsFollow
    <3>3. After(s, 1, {"refresh", "setup"}, x.id)
      BY <1>2, <1>5, <2>1, <3>1, <3>2 DEF CallsFollow, Runs
    <3> QED BY <1>8, <1>9, <1>10, <2>2, <3>1, <3>3
  <2>4. CASE id \notin stale' \/ id \in stale
    BY <1>6, <1>7, <2>1, <2>2, <2>4
  <2> QED BY <2>3, <2>4
<1>15. CASE ActivateRow(w)
  <2>1. /\ x.do = "active" /\ UNCHANGED <<rows, running, stale>>
        /\ active' = active \/ active' = active \cup {x.id}
    BY <1>2, <1>15 DEF ActivateRow, x, daemon
  <2>2. CASE id = x.id
    <3>1. After(s, 1, {"activate"}, x.id)
      BY <1>2, <1>5, <2>1 DEF CallsFollow
    <3> QED BY <1>6, <1>7, <1>8, <1>9, <1>10, <2>1, <2>2, <3>1
  <2>3. CASE id # x.id
    BY <1>6, <1>7, <2>1, <2>3 DEF Runs
  <2> QED BY <2>2, <2>3
<1>16. CASE DeactivateRow(w)
  <2>1. x.do = "inactive" /\ UNCHANGED <<rows, running, stale>> /\ active' = active \ {x.id}
    BY <1>2, <1>16 DEF DeactivateRow, x, daemon
  <2>2. CASE id = x.id
    <3>1. After(s, 1, {"deactivate"}, x.id)
      BY <1>2, <1>5, <2>1 DEF CallsFollow
    <3> QED BY <1>6, <1>7, <1>8, <1>9, <1>10, <2>1, <2>2, <3>1
  <2>3. CASE id # x.id
    BY <1>6, <1>7, <2>1, <2>3 DEF Runs
  <2> QED BY <2>2, <2>3
<1>17. CASE ResumeRow(w)
  <2>1. /\ x.do = "resume" /\ UNCHANGED <<rows, running>> /\ active' = active \cup {x.id}
        /\ stale' = IF x.id \in running THEN stale \cup {x.id} ELSE stale
    BY <1>2, <1>17 DEF ResumeRow, x
  <2>2. x.id \in active
    BY <1>2, <2>1 DEF InPlace
  <2>3. active' = active
    BY <2>1, <2>2
  <2>4. Runs(id)' \/ Owed(t, Changers, id)
    BY <1>6, <1>7, <2>1, <2>3 DEF Runs
  <2>5. After(s, 1, {"refresh"}, x.id)
    BY <1>2, <1>5, <2>1 DEF CallsFollow
  <2>6. Owed(t, Refreshers, x.id)
    BY <1>8, <1>9, <1>10, <2>5
  <2> QED BY <1>6, <1>7, <2>1, <2>4, <2>6
<1>18. CASE ChangeConversion(w)
  <2>1. /\ x.do \in {"clear", "drop", "convert"} /\ UNCHANGED <<rows, active, running>>
        /\ stale' = stale \cup {i \in running : PartsOf(i) \cap converted # {}}
    BY <1>2, <1>18 DEF ChangeConversion, x
  <2>2. \A p \in converted : p.of \notin running
    BY <1>2, <1>4, <1>5, <2>1 DEF CallsFollow
  <2>3. stale' = stale
    BY <2>1, <2>2 DEF PartsOf
  <2> QED BY <1>6, <1>7, <2>1, <2>3 DEF Runs
<1>19. CASE DaemonDoes(w)
  <2>1. x.do = "call" /\ UNCHANGED rows /\ x.id \in Ids
    BY <1>2, <1>19, StepFields DEF DaemonDoes, x
  <2>2. /\ x.call = "deactivate" => Kind[x.id] # "Output" /\ x.id \notin active
        /\ x.call = "setup" => Kind[x.id] = "Output"
        /\ x.call = "activate" => Kind[x.id] # "Output" /\ x.id \in active
        /\ x.call = "remove" => Kind[x.id] = "Output" /\ x.id \notin rows
    BY <1>2, <1>5, <2>1 DEF CallsFollow, InPlace
  <2>3. CASE id # x.id
    <3>1. Runs(id)' = Runs(id) /\ (id \in stale' <=> id \in stale)
      BY <1>19, <2>1, <2>3 DEF DaemonDoes, Runs, Forgotten, x
    <3> QED BY <1>6, <1>7, <2>3, <3>1
  <2>4. CASE id = x.id /\ x.call = "activate"
    <3>1. running' = running \cup {x.id} /\ active' = active \cup {x.id} /\ stale' = stale
      BY <1>19, <2>4 DEF DaemonDoes, x
    <3>2. Runs(id)'
      BY <2>1, <2>2, <2>4, <3>1 DEF Runs
    <3> QED BY <1>6, <1>7, <1>10, <2>4, <3>1, <3>2
  <2>5. CASE id = x.id /\ x.call = "setup"
    <3>1. running' = running \cup {x.id} /\ active' = active /\ stale' = stale \ {x.id} /\ x.id \in rows
      BY <1>19, <2>5 DEF DaemonDoes, x
    <3> QED BY <2>1, <2>2, <2>5, <3>1 DEF Runs
  <2>6. CASE id = x.id /\ x.call \in {"deactivate", "remove"}
    <3>1. running' = running \ {x.id} /\ active' \subseteq active /\ stale' = stale \ {x.id}
      BY <1>19, <2>6 DEF DaemonDoes, Forgotten, x
    <3> QED BY <1>3, <2>1, <2>2, <2>6, <3>1 DEF Runs
  <2>7. CASE id = x.id /\ x.call = "refresh"
    <3>1. stale' = stale \ {x.id} /\ UNCHANGED <<running, active>>
      BY <1>19, <2>7 DEF DaemonDoes, x
    <3>2. Runs(id)' = Runs(id)
      BY <2>1, <3>1 DEF Runs
    <3> QED BY <1>6, <1>7, <1>10, <2>7, <3>1, <3>2
  <2> QED BY <1>19, <2>3, <2>4, <2>5, <2>6, <2>7 DEF DaemonDoes, x
<1>20. CASE ListRow(w) \/ UnlistRow(w) \/ WriteOrder(w) \/ InsertPart(w) \/ DeletePart(w)
  BY <1>2, <1>11, <1>20 DEF ListRow, UnlistRow, WriteOrder, InsertPart, DeletePart, daemon
<1>21. CASE BreakOff(w)
  <2>1. UNCHANGED <<rows, active, running, stale>> /\ Abort(w)
    BY <1>21 DEF BreakOff, tables, daemon
  <2>2. DOMAIN s = 1..Len(s)
    BY <1>2, LenProperties
  <2>3. x.do # "call"
    BY <1>1, <1>2, <2>1, <2>2 DEF Abort
  <2> QED BY <1>11, <2>1, <2>3
<1> QED BY <1>4, <1>12, <1>13, <1>14, <1>15, <1>16, <1>17, <1>18, <1>19, <1>20, <1>21
        DEF Works, Commit

\* A step of a page keeps the daemon in step but for what is left to tell, ...
LEMMA DaemonWorks ==
  ASSUME DaemonInv, NEW w \in Workers, Works(w)
  PROVE  DaemonInv'
<1>1. /\ \A v \in Workers : v # w => todo'[v] = <<>>
      /\ todo'[w] = <<>> \/ Goes(w, todo[w], todo'[w])
  BY Progress DEF DaemonInv, CompleteInv
<1>2. CallsFollow(<<>>)'
  BY NothingLeft DEF CallsFollow
<1>3. ASSUME NEW v \in Workers PROVE CallsFollow(todo[v])'
  <2>1. CASE todo'[v] = <<>>
    BY <1>2, <2>1
  <2>2. CASE todo'[v] # <<>>
    <3>1. v = w /\ Goes(w, todo[w], todo'[w])
      BY <1>1, <2>2
    <3>2. PICK s, t : s = todo[w] /\ t = todo'[w]
      OBVIOUS
    <3>3. CallsFollow(t)'
      BY <3>1, <3>2, CallsFollowKept
    <3> QED BY <3>1, <3>2, <3>3
  <2> QED BY <2>1, <2>2
<1>4. Follows'
  <2> SUFFICES ASSUME called', NEW id \in Ids
               PROVE  /\ Runs(id)' \/ \E v \in Workers : Owed(todo[v], Changers, id)'
                      /\ id \notin stale' \/ \E v \in Workers : Owed(todo[v], Refreshers, id)'
    BY DEF Follows
  <2>1. CASE todo'[w] = Tail(todo[w])
    <3>1. PICK t : t = todo'[w]
      OBVIOUS
    <3>2. /\ Runs(id)' \/ Owed(t, Changers, id)
          /\ id \notin stale' \/ Owed(t, Refreshers, id)
      BY <2>1, <3>1, FollowsStep
    <3>3. Changers' = Changers /\ Refreshers' = Refreshers
      BY DEF Changers, Refreshers
    <3>4. Owed(todo[w], Changers, id)' <=> Owed(t, Changers, id)
      BY <3>1, <3>3 DEF Owed, Calling
    <3>5. Owed(todo[w], Refreshers, id)' <=> Owed(t, Refreshers, id)
      BY <3>1, <3>3 DEF Owed, Calling
    <3> QED BY <3>2, <3>4, <3>5
  <2>2. CASE todo'[w] # Tail(todo[w])
    <3>1. UNCHANGED <<rows, active, running, stale>> /\ called /\ \A C, i : ~Owed(todo[w], C, i)
      BY <2>2, AbortedInStep
    <3>2. \A v \in Workers : v # w => todo[v] = <<>>
      BY Progress DEF DaemonInv, CompleteInv
    <3>3. \A C, i : ~Owed(<<>>, C, i)
      BY NothingLeft DEF Owed
    <3>4. \A C, i : ~\E v \in Workers : Owed(todo[v], C, i)
      <4>1. ASSUME NEW v \in Workers, NEW C, NEW i PROVE ~Owed(todo[v], C, i)
        <5>1. CASE v = w
          BY <3>1, <5>1
        <5>2. CASE v # w
          <6>1. todo[v] = <<>>
            BY <3>2, <5>2
          <6> QED BY <3>3, <6>1
        <5> QED BY <5>1, <5>2
      <4> QED BY <4>1
    <3>5. Runs(id) /\ id \notin stale
      BY <3>1, <3>4 DEF DaemonInv, Follows
    <3> QED BY <3>1, <3>5 DEF Runs
  <2> QED BY <2>1, <2>2
<1>5. CompleteInv'
  BY CompleteWorks DEF DaemonInv
<1> QED BY <1>3, <1>4, <1>5 DEF DaemonInv

\* Between pages the daemon has been told all.
LEMMA InStepBetween ==
  ASSUME DaemonInv, AllIdle, called, NEW id \in Ids
  PROVE  Runs(id) /\ id \notin stale
<1>1. \A C, i : ~Owed(<<>>, C, i)
  BY NothingLeft DEF Owed
<1>2. \A w \in Workers : todo[w] = <<>>
  BY DEF AllIdle, Idle
<1>3. \A w \in Workers : ~Owed(todo[w], Changers, id) /\ ~Owed(todo[w], Refreshers, id)
  BY <1>1, <1>2
<1> QED BY <1>3 DEF DaemonInv, Follows

\* No shape of plan changes what it does not tell the daemon of.
LEMMA CallsFollowAtFirst ==
  ASSUME DaemonInv, AllIdle, NEW s \in Seq(Steps), Plan(s)
  PROVE  CallsFollow(s)
<1>0. /\ Len(s) \in Nat /\ active \subseteq rows /\ running \subseteq Ids
      /\ \A p \in converted : Kind[p.of] \in {"Input", "Math"} /\ p.of \in Ids
      /\ \A i \in active : Kind[i] \in Controllers
  BY LenProperties DEF DaemonInv, CompleteInv, Base, TableTypes, Convertible, Children, Parts
<1>1. called => \A id \in Ids : Runs(id) /\ id \notin stale
  BY InStepBetween
<1>2. ASSUME NEW id \in Ids, Adding(s, id) PROVE CallsFollow(s)
  <2>1. \A i \in 1..Len(s) : \/ s[i].do \in {"insert", "list", "part"}
                             \/ s[i].do = "call" /\ s[i].call = "setup" /\ Kind[s[i].id] = "Output"
    BY <1>0, <1>2 DEF Adding, Is, Calling
  <2>2. \A i \in 1..Len(s) : s[i].do = "insert" => i = 1 /\ s[i].id = id
    BY <1>0, <1>2 DEF Adding, Is, Calling
  <2>3. Kind[id] = "Output" => After(s, 1, {"setup"}, id)
    BY <1>2 DEF Adding
  <2> QED BY <2>1, <2>2, <2>3 DEF CallsFollow
<1>3. ASSUME NEW id \in Ids, Stopping(s, id)
      PROVE  /\ \A i \in 1..Len(s) : s[i].do = "inactive" => After(s, i, {"deactivate"}, s[i].id)
             /\ \A i \in 1..Len(s) : s[i].do = "call" /\ s[i].call = "deactivate" =>
                  Kind[s[i].id] # "Output" /\ Before(s, i, "inactive", s[i].id)
  <2>1. \A i \in 1..Len(s) : s[i].do = "inactive" =>
          After(s, i, {"deactivate"}, s[i].id) /\ Kind[s[i].id] \in Controllers
    BY <1>3 DEF Stopping
  <2>2. ASSUME NEW i \in 1..Len(s), s[i].do = "call", s[i].call = "deactivate"
        PROVE  Kind[s[i].id] # "Output" /\ Before(s, i, "inactive", s[i].id)
    <3>1. Before(s, i, "inactive", s[i].id)
      BY <1>3, <2>2 DEF Stopping
    <3>2. PICK j \in 1..(i - 1) : Is(s, j, "inactive", s[i].id)
      BY <3>1 DEF Before
    <3>3. j \in 1..Len(s) /\ s[j].do = "inactive" /\ s[j].id = s[i].id
      BY <1>0, <3>2 DEF Is
    <3>4. Kind[s[i].id] \in Controllers
      BY <2>1, <3>3
    <3> QED BY <3>1, <3>4 DEF Controllers
  <2> QED BY <2>1, <2>2
<1>4. ASSUME NEW id \in Ids, Deactivating(s, id) PROVE CallsFollow(s)
  <2>1. \A i \in 1..Len(s) : s[i].do = "inactive" \/ (s[i].do = "call" /\ s[i].call = "deactivate")
    BY <1>4 DEF Deactivating
  <2>2. Stopping(s, id)
    BY <1>4 DEF Deactivating
  <2> QED BY <1>3, <2>1, <2>2 DEF CallsFollow
<1>5. ASSUME NEW id \in Ids, NEW m \in 1..Len(s), Deleting(s, id, m) PROVE CallsFollow(s)
  <2>1. \A i \in 1..Len(s) : \/ s[i].do \in {"inactive", "unpart", "erase", "unlist"}
                             \/ s[i].do = "call" /\ s[i].call = "deactivate"
                             \/ /\ s[i].do = "call" /\ s[i].call = "remove" /\ s[i].id = id
                                /\ m \in 1..(i - 1) /\ Kind[id] = "Output"
    BY <1>5 DEF Deleting, Is, Calling
  <2>2. Stopping(s, id) /\ Is(s, m, "erase", id)
    BY <1>5 DEF Deleting, Is
  <2>3. \A i \in 1..Len(s) : s[i].do = "erase" => i = m /\ s[i].id = id
    BY <1>5 DEF Deleting
  <2>4. (Kind[id] = "Output" => After(s, m, {"remove"}, id)) /\ (id \in active => Before(s, m, "inactive", id))
    BY <1>5 DEF Deleting
  <2>5. \A i \in 1..Len(s) : s[i].do = "call" /\ s[i].call = "remove" =>
          Kind[s[i].id] = "Output" /\ Before(s, i, "erase", s[i].id)
    BY <2>1, <2>2 DEF Before
  <2>6. \A i \in 1..Len(s) : s[i].do \in {"inactive", "unpart", "erase", "unlist", "call"}
    BY <2>1
  <2>7. \A i \in 1..Len(s) : s[i].do = "call" => s[i].call \in {"deactivate", "remove"}
    BY <2>1
  <2> QED BY <1>3, <2>2, <2>3, <2>4, <2>5, <2>6, <2>7 DEF CallsFollow
<1>6. ASSUME NEW id \in Ids, Saving(s, id) PROVE CallsFollow(s)
  <2>1. s[1].do = "save" /\ s[1].id = id
    BY <1>6 DEF Saving, Is
  <2>2. \A i \in 2..Len(s) : \/ s[i].do \in {"part", "unpart"}
                             \/ s[i].do = "call" /\ s[i].call = "refresh"
                             \/ s[i].do = "call" /\ s[i].call = "setup" /\ Kind[s[i].id] = "Output"
    BY <1>6 DEF Saving, Is, Calling
  <2>3. \A i \in 1..Len(s) : i = 1 \/ i \in 2..Len(s)
    BY <1>0
  <2>4. s[1].settings => \/ id \notin active /\ Kind[id] # "Output"
                         \/ After(s, 1, {"refresh", "setup"}, id)
    BY <1>6 DEF Saving
  <2> QED BY <1>1, <2>1, <2>2, <2>3, <2>4 DEF CallsFollow
<1>7. ASSUME NEW id \in Ids, Activating(s, id) PROVE CallsFollow(s)
  <2>1. id \notin active /\ Kind[id] # "Output"
    BY <1>7 DEF Activating, Controllers
  <2>2. CASE Len(s) = 2
    <3>1. s[1].do = "active" /\ s[1].id = id /\ s[2].do = "call" /\ s[2].call = "activate" /\ s[2].id = id
      BY <1>7, <2>2 DEF Activating, Is, Calling
    <3>2. After(s, 1, {"activate"}, id)
      BY <2>2, <3>1 DEF After, Calling
    <3> QED BY <2>1, <2>2, <3>1, <3>2 DEF CallsFollow
  <2>3. CASE Len(s) = 3
    <3>1. /\ s[1].do = "save" /\ s[1].id = id /\ s[2].do = "active" /\ s[2].id = id
          /\ s[3].do = "call" /\ s[3].call = "activate" /\ s[3].id = id
      BY <1>7, <2>3 DEF Activating, Is, Calling
    <3>2. After(s, 2, {"activate"}, id)
      BY <2>3, <3>1 DEF After, Calling
    <3> QED BY <1>1, <2>1, <2>3, <3>1, <3>2 DEF CallsFollow
  <2> QED BY <1>7, <2>2, <2>3 DEF Activating
<1>8. ASSUME NEW id \in Ids, Resuming(s, id) PROVE CallsFollow(s)
  <2>1. /\ Len(s) = 2 /\ s[1].do = "resume" /\ s[1].id = id
        /\ s[2].do = "call" /\ s[2].call = "refresh" /\ s[2].id = id
    BY <1>8 DEF Resuming, Is, Calling
  <2>2. After(s, 1, {"refresh"}, id)
    BY <2>1 DEF After, Calling
  <2> QED BY <2>1, <2>2 DEF CallsFollow
<1>9. ASSUME Growing(s) \/ Shrinking(s) \/ Ordering(s) PROVE CallsFollow(s)
  BY <1>9 DEF Growing, Shrinking, Ordering, CallsFollow
<1>10. ASSUME Converting(s) PROVE CallsFollow(s)
  <2>1. \A i \in 1..Len(s) : s[i].do \in {"convert", "clear", "drop"}
    BY <1>10 DEF Converting
  <2>2. ASSUME NEW p \in converted PROVE p.of \notin active
    <3>1. CASE check_conversion_being_used
      BY <1>0, <3>1 DEF check_conversion_being_used
    <3>2. CASE ~conversion
      <4>1. p \in PartsOf(p.of) \cap converted
        BY DEF DaemonInv, CompleteInv, Base, TableTypes, PartsOf
      <4> QED BY <1>0, <3>2, <4>1 DEF DaemonInv, CompleteInv, ActiveComplete
    <3> QED BY <1>10, <3>1, <3>2 DEF Converting
  <2>3. ASSUME NEW p \in converted, called PROVE p.of \notin running
    BY <1>0, <1>1, <2>2, <2>3 DEF Runs
  <2> QED BY <2>1, <2>2, <2>3 DEF CallsFollow
<1> QED BY <1>2, <1>4, <1>5, <1>6, <1>7, <1>8, <1>9, <1>10 DEF Plan

\* ... as does the beginning of one, ...
LEMMA DaemonBegins ==
  ASSUME DaemonInv, NEW w \in Workers, NEW s, Begins(w, s)
  PROVE  DaemonInv'
<1>1. todo'[w] = s /\ \A v \in Workers : v # w => todo'[v] = <<>>
  BY Beginning DEF DaemonInv, CompleteInv
<1>2. UNCHANGED <<tables, daemon, called>> /\ AllIdle
  BY DEF Begins
<1>3. CallsFollow(<<>>)'
  BY NothingLeft DEF CallsFollow
<1>4. CallsFollow(s)'
  <2>1. CallsFollow(s)
    BY CallsFollowAtFirst DEF Begins
  <2>2. \A id : Runs(id)' = Runs(id)
    BY <1>2 DEF Runs, tables, daemon
  <2> QED BY <1>2, <2>1, <2>2 DEF CallsFollow, tables, daemon
<1>5. Follows'
  <2>1. called => \A id \in Ids : Runs(id) /\ id \notin stale
    BY <1>2, InStepBetween
  <2>2. \A id : Runs(id)' = Runs(id)
    BY <1>2 DEF Runs, tables, daemon
  <2> QED BY <1>2, <2>1, <2>2 DEF Follows, daemon
<1>6. CompleteInv'
  BY CompleteBegins DEF DaemonInv
<1>7. ASSUME NEW v \in Workers PROVE CallsFollow(todo[v])'
  BY <1>1, <1>3, <1>4
<1> QED BY <1>5, <1>6, <1>7 DEF DaemonInv

\* A daemon that starts is in step.
LEMMA DaemonRestart == ASSUME DaemonInv, Restart PROVE DaemonInv'
<1>1. /\ UNCHANGED <<tables, todo>> /\ stale' = {}
      /\ running' = active \cup {i \in rows : Kind[i] = "Output"}
  BY DEF Restart, OfKind
<1>2. \A id : Runs(id)' /\ id \notin stale'
  BY <1>1 DEF Runs, tables
<1>3. \A p \in converted : Kind[p.of] \in {"Input", "Math"}
  BY DEF DaemonInv, CompleteInv, Base, TableTypes, Convertible
<1>4. ASSUME NEW w \in Workers PROVE CallsFollow(todo[w])'
  <2>1. PICK s : s = todo[w]
    OBVIOUS
  <2>2. CallsFollow(s) /\ todo'[w] = s
    BY <1>1, <2>1 DEF DaemonInv
  <2>3. UNCHANGED <<rows, active, converted>>
    BY <1>1 DEF tables
  <2>4. CallsFollow(s)'
    BY <1>1, <1>2, <1>3, <2>2, <2>3 DEF CallsFollow
  <2> QED BY <2>2, <2>4
<1>5. Follows'
  BY <1>2 DEF Follows
<1>6. CompleteInv'
  BY CompleteRestart DEF DaemonInv
<1> QED BY <1>4, <1>5, <1>6 DEF DaemonInv

\* It is in step at first, ...
LEMMA DaemonAtFirst == Init => DaemonInv
<1> SUFFICES ASSUME Init PROVE DaemonInv
  OBVIOUS
<1>1. CallsFollow(<<>>)
  BY NothingLeft DEF CallsFollow
<1>2. \A id \in Ids : Runs(id) /\ id \notin stale
  BY PagesAssumption DEF Init, Runs
<1> QED BY <1>1, <1>2, CompleteAtFirst DEF DaemonInv, Follows, Init

\* ... and when no page has anything left to tell.
LEMMA DaemonIsInStep == DaemonInv => DaemonInStep
<1> SUFFICES ASSUME DaemonInv, called, AllIdle
             PROVE  running = active \cup OfKind("Output") /\ stale = {}
  BY DEF DaemonInStep
<1>1. \A id \in Ids : Runs(id) /\ id \notin stale
  BY InStepBetween
<1>2. active \subseteq Ids /\ rows \subseteq Ids /\ running \subseteq Ids /\ stale \subseteq Ids
  BY DEF DaemonInv, CompleteInv, Base, TableTypes
<1>3. \A id \in Ids : id \in running <=> id \in active \cup OfKind("Output")
  BY <1>1 DEF Runs, OfKind
<1>4. OfKind("Output") \subseteq Ids
  BY <1>2 DEF OfKind
<1> QED BY <1>1, <1>2, <1>3, <1>4

(***************************************************************************)
(* What pages are put together from                                        *)
(***************************************************************************)
\* What the provers are told of a step when a page is put together.
LEMMA StepsTyped ==
  /\ \A id \in Ids : Insert(id) \in Steps /\ Erase(id) \in Steps /\ SetInactive(id) \in Steps
                     /\ Resume(id) \in Steps
  /\ \A id \in Ids : Kind[id] # "Dashboard" => List(id) \in Steps /\ Unlist(id) \in Steps
  /\ \A id \in Ids : Kind[id] \in Controllers => SetActive(id) \in Steps
  /\ \A id \in Ids, c \in Calls : Call(c, id) \in Steps
  /\ \A p \in Children : ErasePart(p) \in Steps /\ \A f \in BOOLEAN : AddPart(p, f) \in Steps
  /\ \A l \in Lists, s \in Seq(Ids) : SetOrder(l, s) \in Steps
  /\ \A id \in Ids, f \in SUBSET Children, c \in SUBSET Convertible, src \in Ids \cup {NoSource},
        b \in BOOLEAN : Save(id, f, c, src, b) \in Steps
  /\ ClearConversion \in Steps /\ DropConversion \in Steps /\ SaveConversion \in Steps
<1>1. \A id \in Ids : Insert(id) \in Steps /\ Erase(id) \in Steps /\ SetInactive(id) \in Steps
                      /\ Resume(id) \in Steps
  BY DEF Steps, Insert, Erase, SetInactive, Resume
<1>2. \A id \in Ids : Kind[id] # "Dashboard" => List(id) \in Steps /\ Unlist(id) \in Steps
  BY DEF Steps, List, Unlist
<1>3. \A id \in Ids : Kind[id] \in Controllers => SetActive(id) \in Steps
  BY DEF Steps, SetActive
<1>4. \A id \in Ids, c \in Calls : Call(c, id) \in Steps
  BY DEF Steps, Call
<1>5. \A p \in Children : ErasePart(p) \in Steps /\ \A f \in BOOLEAN : AddPart(p, f) \in Steps
  BY DEF Steps, ErasePart, AddPart
<1>6. \A l \in Lists, s \in Seq(Ids) : SetOrder(l, s) \in Steps
  BY DEF Steps, SetOrder
<1>7. \A id \in Ids, f \in SUBSET Children, c \in SUBSET Convertible, src \in Ids \cup {NoSource},
         b \in BOOLEAN : Save(id, f, c, src, b) \in Steps
  BY DEF Steps, Save
<1>8. ClearConversion \in Steps /\ DropConversion \in Steps /\ SaveConversion \in Steps
  BY DEF Steps, ClearConversion, DropConversion, SaveConversion
<1> QED BY <1>1, <1>2, <1>3, <1>4, <1>5, <1>6, <1>7, <1>8

\* Short sequences.
LEMMA OneStep ==
  ASSUME NEW x \in Steps
  PROVE  <<x>> \in Seq(Steps) /\ Len(<<x>>) = 1 /\ <<x>>[1] = x
OBVIOUS

\* Of two, ...
LEMMA TwoSteps ==
  ASSUME NEW x \in Steps, NEW y \in Steps
  PROVE  /\ <<x, y>> \in Seq(Steps) /\ Len(<<x, y>>) = 2
         /\ <<x, y>>[1] = x /\ <<x, y>>[2] = y
OBVIOUS

\* ... three, ...
LEMMA ThreeSteps ==
  ASSUME NEW x \in Steps, NEW y \in Steps, NEW z \in Steps
  PROVE  /\ <<x, y, z>> \in Seq(Steps) /\ Len(<<x, y, z>>) = 3
         /\ <<x, y, z>>[1] = x /\ <<x, y, z>>[2] = y /\ <<x, y, z>>[3] = z
OBVIOUS

\* ... or four.
LEMMA FourSteps ==
  ASSUME NEW x \in Steps, NEW y \in Steps, NEW z \in Steps, NEW v \in Steps
  PROVE  /\ <<x, y, z, v>> \in Seq(Steps) /\ Len(<<x, y, z, v>>) = 4
         /\ <<x, y, z, v>>[1] = x /\ <<x, y, z, v>>[2] = y /\ <<x, y, z, v>>[3] = z
         /\ <<x, y, z, v>>[4] = v
OBVIOUS

\* One step before two others.
LEMMA OneThenTwo ==
  ASSUME NEW x \in Steps, NEW y \in Steps, NEW z \in Steps
  PROVE  <<x>> \o <<y, z>> = <<x, y, z>>
<1>1. /\ <<x>> \o <<y, z>> \in Seq(Steps)
      /\ Len(<<x>> \o <<y, z>>) = Len(<<x>>) + Len(<<y, z>>)
      /\ \A i \in 1..(Len(<<x>>) + Len(<<y, z>>)) : (<<x>> \o <<y, z>>)[i] =
           IF i <= Len(<<x>>) THEN <<x>>[i] ELSE <<y, z>>[i - Len(<<x>>)]
  BY OneStep, TwoSteps, ConcatProperties
<1>2. PICK c : c = <<x>> \o <<y, z>>
  OBVIOUS
<1>3. c \in Seq(Steps) /\ Len(c) = 3 /\ c[1] = x /\ c[2] = y /\ c[3] = z
  BY <1>1, <1>2, OneStep, TwoSteps
<1>4. \A i \in 1..Len(c) : c[i] = <<x, y, z>>[i]
  BY <1>3
<1>5. <<x, y, z>> \in Seq(Steps) /\ Len(<<x, y, z>>) = 3
  OBVIOUS
<1> QED BY <1>2, <1>3, <1>4, <1>5, SeqEqual

\* A finite set as a sequence has each of its elements, and nothing else.
LEMMA Enumerates ==
  ASSUME NEW S, IsFiniteSet(S)
  PROVE  /\ SetToSeq(S) \in Seq(S) /\ Len(SetToSeq(S)) \in Nat
         /\ DOMAIN SetToSeq(S) = 1..Len(SetToSeq(S))
         /\ \A x \in S : \E i \in 1..Len(SetToSeq(S)) : SetToSeq(S)[i] = x
<1>1. PICK n \in Nat : n = Cardinality(S)
  BY FS_CardinalityType
<1>2. PICK f : f \in Bijection(1..n, S)
  BY <1>1, FS_CardinalityType DEF ExistsBijection
<1>3. \E g \in [1..n -> S] : IsInjective(g)
  BY <1>2 DEF Bijection, Injection, IsInjective
<1>4. SetToSeq(S) \in [1..n -> S] /\ IsInjective(SetToSeq(S))
  BY <1>1, <1>3 DEF SetToSeq
<1>5. SetToSeq(S) \in Injection(1..n, S)
  BY <1>4 DEF IsInjective, Injection
<1>6. Cardinality(1..n) = n
  BY FS_Interval
<1>7. SetToSeq(S) \in Surjection(1..n, S)
  BY <1>1, <1>5, <1>6, FS_Injection
<1>8. SetToSeq(S) \in Seq(S) /\ Len(SetToSeq(S)) = n
  BY <1>4
<1> QED BY <1>4, <1>7, <1>8 DEF Surjection

\* The children are deleted, each of them, and none but them.
LEMMA ErasesAll ==
  ASSUME NEW S, S \subseteq Children, IsFiniteSet(S)
  PROVE  /\ EraseParts(S) \in Seq(Steps) /\ Len(EraseParts(S)) \in Nat
         /\ \A i \in 1..Len(EraseParts(S)) :
              EraseParts(S)[i].do = "unpart" /\ EraseParts(S)[i].part \in S
         /\ \A p \in S : \E i \in 1..Len(EraseParts(S)) : Removing(EraseParts(S), i, p)
<1>1. PICK e : e = SetToSeq(S)
  OBVIOUS
<1>2. /\ e \in Seq(S) /\ Len(e) \in Nat /\ DOMAIN e = 1..Len(e)
      /\ \A x \in S : \E i \in 1..Len(e) : e[i] = x
  BY <1>1, Enumerates
<1>3. EraseParts(S) = [i \in 1..Len(e) |-> ErasePart(e[i])]
  BY <1>1, <1>2 DEF EraseParts, Sequential
<1>4. \A i \in 1..Len(e) : e[i] \in S /\ ErasePart(e[i]) \in Steps
  BY <1>2, StepsTyped
<1>5. EraseParts(S) \in [1..Len(e) -> Steps]
  BY <1>3, <1>4
<1>6. EraseParts(S) \in Seq(Steps) /\ Len(EraseParts(S)) = Len(e)
  BY <1>2, <1>5
<1>7. \A i \in 1..Len(e) : EraseParts(S)[i].do = "unpart" /\ EraseParts(S)[i].part = e[i]
  BY <1>3 DEF ErasePart
<1> QED BY <1>2, <1>4, <1>6, <1>7 DEF Removing

\* A sequence that goes on with two more.
LEMMA TwoMore ==
  ASSUME NEW x \in Seq(Steps), NEW u \in Seq(Steps), NEW v \in Seq(Steps),
         Len(v) = 2, Len(x) = Len(u) + 2, \A j \in 1..Len(u) : x[j] = u[j],
         x[Len(u) + 1] = v[1], x[Len(u) + 2] = v[2]
  PROVE  x = u \o v
<1>1. Len(u) \in Nat
  BY LenProperties
<1>2. /\ u \o v \in Seq(Steps) /\ Len(u \o v) = Len(u) + Len(v)
      /\ \A i \in 1..(Len(u) + Len(v)) : (u \o v)[i] = IF i <= Len(u) THEN u[i] ELSE v[i - Len(u)]
  BY ConcatProperties
<1>3. \A i \in 1..Len(x) : i \in 1..Len(u) \/ i = Len(u) + 1 \/ i = Len(u) + 2
  BY <1>1
<1>4. \A i \in 1..Len(x) : x[i] = (u \o v)[i]
  BY <1>1, <1>2, <1>3
<1> QED BY <1>2, <1>4, SeqEqual

\* Pairs of steps, one after the other.
LEMMA Pairs ==
  ASSUME NEW n \in Nat, NEW a \in [1..n -> Steps], NEW b \in [1..n -> Steps],
         NEW q \in [1..n -> Seq(Steps)], \A i \in 1..n : q[i] = <<a[i], b[i]>>
  PROVE  /\ FlattenSeq(q) \in Seq(Steps) /\ Len(FlattenSeq(q)) = 2 * n
         /\ \A i \in 1..n : FlattenSeq(q)[2 * i - 1] = a[i] /\ FlattenSeq(q)[2 * i] = b[i]
<1> DEFINE G(i) == [j \in 1..(2 * i) |-> IF j % 2 = 1 THEN a[(j + 1) \div 2] ELSE b[j \div 2]]
           g == [i \in 1..n |-> G(i)]
           F(f) == [i \in 1..n |-> IF i = 1 THEN q[i] ELSE f[i - 1] \o q[i]]
           flat == CHOOSE f : f = F(f)
<1>1. /\ Len(q) = n
      /\ \A i \in 1..n : /\ q[i] = <<a[i], b[i]>> /\ a[i] \in Steps /\ b[i] \in Steps
                         /\ q[i] \in Seq(Steps) /\ Len(q[i]) = 2
  <2> HIDE DEF G, g, F, flat
  <2>1. \A i \in 1..n : q[i] = <<a[i], b[i]>> /\ a[i] \in Steps /\ b[i] \in Steps
    OBVIOUS
  <2>2. \A i \in 1..n : q[i] \in Seq(Steps) /\ Len(q[i]) = 2
    BY <2>1, TwoSteps
  <2>3. Len(q) = n
    OBVIOUS
  <2> QED BY <2>1, <2>2, <2>3
<1>2. ASSUME NEW i \in 1..n
      PROVE  /\ G(i) \in Seq(Steps) /\ Len(G(i)) = 2 * i
             /\ \A j \in 1..i : G(i)[2 * j - 1] = a[j] /\ G(i)[2 * j] = b[j]
  <2>1. \A j \in 1..(2 * i) : \/ j % 2 = 1 /\ (j + 1) \div 2 \in 1..n
                              \/ j % 2 # 1 /\ j \div 2 \in 1..n
    OBVIOUS
  <2>2. G(i) \in [1..(2 * i) -> Steps]
    BY <2>1
  <2>3. \A j \in 1..i : /\ 2 * j - 1 \in 1..(2 * i) /\ (2 * j - 1) % 2 = 1 /\ (2 * j - 1 + 1) \div 2 = j
                        /\ 2 * j \in 1..(2 * i) /\ (2 * j) % 2 # 1 /\ (2 * j) \div 2 = j
    OBVIOUS
  <2> QED BY <2>2, <2>3
<1>3. n # 0 => G(1) = q[1]
  <2> SUFFICES ASSUME n # 0 PROVE G(1) = q[1]
    OBVIOUS
  <2>1. 1 \in 1..n /\ G(1) \in Seq(Steps) /\ Len(G(1)) = 2 /\ G(1)[1] = a[1] /\ G(1)[2] = b[1]
    BY <1>2
  <2>2. q[1] = <<a[1], b[1]>> /\ q[1] \in Seq(Steps) /\ Len(q[1]) = 2
    BY <1>1, <2>1
  <2> HIDE DEF G
  <2> QED BY <2>1, <2>2, SeqEqual
<1>4. ASSUME NEW i \in 2..n PROVE G(i) = G(i - 1) \o q[i]
  <2>1. i \in 1..n /\ i - 1 \in 1..n
    OBVIOUS
  <2>2. q[i] = <<a[i], b[i]>> /\ q[i] \in Seq(Steps) /\ Len(q[i]) = 2
    BY <1>1, <2>1
  <2>3. /\ G(i) \in Seq(Steps) /\ Len(G(i)) = 2 * i
        /\ G(i - 1) \in Seq(Steps) /\ Len(G(i - 1)) = 2 * (i - 1)
        /\ G(i)[2 * i - 1] = a[i] /\ G(i)[2 * i] = b[i]
    BY <1>2, <2>1
  <2>4. \A j \in 1..(2 * (i - 1)) : G(i)[j] = G(i - 1)[j]
    OBVIOUS
  <2> HIDE DEF G
  <2>5. PICK x, u : x = G(i) /\ u = G(i - 1)
    OBVIOUS
  <2>6. /\ x \in Seq(Steps) /\ u \in Seq(Steps) /\ Len(u) = 2 * (i - 1) /\ Len(x) = 2 * i
        /\ x[2 * i - 1] = q[i][1] /\ x[2 * i] = q[i][2]
        /\ \A j \in 1..(2 * (i - 1)) : x[j] = u[j]
    BY <2>2, <2>3, <2>4, <2>5
  <2>8. Len(x) = Len(u) + 2 /\ Len(u) + 1 = 2 * i - 1 /\ Len(u) + 2 = 2 * i
    <3>1. i \in Int /\ Len(u) = 2 * (i - 1) /\ Len(x) = 2 * i
      BY <2>6
    <3>2. 2 * (i - 1) + 2 = 2 * i /\ 2 * (i - 1) + 1 = 2 * i - 1
      BY <3>1
    <3>3. Len(x) = Len(u) + 2
      BY <3>1, <3>2
    <3>4. Len(u) + 1 = 2 * i - 1
      BY <3>1, <3>2
    <3> QED BY <3>1, <3>2, <3>3, <3>4
  <2>9. \A j \in 1..Len(u) : x[j] = u[j]
    BY <2>6
  <2>10. x[Len(u) + 1] = q[i][1] /\ x[Len(u) + 2] = q[i][2]
    BY <2>6, <2>8
  <2>7. x = u \o q[i]
    BY <2>2, <2>6, <2>8, <2>9, <2>10, TwoMore
  <2> QED BY <2>5, <2>7
<1>5. ASSUME n # 0
      PROVE  FlattenSeq(q) = G(n)
  <2>1. FlattenSeq(q) = flat[n]
    BY <1>1, <1>5 DEF FlattenSeq
  <2>2. g = F(g)
    <3> HIDE DEF G
    <3>0. \A i \in 1..n : g[i] = G(i)
      OBVIOUS
    <3> HIDE DEF g
    <3>1. ASSUME NEW i \in 1..n PROVE g[i] = IF i = 1 THEN q[i] ELSE g[i - 1] \o q[i]
      <4>1. CASE i = 1
        BY <1>3, <1>5, <3>0, <4>1
      <4>2. CASE i # 1
        <5>1. i \in 2..n /\ i - 1 \in 1..n
          BY <4>2
        <5> QED BY <1>4, <3>0, <4>2, <5>1
      <4> QED BY <4>1, <4>2
    <3> QED BY <3>1 DEF g
  <2> HIDE DEF G, g
  <2>3. flat = F(flat)
    BY <2>2
  <2> HIDE DEF flat
  <2>4. ASSUME NEW i \in 1..n PROVE flat[i] = g[i]
    <3> DEFINE T == {k \in 1..n : flat[k] # g[k]}
    <3>1. SUFFICES ASSUME T # {} PROVE FALSE
      OBVIOUS
    <3>2. PICK k \in T : \A m \in T : k <= m
      <4>1. T \in SUBSET Nat
        OBVIOUS
      <4> HIDE DEF T
      <4> QED BY <3>1, <4>1, LeastOf
    <3>3. k \in 1..n /\ flat[k] # g[k] /\ (k # 1 => flat[k - 1] = g[k - 1])
      <4>1. k \in 1..n /\ flat[k] # g[k]
        BY <3>2
      <4>2. k - 1 \notin T
        <5> HIDE DEF T
        <5> QED BY <3>2, <4>1
      <4>3. k # 1 => k - 1 \in 1..n
        BY <4>1
      <4> QED BY <4>1, <4>2, <4>3
    <3>4. /\ flat[k] = IF k = 1 THEN q[k] ELSE flat[k - 1] \o q[k]
          /\ g[k] = IF k = 1 THEN q[k] ELSE g[k - 1] \o q[k]
      BY <2>2, <2>3, <3>3
    <3> QED BY <3>3, <3>4
  <2> QED BY <1>5, <2>1, <2>4 DEF g
<1> HIDE DEF G, g, F, flat
<1>6. CASE n = 0
  <2>1. FlattenSeq(q) = q
    BY <1>1, <1>6 DEF FlattenSeq
  <2>2. q \in [1..0 -> Steps]
    BY <1>6
  <2>3. q \in Seq(Steps)
    BY <2>2
  <2>4. 2 * n = 0 /\ Len(FlattenSeq(q)) = 0 /\ \A i \in 1..n : FALSE
    BY <1>1, <1>6, <2>1
  <2> QED BY <2>1, <2>3, <2>4
<1>7. CASE n # 0
  <2>1. n \in 1..n
    BY <1>7
  <2> QED BY <1>2, <1>5, <1>7, <2>1
<1> QED BY <1>6, <1>7

\* What a page is known to find: it is the only one.
Found == SourceInv /\ TablesInv /\ DaemonInv /\ AllIdle

\* How the pages are used in the run PagesInStep.
InTurn ==
  ~Overlap /\ ~StaleForms /\ ~Retarget /\ ActionType = "output" /\ ConditionType = "measurement"

\* The part of a page that stops a controller, before its row is deleted.
Stops(d, id) ==
  /\ d \in Seq(Steps) /\ Deactivating(d, id)
  /\ id \in active => Before(d, Len(d) + 1, "inactive", id)
  /\ Kind[id] = "Input" =>
       \A p \in active : Kind[p] = "PID" /\ source[p] = id => Before(d, Len(d) + 1, "inactive", p)

\* Nothing that is not active has to be stopped.
LEMMA StopsNothing ==
  ASSUME Found, NEW id \in Ids, id \notin active
  PROVE  Stops(<<>>, id)
<1>1. \A p \in active : Kind[p] = "PID" /\ source[p] = id => Kind[id] # "Input"
  BY DEF Found, SourceInv, SourceIsSampled, Base, TableTypes
<1> QED BY <1>1, NothingLeft DEF Stops, Deactivating, Stopping

\* What controller_deactivate has to do stops anything but an input.
LEMMA StopsController ==
  ASSUME NEW id \in Ids, Kind[id] \in Controllers \ {"Input"}
  PROVE  Stops(controller_deactivate(id), id)
<1> DEFINE d == controller_deactivate(id)
<1>0. SetInactive(id) \in Steps /\ Call("deactivate", id) \in Steps
  BY StepsTyped DEF Calls
<1>1. /\ d \in Seq(Steps) /\ Len(d) = 2 /\ Is(d, 1, "inactive", id) /\ Calling(d, 2, "deactivate", id)
      /\ d[1].do = "inactive" /\ d[2].do = "call"
  <2>1. d \in Seq(Steps) /\ Len(d) = 2 /\ d[1] = SetInactive(id) /\ d[2] = Call("deactivate", id)
    BY <1>0, TwoSteps DEF controller_deactivate
  <2> QED BY <2>1 DEF Is, Calling, SetInactive, Call
<1> HIDE DEF d
<1>2. Before(d, Len(d) + 1, "inactive", id) /\ Before(d, 2, "inactive", id)
  BY <1>1 DEF Before
<1>3. After(d, 1, {"deactivate"}, id)
  BY <1>1 DEF After
<1>4. Deactivating(d, id)
  BY <1>1, <1>2, <1>3 DEF Deactivating, Stopping, Is, Calling, Controllers
<1> QED BY <1>1, <1>2, <1>4 DEF Stops, d

\* A PID is called inactive twice.
LEMMA StopsPID ==
  ASSUME NEW id \in Ids, Kind[id] = "PID"
  PROVE  Stops(pid_deactivate(id), id)
<1> DEFINE d == pid_deactivate(id)
<1>0. SetInactive(id) \in Steps /\ Call("deactivate", id) \in Steps
  BY StepsTyped DEF Calls
<1>1. /\ d \in Seq(Steps) /\ Len(d) = 3 /\ Is(d, 1, "inactive", id) /\ Is(d, 2, "inactive", id)
      /\ Calling(d, 3, "deactivate", id)
      /\ d[1].do = "inactive" /\ d[2].do = "inactive" /\ d[3].do = "call"
  <2>1. d = <<SetInactive(id), SetInactive(id), Call("deactivate", id)>>
    BY <1>0, OneThenTwo DEF pid_deactivate, controller_deactivate
  <2>2. /\ d \in Seq(Steps) /\ Len(d) = 3
        /\ d[1] = SetInactive(id) /\ d[2] = SetInactive(id) /\ d[3] = Call("deactivate", id)
    BY <1>0, <2>1, ThreeSteps
  <2> QED BY <2>2 DEF Is, Calling, SetInactive, Call
<1> HIDE DEF d
<1>2. Before(d, Len(d) + 1, "inactive", id) /\ Before(d, 3, "inactive", id)
  BY <1>1 DEF Before
<1>3. After(d, 1, {"deactivate"}, id) /\ After(d, 2, {"deactivate"}, id)
  BY <1>1 DEF After
<1>4. Deactivating(d, id)
  BY <1>1, <1>2, <1>3 DEF Deactivating, Stopping, Is, Calling, Controllers
<1> QED BY <1>1, <1>2, <1>4 DEF Stops, d

\* The PIDs that use an input are deactivated, ...
LEMMA UsersFirst ==
  ASSUME Found, NEW id \in Ids
  PROVE  LET u == input_deactivate_associated_controllers(id) IN
         /\ u \in Seq(Steps) /\ Len(u) \in Nat
         /\ \A i \in 1..Len(u) :
              \/ u[i].do = "inactive" /\ Kind[u[i].id] = "PID" /\ After(u, i, {"deactivate"}, u[i].id)
              \/ u[i].do = "call" /\ u[i].call = "deactivate" /\ Before(u, i, "inactive", u[i].id)
         /\ \A p \in active : Kind[p] = "PID" /\ source[p] = id =>
              Before(u, Len(u) + 1, "inactive", p)
<1>1. PICK S : S = {p \in active : Kind[p] = "PID" /\ source[p] = id}
  OBVIOUS
<1>2. IsFiniteSet(S) /\ S \subseteq Ids
  <2>1. S \in SUBSET rows /\ IsFiniteSet(rows) /\ rows \subseteq Ids
    BY <1>1 DEF Found, SourceInv, Base, TableTypes
  <2> QED BY <2>1, FS_Subset
<1>3. PICK e : e = SetToSeq(S)
  OBVIOUS
<1>4. PICK n \in Nat : n = Len(e)
  BY <1>2, <1>3, Enumerates
<1>5. /\ DOMAIN e = 1..n /\ (\A i \in 1..n : e[i] \in Ids /\ Kind[e[i]] = "PID")
      /\ \A p \in S : \E i \in 1..n : e[i] = p
  <2>1. e \in Seq(S) /\ DOMAIN e = 1..n /\ \A p \in S : \E i \in 1..n : e[i] = p
    BY <1>2, <1>3, <1>4, Enumerates
  <2> QED BY <1>1, <1>2, <1>4, <2>1
<1>6. PICK a, b : a = [i \in 1..n |-> SetInactive(e[i])] /\ b = [i \in 1..n |-> Call("deactivate", e[i])]
  OBVIOUS
<1>7. a \in [1..n -> Steps] /\ b \in [1..n -> Steps]
  BY <1>5, <1>6, StepsTyped DEF Calls
<1>8. PICK q : q = [i \in 1..n |-> <<a[i], b[i]>>]
  OBVIOUS
<1>9. PICK u : u = input_deactivate_associated_controllers(id)
  OBVIOUS
<1>10. u = FlattenSeq(q)
  <2>1. q = [i \in DOMAIN e |-> controller_deactivate(e[i])]
    BY <1>5, <1>6, <1>8 DEF controller_deactivate
  <2> QED BY <1>1, <1>3, <1>9, <2>1 DEF input_deactivate_associated_controllers
<1>11. /\ u \in Seq(Steps) /\ Len(u) = 2 * n
       /\ \A i \in 1..n : u[2 * i - 1] = a[i] /\ u[2 * i] = b[i]
  <2>1. /\ FlattenSeq(q) \in Seq(Steps) /\ Len(FlattenSeq(q)) = 2 * n
        /\ \A i \in 1..n : FlattenSeq(q)[2 * i - 1] = a[i] /\ FlattenSeq(q)[2 * i] = b[i]
    <3>1. q \in [1..n -> Seq(Steps)] /\ \A i \in 1..n : q[i] = <<a[i], b[i]>>
      BY <1>7, <1>8
    <3> QED BY <1>7, <3>1, Pairs
  <2> QED BY <1>10, <2>1
<1>12. ASSUME NEW i \in 1..n
       PROVE  /\ 2 * i - 1 \in 1..Len(u) /\ 2 * i \in 1..Len(u)
              /\ Is(u, 2 * i - 1, "inactive", e[i]) /\ Calling(u, 2 * i, "deactivate", e[i])
              /\ After(u, 2 * i - 1, {"deactivate"}, e[i]) /\ Before(u, 2 * i, "inactive", e[i])
              /\ Before(u, Len(u) + 1, "inactive", e[i])
  <2>1. 2 * i - 1 \in 1..Len(u) /\ 2 * i \in 1..Len(u) /\ 2 * i - 1 < 2 * i
        /\ 2 * i - 1 \in 1..(2 * i - 1) /\ 2 * i - 1 \in 1..(Len(u) + 1 - 1)
    BY <1>11
  <2>2. Is(u, 2 * i - 1, "inactive", e[i]) /\ Calling(u, 2 * i, "deactivate", e[i])
    BY <1>6, <1>11 DEF Is, Calling, SetInactive, Call
  <2>3. After(u, 2 * i - 1, {"deactivate"}, e[i])
    BY <2>1, <2>2 DEF After
  <2>4. Before(u, 2 * i, "inactive", e[i]) /\ Before(u, Len(u) + 1, "inactive", e[i])
    BY <2>1, <2>2 DEF Before
  <2> QED BY <2>1, <2>2, <2>3, <2>4
<1>13. ASSUME NEW i \in 1..Len(u)
       PROVE  \/ u[i].do = "inactive" /\ Kind[u[i].id] = "PID" /\ After(u, i, {"deactivate"}, u[i].id)
              \/ u[i].do = "call" /\ u[i].call = "deactivate" /\ Before(u, i, "inactive", u[i].id)
  <2>1. PICK k \in 1..n : i = 2 * k - 1 \/ i = 2 * k
    <3>1. (i + 1) \div 2 \in 1..n /\ (i = 2 * ((i + 1) \div 2) - 1 \/ i = 2 * ((i + 1) \div 2))
      BY <1>11
    <3> QED BY <3>1
  <2>2. CASE i = 2 * k - 1
    <3>1. u[i].do = "inactive" /\ u[i].id = e[k] /\ After(u, i, {"deactivate"}, e[k])
      BY <1>12, <2>2 DEF Is
    <3> QED BY <1>5, <3>1
  <2>3. CASE i = 2 * k
    <3>1. u[i].do = "call" /\ u[i].call = "deactivate" /\ u[i].id = e[k] /\ Before(u, i, "inactive", e[k])
      BY <1>12, <2>3 DEF Calling
    <3> QED BY <3>1
  <2> QED BY <2>1, <2>2, <2>3
<1>14. ASSUME NEW p \in active, Kind[p] = "PID" /\ source[p] = id
       PROVE  Before(u, Len(u) + 1, "inactive", p)
  <2>1. PICK i \in 1..n : e[i] = p
    BY <1>1, <1>5, <1>14
  <2> QED BY <1>12, <2>1
<1>15. Len(u) \in Nat
  BY <1>11
<1> QED BY <1>9, <1>11, <1>13, <1>14, <1>15

\* One plan after another: each step keeps its place, or is moved by the length
\* of the first.
LEMMA Joined ==
  ASSUME NEW x \in Seq(Steps), NEW y \in Seq(Steps), NEW d, d = x \o y
  PROVE  /\ d \in Seq(Steps) /\ Len(x) \in Nat /\ Len(y) \in Nat /\ Len(d) = Len(x) + Len(y)
         /\ \A i \in 1..Len(x) : d[i] = x[i]
         /\ \A i \in 1..Len(y) : d[Len(x) + i] = y[i]
         /\ \A i \in 1..Len(d) : \/ i \in 1..Len(x)
                                 \/ i - Len(x) \in 1..Len(y) /\ i = Len(x) + (i - Len(x))
<1>1. Len(x) \in Nat /\ Len(y) \in Nat
  BY LenProperties
<1>2. /\ d \in Seq(Steps) /\ Len(d) = Len(x) + Len(y)
      /\ \A i \in 1..(Len(x) + Len(y)) : d[i] = IF i <= Len(x) THEN x[i] ELSE y[i - Len(x)]
  BY ConcatProperties
<1>3. \A i \in 1..Len(x) : i \in 1..(Len(x) + Len(y)) /\ i <= Len(x)
  BY <1>1
<1>4. \A i \in 1..Len(y) : /\ Len(x) + i \in 1..(Len(x) + Len(y)) /\ ~(Len(x) + i <= Len(x))
                           /\ Len(x) + i - Len(x) = i
  BY <1>1
<1>5. \A i \in 1..Len(d) : \/ i \in 1..Len(x)
                           \/ i - Len(x) \in 1..Len(y) /\ i = Len(x) + (i - Len(x))
  BY <1>1, <1>2
<1> QED BY <1>1, <1>2, <1>3, <1>4, <1>5

\* What comes before or after a step does so in a longer plan: if the plan is the first
\* part of it, ...
LEMMA JoinedFirst ==
  ASSUME NEW x \in Seq(Steps), NEW y \in Seq(Steps), NEW d, d = x \o y
  PROVE  /\ \A i \in 1..(Len(x) + 1) : \A what, id : Before(x, i, what, id) => Before(d, i, what, id)
         /\ \A i \in 1..Len(x) : \A C, id : After(x, i, C, id) => After(d, i, C, id)
<1>1. /\ Len(x) \in Nat /\ Len(y) \in Nat /\ Len(d) = Len(x) + Len(y)
      /\ \A i \in 1..Len(x) : d[i] = x[i]
  BY Joined
<1>2. ASSUME NEW i \in 1..(Len(x) + 1), NEW what, NEW id, Before(x, i, what, id)
      PROVE  Before(d, i, what, id)
  <2>1. PICK j \in 1..(i - 1) : Is(x, j, what, id)
    BY <1>2 DEF Before
  <2>2. j \in 1..Len(x) /\ d[j] = x[j]
    BY <1>1
  <2> QED BY <2>1, <2>2 DEF Before, Is
<1>3. ASSUME NEW i \in 1..Len(x), NEW C, NEW id, After(x, i, C, id)
      PROVE  After(d, i, C, id)
  <2>1. PICK k \in 1..Len(x) : i < k /\ \E c \in C : Calling(x, k, c, id)
    BY <1>3 DEF After
  <2>2. k \in 1..Len(d) /\ d[k] = x[k]
    BY <1>1
  <2>3. \E c \in C : Calling(d, k, c, id)
    BY <2>1, <2>2 DEF Calling
  <2> QED BY <2>1, <2>2, <2>3 DEF After
<1> QED BY <1>2, <1>3

\* ... or the second.
LEMMA JoinedSecond ==
  ASSUME NEW x \in Seq(Steps), NEW y \in Seq(Steps), NEW d, d = x \o y
  PROVE  /\ \A i \in 1..(Len(y) + 1) : \A what, id :
              Before(y, i, what, id) => Before(d, Len(x) + i, what, id)
         /\ \A i \in 1..Len(y) : \A C, id : After(y, i, C, id) => After(d, Len(x) + i, C, id)
         /\ \A j \in 1..Len(x), i \in 1..(Len(y) + 1) : \A what, id :
              Is(x, j, what, id) => Before(d, Len(x) + i, what, id)
<1>1. /\ Len(x) \in Nat /\ Len(y) \in Nat /\ Len(d) = Len(x) + Len(y)
      /\ \A i \in 1..Len(x) : d[i] = x[i]
      /\ \A i \in 1..Len(y) : d[Len(x) + i] = y[i]
  BY Joined
<1>2. ASSUME NEW i \in 1..(Len(y) + 1), NEW what, NEW id, Before(y, i, what, id)
      PROVE  Before(d, Len(x) + i, what, id)
  <2>1. PICK j \in 1..(i - 1) : Is(y, j, what, id)
    BY <1>2 DEF Before
  <2>2. j \in 1..Len(y) /\ d[Len(x) + j] = y[j] /\ Len(x) + j \in 1..(Len(x) + i - 1)
    BY <1>1
  <2>3. Is(d, Len(x) + j, what, id)
    BY <2>1, <2>2 DEF Is
  <2> QED BY <2>2, <2>3 DEF Before
<1>3. ASSUME NEW i \in 1..Len(y), NEW C, NEW id, After(y, i, C, id)
      PROVE  After(d, Len(x) + i, C, id)
  <2>1. PICK k \in 1..Len(y) : i < k /\ \E c \in C : Calling(y, k, c, id)
    BY <1>3 DEF After
  <2>2. Len(x) + k \in 1..Len(d) /\ d[Len(x) + k] = y[k] /\ Len(x) + i < Len(x) + k
    BY <1>1, <2>1
  <2>3. \E c \in C : Calling(d, Len(x) + k, c, id)
    BY <2>1, <2>2 DEF Calling
  <2> QED BY <2>2, <2>3 DEF After
<1>4. ASSUME NEW j \in 1..Len(x), NEW i \in 1..(Len(y) + 1), NEW what, NEW id, Is(x, j, what, id)
      PROVE  Before(d, Len(x) + i, what, id)
  <2>1. j \in 1..(Len(x) + i - 1) /\ d[j] = x[j]
    BY <1>1
  <2> QED BY <1>4, <2>1 DEF Before, Is
<1> QED BY <1>2, <1>3, <1>4

\* ... and the input after them.
LEMMA StopsInput ==
  ASSUME Found, NEW id \in Ids, Kind[id] = "Input"
  PROVE  Stops(input_deactivate_plan(id), id)
<1>1. PICK u, c, d : /\ u = input_deactivate_associated_controllers(id)
                     /\ c = controller_deactivate(id) /\ d = u \o c
  OBVIOUS
<1>2. d = input_deactivate_plan(id)
  BY <1>1 DEF input_deactivate_plan
<1>3. /\ u \in Seq(Steps) /\ Len(u) \in Nat
      /\ \A i \in 1..Len(u) :
           \/ u[i].do = "inactive" /\ Kind[u[i].id] = "PID" /\ After(u, i, {"deactivate"}, u[i].id)
           \/ u[i].do = "call" /\ u[i].call = "deactivate" /\ Before(u, i, "inactive", u[i].id)
      /\ \A p \in active : Kind[p] = "PID" /\ source[p] = id => Before(u, Len(u) + 1, "inactive", p)
  BY <1>1, UsersFirst
<1>4. SetInactive(id) \in Steps /\ Call("deactivate", id) \in Steps
  BY StepsTyped DEF Calls
<1>5. c \in Seq(Steps) /\ Len(c) = 2 /\ c[1] = SetInactive(id) /\ c[2] = Call("deactivate", id)
  BY <1>1, <1>4, TwoSteps DEF controller_deactivate
<1>6. /\ c[1].do = "inactive" /\ c[1].id = id /\ c[2].do = "call" /\ c[2].call = "deactivate"
      /\ c[2].id = id /\ Is(c, 1, "inactive", id) /\ Calling(c, 2, "deactivate", id)
  BY <1>5 DEF Is, Calling, SetInactive, Call
<1>7. /\ d \in Seq(Steps) /\ Len(d) = Len(u) + 2
      /\ \A i \in 1..Len(u) : d[i] = u[i]
      /\ d[Len(u) + 1] = c[1] /\ d[Len(u) + 2] = c[2]
      /\ \A i \in 1..Len(d) : i \in 1..Len(u) \/ i = Len(u) + 1 \/ i = Len(u) + 2
  <2>1. /\ d \in Seq(Steps) /\ Len(d) = Len(u) + 2
        /\ \A i \in 1..Len(u) : d[i] = u[i]
        /\ \A i \in 1..2 : d[Len(u) + i] = c[i]
    <3>1. /\ d \in Seq(Steps) /\ Len(d) = Len(u) + Len(c)
          /\ \A i \in 1..Len(u) : d[i] = u[i]
          /\ \A i \in 1..Len(c) : d[Len(u) + i] = c[i]
      <4>1. u \in Seq(Steps) /\ c \in Seq(Steps) /\ d = u \o c
        BY <1>1, <1>3, <1>5
      <4> QED BY <4>1, Joined
    <3> QED BY <1>5, <3>1
  <2> QED BY <1>3, <2>1
<1>8. /\ After(d, Len(u) + 1, {"deactivate"}, id) /\ Before(d, Len(u) + 2, "inactive", id)
      /\ Before(d, Len(d) + 1, "inactive", id)
  <2>1. After(c, 1, {"deactivate"}, id) /\ Before(c, 2, "inactive", id) /\ Before(c, 3, "inactive", id)
    BY <1>5, <1>6 DEF After, Before
  <2>2. 1 \in 1..Len(c) /\ 2 \in 1..(Len(c) + 1) /\ 3 \in 1..(Len(c) + 1) /\ Len(d) + 1 = Len(u) + 3
    BY <1>3, <1>5, <1>7
  <2> QED BY <1>1, <1>3, <1>5, <2>1, <2>2, JoinedSecond
<1>9. ASSUME NEW i \in 1..Len(u)
      PROVE  \/ d[i].do = "inactive" /\ Kind[d[i].id] = "PID" /\ After(d, i, {"deactivate"}, d[i].id)
             \/ d[i].do = "call" /\ d[i].call = "deactivate" /\ Before(d, i, "inactive", d[i].id)
  <2>1. d[i] = u[i] /\ i \in 1..(Len(u) + 1)
    BY <1>3, <1>7
  <2> QED BY <1>1, <1>3, <1>5, <2>1, JoinedFirst
<1>10. ASSUME NEW p \in active, Kind[p] = "PID" /\ source[p] = id
       PROVE  /\ Before(d, Len(d) + 1, "inactive", p)
              /\ \A i \in 1..Len(d) : Is(d, i, "inactive", id) \/ Is(d, i, "erase", id)
                                        => Before(d, i, "inactive", p)
  <2>1. PICK j \in 1..Len(u) : Is(u, j, "inactive", p)
    <3>1. Before(u, Len(u) + 1, "inactive", p)
      BY <1>3, <1>10
    <3> QED BY <1>3, <3>1 DEF Before
  <2>2. Is(d, j, "inactive", p)
    BY <1>7, <2>1 DEF Is
  <2>3. Before(d, Len(d) + 1, "inactive", p) /\ Before(d, Len(u) + 1, "inactive", p)
    BY <1>3, <1>7, <2>2 DEF Before
  <2>4. ASSUME NEW i \in 1..Len(d), Is(d, i, "inactive", id) \/ Is(d, i, "erase", id)
        PROVE  Before(d, i, "inactive", p)
    <3>1. i \notin 1..Len(u)
      BY <1>9, <2>4 DEF Is
    <3>2. i = Len(u) + 1
      BY <1>6, <1>7, <2>4, <3>1 DEF Is
    <3> QED BY <2>3, <3>2
  <2> QED BY <2>3, <2>4
<1>11. Deactivating(d, id)
  <2>1. ASSUME NEW i \in 1..Len(d)
        PROVE  \/ /\ d[i].do = "inactive" /\ (d[i].id = id \/ Kind[d[i].id] = "PID")
                  /\ Kind[d[i].id] \in Controllers /\ After(d, i, {"deactivate"}, d[i].id)
               \/ d[i].do = "call" /\ d[i].call = "deactivate" /\ Before(d, i, "inactive", d[i].id)
    <3>1. CASE i \in 1..Len(u)
      BY <1>9, <3>1 DEF Controllers
    <3>2. CASE i = Len(u) + 1
      BY <1>6, <1>7, <1>8, <3>2 DEF Controllers
    <3>3. CASE i = Len(u) + 2
      BY <1>6, <1>7, <1>8, <3>3
    <3> QED BY <1>7, <3>1, <3>2, <3>3
  <2> QED BY <1>10, <2>1 DEF Deactivating, Stopping
<1> QED BY <1>2, <1>7, <1>8, <1>10, <1>11 DEF Stops

\* What stops a controller, what deletes its children, its row and the rest make
\* a page that deletes it.
LEMMA Deletes ==
  ASSUME NEW id \in rows, NEW d, Stops(d, id),
         NEW e \in Seq(Steps), NEW t \in Seq(Steps), NEW s, s = (d \o e) \o t,
         \A i \in 1..Len(e) : e[i].do = "unpart" /\ e[i].part.of = id,
         \A p \in PartsOf(id) : \E i \in 1..Len(e) : Removing(e, i, p),
         Len(t) > 0, Is(t, 1, "erase", id),
         \A i \in 2..Len(t) : \/ Is(t, i, "unlist", id)
                              \/ Kind[id] = "Output" /\ Calling(t, i, "remove", id),
         Kind[id] = "Output" => After(t, 1, {"remove"}, id)
  PROVE  s \in Seq(Steps) /\ \E m \in 1..Len(s) : Deleting(s, id, m)
<1>1. d \in Seq(Steps) /\ Deactivating(d, id)
  BY DEF Stops
<1>2. PICK x, n, k, m : x = d \o e /\ n = Len(d) /\ k = Len(x) /\ m = k + 1
  OBVIOUS
<1>3. /\ x \in Seq(Steps) /\ n \in Nat /\ Len(e) \in Nat /\ k = n + Len(e) /\ k \in Nat /\ m \in Nat
      /\ \A i \in 1..n : x[i] = d[i]
      /\ \A i \in 1..Len(e) : x[n + i] = e[i]
      /\ \A i \in 1..k : i \in 1..n \/ (i - n \in 1..Len(e) /\ i = n + (i - n))
  <2>1. /\ x \in Seq(Steps) /\ n \in Nat /\ Len(e) \in Nat /\ Len(x) = n + Len(e)
        /\ \A i \in 1..n : x[i] = d[i]
        /\ \A i \in 1..Len(e) : x[n + i] = e[i]
        /\ \A i \in 1..Len(x) : i \in 1..n \/ (i - n \in 1..Len(e) /\ i = n + (i - n))
    BY <1>1, <1>2, Joined
  <2> QED BY <1>2, <2>1
<1>4. /\ s \in Seq(Steps) /\ Len(t) \in Nat /\ Len(s) = k + Len(t)
      /\ \A i \in 1..k : s[i] = x[i]
      /\ \A i \in 1..Len(t) : s[k + i] = t[i]
      /\ \A i \in 1..Len(s) : i \in 1..k \/ (i - k \in 1..Len(t) /\ i = k + (i - k))
  BY <1>2, <1>3, Joined
<1>5. \A i \in 1..n : s[i] = d[i] /\ i \in 1..k /\ i \in 1..Len(s)
  BY <1>3, <1>4
<1>6. \A i \in 1..Len(e) : s[n + i] = e[i] /\ n + i \in 1..k /\ n + i \in 1..(m - 1)
  BY <1>2, <1>3, <1>4
<1>7. /\ m \in 1..Len(s) /\ s[m] = t[1] /\ s[m].do = "erase" /\ s[m].id = id
  BY <1>2, <1>3, <1>4 DEF Is
<1>8. \A i \in 1..Len(s) :
        \/ i \in 1..n
        \/ i - n \in 1..Len(e) /\ i = n + (i - n) /\ i < m
        \/ i = m
        \/ i - k \in 2..Len(t) /\ i = k + (i - k) /\ i > m
  BY <1>2, <1>3, <1>4
<1>9. ASSUME NEW i \in 1..n
      PROVE  /\ i < m /\ (s[i].do = "inactive" \/ (s[i].do = "call" /\ s[i].call = "deactivate"))
             /\ s[i].do = "inactive" => /\ s[i].id = id \/ Kind[s[i].id] = "PID"
                                        /\ Kind[s[i].id] \in Controllers
                                        /\ After(s, i, {"deactivate"}, s[i].id)
             /\ s[i].do = "call" /\ s[i].call = "deactivate" => Before(s, i, "inactive", s[i].id)
  <2>1. s[i] = d[i] /\ i \in 1..Len(d) /\ i \in 1..(Len(d) + 1) /\ i \in 1..Len(x) /\ i \in 1..(Len(x) + 1)
        /\ i < m
    BY <1>2, <1>3, <1>5
  <2>2. /\ d[i].do = "inactive" \/ (d[i].do = "call" /\ d[i].call = "deactivate")
        /\ d[i].do = "inactive" => /\ d[i].id = id \/ Kind[d[i].id] = "PID"
                                   /\ Kind[d[i].id] \in Controllers
                                   /\ After(d, i, {"deactivate"}, d[i].id)
        /\ d[i].do = "call" /\ d[i].call = "deactivate" => Before(d, i, "inactive", d[i].id)
    BY <1>1, <2>1 DEF Deactivating, Stopping
  <2>3. \A C, j : After(d, i, C, j) => After(s, i, C, j)
    <3>1. \A C, j : After(d, i, C, j) => After(x, i, C, j)
      BY <1>1, <1>2, <2>1, JoinedFirst
    <3>2. \A C, j : After(x, i, C, j) => After(s, i, C, j)
      BY <1>2, <1>3, <2>1, JoinedFirst
    <3> QED BY <3>1, <3>2
  <2>4. \A what, j : Before(d, i, what, j) => Before(s, i, what, j)
    <3>1. \A what, j : Before(d, i, what, j) => Before(x, i, what, j)
      BY <1>1, <1>2, <2>1, JoinedFirst
    <3>2. \A what, j : Before(x, i, what, j) => Before(s, i, what, j)
      BY <1>2, <1>3, <2>1, JoinedFirst
    <3> QED BY <3>1, <3>2
  <2> QED BY <2>1, <2>2, <2>3, <2>4
<1>10. \A i \in 1..Len(e) : s[n + i].do = "unpart" /\ s[n + i].part.of = id
  BY <1>6
<1>11. ASSUME NEW i \in 2..Len(t)
       PROVE  Is(s, k + i, "unlist", id) \/ (Kind[id] = "Output" /\ Calling(s, k + i, "remove", id))
  <2>1. i \in 1..Len(t)
    BY <1>4
  <2>2. s[k + i] = t[i]
    BY <1>4, <2>1
  <2> QED BY <2>2 DEF Is, Calling
<1>12. ASSUME NEW j, Before(d, Len(d) + 1, "inactive", j)
       PROVE  \A i \in (n + 1)..Len(s) : Before(s, i, "inactive", j)
  <2>1. PICK h \in 1..n : Is(d, h, "inactive", j)
    BY <1>2, <1>3, <1>12 DEF Before
  <2>2. Is(s, h, "inactive", j)
    BY <1>5, <2>1 DEF Is
  <2>3. \A i \in (n + 1)..Len(s) : h \in 1..(i - 1)
    BY <1>3, <1>4
  <2> QED BY <2>2, <2>3 DEF Before
<1>13. \A i \in (n + 1)..Len(s) : id \in active => Before(s, i, "inactive", id)
  BY <1>12 DEF Stops
<1>14. \A i \in 1..Len(s) : i \in 1..n \/ i \in (n + 1)..Len(s)
  BY <1>3, <1>4
<1>15. \A i \in 1..Len(s) : i \notin 1..n =>
         /\ s[i].do # "inactive" /\ ~(s[i].do = "call" /\ s[i].call = "deactivate")
         /\ i # m => s[i].do # "erase"
  <2> SUFFICES ASSUME NEW i \in 1..Len(s), i \notin 1..n
               PROVE  /\ s[i].do # "inactive" /\ ~(s[i].do = "call" /\ s[i].call = "deactivate")
                      /\ i # m => s[i].do # "erase"
    OBVIOUS
  <2>1. CASE i - n \in 1..Len(e) /\ i = n + (i - n)
    BY <1>10, <2>1
  <2>2. CASE i = m
    BY <1>7, <2>2
  <2>3. CASE i - k \in 2..Len(t) /\ i = k + (i - k)
    <3>1. Is(s, i, "unlist", id) \/ Calling(s, i, "remove", id)
      BY <1>11, <2>3
    <3> QED BY <3>1 DEF Is, Calling
  <2> QED BY <1>8, <2>1, <2>2, <2>3
<1>16. Kind[id] = "Input" =>
         \A p \in active : Kind[p] = "PID" /\ source[p] = id =>
           \A i \in 1..Len(s) : Is(s, i, "inactive", id) \/ Is(s, i, "erase", id)
                                  => Before(s, i, "inactive", p)
  <2> SUFFICES ASSUME Kind[id] = "Input", NEW p \in active, Kind[p] = "PID" /\ source[p] = id,
                      NEW i \in 1..Len(s), Is(s, i, "inactive", id) \/ Is(s, i, "erase", id)
               PROVE  Before(s, i, "inactive", p)
    OBVIOUS
  <2>1. Before(d, Len(d) + 1, "inactive", p)
    BY DEF Stops
  <2>2. CASE i \in 1..n
    <3>1. Is(d, i, "inactive", id) \/ Is(d, i, "erase", id)
      BY <1>5, <2>2 DEF Is
    <3>2. i \in 1..Len(d)
      BY <1>2, <2>2
    <3>3. Before(d, i, "inactive", p)
      BY <1>1, <3>1, <3>2 DEF Deactivating, Stopping
    <3>4. i \in 1..(Len(d) + 1) /\ i \in 1..(Len(x) + 1)
      BY <1>2, <1>3, <2>2
    <3>5. Before(x, i, "inactive", p)
      BY <1>1, <1>2, <3>3, <3>4, JoinedFirst
    <3> QED BY <1>2, <1>3, <3>4, <3>5, JoinedFirst
  <2>3. CASE i \in (n + 1)..Len(s)
    BY <1>12, <2>1, <2>3
  <2> QED BY <1>14, <2>2, <2>3
<1>17. Stopping(s, id)
  BY <1>9, <1>14, <1>15, <1>16 DEF Stopping
<1>18. \A i \in 1..Len(s) : s[i].do = "erase" <=> i = m
  <2>1. ASSUME NEW i \in 1..n PROVE s[i].do # "erase" /\ i # m
    <3>1. i < m /\ s[i].do \in {"inactive", "call"}
      BY <1>9
    <3> QED BY <1>2, <1>3, <3>1
  <2> QED BY <1>7, <1>15, <2>1
<1>19. \A p \in PartsOf(id) : \E j \in 1..(m - 1) : Removing(s, j, p)
  <2> TAKE p \in PartsOf(id)
  <2>1. PICK i \in 1..Len(e) : Removing(e, i, p)
    OBVIOUS
  <2>2. Removing(s, n + i, p) /\ n + i \in 1..(m - 1)
    BY <1>6, <2>1 DEF Removing
  <2> QED BY <2>2
<1>20. Kind[id] = "Output" => After(s, m, {"remove"}, id)
  <2> SUFFICES ASSUME Kind[id] = "Output" PROVE After(s, m, {"remove"}, id)
    OBVIOUS
  <2>1. 1 \in 1..Len(t) /\ m = Len(x) + 1 /\ After(t, 1, {"remove"}, id)
    BY <1>2, <1>4
  <2>2. After(s, Len(x) + 1, {"remove"}, id)
    BY <1>2, <1>3, <2>1, JoinedSecond
  <2> QED BY <2>1, <2>2
<1>21. ASSUME NEW i \in 1..Len(s)
       PROVE  \/ i < m /\ (s[i].do = "inactive" \/ (s[i].do = "call" /\ s[i].call = "deactivate"))
              \/ i < m /\ s[i].do = "unpart" /\ s[i].part.of = id
                   /\ (id \in active => Before(s, i, "inactive", id))
              \/ i = m
              \/ i > m /\ Is(s, i, "unlist", id)
              \/ i > m /\ Kind[id] = "Output" /\ Calling(s, i, "remove", id)
  <2>1. CASE i \in 1..n
    BY <1>9, <2>1
  <2>2. CASE i - n \in 1..Len(e) /\ i = n + (i - n) /\ i < m
    <3>1. i \in (n + 1)..Len(s)
      BY <1>3, <2>2
    <3>2. s[i].do = "unpart" /\ s[i].part.of = id
      BY <1>10, <2>2
    <3> QED BY <1>13, <2>2, <3>1, <3>2
  <2>3. CASE i - k \in 2..Len(t) /\ i = k + (i - k) /\ i > m
    <3>1. Is(s, i, "unlist", id) \/ (Kind[id] = "Output" /\ Calling(s, i, "remove", id))
      BY <1>11, <2>3
    <3> QED BY <2>3, <3>1
  <2> QED BY <1>8, <2>1, <2>2, <2>3
<1>22. m \in (n + 1)..Len(s)
  BY <1>2, <1>3, <1>7
<1>23. Deleting(s, id, m)
  BY <1>7, <1>13, <1>17, <1>18, <1>19, <1>20, <1>21, <1>22 DEF Deleting
<1> QED BY <1>4, <1>7, <1>23

(***************************************************************************)
(* Each handler begins with a plan                                         *)
(***************************************************************************)
\* What a handler begins with is a plan, and no other page is in progress.
LEMMA BeginsWith ==
  ASSUME Found, NEW w \in Workers, NEW s \in Seq(Steps), Plan(s), Begin(w, s)
  PROVE  \E q : Begins(w, q)
<1>1. Begins(w, s)
  BY DEF Found, Begin, Begins
<1> QED BY <1>1

\* The children there are, and which kinds have them.
LEMMA PartsTyped ==
  ASSUME Found
  PROVE  /\ parts \subseteq Children /\ IsFiniteSet(parts)
         /\ \A id : PartsOf(id) \subseteq Children /\ \A x : SortOf(id, x) \subseteq PartsOf(id)
         /\ \A id, x : IsFiniteSet(SortOf(id, x))
         /\ \A p \in parts : p.of \in rows /\ p \in Children /\ Suits(p)
         /\ filled \subseteq parts /\ converted \subseteq parts /\ converted \subseteq Convertible
         /\ rows \subseteq Ids /\ active \subseteq rows
         /\ \A id \in active : Kind[id] \in Controllers
         /\ \A id \in Ids : source[id] \in Ids \cup {NoSource}
         /\ order \in [Lists -> Seq(Ids)]
<1>1. parts \subseteq Children /\ IsFiniteSet(parts)
  BY DEF Found, SourceInv, Base, TableTypes
<1>2. \A id : PartsOf(id) \subseteq Children /\ \A x : SortOf(id, x) \subseteq PartsOf(id)
  BY <1>1 DEF PartsOf, SortOf
<1>3. ASSUME NEW id, NEW x PROVE IsFiniteSet(SortOf(id, x))
  <2>1. SortOf(id, x) \in SUBSET parts
    BY DEF SortOf, PartsOf
  <2> QED BY <1>1, <2>1, FS_Subset
<1>4. \A p \in parts : p.of \in rows /\ p \in Children /\ Suits(p)
  BY <1>1 DEF Found, TablesInv, NoOrphans, Children
<1>5. /\ filled \subseteq parts /\ converted \subseteq parts /\ converted \subseteq Convertible
      /\ rows \subseteq Ids /\ active \subseteq rows
      /\ \A id \in active : Kind[id] \in Controllers
      /\ \A id \in Ids : source[id] \in Ids \cup {NoSource}
      /\ order \in [Lists -> Seq(Ids)]
  BY DEF Found, SourceInv, Base, TableTypes
<1> QED BY <1>1, <1>2, <1>3, <1>4, <1>5

\* A new id is one that nothing names.
LEMMA UnusedIsFresh ==
  ASSUME NEW id \in Ids, Unused(id)
  PROVE  Fresh(id)
BY DEF Unused, Named, Fresh

\* The first child of each kind that has one from the start, and the next ones.
LEMMA PartsToCome ==
  /\ \A id \in Ids : Kind[id] \in {"Input", "Math", "PID", "Output"} =>
       Part(id, "measurement", 1) \in Children
  /\ \A id \in Ids : Kind[id] = "LCD" => Part(id, "display", 1) \in Children
  /\ \A id \in Ids, x \in Sorts : \A p : p \in NewPart(id, x) =>
       p \in Parts /\ p.of = id /\ p.sort = x
  /\ \A id \in Ids, n \in Nat : n \in 1..MaxParts[id]["measurement"] /\ Kind[id] = "Input" =>
       Part(id, "measurement", n) \in Children
<1>1. \A id \in Ids, x \in Sorts : MaxParts[id][x] \in Nat
  BY PagesAssumption
<1>2. \A id \in Ids, x \in Sorts, n \in Nat : n \in 1..MaxParts[id][x] =>
        /\ Part(id, x, n) \in Parts /\ Part(id, x, n).of = id /\ Part(id, x, n).sort = x
  BY <1>1 DEF Part, Parts
<1>3. "measurement" \in Sorts /\ "display" \in Sorts
  BY DEF Sorts
<1>4. \A id \in Ids : Kind[id] \in {"Input", "Math", "PID", "Output"} =>
        Part(id, "measurement", 1) \in Children
  <2> TAKE id \in Ids
  <2> HAVE Kind[id] \in {"Input", "Math", "PID", "Output"}
  <2>1. MaxParts[id]["measurement"] \in Nat /\ MaxParts[id]["measurement"] # 0
    <3>1. \A i \in Ids : Kind[i] \in {"Input", "Math", "PID", "Output"} => MaxParts[i]["measurement"] # 0
      BY PagesAssumption
    <3> QED BY <1>1, <1>3, <3>1
  <2>2. 1 \in 1..MaxParts[id]["measurement"]
    BY <2>1
  <2> QED BY <1>2, <1>3, <2>2 DEF Children, Suits
<1>5. \A id \in Ids : Kind[id] = "LCD" => Part(id, "display", 1) \in Children
  BY <1>1, <1>2, <1>3, PagesAssumption DEF Children, Suits
<1>6. \A id \in Ids, x \in Sorts : \A p : p \in NewPart(id, x) => p \in Parts /\ p.of = id /\ p.sort = x
  BY <1>2 DEF NewPart
<1>7. \A id \in Ids, n \in Nat : n \in 1..MaxParts[id]["measurement"] /\ Kind[id] = "Input" =>
        Part(id, "measurement", n) \in Children
  BY <1>2, <1>3 DEF Children, Suits
<1> QED BY <1>4, <1>5, <1>6, <1>7

\* One more child, all set or of a row that is not active.
LEMMA PlanOfGrowing ==
  ASSUME Found, NEW w \in Workers, NEW p \in Children, NEW full \in BOOLEAN, p.of \in rows,
         p.of \notin active \/ full, Begin(w, <<AddPart(p, full)>>)
  PROVE  \E q : Begins(w, q)
<1>1. PICK s : s = <<AddPart(p, full)>>
  OBVIOUS
<1>2. s \in Seq(Steps) /\ Len(s) = 1 /\ s[1] = AddPart(p, full)
  BY <1>1, StepsTyped, OneStep
<1>3. Growing(s)
  BY <1>2 DEF Growing, AddPart
<1> QED BY <1>1, <1>2, <1>3, BeginsWith DEF Plan

\* One child less, of a row that is not active.
LEMMA PlanOfShrinking ==
  ASSUME Found, NEW w \in Workers, NEW p \in parts, p.of \notin active, Begin(w, <<ErasePart(p)>>)
  PROVE  \E q : Begins(w, q)
<1>1. PICK s : s = <<ErasePart(p)>>
  OBVIOUS
<1>2. s \in Seq(Steps) /\ Len(s) = 1 /\ s[1] = ErasePart(p)
  BY <1>1, PartsTyped, StepsTyped, OneStep
<1>3. Shrinking(s)
  BY <1>2 DEF Shrinking, ErasePart
<1> QED BY <1>1, <1>2, <1>3, BeginsWith DEF Plan

\* A save that loses nothing of what an active row needs.
Saves(x, id) ==
  /\ x \in Steps /\ x.do = "save" /\ x.id = id /\ id \in rows
  /\ x.src = source[id] \/ (id \notin active /\ Kind[id] = "PID")
  /\ \A p \in x.conv : p.of = id
  /\ id \in active /\ Kind[id] # "PID" =>
       PartsOf(id) \cap filled \subseteq x.full /\ PartsOf(id) \cap x.conv \subseteq converted

\* What a save says.
LEMMA SaveFields ==
  ASSUME NEW id, NEW f, NEW c, NEW src, NEW b
  PROVE  LET x == Save(id, f, c, src, b) IN
         /\ x.do = "save" /\ x.id = id /\ x.full = f /\ x.conv = c /\ x.src = src /\ x.settings = b
BY DEF Save

\* The settings of a row are saved, and the fields of its children stay.
LEMMA SavesSettings ==
  ASSUME Found, NEW id \in rows
  PROVE  Saves(SaveSettings(id), id) /\ SaveSettings(id).src = source[id]
<1>1. PICK x : x = SaveSettings(id)
  OBVIOUS
<1>2. /\ x.do = "save" /\ x.id = id /\ x.full = PartsOf(id) \cap filled
      /\ x.conv = PartsOf(id) \cap converted /\ x.src = source[id] /\ x.settings = TRUE
  <2>1. PICK f, c, src, b : /\ f = PartsOf(id) \cap filled /\ c = PartsOf(id) \cap converted
                             /\ src = source[id] /\ b = TRUE
    OBVIOUS
  <2>2. x = Save(id, f, c, src, b)
    BY <1>1, <2>1 DEF SaveSettings
  <2>3. /\ x.do = "save" /\ x.id = id /\ x.full = f /\ x.conv = c /\ x.src = src /\ x.settings = b
    BY <2>2, SaveFields
  <2> QED BY <2>1, <2>3
<1>3. x \in Steps
  BY <1>1, PartsTyped, StepsTyped DEF SaveSettings
<1> QED BY <1>1, <1>2, <1>3 DEF Saves, PartsOf

\* The fields of one child, which are all set if its row is active.
LEMMA SavesPart ==
  ASSUME Found, NEW p \in parts, NEW full \in BOOLEAN, NEW b \in BOOLEAN, p.of \notin active \/ full
  PROVE  Saves(SavePart(p, full, b), p.of) /\ SavePart(p, full, b).settings = b
<1>1. PICK x : x = SavePart(p, full, b)
  OBVIOUS
<1>2. /\ x.do = "save" /\ x.id = p.of /\ x.full = With(PartsOf(p.of) \cap filled, p, full)
      /\ x.conv = PartsOf(p.of) \cap converted /\ x.src = source[p.of] /\ x.settings = b
  BY <1>1, SaveFields DEF SavePart
<1>3. With(PartsOf(p.of) \cap filled, p, full) \in SUBSET Children
  BY PartsTyped DEF With
<1>4. x \in Steps /\ p.of \in rows
  BY <1>1, <1>3, PartsTyped, StepsTyped DEF SavePart
<1>5. full => PartsOf(p.of) \cap filled \subseteq x.full
  BY <1>2 DEF With
<1> QED BY <1>1, <1>2, <1>4, <1>5 DEF Saves, PartsOf

\* It is saved, and that is all.
LEMMA PlanOfSave ==
  ASSUME Found, NEW w \in Workers, NEW id, NEW x, Saves(x, id),
         x.settings => id \notin active /\ Kind[id] # "Output", Begin(w, <<x>>)
  PROVE  \E q : Begins(w, q)
<1>1. PICK s : s = <<x>>
  OBVIOUS
<1>2. s \in Seq(Steps) /\ Len(s) = 1 /\ s[1] = x
  BY <1>1, OneStep DEF Saves
<1>3. id \in Ids
  BY PartsTyped DEF Saves
<1>4. Saving(s, id)
  BY <1>2 DEF Saving, Saves, Is
<1> QED BY <1>1, <1>2, <1>3, <1>4, BeginsWith DEF Plan

\* It is saved, and what runs with it is told.
LEMMA PlanOfSaveAndTell ==
  ASSUME Found, NEW w \in Workers, NEW id, NEW x, Saves(x, id),
         NEW c, (c = "refresh" /\ id \in active) \/ (c = "setup" /\ Kind[id] = "Output"),
         Begin(w, <<x, Call(c, id)>>)
  PROVE  \E q : Begins(w, q)
<1>1. PICK s : s = <<x, Call(c, id)>>
  OBVIOUS
<1>2. id \in Ids /\ x \in Steps /\ Call(c, id) \in Steps
  BY PartsTyped, StepsTyped DEF Saves, Calls
<1>3. s \in Seq(Steps) /\ Len(s) = 2 /\ s[1] = x /\ s[2] = Call(c, id)
  BY <1>1, <1>2, TwoSteps
<1>4. Calling(s, 2, c, id)
  BY <1>3 DEF Calling, Call
<1>5. After(s, 1, {"refresh", "setup"}, id)
  BY <1>3, <1>4 DEF After
<1>6. Saving(s, id)
  BY <1>3, <1>4, <1>5 DEF Saving, Saves, Is
<1> QED BY <1>1, <1>2, <1>3, <1>6, BeginsWith DEF Plan

\* One step before another.
LEMMA OneThenOne ==
  ASSUME NEW x \in Steps, NEW y \in Steps
  PROVE  <<x>> \o <<y>> = <<x, y>>
<1>1. PICK a, b, c : a = <<x>> /\ b = <<y>> /\ c = a \o b
  OBVIOUS
<1>2. a \in Seq(Steps) /\ b \in Seq(Steps) /\ Len(a) = 1 /\ Len(b) = 1 /\ a[1] = x /\ b[1] = y
  BY <1>1, OneStep
<1>3. /\ c \in Seq(Steps) /\ Len(c) = Len(a) + Len(b) /\ (\A i \in 1..Len(a) : c[i] = a[i])
      /\ \A i \in 1..Len(b) : c[Len(a) + i] = b[i]
  BY <1>1, <1>2, Joined
<1>4. Len(c) = 2 /\ c[1] = x /\ c[2] = y
  BY <1>2, <1>3
<1>5. <<x, y>> \in Seq(Steps) /\ Len(<<x, y>>) = 2 /\ <<x, y>>[1] = x /\ <<x, y>>[2] = y
  BY TwoSteps
<1>6. \A i \in 1..Len(c) : c[i] = <<x, y>>[i]
  BY <1>4, <1>5
<1> QED BY <1>1, <1>3, <1>4, <1>5, <1>6, SeqEqual

\* It is saved, and told if it is active.
LEMMA PlanOfSaveRefreshed ==
  ASSUME Found, NEW w \in Workers, NEW id, NEW x, Saves(x, id), Kind[id] # "Output",
         Begin(w, <<x>> \o Refreshed(id))
  PROVE  \E q : Begins(w, q)
<1>1. id \in Ids /\ x \in Steps /\ Call("refresh", id) \in Steps
  BY PartsTyped, StepsTyped DEF Saves, Calls
<1>2. CASE id \in active
  <2>1. Begin(w, <<x, Call("refresh", id)>>)
    BY <1>1, <1>2, OneThenOne DEF Refreshed
  <2> QED BY <1>2, <2>1, PlanOfSaveAndTell
<1>3. CASE id \notin active
  <2>1. <<x>> \o <<>> = <<x>>
    BY <1>1, OneStep, ConcatEmptySeq
  <2>2. Begin(w, <<x>>)
    BY <1>3, <2>1 DEF Refreshed
  <2> QED BY <1>3, <2>2, PlanOfSave
<1> QED BY <1>2, <1>3

\* All children of a row are deleted.
Sheds(e, id) ==
  /\ e \in Seq(Steps)
  /\ \A i \in 1..Len(e) : e[i].do = "unpart" /\ e[i].part.of = id
  /\ \A p \in PartsOf(id) : \E i \in 1..Len(e) : Removing(e, i, p)

\* Its row is, and what is left of it.
Ends(t, id) ==
  /\ t \in Seq(Steps) /\ Len(t) > 0 /\ Is(t, 1, "erase", id)
  /\ \A i \in 2..Len(t) : \/ Is(t, i, "unlist", id)
                          \/ Kind[id] = "Output" /\ Calling(t, i, "remove", id)
  /\ Kind[id] = "Output" => After(t, 1, {"remove"}, id)

\* A row is stopped, and its children, the row and what is left of it are deleted.
LEMMA PlanOfDelete ==
  ASSUME Found, NEW w \in Workers, NEW id \in rows, NEW d, Stops(d, id), NEW e, Sheds(e, id),
         NEW t, Ends(t, id), Begin(w, (d \o e) \o t)
  PROVE  \E q : Begins(w, q)
<1>1. PICK s : s = (d \o e) \o t
  OBVIOUS
<1>2. s \in Seq(Steps) /\ \E m \in 1..Len(s) : Deleting(s, id, m)
  BY <1>1, Deletes DEF Sheds, Ends
<1>3. id \in Ids
  BY PartsTyped
<1> QED BY <1>1, <1>2, <1>3, BeginsWith DEF Plan

\* A row without children has none to delete.
LEMMA ShedsNothing ==
  ASSUME NEW id, PartsOf(id) = {}
  PROVE  Sheds(<<>>, id)
BY NothingLeft DEF Sheds

\* All children of a row are deleted, if they are of one sort.
LEMMA ShedsSort ==
  ASSUME Found, NEW id, NEW x, PartsOf(id) = SortOf(id, x)
  PROVE  Sheds(EraseParts(SortOf(id, x)), id)
<1>1. PICK S, e : S = SortOf(id, x) /\ e = EraseParts(S)
  OBVIOUS
<1>2. S \subseteq Children /\ IsFiniteSet(S)
  BY <1>1, PartsTyped
<1>3. /\ e \in Seq(Steps)
      /\ \A i \in 1..Len(e) : e[i].do = "unpart" /\ e[i].part \in S
      /\ \A p \in S : \E i \in 1..Len(e) : Removing(e, i, p)
  BY <1>1, <1>2, ErasesAll
<1>4. \A p \in S : p.of = id
  BY <1>1 DEF SortOf, PartsOf
<1> QED BY <1>1, <1>3, <1>4 DEF Sheds

\* A Conditional has two sorts of children.
LEMMA ShedsSorts ==
  ASSUME Found, NEW id, NEW x, NEW y, PartsOf(id) = SortOf(id, x) \cup SortOf(id, y)
  PROVE  Sheds(EraseParts(SortOf(id, x)) \o EraseParts(SortOf(id, y)), id)
<1>1. PICK S, T, a, b, e : /\ S = SortOf(id, x) /\ a = EraseParts(S)
                           /\ T = SortOf(id, y) /\ b = EraseParts(T) /\ e = a \o b
  OBVIOUS
<1>2. S \subseteq Children /\ IsFiniteSet(S) /\ T \subseteq Children /\ IsFiniteSet(T)
  BY <1>1, PartsTyped
<1>3. /\ a \in Seq(Steps)
      /\ \A i \in 1..Len(a) : a[i].do = "unpart" /\ a[i].part \in S
      /\ \A p \in S : \E i \in 1..Len(a) : Removing(a, i, p)
  BY <1>1, <1>2, ErasesAll
<1>4. /\ b \in Seq(Steps)
      /\ \A i \in 1..Len(b) : b[i].do = "unpart" /\ b[i].part \in T
      /\ \A p \in T : \E i \in 1..Len(b) : Removing(b, i, p)
  BY <1>1, <1>2, ErasesAll
<1>5. \A p \in S \cup T : p.of = id
  BY <1>1 DEF SortOf, PartsOf
<1>6. /\ e \in Seq(Steps) /\ Len(a) \in Nat /\ Len(b) \in Nat /\ Len(e) = Len(a) + Len(b)
      /\ \A i \in 1..Len(a) : e[i] = a[i]
      /\ \A i \in 1..Len(b) : e[Len(a) + i] = b[i]
      /\ \A i \in 1..Len(e) : \/ i \in 1..Len(a)
                              \/ i - Len(a) \in 1..Len(b) /\ i = Len(a) + (i - Len(a))
  BY <1>1, <1>3, <1>4, Joined
<1>7. ASSUME NEW i \in 1..Len(e) PROVE e[i].do = "unpart" /\ e[i].part \in S \cup T
  <2>1. CASE i \in 1..Len(a)
    BY <1>3, <1>6, <2>1
  <2>2. CASE i - Len(a) \in 1..Len(b) /\ i = Len(a) + (i - Len(a))
    <3>1. PICK j \in 1..Len(b) : i = Len(a) + j
      BY <2>2
    <3>2. e[i] = b[j]
      BY <1>6, <3>1
    <3> QED BY <1>4, <3>2
  <2> QED BY <1>6, <2>1, <2>2
<1>8. ASSUME NEW p \in S \cup T PROVE \E i \in 1..Len(e) : Removing(e, i, p)
  <2>1. CASE p \in S
    <3>1. PICK i \in 1..Len(a) : Removing(a, i, p)
      BY <1>3, <2>1
    <3>2. i \in 1..Len(e) /\ Removing(e, i, p)
      BY <1>6, <3>1 DEF Removing
    <3> QED BY <3>2
  <2>2. CASE p \in T
    <3>1. PICK i \in 1..Len(b) : Removing(b, i, p)
      BY <1>4, <2>2
    <3>2. Len(a) + i \in 1..Len(e) /\ Removing(e, Len(a) + i, p)
      BY <1>6, <3>1 DEF Removing
    <3> QED BY <3>2
  <2> QED BY <2>1, <2>2
<1> QED BY <1>1, <1>5, <1>6, <1>7, <1>8 DEF Sheds

\* Each kind has its sorts.
LEMMA SortsOfKinds ==
  ASSUME Found, NEW id \in Ids
  PROVE  /\ Kind[id] \in {"Input", "Math", "PID", "Output"} => PartsOf(id) = SortOf(id, "measurement")
         /\ Kind[id] \in {"Trigger", "Function"} => PartsOf(id) = SortOf(id, "action")
         /\ Kind[id] = "LCD" => PartsOf(id) = SortOf(id, "display")
         /\ Kind[id] = "Dashboard" => PartsOf(id) = SortOf(id, "widget")
         /\ Kind[id] = "Custom" => PartsOf(id) = {}
         /\ Kind[id] = "Conditional" => PartsOf(id) = SortOf(id, "condition") \cup SortOf(id, "action")
         /\ Kind[id] \notin {"Input", "Math"} => PartsOf(id) \cap converted = {}
<1>1. \A p \in PartsOf(id) : p \in parts /\ p.of = id /\ Suits(p)
  BY PartsTyped DEF PartsOf
<1>2. \A x : SortOf(id, x) = {p \in PartsOf(id) : p.sort = x}
  BY DEF SortOf
<1>3. \A p \in converted : Kind[p.of] \in {"Input", "Math"}
  BY PartsTyped DEF Convertible
<1>4. Kind[id] \in {"Input", "Math", "PID", "Output"} => PartsOf(id) = SortOf(id, "measurement")
  BY <1>1, <1>2 DEF Suits
<1>5. Kind[id] \in {"Trigger", "Function"} => PartsOf(id) = SortOf(id, "action")
  BY <1>1, <1>2 DEF Suits
<1>6. Kind[id] = "LCD" => PartsOf(id) = SortOf(id, "display")
  BY <1>1, <1>2 DEF Suits
<1>7. Kind[id] = "Dashboard" => PartsOf(id) = SortOf(id, "widget")
  BY <1>1, <1>2 DEF Suits
<1>8. Kind[id] = "Custom" => PartsOf(id) = {}
  BY <1>1 DEF Suits
<1>9. Kind[id] = "Conditional" => PartsOf(id) = SortOf(id, "condition") \cup SortOf(id, "action")
  BY <1>1, <1>2 DEF Suits
<1>10. Kind[id] \notin {"Input", "Math"} => PartsOf(id) \cap converted = {}
  BY <1>1, <1>3
<1> QED BY <1>4, <1>5, <1>6, <1>7, <1>8, <1>9, <1>10

\* The three ways in which handlers delete a row.
LEMMA EndsSo ==
  ASSUME NEW id \in Ids
  PROVE  /\ Kind[id] # "Output" => Ends(<<Erase(id)>>, id)
         /\ Kind[id] \notin {"Output", "Dashboard"} => Ends(<<Erase(id), Unlist(id)>>, id)
         /\ Kind[id] = "Output" => Ends(<<Erase(id), Unlist(id), Call("remove", id)>>, id)
<1>1. /\ Erase(id) \in Steps /\ Call("remove", id) \in Steps
      /\ Kind[id] # "Dashboard" => Unlist(id) \in Steps
  BY StepsTyped DEF Calls
<1>2. Kind[id] # "Output" => Ends(<<Erase(id)>>, id)
  <2> SUFFICES ASSUME Kind[id] # "Output" PROVE Ends(<<Erase(id)>>, id)
    OBVIOUS
  <2>1. PICK t : t = <<Erase(id)>>
    OBVIOUS
  <2>2. t \in Seq(Steps) /\ Len(t) = 1 /\ t[1] = Erase(id)
    BY <1>1, <2>1, OneStep
  <2>3. Is(t, 1, "erase", id)
    BY <2>2 DEF Is, Erase
  <2> QED BY <2>1, <2>2, <2>3 DEF Ends
<1>3. Kind[id] \notin {"Output", "Dashboard"} => Ends(<<Erase(id), Unlist(id)>>, id)
  <2> SUFFICES ASSUME Kind[id] \notin {"Output", "Dashboard"} PROVE Ends(<<Erase(id), Unlist(id)>>, id)
    OBVIOUS
  <2>1. PICK t : t = <<Erase(id), Unlist(id)>>
    OBVIOUS
  <2>2. t \in Seq(Steps) /\ Len(t) = 2 /\ t[1] = Erase(id) /\ t[2] = Unlist(id)
    BY <1>1, <2>1, TwoSteps
  <2>3. Is(t, 1, "erase", id) /\ Is(t, 2, "unlist", id)
    BY <2>2 DEF Is, Erase, Unlist
  <2> QED BY <2>1, <2>2, <2>3 DEF Ends
<1>4. Kind[id] = "Output" => Ends(<<Erase(id), Unlist(id), Call("remove", id)>>, id)
  <2> SUFFICES ASSUME Kind[id] = "Output"
               PROVE  Ends(<<Erase(id), Unlist(id), Call("remove", id)>>, id)
    OBVIOUS
  <2>1. PICK t : t = <<Erase(id), Unlist(id), Call("remove", id)>>
    OBVIOUS
  <2>2. /\ t \in Seq(Steps) /\ Len(t) = 3 /\ t[1] = Erase(id) /\ t[2] = Unlist(id)
        /\ t[3] = Call("remove", id)
    BY <1>1, <2>1, ThreeSteps
  <2>3. Is(t, 1, "erase", id) /\ Is(t, 2, "unlist", id) /\ Calling(t, 3, "remove", id)
    BY <2>2 DEF Is, Calling, Erase, Unlist, Call
  <2>4. After(t, 1, {"remove"}, id)
    BY <2>2, <2>3 DEF After
  <2> QED BY <2>1, <2>2, <2>3, <2>4 DEF Ends
<1> QED BY <1>2, <1>3, <1>4

\* A row whose activation the checks allow is activated, and the daemon is told.
LEMMA PlanOfActivate ==
  ASSUME Found, NEW w \in Workers, NEW id \in rows \ active, Kind[id] \in Controllers,
         Kind[id] = "PID" => source[id] \in active,
         Kind[id] \notin {"PID", "Input", "Math"} => Complete(id),
         Begin(w, controller_activate(id))
  PROVE  \E q : Begins(w, q)
<1>1. PICK s : s = controller_activate(id)
  OBVIOUS
<1>2. id \in Ids /\ SetActive(id) \in Steps /\ Call("activate", id) \in Steps
  BY PartsTyped, StepsTyped DEF Calls
<1>3. s \in Seq(Steps) /\ Len(s) = 2 /\ s[1] = SetActive(id) /\ s[2] = Call("activate", id)
  BY <1>1, <1>2, TwoSteps DEF controller_activate
<1>4. Is(s, 1, "active", id) /\ Calling(s, 2, "activate", id) /\ s[1].do = "active" /\ s[2].do = "call"
  BY <1>3 DEF Is, Calling, SetActive, Call
<1>5. ~\E i \in 1..Len(s) : s[i].do = "save"
  BY <1>3, <1>4
<1>6. Activating(s, id)
  BY <1>3, <1>4, <1>5 DEF Activating
<1> QED BY <1>1, <1>2, <1>3, <1>6, BeginsWith DEF Plan

\* A PID is saved before it is activated.
LEMMA PlanOfAutotune ==
  ASSUME Found, NEW w \in Workers, NEW id \in rows \ active, Kind[id] = "PID", source[id] \in active,
         Begin(w, <<SaveSettings(id)>> \o controller_activate(id))
  PROVE  \E q : Begins(w, q)
<1>1. PICK x, s : x = SaveSettings(id) /\ s = <<x>> \o controller_activate(id)
  OBVIOUS
<1>2. id \in Ids /\ SetActive(id) \in Steps /\ Call("activate", id) \in Steps
  BY PartsTyped, StepsTyped DEF Calls, Controllers
<1>3. Saves(x, id) /\ x.src = source[id] /\ x \in Steps
  BY <1>1, SavesSettings DEF Saves
<1>4. s = <<x, SetActive(id), Call("activate", id)>>
  BY <1>1, <1>2, <1>3, OneThenTwo DEF controller_activate
<1>5. /\ s \in Seq(Steps) /\ Len(s) = 3 /\ s[1] = x /\ s[2] = SetActive(id)
      /\ s[3] = Call("activate", id)
  BY <1>2, <1>3, <1>4, ThreeSteps
<1>6. Is(s, 1, "save", id) /\ Is(s, 2, "active", id) /\ Calling(s, 3, "activate", id)
  BY <1>3, <1>5 DEF Is, Calling, SetActive, Call, Saves
<1>7. s[1].src = source[id] /\ \A p \in s[1].conv : p.of = id
  BY <1>3, <1>5 DEF Saves
<1>8. Activating(s, id)
  BY <1>5, <1>6, <1>7 DEF Activating, Controllers
<1> QED BY <1>1, <1>2, <1>5, <1>8, BeginsWith DEF Plan

\* An active PID resumes.
LEMMA PlanOfResume ==
  ASSUME Found, NEW w \in Workers, NEW id \in active, Kind[id] = "PID",
         Begin(w, <<Resume(id), Call("refresh", id)>>)
  PROVE  \E q : Begins(w, q)
<1>1. PICK s : s = <<Resume(id), Call("refresh", id)>>
  OBVIOUS
<1>2. id \in Ids /\ Resume(id) \in Steps /\ Call("refresh", id) \in Steps
  BY PartsTyped, StepsTyped DEF Calls
<1>3. s \in Seq(Steps) /\ Len(s) = 2 /\ s[1] = Resume(id) /\ s[2] = Call("refresh", id)
  BY <1>1, <1>2, TwoSteps
<1>4. Is(s, 1, "resume", id) /\ Calling(s, 2, "refresh", id)
  BY <1>3 DEF Is, Calling, Resume, Call
<1>5. Resuming(s, id)
  BY <1>3, <1>4 DEF Resuming
<1> QED BY <1>1, <1>2, <1>3, <1>5, BeginsWith DEF Plan

\* A row and those that depend on it are deactivated.
LEMMA PlanOfDeactivate ==
  ASSUME Found, NEW w \in Workers, NEW id \in Ids, NEW d, Stops(d, id), Begin(w, d)
  PROVE  \E q : Begins(w, q)
<1>1. d \in Seq(Steps) /\ Deactivating(d, id)
  BY DEF Stops
<1> QED BY <1>1, BeginsWith DEF Plan

\* A new row and its place in the list.
LEMMA PlanOfAddTwo ==
  ASSUME Found, NEW w \in Workers, NEW id \in Ids, Unused(id), Kind[id] \notin {"Output", "Dashboard"},
         Begin(w, <<Insert(id), List(id)>>)
  PROVE  \E q : Begins(w, q)
<1>1. PICK s : s = <<Insert(id), List(id)>>
  OBVIOUS
<1>2. Insert(id) \in Steps /\ List(id) \in Steps
  BY StepsTyped
<1>3. s \in Seq(Steps) /\ Len(s) = 2 /\ s[1] = Insert(id) /\ s[2] = List(id)
  BY <1>1, <1>2, TwoSteps
<1>4. Is(s, 1, "insert", id) /\ Is(s, 2, "list", id) /\ s[1].do = "insert" /\ s[2].do = "list"
  BY <1>3 DEF Is, Insert, List
<1>5. \A i \in 1..Len(s) : s[i].do = "list" <=> i = 2
  BY <1>3, <1>4
<1>6. Adding(s, id)
  BY <1>3, <1>4, <1>5, UnusedIsFresh DEF Adding
<1> QED BY <1>1, <1>3, <1>6, BeginsWith DEF Plan

\* With a child, which comes after the row: before its place in the list or after.
LEMMA PlanOfAddThree ==
  ASSUME Found, NEW w \in Workers, NEW id \in Ids, Unused(id), Kind[id] \notin {"Output", "Dashboard"},
         NEW p \in Children, p.of = id, NEW full \in BOOLEAN,
         \/ Begin(w, <<Insert(id), AddPart(p, full), List(id)>>)
         \/ Begin(w, <<Insert(id), List(id), AddPart(p, full)>>)
  PROVE  \E q : Begins(w, q)
<1>1. Insert(id) \in Steps /\ List(id) \in Steps /\ AddPart(p, full) \in Steps
  BY StepsTyped
<1>2. /\ Insert(id).do = "insert" /\ Insert(id).id = id /\ List(id).do = "list" /\ List(id).id = id
      /\ AddPart(p, full).do = "part" /\ AddPart(p, full).part.of = id
  BY DEF Insert, List, AddPart
<1>3. CASE Begin(w, <<Insert(id), AddPart(p, full), List(id)>>)
  <2>1. PICK s : s = <<Insert(id), AddPart(p, full), List(id)>>
    OBVIOUS
  <2>2. /\ s \in Seq(Steps) /\ Len(s) = 3 /\ s[1] = Insert(id) /\ s[2] = AddPart(p, full)
        /\ s[3] = List(id)
    BY <1>1, <2>1, ThreeSteps
  <2>3. \A i \in 1..Len(s) : s[i].do = "list" <=> i = 3
    BY <1>2, <2>2
  <2>4. Adding(s, id)
    BY <1>2, <2>2, <2>3, UnusedIsFresh DEF Adding, Is
  <2> QED BY <1>3, <2>1, <2>2, <2>4, BeginsWith DEF Plan
<1>4. CASE Begin(w, <<Insert(id), List(id), AddPart(p, full)>>)
  <2>1. PICK s : s = <<Insert(id), List(id), AddPart(p, full)>>
    OBVIOUS
  <2>2. /\ s \in Seq(Steps) /\ Len(s) = 3 /\ s[1] = Insert(id) /\ s[2] = List(id)
        /\ s[3] = AddPart(p, full)
    BY <1>1, <2>1, ThreeSteps
  <2>3. \A i \in 1..Len(s) : s[i].do = "list" <=> i = 2
    BY <1>2, <2>2
  <2>4. Adding(s, id)
    BY <1>2, <2>2, <2>3, UnusedIsFresh DEF Adding, Is
  <2> QED BY <1>4, <2>1, <2>2, <2>4, BeginsWith DEF Plan
<1> QED BY <1>3, <1>4

\* A dashboard is in no list.
LEMMA PlanOfAddOne ==
  ASSUME Found, NEW w \in Workers, NEW id \in Ids, Unused(id), Kind[id] = "Dashboard",
         Begin(w, <<Insert(id)>>)
  PROVE  \E q : Begins(w, q)
<1>1. PICK s : s = <<Insert(id)>>
  OBVIOUS
<1>2. s \in Seq(Steps) /\ Len(s) = 1 /\ s[1] = Insert(id)
  BY <1>1, StepsTyped, OneStep
<1>3. Is(s, 1, "insert", id)
  BY <1>2 DEF Is, Insert
<1>4. Adding(s, id)
  BY <1>2, <1>3, UnusedIsFresh DEF Adding
<1> QED BY <1>1, <1>2, <1>4, BeginsWith DEF Plan

\* An output, with its measurement and its device.
LEMMA PlanOfAddOutput ==
  ASSUME Found, NEW w \in Workers, NEW id \in Ids, Unused(id), Kind[id] = "Output",
         NEW p \in Children, p.of = id,
         Begin(w, <<Insert(id), List(id), AddPart(p, TRUE), Call("setup", id)>>)
  PROVE  \E q : Begins(w, q)
<1>1. /\ Insert(id) \in Steps /\ List(id) \in Steps /\ AddPart(p, TRUE) \in Steps
      /\ Call("setup", id) \in Steps
  BY StepsTyped DEF Calls
<1>2. /\ Insert(id).do = "insert" /\ Insert(id).id = id /\ List(id).do = "list" /\ List(id).id = id
      /\ AddPart(p, TRUE).do = "part" /\ AddPart(p, TRUE).part.of = id
      /\ Call("setup", id).do = "call" /\ Call("setup", id).id = id /\ Call("setup", id).call = "setup"
  BY DEF Insert, List, AddPart, Call
<1>3. PICK s : s = <<Insert(id), List(id), AddPart(p, TRUE), Call("setup", id)>>
  OBVIOUS
<1>4. /\ s \in Seq(Steps) /\ Len(s) = 4 /\ s[1] = Insert(id) /\ s[2] = List(id)
      /\ s[3] = AddPart(p, TRUE) /\ s[4] = Call("setup", id)
  BY <1>1, <1>3, FourSteps
<1>5. /\ s[1].do = "insert" /\ s[2].do = "list" /\ s[3].do = "part" /\ s[4].do = "call"
      /\ Is(s, 1, "insert", id) /\ Is(s, 2, "list", id) /\ s[3].part.of = id
      /\ Calling(s, 4, "setup", id)
  BY <1>2, <1>4 DEF Is, Calling
<1>6. \A i \in 1..Len(s) : i \in {1, 2, 3, 4}
  BY <1>4
<1>7. \A i \in 1..Len(s) : s[i].do = "list" <=> i = 2
  BY <1>5, <1>6
<1>8. After(s, 1, {"setup"}, id)
  BY <1>4, <1>5 DEF After
<1>9. \A i \in 2..Len(s) : \/ Is(s, i, "list", id)
                           \/ s[i].do = "part" /\ s[i].part.of = id
                           \/ Kind[id] = "Output" /\ Calling(s, i, "setup", id)
  <2> TAKE i \in 2..Len(s)
  <2>1. i = 2 \/ i = 3 \/ i = 4
    BY <1>4
  <2> QED BY <1>5, <2>1
<1>10. 2 \in 2..Len(s) /\ Len(s) > 0 /\ Fresh(id)
  BY <1>4, UnusedIsFresh
<1>11. Adding(s, id)
  BY <1>5, <1>7, <1>8, <1>9, <1>10 DEF Adding
<1> QED BY <1>3, <1>4, <1>11, BeginsWith DEF Plan

\* The last measurement of an input that has any.
LEMMA LastPart ==
  ASSUME Found, NEW id, NEW have, have = SortOf(id, "measurement"), have # {}
  PROVE  (CHOOSE p \in have : \A q \in have : q.no <= p.no) \in have
<1>1. \A p \in have : p \in Parts /\ p.of = id /\ p.sort = "measurement" /\ p.no \in Nat
                      /\ p.no \in 1..MaxParts[id]["measurement"]
  <2> TAKE p \in have
  <2>1. p \in Parts /\ p.of = id /\ p.sort = "measurement"
    BY PartsTyped DEF SortOf, PartsOf, Children
  <2> QED BY <2>1 DEF Parts
<1>2. id \in Ids /\ MaxParts[id]["measurement"] \in Nat
  <2>1. id \in Ids
    BY <1>1 DEF Parts
  <2> QED BY <2>1, PagesAssumption DEF Sorts
<1>3. PICK T : T = {n \in Nat : \A q \in have : q.no <= n}
  OBVIOUS
<1>4. T \in SUBSET Nat /\ T # {}
  <2>1. MaxParts[id]["measurement"] \in T
    BY <1>1, <1>2, <1>3
  <2> QED BY <1>3, <2>1
<1>5. PICK n \in T : \A m \in T : n <= m
  BY <1>4, LeastOf
<1>6. n \in Nat /\ \A q \in have : q.no <= n /\ q.no \in Nat /\ q.no >= 1
  BY <1>1, <1>3, <1>5
<1>7. \E p \in have : p.no = n
  <2> SUFFICES ASSUME \A p \in have : p.no # n PROVE FALSE
    OBVIOUS
  <2>1. n >= 1 /\ n - 1 \in Nat
    BY <1>6
  <2>2. \A q \in have : q.no <= n - 1
    BY <1>6
  <2>3. n - 1 \in T
    BY <1>3, <2>1, <2>2
  <2> QED BY <1>5, <1>6, <2>3
<1>8. \E p \in have : \A q \in have : q.no <= p.no
  BY <1>6, <1>7
<1> QED BY <1>8

\* What is added and deleted to reach a number of measurements is the input's.
LEMMA ChannelsAreOfIt ==
  ASSUME Found, NEW id \in Ids, Kind[id] = "Input", NEW number \in 1..MaxParts[id]["measurement"],
         NEW c, c = input_channels(id, number)
  PROVE  /\ c \in Seq(Steps)
         /\ \A i \in 1..Len(c) : \/ c[i].do = "unpart" /\ c[i].part.of = id
                                 \/ c[i].do = "part" /\ c[i].part.of = id
<1>1. PICK have, new : /\ have = SortOf(id, "measurement")
                       /\ new = {Part(id, "measurement", n) : n \in 1..number} \ have
  OBVIOUS
<1>2. have \subseteq Children /\ \A p \in have : p.of = id
  BY <1>1, PartsTyped DEF SortOf, PartsOf
<1>3. number \in Nat /\ number >= 1 /\ MaxParts[id]["measurement"] \in Nat
  BY PagesAssumption DEF Sorts
<1>4. CASE number < Cardinality(have)
  <2>1. have # {}
    BY <1>3, <1>4, FS_EmptySet
  <2>2. PICK last : last = CHOOSE p \in have : \A q \in have : q.no <= p.no
    OBVIOUS
  <2>3. last \in have
    BY <1>1, <2>1, <2>2, LastPart
  <2>4. c = <<ErasePart(last)>>
    BY <1>1, <1>4, <2>2 DEF input_channels
  <2>5. ErasePart(last) \in Steps
    BY <1>2, <2>3, StepsTyped
  <2>6. c \in Seq(Steps) /\ Len(c) = 1 /\ c[1] = ErasePart(last)
    BY <2>4, <2>5, OneStep
  <2> QED BY <1>2, <2>3, <2>6 DEF ErasePart
<1>5. CASE ~(number < Cardinality(have))
  <2>1. \A n \in 1..number : Part(id, "measurement", n) \in Children /\ Part(id, "measurement", n).of = id
    <3> TAKE n \in 1..number
    <3>1. n \in Nat /\ n \in 1..MaxParts[id]["measurement"]
      BY <1>3
    <3> QED BY <3>1, PartsToCome DEF Part
  <2>2. new \subseteq Children /\ \A p \in new : p.of = id
    BY <1>1, <2>1
  <2>3. IsFiniteSet(new)
    <3>1. PICK all : all = {Part(id, "measurement", n) : n \in 1..number}
      OBVIOUS
    <3>2. PICK f : f = [n \in 1..number |-> Part(id, "measurement", n)]
      OBVIOUS
    <3>3. f \in Surjection(1..number, all)
      BY <3>1, <3>2 DEF Surjection
    <3>4. IsFiniteSet(1..number)
      BY <1>3, FS_Interval
    <3>5. IsFiniteSet(all) /\ new \in SUBSET all
      BY <1>1, <3>1, <3>3, <3>4, FS_Surjection
    <3> QED BY <3>5, FS_Subset
  <2>4. PICK e : e = SetToSeq(new)
    OBVIOUS
  <2>5. e \in Seq(new) /\ Len(e) \in Nat /\ DOMAIN e = 1..Len(e)
    BY <2>3, <2>4, Enumerates
  <2>6. c = [i \in 1..Len(e) |-> AddPart(e[i], FALSE)]
    BY <1>1, <1>5, <2>4, <2>5 DEF input_channels, Sequential
  <2>7. \A i \in 1..Len(e) : e[i] \in new /\ AddPart(e[i], FALSE) \in Steps
    <3>1. \A p \in Children : AddPart(p, FALSE) \in Steps
      BY StepsTyped
    <3>2. \A i \in 1..Len(e) : e[i] \in new
      BY <2>5, ElementOfSeq
    <3> QED BY <2>2, <3>1, <3>2
  <2>8. c \in [1..Len(e) -> Steps]
    BY <2>6, <2>7
  <2>9. c \in Seq(Steps) /\ Len(c) = Len(e)
    BY <2>5, <2>8
  <2>10. \A i \in 1..Len(e) : c[i].do = "part" /\ c[i].part = e[i]
    BY <2>6 DEF AddPart
  <2> QED BY <2>2, <2>7, <2>9, <2>10
<1> QED BY <1>4, <1>5

\* An input that is not active is saved, and its channels are deleted or added.
LEMMA PlanOfChannels ==
  ASSUME Found, NEW w \in Workers, NEW id \in rows \ active, Kind[id] = "Input",
         NEW number \in 1..MaxParts[id]["measurement"],
         Begin(w, <<SaveSettings(id)>> \o input_channels(id, number))
  PROVE  \E q : Begins(w, q)
<1>1. PICK x, a, c, s : /\ x = SaveSettings(id) /\ a = <<x>> /\ c = input_channels(id, number)
                        /\ s = a \o c
  OBVIOUS
<1>2. Saves(x, id) /\ x \in Steps /\ id \in Ids
  BY <1>1, SavesSettings, PartsTyped DEF Saves
<1>3. a \in Seq(Steps) /\ Len(a) = 1 /\ a[1] = x
  BY <1>1, <1>2, OneStep
<1>4. /\ c \in Seq(Steps)
      /\ \A i \in 1..Len(c) : \/ c[i].do = "unpart" /\ c[i].part.of = id
                              \/ c[i].do = "part" /\ c[i].part.of = id
  BY <1>1, <1>2, ChannelsAreOfIt
<1>5. /\ s \in Seq(Steps) /\ Len(c) \in Nat /\ Len(s) = Len(a) + Len(c)
      /\ \A i \in 1..Len(a) : s[i] = a[i]
      /\ \A i \in 1..Len(c) : s[Len(a) + i] = c[i]
  BY <1>1, <1>3, <1>4, Joined
<1>6. s[1] = x /\ Len(s) > 0
  BY <1>3, <1>5
<1>7. ASSUME NEW i \in 2..Len(s)
      PROVE  (s[i].do = "unpart" /\ s[i].part.of = id) \/ (s[i].do = "part" /\ s[i].part.of = id)
  <2>1. PICK j \in 1..Len(c) : i = Len(a) + j
    <3>1. i - 1 \in 1..Len(c) /\ i = Len(a) + (i - 1)
      BY <1>3, <1>5
    <3> QED BY <3>1
  <2>2. s[i] = c[j]
    BY <1>5, <2>1
  <2> QED BY <1>4, <2>2
<1>8. Saving(s, id)
  BY <1>2, <1>6, <1>7 DEF Saving, Saves, Is
<1> QED BY <1>1, <1>2, <1>5, <1>8, BeginsWith DEF Plan

(***************************************************************************)
(* Lists and conversions                                                   *)
(***************************************************************************)
\* A list is written that has each of its rows once if the one before had.
LEMMA PlanOfOrder ==
  ASSUME Found, NEW w \in Workers, NEW l \in Lists, NEW s \in Seq(Ids),
         \A id \in rows : Kind[id] # "Dashboard" /\ ListOf[Kind[id]] = l /\ Once(order[l], id)
                          => Once(s, id),
         Begin(w, <<SetOrder(l, s)>>)
  PROVE  \E q : Begins(w, q)
<1>1. PICK t : t = <<SetOrder(l, s)>>
  OBVIOUS
<1>2. t \in Seq(Steps) /\ Len(t) = 1 /\ t[1] = SetOrder(l, s)
  BY <1>1, StepsTyped, OneStep
<1>3. t[1].do = "order" /\ t[1].list = l /\ t[1].ids = s
  BY <1>2 DEF SetOrder
<1>4. Ordering(t)
  BY <1>2, <1>3 DEF Ordering, InList
<1> QED BY <1>1, <1>2, <1>4, BeginsWith DEF Plan

\* Two of a list that change their places are still there once each.
LEMMA SwapKeepsOnce ==
  ASSUME NEW t \in Seq(Ids), NEW i \in 1..Len(t), NEW j \in 1..Len(t)
  PROVE  Swapped(t, i, j) \in Seq(Ids) /\ \A id : Once(t, id) => Once(Swapped(t, i, j), id)
<1>1. PICK s : s = Swapped(t, i, j)
  OBVIOUS
<1>2. Len(t) \in Nat /\ DOMAIN t = 1..Len(t) /\ \A k \in 1..Len(t) : t[k] \in Ids
  BY LenProperties, ElementOfSeq
<1>3. /\ DOMAIN s = 1..Len(t)
      /\ \A k \in 1..Len(t) : s[k] = IF k = j THEN t[i] ELSE IF k = i THEN t[j] ELSE t[k]
  BY <1>1, <1>2 DEF Swapped
<1>4. s \in Seq(Ids) /\ Len(s) = Len(t)
  <2>1. s = [k \in 1..Len(t) |-> s[k]]
    BY <1>1, <1>2 DEF Swapped
  <2>2. s \in [1..Len(t) -> Ids]
    BY <1>2, <1>3, <2>1
  <2> QED BY <1>2, <2>2
<1>5. ASSUME NEW id, Once(t, id) PROVE Once(s, id)
  <2>1. PICK k \in 1..Len(t) : \A h \in 1..Len(t) : t[h] = id <=> h = k
    BY <1>5 DEF Once
  <2>2. PICK m \in 1..Len(t) : m = IF k = i THEN j ELSE IF k = j THEN i ELSE k
    OBVIOUS
  <2>3. \A h \in 1..Len(t) : s[h] = id <=> h = m
    BY <1>3, <2>1, <2>2
  <2>4. m \in 1..Len(s) /\ \A h \in 1..Len(s) : s[h] = id <=> h = m
    BY <1>4, <2>3
  <2> QED BY <2>4 DEF Once
<1> QED BY <1>1, <1>4, <1>5

\* One up or one down.
LEMMA BeginsReorder ==
  ASSUME Found, NEW w \in Workers, NEW id \in Ids, reorder(w, id)
  PROVE  \E q : Begins(w, q)
<1>1. PICK l, t : l = ListOf[Kind[id]] /\ t = order[l]
  OBVIOUS
<1>2. l \in Lists /\ t \in Seq(Ids)
  BY <1>1, ListsOfKinds, PartsTyped DEF reorder
<1>3. PICK i : i = CHOOSE k \in DOMAIN t : t[k] = id
  OBVIOUS
<1>4. i \in 1..Len(t)
  <2>1. id \in ToSet(t)
    BY <1>1 DEF reorder
  <2>2. \E k \in DOMAIN t : t[k] = id
    BY <2>1 DEF ToSet
  <2>3. i \in DOMAIN t
    BY <1>3, <2>2
  <2> QED BY <1>2, <2>3, LenProperties
<1>5. PICK s \in reorder_list(t, id) : Begin(w, <<SetOrder(l, s)>>)
  BY <1>1 DEF reorder
<1>6. PICK j \in 1..Len(t) : s = Swapped(t, i, j)
  BY <1>2, <1>3, <1>5, LenProperties DEF reorder_list
<1>7. s \in Seq(Ids) /\ \A r : Once(t, r) => Once(s, r)
  BY <1>2, <1>4, <1>6, SwapKeepsOnce
<1>8. \A r \in rows : Kind[r] # "Dashboard" /\ ListOf[Kind[r]] = l /\ Once(order[l], r) => Once(s, r)
  BY <1>1, <1>7
<1> QED BY <1>2, <1>5, <1>7, <1>8, PlanOfOrder

\* What the form shows: all of the list, in another order.
LEMMA BeginsReorderVisible ==
  ASSUME Found, InTurn, NEW w \in Workers, NEW l \in Lists, reorder_visible(w, l)
  PROVE  \E q : Begins(w, q)
<1>1. PICK t, V : t = order[l] /\ V = {id \in ToSet(t) : id \in rows}
  OBVIOUS
<1>2. t \in Seq(Ids) /\ V \subseteq Ids
  BY <1>1, PartsTyped
<1>3. IsFiniteSet(V)
  <2>1. V \in SUBSET rows /\ IsFiniteSet(rows)
    BY <1>1 DEF Found, SourceInv, Base, TableTypes
  <2> QED BY <2>1, FS_Subset
<1>4. PICK s \in SetToSeqs(V) : Begin(w, <<SetOrder(l, s)>>)
  BY <1>1 DEF reorder_visible, Shown, InTurn
<1>5. PICK n \in Nat : n = Cardinality(V)
  BY <1>3, FS_CardinalityType
<1>6. s \in [1..n -> V] /\ \A i, j \in 1..n : i # j => s[i] # s[j]
  BY <1>4, <1>5 DEF SetToSeqs
<1>7. s \in Injection(1..n, V)
  BY <1>6 DEF Injection, IsInjective
<1>8. s \in Surjection(1..n, V)
  <2>1. Cardinality(1..n) = n
    BY FS_Interval
  <2> QED BY <1>3, <1>5, <1>7, <2>1, FS_Injection
<1>9. s \in Seq(Ids) /\ Len(s) = n
  <2>1. s \in [1..n -> Ids]
    BY <1>2, <1>6
  <2> QED BY <2>1
<1>10. ASSUME NEW id \in rows, Once(order[l], id) PROVE Once(s, id)
  <2>1. id \in V
    <3>1. PICK k \in 1..Len(t) : t[k] = id
      BY <1>1, <1>10 DEF Once
    <3>2. DOMAIN t = 1..Len(t)
      BY <1>2, LenProperties
    <3> QED BY <1>1, <3>1, <3>2 DEF ToSet
  <2>2. PICK k \in 1..n : s[k] = id
    BY <1>8, <2>1 DEF Surjection
  <2>3. \A i \in 1..n : s[i] = id <=> i = k
    BY <1>6, <2>2
  <2> QED BY <1>9, <2>3 DEF Once
<1> QED BY <1>4, <1>9, <1>10, PlanOfOrder

\* Units are converted in another way, or no more.
LEMMA BeginsConvert ==
  ASSUME Found, NEW w \in Workers, settings_measurement(w)
  PROVE  \E q : Begins(w, q)
<1>1. ClearConversion \in Steps /\ DropConversion \in Steps /\ SaveConversion \in Steps
  BY StepsTyped
<1>2. /\ ClearConversion.do = "clear" /\ DropConversion.do = "drop" /\ SaveConversion.do = "convert"
  BY DEF ClearConversion, DropConversion, SaveConversion
<1>3. CASE Begin(w, <<SaveConversion>>) /\ (~conversion \/ check_conversion_being_used)
  <2>1. PICK s : s = <<SaveConversion>>
    OBVIOUS
  <2>2. s \in Seq(Steps) /\ Len(s) = 1 /\ s[1] = SaveConversion
    BY <1>1, <2>1, OneStep
  <2>3. Converting(s)
    BY <1>2, <1>3, <2>2 DEF Converting
  <2> QED BY <1>3, <2>1, <2>2, <2>3, BeginsWith DEF Plan
<1>4. CASE Begin(w, <<ClearConversion, DropConversion>>) /\ check_conversion_being_used
  <2>1. PICK s : s = <<ClearConversion, DropConversion>>
    OBVIOUS
  <2>2. s \in Seq(Steps) /\ Len(s) = 2 /\ s[1] = ClearConversion /\ s[2] = DropConversion
    BY <1>1, <2>1, TwoSteps
  <2>3. Converting(s)
    BY <1>2, <1>4, <2>2 DEF Converting
  <2> QED BY <1>4, <2>1, <2>2, <2>3, BeginsWith DEF Plan
<1> QED BY <1>3, <1>4 DEF settings_measurement, settings_convert_add, settings_convert_mod,
              settings_convert_del

\* A child that is to come, of a kind of row that has such.
LEMMA NextPart ==
  ASSUME NEW id \in Ids, NEW x \in Sorts, NEW p \in NewPart(id, x),
         \/ x = "action" /\ Kind[id] \in {"Conditional", "Trigger", "Function"}
         \/ x = "condition" /\ Kind[id] = "Conditional"
         \/ x = "display" /\ Kind[id] = "LCD"
         \/ x = "widget" /\ Kind[id] = "Dashboard"
  PROVE  p \in Children /\ p.of = id
<1>1. p \in Parts /\ p.of = id /\ p.sort = x
  BY PartsToCome
<1> QED BY <1>1 DEF Children, Suits

\* What stops a function before it is deleted.
LEMMA StopsFunction ==
  ASSUME Found, NEW id \in rows, Kind[id] \in Controllers \ {"Input"},
         NEW d, d = IF id \in active THEN controller_deactivate(id) ELSE <<>>
  PROVE  Stops(d, id)
<1>1. id \in Ids
  BY PartsTyped
<1> QED BY <1>1, StopsNothing, StopsController

(***************************************************************************)
(* The page of functions                                                   *)
(***************************************************************************)
\* Functions of all kinds, their actions and the custom controllers.
LEMMA BeginsFunction ==
  ASSUME Found, InTurn, NEW w \in Workers, NEW id \in Ids,
         \/ function_add(w, id) \/ function_del(w, id) \/ action_add(w, id)
         \/ controller_mod(w, id) \/ controller_del(w, id) \/ custom_activate(w, id)
  PROVE  \E q : Begins(w, q)
<1>1. CASE function_add(w, id)
  <2>1. Unused(id) /\ Kind[id] \in FunctionKinds
    BY <1>1 DEF function_add
  <2>2. CASE Kind[id] = "PID"
    <3>1. Begin(w, <<Insert(id), AddPart(Part(id, "measurement", 1), FALSE), List(id)>>)
      BY <1>1, <2>2 DEF function_add
    <3>2. Part(id, "measurement", 1) \in Children /\ Part(id, "measurement", 1).of = id
      BY <2>2, PartsToCome DEF Part
    <3> QED BY <2>1, <2>2, <3>1, <3>2, PlanOfAddThree
  <2>3. CASE Kind[id] # "PID"
    <3>1. Begin(w, <<Insert(id), List(id)>>)
      BY <1>1, <2>3 DEF function_add
    <3> QED BY <2>1, <3>1, PlanOfAddTwo DEF FunctionKinds
  <2> QED BY <2>2, <2>3
<1>2. CASE function_del(w, id)
  <2>1. Kind[id] = "Function" /\ id \in rows
    BY <1>2 DEF function_del, Shown, InTurn
  <2>2. id \notin active
    BY <2>1, PartsTyped DEF Controllers
  <2>3. PICK e, t : e = EraseParts(SortOf(id, "action")) /\ t = <<Erase(id), Unlist(id)>>
    OBVIOUS
  <2>4. Stops(<<>>, id) /\ Sheds(e, id) /\ Ends(t, id)
    BY <2>1, <2>2, <2>3, StopsNothing, ShedsSort, SortsOfKinds, EndsSo
  <2>5. <<>> \o e = e
    BY <2>4, ConcatEmptySeq DEF Sheds
  <2>6. Begin(w, (<<>> \o e) \o t)
    BY <1>2, <2>3, <2>5 DEF function_del
  <2> QED BY <2>1, <2>4, <2>6, PlanOfDelete
<1>3. CASE action_add(w, id)
  <2>1. Kind[id] \in {"Conditional", "Trigger", "Function"} /\ id \in rows /\ id \notin active
    BY <1>3 DEF action_add, Shown, InTurn
  <2>2. PICK p \in NewPart(id, "action") : Begin(w, <<AddPart(p, FALSE)>>)
    BY <1>3 DEF action_add
  <2>3. p \in Children /\ p.of = id
    BY <2>1, NextPart DEF Sorts
  <2> QED BY <2>1, <2>2, <2>3, PlanOfGrowing
<1>4. CASE controller_mod(w, id)
  <2>1. id \in rows \ active /\ Kind[id] = "Custom" /\ Begin(w, <<SaveSettings(id)>>)
    BY <1>4 DEF controller_mod
  <2> QED BY <2>1, SavesSettings, PlanOfSave
<1>5. CASE controller_del(w, id)
  <2>1. Kind[id] = "Custom" /\ id \in rows
    BY <1>5 DEF controller_del
  <2>2. PICK d, t : /\ d = IF id \in active THEN controller_deactivate(id) ELSE <<>>
                    /\ t = <<Erase(id), Unlist(id)>>
    OBVIOUS
  <2>3. Stops(d, id) /\ Sheds(<<>>, id) /\ Ends(t, id)
    BY <2>1, <2>2, StopsFunction, ShedsNothing, SortsOfKinds, EndsSo DEF Controllers
  <2>4. d \o <<>> = d
    BY <2>3, ConcatEmptySeq DEF Stops
  <2>5. Begin(w, (d \o <<>>) \o t)
    BY <1>5, <2>2, <2>4 DEF controller_del
  <2> QED BY <2>1, <2>3, <2>5, PlanOfDelete
<1>6. CASE custom_activate(w, id)
  <2>1. Kind[id] = "Custom" /\ id \in rows \ active /\ Begin(w, controller_activate(id))
    BY <1>6 DEF custom_activate, Shown, InTurn
  <2>2. Complete(id)
    BY <2>1, SortsOfKinds DEF Complete
  <2> QED BY <2>1, <2>2, PlanOfActivate DEF Controllers
<1> QED BY <1>1, <1>2, <1>3, <1>4, <1>5, <1>6

\* The conditions and actions that are deleted, after those of d.
LEMMA ThenTheRest ==
  ASSUME NEW d \in Seq(Steps), NEW e \in Seq(Steps), NEW t \in Seq(Steps)
  PROVE  d \o (e \o t) = (d \o e) \o t
BY ConcatAssociative

\* A Conditional, which has conditions and actions.
LEMMA BeginsConditional ==
  ASSUME Found, InTurn, NEW w \in Workers, NEW id \in Ids,
         \/ conditional_mod(w, id) \/ conditional_del(w, id) \/ conditional_activate(w, id)
         \/ conditional_condition_add(w, id)
  PROVE  \E q : Begins(w, q)
<1>1. CASE conditional_mod(w, id)
  <2>1. id \in rows /\ Kind[id] = "Conditional" /\ Begin(w, <<SaveSettings(id)>> \o Refreshed(id))
    BY <1>1 DEF conditional_mod
  <2> QED BY <2>1, SavesSettings, PlanOfSaveRefreshed
<1>2. CASE conditional_del(w, id)
  <2>1. Kind[id] = "Conditional" /\ id \in rows
    BY <1>2 DEF conditional_del
  <2>2. PICK d, e, t : /\ d = IF id \in active THEN controller_deactivate(id) ELSE <<>>
                       /\ e = EraseParts(SortOf(id, "condition")) \o EraseParts(SortOf(id, "action"))
                       /\ t = <<Erase(id), Unlist(id)>>
    OBVIOUS
  <2>3. Stops(d, id) /\ Sheds(e, id) /\ Ends(t, id)
    BY <2>1, <2>2, StopsFunction, ShedsSorts, SortsOfKinds, EndsSo DEF Controllers
  <2>4. Begin(w, d \o (e \o t))
    BY <1>2, <2>2 DEF conditional_del, conditional_del_plan, conditional_deactivate
  <2>5. d \o (e \o t) = (d \o e) \o t
    BY <2>3, ThenTheRest DEF Stops, Sheds, Ends
  <2> QED BY <2>1, <2>3, <2>4, <2>5, PlanOfDelete
<1>3. CASE conditional_activate(w, id)
  <2>1. Kind[id] = "Conditional" /\ id \in rows \ active /\ Begin(w, controller_activate(id))
        /\ PartsOf(id) \subseteq filled
    BY <1>3 DEF conditional_activate, Shown, InTurn
  <2>2. Complete(id)
    BY <2>1, SortsOfKinds DEF Complete
  <2> QED BY <2>1, <2>2, PlanOfActivate DEF Controllers
<1>4. CASE conditional_condition_add(w, id)
  <2>1. Kind[id] = "Conditional" /\ id \in rows /\ id \notin active
    BY <1>4 DEF conditional_condition_add
  <2>2. PICK p \in NewPart(id, "condition") : Begin(w, <<AddPart(p, FALSE)>>)
    BY <1>4 DEF conditional_condition_add
  <2>3. p \in Children /\ p.of = id
    BY <2>1, NextPart DEF Sorts
  <2> QED BY <2>1, <2>2, <2>3, PlanOfGrowing
<1> QED BY <1>1, <1>2, <1>3, <1>4

\* A Trigger, which has actions.
LEMMA BeginsTrigger ==
  ASSUME Found, InTurn, NEW w \in Workers, NEW id \in Ids,
         trigger_mod(w, id) \/ trigger_del(w, id) \/ trigger_activate(w, id)
  PROVE  \E q : Begins(w, q)
<1>1. CASE trigger_mod(w, id)
  <2>1. id \in rows /\ Kind[id] = "Trigger" /\ Begin(w, <<SaveSettings(id)>> \o Refreshed(id))
    BY <1>1 DEF trigger_mod
  <2> QED BY <2>1, SavesSettings, PlanOfSaveRefreshed
<1>2. CASE trigger_del(w, id)
  <2>1. Kind[id] = "Trigger" /\ id \in rows
    BY <1>2 DEF trigger_del
  <2>2. PICK d, e, t : /\ d = IF id \in active THEN controller_deactivate(id) ELSE <<>>
                       /\ e = EraseParts(SortOf(id, "action")) /\ t = <<Erase(id), Unlist(id)>>
    OBVIOUS
  <2>3. Stops(d, id) /\ Sheds(e, id) /\ Ends(t, id)
    BY <2>1, <2>2, StopsFunction, ShedsSort, SortsOfKinds, EndsSo DEF Controllers
  <2>4. Begin(w, (d \o e) \o t)
    BY <1>2, <2>2 DEF trigger_del, trigger_deactivate
  <2> QED BY <2>1, <2>3, <2>4, PlanOfDelete
<1>3. CASE trigger_activate(w, id)
  <2>1. Kind[id] = "Trigger" /\ id \in rows \ active /\ Begin(w, controller_activate(id))
        /\ SortOf(id, "action") # {} /\ SortOf(id, "action") \subseteq filled
    BY <1>3 DEF trigger_activate, Shown, InTurn
  <2>2. Complete(id)
    BY <2>1, SortsOfKinds DEF Complete
  <2> QED BY <2>1, <2>2, PlanOfActivate DEF Controllers
<1> QED BY <1>1, <1>2, <1>3

\* An action or a condition is saved or deleted: not blank, as the checks ask.
LEMMA BeginsFunctionPart ==
  ASSUME Found, InTurn, NEW w \in Workers, NEW p \in parts,
         \/ action_mod(w, p) \/ action_del(w, p)
         \/ conditional_condition_mod(w, p) \/ conditional_condition_del(w, p)
  PROVE  \E q : Begins(w, q)
<1>1. CASE action_mod(w, p)
  <2>1. PICK full \in BOOLEAN : check_form_actions(full) /\ Begin(w, <<SavePart(p, full, FALSE)>>)
    BY <1>1 DEF action_mod
  <2>2. full
    BY <2>1 DEF check_form_actions, InTurn
  <2>3. Saves(SavePart(p, full, FALSE), p.of) /\ ~SavePart(p, full, FALSE).settings
    BY <2>2, SavesPart
  <2> QED BY <2>1, <2>3, PlanOfSave
<1>2. CASE action_del(w, p) \/ conditional_condition_del(w, p)
  BY <1>2, PlanOfShrinking DEF action_del, conditional_condition_del
<1>3. CASE conditional_condition_mod(w, p)
  <2>1. PICK full \in BOOLEAN :
          full /\ Begin(w, <<SavePart(p, full, TRUE)>> \o Refreshed(p.of)) /\ p.sort = "condition"
    BY <1>3 DEF conditional_condition_mod, InTurn
  <2>2. Saves(SavePart(p, full, TRUE), p.of)
    BY <2>1, SavesPart
  <2>3. Kind[p.of] # "Output"
    BY <2>1, PartsTyped DEF Suits
  <2> QED BY <2>1, <2>2, <2>3, PlanOfSaveRefreshed
<1> QED BY <1>1, <1>2, <1>3

\* A PID, which keeps its measurement while it is active.
LEMMA BeginsPID ==
  ASSUME Found, InTurn, NEW w \in Workers, NEW id \in Ids,
         \/ \E q \in parts : pid_mod(w, id, q)
         \/ pid_del(w, id) \/ pid_activate(w, id) \/ pid_autotune(w, id) \/ pid_manipulate(w, id)
  PROVE  \E q : Begins(w, q)
<1>1. CASE \E q \in parts : pid_mod(w, id, q)
  <2>1. PICK q \in parts : pid_mod(w, id, q)
    BY <1>1
  <2>2. Kind[id] = "PID" /\ id \in rows /\ (id \notin active \/ q.of = source[id])
    BY <2>1 DEF pid_mod, InTurn
  <2>3. PICK f, c, src, b, x :
          /\ f = IF q \in filled THEN PartsOf(id) ELSE {}
          /\ c = PartsOf(id) \cap converted /\ src = q.of /\ b = TRUE
          /\ x = Save(id, f, c, src, b)
    OBVIOUS
  <2>4. Begin(w, <<x>> \o Refreshed(id))
    BY <2>1, <2>3 DEF pid_mod
  <2>5. f \in SUBSET Children /\ c \in SUBSET Convertible /\ q.of \in Ids
    BY <2>3, PartsTyped
  <2>6. x \in Steps
    BY <2>3, <2>5, StepsTyped
  <2>7. x.do = "save" /\ x.id = id /\ x.conv = c /\ x.src = src
    <3>1. x = Save(id, f, c, src, b)
      BY <2>3
    <3> QED BY <3>1, SaveFields
  <2>8. Saves(x, id)
    BY <2>2, <2>3, <2>6, <2>7 DEF Saves, PartsOf
  <2> QED BY <2>2, <2>4, <2>8, PlanOfSaveRefreshed
<1>2. CASE pid_del(w, id)
  <2>1. Kind[id] = "PID" /\ id \in rows
    BY <1>2 DEF pid_del
  <2>2. PICK d, e, t : /\ d = IF id \in active THEN pid_deactivate(id) ELSE <<>>
                       /\ e = EraseParts(SortOf(id, "measurement")) /\ t = <<Erase(id)>>
    OBVIOUS
  <2>3. Stops(d, id) /\ Sheds(e, id) /\ Ends(t, id)
    BY <2>1, <2>2, StopsNothing, StopsPID, ShedsSort, SortsOfKinds, EndsSo
  <2>4. Begin(w, (d \o e) \o t)
    BY <1>2, <2>2 DEF pid_del
  <2> QED BY <2>1, <2>3, <2>4, PlanOfDelete
<1>3. CASE pid_activate(w, id)
  <2>1. Kind[id] = "PID" /\ id \in rows \ active /\ source[id] \in active
        /\ Begin(w, controller_activate(id))
    BY <1>3 DEF pid_activate, CanActivatePID, SourceIsActive, Shown, InTurn
  <2> QED BY <2>1, PlanOfActivate DEF Controllers
<1>4. CASE pid_autotune(w, id)
  <2>1. Kind[id] = "PID" /\ id \in rows \ active
    BY <1>4 DEF pid_autotune, Shown, InTurn
  <2>2. CASE CanActivatePID(id)
    <3>1. source[id] \in active
      BY <2>2 DEF CanActivatePID, SourceIsActive
    <3>2. Begin(w, <<SaveSettings(id)>> \o controller_activate(id))
      BY <1>4, <2>2 DEF pid_autotune
    <3> QED BY <2>1, <3>1, <3>2, PlanOfAutotune
  <2>3. CASE ~CanActivatePID(id)
    <3>1. Saves(SaveSettings(id), id)
      BY <2>1, SavesSettings
    <3>2. <<SaveSettings(id)>> \o <<>> = <<SaveSettings(id)>>
      BY <3>1, OneStep, ConcatEmptySeq DEF Saves
    <3>3. Begin(w, <<SaveSettings(id)>>)
      BY <1>4, <2>3, <3>2 DEF pid_autotune
    <3> QED BY <2>1, <3>1, <3>3, PlanOfSave
  <2> QED BY <2>2, <2>3
<1>5. CASE pid_manipulate(w, id)
  <2>1. Kind[id] = "PID" /\ id \in rows /\ id \in active
    BY <1>5 DEF pid_manipulate, Shown, InTurn
  <2>2. CASE Begin(w, <<SaveSettings(id), Call("refresh", id)>>)
    BY <2>1, <2>2, SavesSettings, PlanOfSaveAndTell
  <2>3. CASE Begin(w, <<Resume(id), Call("refresh", id)>>)
    BY <2>1, <2>3, PlanOfResume
  <2> QED BY <1>5, <2>2, <2>3 DEF pid_manipulate
<1> QED BY <1>1, <1>2, <1>3, <1>4, <1>5

\* The button that deactivates.
LEMMA BeginsDeactivate ==
  ASSUME Found, NEW w \in Workers, NEW id \in Ids, page_deactivate(w, id)
  PROVE  \E q : Begins(w, q)
<1>1. CASE Kind[id] = "PID"
  <2>1. Begin(w, pid_deactivate(id))
    BY <1>1 DEF page_deactivate
  <2> QED BY <1>1, <2>1, StopsPID, PlanOfDeactivate
<1>2. CASE Kind[id] # "PID"
  <2>1. Begin(w, controller_deactivate(id)) /\ Kind[id] \in Controllers \ {"Input"}
    BY <1>2 DEF page_deactivate
  <2> QED BY <2>1, StopsController, PlanOfDeactivate
<1> QED BY <1>1, <1>2

(***************************************************************************)
(* The page of inputs and maths                                            *)
(***************************************************************************)
\* An input, whose PIDs are deactivated before it.
LEMMA BeginsInput ==
  ASSUME Found, InTurn, NEW w \in Workers, NEW id \in Ids,
         \/ input_add(w, id) \/ input_mod(w, id) \/ input_del(w, id)
         \/ input_activate(w, id) \/ input_deactivate(w, id)
  PROVE  \E q : Begins(w, q)
<1>1. CASE input_add(w, id)
  <2>1. Kind[id] = "Input" /\ Unused(id)
    BY <1>1 DEF input_add
  <2>2. PICK full \in BOOLEAN :
          Begin(w, <<Insert(id), List(id), AddPart(Part(id, "measurement", 1), full)>>)
    BY <1>1 DEF input_add
  <2>3. Part(id, "measurement", 1) \in Children /\ Part(id, "measurement", 1).of = id
    BY <2>1, PartsToCome DEF Part
  <2> QED BY <2>1, <2>2, <2>3, PlanOfAddThree
<1>2. CASE input_mod(w, id)
  <2>1. Kind[id] = "Input" /\ id \in rows \ active
    BY <1>2 DEF input_mod
  <2>2. PICK number \in 1..MaxParts[id]["measurement"] :
          Begin(w, <<SaveSettings(id)>> \o input_channels(id, number))
    BY <1>2 DEF input_mod
  <2> QED BY <2>1, <2>2, PlanOfChannels
<1>3. CASE input_del(w, id)
  <2>1. Kind[id] = "Input" /\ id \in rows
    BY <1>3 DEF input_del
  <2>2. PICK d, e, t : /\ d = IF id \in active THEN input_deactivate_plan(id) ELSE <<>>
                       /\ e = EraseParts(SortOf(id, "measurement"))
                       /\ t = <<Erase(id), Unlist(id)>>
    OBVIOUS
  <2>3. Stops(d, id) /\ Sheds(e, id) /\ Ends(t, id)
    BY <2>1, <2>2, StopsNothing, StopsInput, ShedsSort, SortsOfKinds, EndsSo
  <2>4. Begin(w, (d \o e) \o t)
    BY <1>3, <2>2 DEF input_del
  <2> QED BY <2>1, <2>3, <2>4, PlanOfDelete
<1>4. CASE input_activate(w, id)
  <2>1. Kind[id] = "Input" /\ id \in rows \ active /\ Begin(w, controller_activate(id))
    BY <1>4 DEF input_activate, Shown, InTurn
  <2> QED BY <2>1, PlanOfActivate DEF Controllers
<1>5. CASE input_deactivate(w, id)
  <2>1. Kind[id] = "Input" /\ Begin(w, input_deactivate_plan(id))
    BY <1>5 DEF input_deactivate
  <2> QED BY <2>1, StopsInput, PlanOfDeactivate
<1> QED BY <1>1, <1>2, <1>3, <1>4, <1>5

\* A math.
LEMMA BeginsMath ==
  ASSUME Found, InTurn, NEW w \in Workers, NEW id \in Ids,
         math_add(w, id) \/ math_mod(w, id) \/ math_del(w, id) \/ math_activate(w, id)
  PROVE  \E q : Begins(w, q)
<1>1. CASE math_add(w, id)
  <2>1. Kind[id] = "Math" /\ Unused(id)
    BY <1>1 DEF math_add
  <2>2. PICK full \in BOOLEAN :
          Begin(w, <<Insert(id), List(id), AddPart(Part(id, "measurement", 1), full)>>)
    BY <1>1 DEF math_add
  <2>3. Part(id, "measurement", 1) \in Children /\ Part(id, "measurement", 1).of = id
    BY <2>1, PartsToCome DEF Part
  <2> QED BY <2>1, <2>2, <2>3, PlanOfAddThree
<1>2. CASE math_mod(w, id)
  <2>1. Kind[id] = "Math" /\ id \in rows \ active
    BY <1>2 DEF math_mod
  <2>2. PICK f \in {{}, PartsOf(id), PartsOf(id) \cap filled} :
          Begin(w, <<Save(id, f, PartsOf(id) \cap converted, source[id], TRUE)>>)
    BY <1>2 DEF math_mod
  <2>3. PICK c, src, b, x : /\ c = PartsOf(id) \cap converted /\ src = source[id] /\ b = TRUE
                            /\ x = Save(id, f, c, src, b)
    OBVIOUS
  <2>4. f \in SUBSET Children /\ c \in SUBSET Convertible
    BY <2>3, PartsTyped
  <2>5. x \in Steps
    BY <2>3, <2>4, PartsTyped, StepsTyped
  <2>6. x.do = "save" /\ x.id = id /\ x.conv = c /\ x.src = src
    <3>1. x = Save(id, f, c, src, b)
      BY <2>3
    <3> QED BY <3>1, SaveFields
  <2>7. Saves(x, id)
    BY <2>1, <2>3, <2>5, <2>6 DEF Saves, PartsOf
  <2> QED BY <2>1, <2>2, <2>3, <2>7, PlanOfSave
<1>3. CASE math_del(w, id)
  <2>1. Kind[id] = "Math" /\ id \in rows
    BY <1>3 DEF math_del
  <2>2. PICK d, e, t : /\ d = IF id \in active THEN controller_deactivate(id) ELSE <<>>
                       /\ e = EraseParts(SortOf(id, "measurement"))
                       /\ t = <<Erase(id), Unlist(id)>>
    OBVIOUS
  <2>3. Stops(d, id) /\ Sheds(e, id) /\ Ends(t, id)
    BY <2>1, <2>2, StopsFunction, ShedsSort, SortsOfKinds, EndsSo DEF Controllers
  <2>4. Begin(w, (d \o e) \o t)
    BY <1>3, <2>2 DEF math_del
  <2> QED BY <2>1, <2>3, <2>4, PlanOfDelete
<1>4. CASE math_activate(w, id)
  <2>1. Kind[id] = "Math" /\ id \in rows \ active /\ Begin(w, controller_activate(id))
    BY <1>4 DEF math_activate, Shown, InTurn
  <2> QED BY <2>1, PlanOfActivate DEF Controllers
<1> QED BY <1>1, <1>2, <1>3, <1>4

\* A measurement of an input or math that is not active.
LEMMA BeginsMeasurement ==
  ASSUME Found, NEW w \in Workers, NEW p \in parts, NEW kind \in {"Input", "Math"},
         measurement_mod(w, p, kind)
  PROVE  \E q : Begins(w, q)
<1>1. p.of \in rows /\ p.of \in Ids /\ Kind[p.of] = kind /\ p.of \notin active
  BY PartsTyped DEF measurement_mod, MayChange
<1>2. PICK full \in BOOLEAN, conv \in BOOLEAN :
        Begin(w, <<Save(p.of, With(PartsOf(p.of) \cap filled, p, full),
                        With(PartsOf(p.of) \cap converted, p, conv), source[p.of], TRUE)>>)
  BY DEF measurement_mod
<1>3. PICK id, f, c, src, b, x :
        /\ id = p.of /\ f = With(PartsOf(p.of) \cap filled, p, full)
        /\ c = With(PartsOf(p.of) \cap converted, p, conv) /\ src = source[p.of] /\ b = TRUE
        /\ x = Save(id, f, c, src, b)
  OBVIOUS
<1>4. p \in Children /\ p \in Convertible
  BY <1>1, PartsTyped DEF Convertible
<1>5. f \in SUBSET Children /\ c \in SUBSET Convertible /\ \A y \in c : y.of = p.of
  BY <1>3, <1>4, PartsTyped DEF With, PartsOf
<1>6. x \in Steps
  BY <1>1, <1>3, <1>5, PartsTyped, StepsTyped
<1>7. x.do = "save" /\ x.id = id /\ x.conv = c /\ x.src = src
  <2>1. x = Save(id, f, c, src, b)
    BY <1>3
  <2> QED BY <2>1, SaveFields
<1>8. Saves(x, p.of)
  BY <1>1, <1>3, <1>5, <1>6, <1>7 DEF Saves
<1> QED BY <1>1, <1>2, <1>3, <1>8, PlanOfSave

(***************************************************************************)
(* The pages of LCDs, outputs and dashboards                               *)
(***************************************************************************)
\* An LCD and its displays, none of which changes while it is active.
LEMMA BeginsLCD ==
  ASSUME Found, InTurn, NEW w \in Workers, NEW id \in Ids,
         \/ lcd_add(w, id) \/ lcd_mod(w, id) \/ lcd_del(w, id) \/ lcd_activate(w, id)
         \/ lcd_display_add(w, id)
  PROVE  \E q : Begins(w, q)
<1>1. CASE lcd_add(w, id)
  <2>1. Kind[id] = "LCD" /\ Unused(id)
    BY <1>1 DEF lcd_add
  <2>2. Begin(w, <<Insert(id), AddPart(Part(id, "display", 1), FALSE), List(id)>>)
    BY <1>1 DEF lcd_add
  <2>3. Part(id, "display", 1) \in Children /\ Part(id, "display", 1).of = id
    BY <2>1, PartsToCome DEF Part
  <2> QED BY <2>1, <2>2, <2>3, PlanOfAddThree
<1>2. CASE lcd_mod(w, id)
  <2>1. id \in rows \ active /\ Kind[id] = "LCD" /\ Begin(w, <<SaveSettings(id)>>)
    BY <1>2 DEF lcd_mod
  <2> QED BY <2>1, SavesSettings, PlanOfSave
<1>3. CASE lcd_del(w, id)
  <2>1. Kind[id] = "LCD" /\ id \in rows /\ id \notin active
    BY <1>3 DEF lcd_del
  <2>2. PICK e, t : e = EraseParts(SortOf(id, "display")) /\ t = <<Erase(id), Unlist(id)>>
    OBVIOUS
  <2>3. Stops(<<>>, id) /\ Sheds(e, id) /\ Ends(t, id)
    BY <2>1, <2>2, StopsNothing, ShedsSort, SortsOfKinds, EndsSo
  <2>4. <<>> \o e = e
    BY <2>3, ConcatEmptySeq DEF Sheds
  <2>5. Begin(w, (<<>> \o e) \o t)
    BY <1>3, <2>2, <2>4 DEF lcd_del
  <2> QED BY <2>1, <2>3, <2>5, PlanOfDelete
<1>4. CASE lcd_activate(w, id)
  <2>1. Kind[id] = "LCD" /\ id \in rows \ active /\ Begin(w, controller_activate(id))
        /\ SortOf(id, "display") \subseteq filled
    BY <1>4 DEF lcd_activate, Shown, InTurn
  <2>2. Complete(id)
    BY <2>1, SortsOfKinds DEF Complete
  <2> QED BY <2>1, <2>2, PlanOfActivate DEF Controllers
<1>5. CASE lcd_display_add(w, id)
  <2>1. Kind[id] = "LCD" /\ id \in rows /\ id \notin active
    BY <1>5 DEF lcd_display_add
  <2>2. PICK p \in NewPart(id, "display") : Begin(w, <<AddPart(p, FALSE)>>)
    BY <1>5 DEF lcd_display_add
  <2>3. p \in Children /\ p.of = id
    BY <2>1, NextPart DEF Sorts
  <2> QED BY <2>1, <2>2, <2>3, PlanOfGrowing
<1> QED BY <1>1, <1>2, <1>3, <1>4, <1>5

\* A display of an LCD that is not active.
LEMMA BeginsDisplay ==
  ASSUME Found, NEW w \in Workers, NEW p \in parts, lcd_display_mod(w, p) \/ lcd_display_del(w, p)
  PROVE  \E q : Begins(w, q)
<1>1. CASE lcd_display_mod(w, p)
  <2>1. PICK full \in BOOLEAN :
          Begin(w, <<SavePart(p, full, TRUE)>>) /\ p.sort = "display" /\ p.of \notin active
    BY <1>1 DEF lcd_display_mod
  <2>2. Saves(SavePart(p, full, TRUE), p.of)
    BY <2>1, SavesPart
  <2>3. Kind[p.of] # "Output"
    BY <2>1, PartsTyped DEF Suits
  <2> QED BY <2>1, <2>2, <2>3, PlanOfSave
<1>2. CASE lcd_display_del(w, p)
  BY <1>2, PlanOfShrinking DEF lcd_display_del
<1> QED BY <1>1, <1>2

\* An output is saved with its device, and deleted with it.
LEMMA BeginsOutput ==
  ASSUME Found, NEW w \in Workers, NEW id \in Ids,
         output_add(w, id) \/ output_mod(w, id) \/ output_del(w, id)
  PROVE  \E q : Begins(w, q)
<1>1. CASE output_add(w, id)
  <2>1. Kind[id] = "Output" /\ Unused(id)
    BY <1>1 DEF output_add
  <2>2. Begin(w, <<Insert(id), List(id), AddPart(Part(id, "measurement", 1), TRUE),
                   Call("setup", id)>>)
    BY <1>1 DEF output_add
  <2>3. Part(id, "measurement", 1) \in Children /\ Part(id, "measurement", 1).of = id
    BY <2>1, PartsToCome DEF Part
  <2> QED BY <2>1, <2>2, <2>3, PlanOfAddOutput
<1>2. CASE output_mod(w, id)
  <2>1. id \in rows /\ Kind[id] = "Output" /\ Begin(w, <<SaveSettings(id), Call("setup", id)>>)
    BY <1>2 DEF output_mod
  <2> QED BY <2>1, SavesSettings, PlanOfSaveAndTell
<1>3. CASE output_del(w, id)
  <2>1. Kind[id] = "Output" /\ id \in rows
    BY <1>3 DEF output_del
  <2>2. id \notin active
    BY <2>1, PartsTyped DEF Controllers
  <2>3. PICK e, t : /\ e = EraseParts(SortOf(id, "measurement"))
                    /\ t = <<Erase(id), Unlist(id), Call("remove", id)>>
    OBVIOUS
  <2>4. Stops(<<>>, id) /\ Sheds(e, id) /\ Ends(t, id)
    BY <2>1, <2>2, <2>3, StopsNothing, ShedsSort, SortsOfKinds, EndsSo
  <2>5. <<>> \o e = e
    BY <2>4, ConcatEmptySeq DEF Sheds
  <2>6. Begin(w, (<<>> \o e) \o t)
    BY <1>3, <2>3, <2>5 DEF output_del
  <2> QED BY <2>1, <2>4, <2>6, PlanOfDelete
<1> QED BY <1>1, <1>2, <1>3

\* A dashboard and its widgets, none of which ever runs, ...
LEMMA BeginsDashboard ==
  ASSUME Found, InTurn, NEW w \in Workers, NEW id \in Ids,
         \/ dashboard_add(w, id) \/ dashboard_mod(w, id) \/ dashboard_del(w, id)
         \/ widget_add(w, id)
  PROVE  \E q : Begins(w, q)
<1>1. CASE dashboard_add(w, id)
  BY <1>1, PlanOfAddOne DEF dashboard_add
<1>2. CASE dashboard_mod(w, id)
  <2>1. id \in rows /\ Kind[id] = "Dashboard" /\ Begin(w, <<SaveSettings(id)>>)
    BY <1>2 DEF dashboard_mod, OfKind
  <2>2. id \notin active
    BY <2>1, PartsTyped DEF Controllers
  <2> QED BY <2>1, <2>2, SavesSettings, PlanOfSave
<1>3. CASE dashboard_del(w, id)
  <2>1. Kind[id] = "Dashboard" /\ id \in rows
    BY <1>3 DEF dashboard_del, Shown, InTurn
  <2>2. id \notin active
    BY <2>1, PartsTyped DEF Controllers
  <2>3. PICK e, t : e = EraseParts(SortOf(id, "widget")) /\ t = <<Erase(id)>>
    OBVIOUS
  <2>4. Stops(<<>>, id) /\ Sheds(e, id) /\ Ends(t, id)
    BY <2>1, <2>2, <2>3, StopsNothing, ShedsSort, SortsOfKinds, EndsSo
  <2>5. <<>> \o e = e
    BY <2>4, ConcatEmptySeq DEF Sheds
  <2>6. Begin(w, (<<>> \o e) \o t)
    BY <1>3, <2>3, <2>5 DEF dashboard_del
  <2> QED BY <2>1, <2>4, <2>6, PlanOfDelete
<1>4. CASE widget_add(w, id)
  <2>1. Kind[id] = "Dashboard" /\ id \in rows
    BY <1>4 DEF widget_add, Shown, InTurn
  <2>2. id \notin active
    BY <2>1, PartsTyped DEF Controllers
  <2>3. PICK p \in NewPart(id, "widget") : Begin(w, <<AddPart(p, TRUE)>>)
    BY <1>4 DEF widget_add
  <2>4. p \in Children /\ p.of = id
    BY <2>1, NextPart DEF Sorts
  <2> QED BY <2>1, <2>2, <2>3, <2>4, PlanOfGrowing
<1> QED BY <1>1, <1>2, <1>3, <1>4

\* ... saved or deleted.
LEMMA BeginsWidget ==
  ASSUME Found, NEW w \in Workers, NEW p \in parts, widget_mod(w, p) \/ widget_del(w, p)
  PROVE  \E q : Begins(w, q)
<1>1. CASE widget_mod(w, p)
  <2>1. Begin(w, <<SavePart(p, TRUE, TRUE)>>) /\ p.sort = "widget"
    BY <1>1 DEF widget_mod
  <2>2. Kind[p.of] = "Dashboard" /\ p.of \notin active
    BY <2>1, PartsTyped DEF Suits, Controllers
  <2>3. Saves(SavePart(p, TRUE, TRUE), p.of)
    BY <2>1, SavesPart
  <2> QED BY <2>1, <2>2, <2>3, PlanOfSave
<1>2. CASE widget_del(w, p)
  <2>1. Begin(w, <<ErasePart(p)>>) /\ p.sort = "widget"
    BY <1>2 DEF widget_del
  <2>2. p.of \notin active
    BY <2>1, PartsTyped DEF Suits, Controllers
  <2> QED BY <2>1, <2>2, PlanOfShrinking
<1> QED BY <1>1, <1>2

(***************************************************************************)
(* Every request begins with a plan                                        *)
(***************************************************************************)
\* Whatever button is pressed while no other request is in progress, what its
\* handler has to do is one of the plans.
LEMMA RequestBegins ==
  ASSUME SourceInv, TablesInv, DaemonInv, InTurn, NEW w \in Workers, Request(w)
  PROVE  \E q : Begins(w, q)
<1>1. Found
  BY DEF Found, Request, InTurn
<1>2. CASE page_function(w)
  <2>1. CASE \E p \in parts :
               \/ action_mod(w, p) \/ action_del(w, p)
               \/ conditional_condition_mod(w, p) \/ conditional_condition_del(w, p)
    BY <1>1, <2>1, BeginsFunctionPart
  <2>2. CASE reorder_visible(w, "function")
    BY <1>1, <2>2, BeginsReorderVisible DEF Lists
  <2>3. ASSUME NEW id \in Ids,
               \/ function_add(w, id) \/ function_del(w, id) \/ action_add(w, id)
               \/ controller_mod(w, id) \/ controller_del(w, id) \/ custom_activate(w, id)
        PROVE  \E q : Begins(w, q)
    BY <1>1, <2>3, BeginsFunction
  <2>4. ASSUME NEW id \in Ids, reorder(w, id)
        PROVE  \E q : Begins(w, q)
    BY <1>1, <2>4, BeginsReorder
  <2>5. ASSUME NEW id \in Ids,
               \/ \E q \in parts : pid_mod(w, id, q)
               \/ pid_del(w, id) \/ pid_activate(w, id) \/ pid_autotune(w, id)
               \/ pid_manipulate(w, id)
        PROVE  \E q : Begins(w, q)
    BY <1>1, <2>5, BeginsPID
  <2>6. ASSUME NEW id \in Ids, trigger_mod(w, id) \/ trigger_del(w, id) \/ trigger_activate(w, id)
        PROVE  \E q : Begins(w, q)
    BY <1>1, <2>6, BeginsTrigger
  <2>7. ASSUME NEW id \in Ids,
               \/ conditional_mod(w, id) \/ conditional_del(w, id) \/ conditional_activate(w, id)
               \/ conditional_condition_add(w, id)
        PROVE  \E q : Begins(w, q)
    BY <1>1, <2>7, BeginsConditional
  <2>8. ASSUME NEW id \in Ids, page_deactivate(w, id)
        PROVE  \E q : Begins(w, q)
    BY <1>1, <2>8, BeginsDeactivate
  <2> QED BY <1>2, <2>1, <2>2, <2>3, <2>4, <2>5, <2>6, <2>7, <2>8 DEF page_function
<1>3. CASE page_data(w)
  <2>1. ASSUME NEW id \in Ids,
               \/ input_add(w, id) \/ input_mod(w, id) \/ input_del(w, id)
               \/ input_activate(w, id) \/ input_deactivate(w, id)
        PROVE  \E q : Begins(w, q)
    BY <1>1, <2>1, BeginsInput
  <2>2. ASSUME NEW id \in Ids,
               math_add(w, id) \/ math_mod(w, id) \/ math_del(w, id) \/ math_activate(w, id)
        PROVE  \E q : Begins(w, q)
    BY <1>1, <2>2, BeginsMath
  <2>3. ASSUME NEW id \in Ids, page_deactivate(w, id) \/ reorder(w, id)
        PROVE  \E q : Begins(w, q)
    BY <1>1, <2>3, BeginsDeactivate, BeginsReorder
  <2>4. ASSUME NEW p \in parts, measurement_mod(w, p, "Input") \/ measurement_mod(w, p, "Math")
        PROVE  \E q : Begins(w, q)
    BY <1>1, <2>4, BeginsMeasurement
  <2>5. CASE reorder_visible(w, "inputs") \/ reorder_visible(w, "math")
    BY <1>1, <2>5, BeginsReorderVisible DEF Lists
  <2> QED BY <1>3, <2>1, <2>2, <2>3, <2>4, <2>5 DEF page_data
<1>4. CASE page_lcd(w)
  <2>1. ASSUME NEW id \in Ids,
               \/ lcd_add(w, id) \/ lcd_mod(w, id) \/ lcd_del(w, id) \/ lcd_activate(w, id)
               \/ lcd_display_add(w, id)
        PROVE  \E q : Begins(w, q)
    BY <1>1, <2>1, BeginsLCD
  <2>2. ASSUME NEW id \in Ids, page_deactivate(w, id) \/ reorder(w, id)
        PROVE  \E q : Begins(w, q)
    BY <1>1, <2>2, BeginsDeactivate, BeginsReorder
  <2>3. ASSUME NEW p \in parts, lcd_display_mod(w, p) \/ lcd_display_del(w, p)
        PROVE  \E q : Begins(w, q)
    BY <1>1, <2>3, BeginsDisplay
  <2> QED BY <1>4, <2>1, <2>2, <2>3 DEF page_lcd
<1>5. CASE page_output(w)
  <2>1. ASSUME NEW id \in Ids, output_add(w, id) \/ output_mod(w, id) \/ output_del(w, id)
        PROVE  \E q : Begins(w, q)
    BY <1>1, <2>1, BeginsOutput
  <2>2. CASE reorder_visible(w, "output")
    BY <1>1, <2>2, BeginsReorderVisible DEF Lists
  <2> QED BY <1>5, <2>1, <2>2 DEF page_output
<1>6. CASE page_dashboard(w)
  BY <1>1, <1>6, BeginsDashboard, BeginsWidget DEF page_dashboard
<1>7. CASE settings_measurement(w)
  BY <1>1, <1>7, BeginsConvert
<1> QED BY <1>2, <1>3, <1>4, <1>5, <1>6, <1>7 DEF Request

(***************************************************************************)
(* The invariant                                                           *)
(***************************************************************************)
\* The tables, what a page in progress still has to do to them, and what the
\* daemon runs: each part holds of every state by the parts themselves, but for
\* where a page begins, which the handlers' own checks decide from all of them.
PagesInv == SourceInv /\ TablesInv /\ DaemonInv

\* It holds at first, ...
LEMMA PagesAtFirst == Init => PagesInv
BY SourceAtFirst, TablesAtFirst, DaemonAtFirst DEF PagesInv

\* ... stays while nothing changes, ...
LEMMA PagesStutter ==
  ASSUME PagesInv, UNCHANGED vars
  PROVE  PagesInv'
<1>1. UNCHANGED <<tables, daemon, todo, called, whole>>
  BY DEF vars
<1>2. Base'
  <2>1. TableTypes'
    BY <1>1 DEF PagesInv, SourceInv, Base, TableTypes, tables, daemon
  <2>2. OnePage' /\ todo' \in [Workers -> Seq(Steps)]
    BY <1>1 DEF PagesInv, SourceInv, Base, OnePage, Idle
  <2>3. PlansInPlace'
    BY <1>1 DEF PagesInv, SourceInv, Base, PlansInPlace, InPlace, tables
  <2> QED BY <2>1, <2>2, <2>3 DEF Base
<1>3. SourceInv'
  BY <1>1, <1>2 DEF PagesInv, SourceInv, SourceIsSampled, SourcesLast, SourceActive, tables
<1>4. TablesInv'
  <2>1. ASSUME NEW w \in Workers PROVE ParentsLast(todo[w])' /\ ListedWell(todo[w])'
    <3>1. ParentsLast(todo[w]) /\ ListedWell(todo[w])
      BY DEF PagesInv, TablesInv
    <3>2. ParentsLast(todo[w])'
      BY <1>1, <3>1 DEF ParentsLast, Before, Removing, Is, PartsOf, tables
    <3>3. ListedWell(todo[w])'
      <4>1. rows' = rows /\ order' = order /\ todo' = todo
        BY <1>1 DEF tables
      <4>2. PICK s : s = todo[w] /\ s = todo'[w]
        BY <4>1
      <4>3. ListedWell(s)
        BY <3>1, <4>2
      <4>4. \A id : InList(id)' <=> InList(id)
        BY <4>1 DEF InList
      <4> QED BY <4>1, <4>2, <4>3, <4>4, SMTT(30) DEF ListedWell, Before, Is, Once
    <3> QED BY <3>2, <3>3
  <2>2. NoOrphans'
    BY <1>1 DEF PagesInv, TablesInv, NoOrphans, tables
  <2>3. RowsInLists'
    BY <1>1 DEF PagesInv, TablesInv, RowsInLists, Pending, InList, Once, Idle, tables
  <2> QED BY <1>2, <2>1, <2>2, <2>3 DEF TablesInv
<1>5. CompleteInv'
  <2>1. \A w \in Workers : KeepsComplete(todo[w])'
    BY <1>1 DEF PagesInv, DaemonInv, CompleteInv, KeepsComplete, Complete, PartsOf, tables
  <2>2. ActiveComplete'
    BY <1>1 DEF PagesInv, DaemonInv, CompleteInv, ActiveComplete, PartsOf, tables
  <2> QED BY <1>2, <2>1, <2>2 DEF CompleteInv
<1>6. DaemonInv'
  <2>1. \A w \in Workers : CallsFollow(todo[w])'
    BY <1>1 DEF PagesInv, DaemonInv, CallsFollow, Runs, PartsOf, tables, daemon
  <2>2. Follows'
    BY <1>1 DEF PagesInv, DaemonInv, Follows, Runs, AllIdle, Idle, tables, daemon
  <2> QED BY <1>5, <2>1, <2>2 DEF DaemonInv
<1> QED BY <1>3, <1>4, <1>6 DEF PagesInv

\* ... is kept by every page, every step of one and every restart of the daemon, ...
LEMMA PagesStep ==
  ASSUME PagesInv, InTurn, [Next]_vars
  PROVE  PagesInv'
<1>1. ASSUME NEW w \in Workers, Request(w) PROVE PagesInv'
  <2>1. PICK q : Begins(w, q)
    BY <1>1, RequestBegins DEF PagesInv
  <2> QED BY <2>1, SourceBegins, TablesBegins, DaemonBegins DEF PagesInv
<1>2. ASSUME NEW w \in Workers, Works(w) PROVE PagesInv'
  BY <1>2, SourceWorks, TablesWorks, DaemonWorks DEF PagesInv
<1>3. CASE Restart
  BY <1>3, SourceRestart, TablesRestart, DaemonRestart DEF PagesInv
<1>4. CASE UNCHANGED vars
  BY <1>4, PagesStutter
<1> QED BY <1>1, <1>2, <1>3, <1>4 DEF Next, Works

\* ... and so holds always.
LEMMA PagesHold == ASSUME InTurn PROVE Spec => []PagesInv
<1>1. PagesInv /\ [Next]_vars => PagesInv'
  BY PagesStep
<1> QED BY PagesAtFirst, <1>1, PTL DEF Spec

(***************************************************************************)
(* What the pages keep                                                     *)
(***************************************************************************)
\* The tables, the lists and what the daemon runs keep their types.
THEOREM PagesTyped == ASSUME InTurn PROVE Spec => []TypeOK
<1>1. PagesInv => TypeOK
  BY DEF PagesInv, SourceInv, Base, TableTypes, Children, TypeOK
<1> QED BY <1>1, PagesHold, PTL

\* While pages are sent one after the other, from forms that show what is
\* stored, an active PID whose measurement is of an input keeps that input
\* active, wherever a handler breaks off.
THEOREM SourcesStaySampled == ASSUME InTurn PROVE Spec => []SourceIsSampled
<1>1. PagesInv => SourceIsSampled
  BY DEF PagesInv, SourceInv
<1> QED BY <1>1, PagesHold, PTL

\* Nothing active ever lacks a field, a measurement or action, or the conversion
\* of units that one of its measurements names.
THEOREM ActiveStaysComplete == ASSUME InTurn PROVE Spec => []ActiveComplete
<1>1. PagesInv => ActiveComplete
  BY DEF PagesInv, DaemonInv, CompleteInv
<1> QED BY <1>1, PagesHold, PTL

\* No child outlives its row, and between two pages, none of which broke off,
\* each row is once in the list of its page.
THEOREM TablesStayInAgreement == ASSUME InTurn PROVE Spec => []TablesAgree
<1>1. PagesInv => TablesAgree
  BY TablesDoAgree DEF PagesInv
<1> QED BY <1>1, PagesHold, PTL

\* Between two pages, if each of their calls has reached the daemon, it runs what
\* is active, sets up every output, and with the settings that are stored.
THEOREM DaemonStaysInStep == ASSUME InTurn PROVE Spec => []DaemonInStep
<1>1. PagesInv => DaemonInStep
  BY DaemonIsInStep DEF PagesInv
<1> QED BY <1>1, PagesHold, PTL
=============================================================================
