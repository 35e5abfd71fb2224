--------------------------- MODULE SettingsPages ---------------------------
(***************************************************************************)
(* The web pages that change the settings (mycodo/mycodo_flask/utils/      *)
(* utils_*.py).  A page is a sequence of commits to the database, with     *)
(* calls to the daemon among them; it may break off after any of them, and *)
(* a call may fail, which the pages only report.  Here a page is a plan,   *)
(* the steps that are left of it (todo); a handler is the plan it follows, *)
(* and its guard are the handler's checks.                                 *)
(*                                                                         *)
(* The daemon is the set of ids it runs; what happens inside it is told by *)
(* DaemonController and OutputController.                                  *)
(***************************************************************************)
EXTENDS Integers, Sequences, FiniteSets, SequencesExt

CONSTANTS
  Ids,            \* unique ids of rows
  Kind,           \* the table each belongs to, one of Kinds
  Default,        \* the dashboard a new database comes with
  Workers,        \* threads of the web server
  Together,       \* BOUND: which rows there are at once, besides Default
  MaxParts,       \* BOUND: children of each sort that each row may have
  ActionType,     \* which actions there are: "output" or "infrared_send"
  ConditionType,  \* which conditions there are: "measurement" or "output_state"
  Overlap,        \* FALSE: a page begins when no other is in progress
  StaleForms,     \* TRUE: forms are sent that show what has changed since
  Retarget,       \* TRUE: an active PID is given another measurement
  NoSource        \* the measurement of a PID that has none

Controllers == {"Input", "Math", "PID", "Conditional", "Trigger", "Custom", "LCD"}
Kinds == Controllers \cup {"Function", "Output", "Dashboard"}

\* The display order each kind is listed in; dashboards have none.
Lists == {"inputs", "math", "function", "lcd", "output"}
ListOf == [k \in Kinds \ {"Dashboard"} |->
  CASE k = "Input" -> "inputs" [] k = "Math" -> "math" [] k = "LCD" -> "lcd"
    [] k = "Output" -> "output" [] OTHER -> "function"]

Sorts == {"measurement", "condition", "action", "display", "widget"}
Parts == {p \in [of : Ids, sort : Sorts, no : Nat] : p.no \in 1..MaxParts[p.of][p.sort]}

ASSUME PagesAssumption ==
  /\ Kind \in [Ids -> Kinds] /\ Default \in Ids /\ Kind[Default] = "Dashboard"
  /\ Together \subseteq SUBSET (Ids \ {Default}) /\ MaxParts \in [Ids -> [Sorts -> Nat]]
  /\ ActionType \in {"output", "infrared_send"}
  /\ ConditionType \in {"measurement", "output_state"}
  /\ {Overlap, StaleForms, Retarget} \subseteq BOOLEAN
  /\ NoSource \notin Ids
  /\ \A id \in Ids :
       /\ Kind[id] \in {"Input", "Math", "PID", "Output"} => MaxParts[id]["measurement"] # 0
       /\ Kind[id] = "LCD" => MaxParts[id]["display"] # 0

VARIABLES
  rows,        \* the rows there are
  active,      \* those with is_activated set
  order,       \* DisplayOrder: a list of ids for each of Lists
  parts,       \* the child rows there are: measurements, conditions, actions,
               \* displays, widgets
  filled,      \* those in which all is set that an activation asks for
  converted,   \* the measurements with a conversion_id
  conversion,  \* whether that Conversion exists
  source,      \* the Input or Math whose measurement a PID uses
  running,     \* the ids that run in the daemon (outputs: that are set up)
  stale,       \* those that run with other settings than their row's
  todo,        \* what is left of each worker's page
  called,      \* no call was missed since the daemon's start
  whole        \* no page has ever broken off

tables == <<rows, active, order, parts, filled, converted, conversion, source>>
daemon == <<running, stale>>
vars == <<tables, daemon, todo, called, whole>>

(***************************************************************************)
(* Queries                                                                 *)
(***************************************************************************)
OfKind(k) == {id \in rows : Kind[id] = k}

PartsOf(id) == {p \in parts : p.of = id}

SortOf(id, s) == {p \in PartsOf(id) : p.sort = s}

Listed(id) == \E l \in Lists : id \in ToSet(order[l])

\* The rows there are, and those that something still names.
Named ==
  rows \cup running \cup {id \in Ids : Listed(id) \/ PartsOf(id) # {}} \cup {source[p] : p \in rows}

\* BOUND: a new row takes an id nothing names, as every new id is unique.
Unused(id) ==
  /\ id \notin Named
  /\ \E S \in Together : Named \cup {id} \subseteq S \cup {Default, NoSource}

Idle(w) == todo[w] = <<>>
AllIdle == \A w \in Workers : Idle(w)

Shown(P) == StaleForms \/ P

\* check_for_valid_unit_and_conversion
Usable(id) ==
  /\ SortOf(id, "measurement") # {}
  /\ SortOf(id, "measurement") \subseteq filled
  /\ SortOf(id, "measurement") \cap converted # {} => conversion

(***************************************************************************)
(* Steps: each is one commit, or one call to the daemon                    *)
(***************************************************************************)
Insert(id)      == [do |-> "insert", id |-> id]
Erase(id)       == [do |-> "erase", id |-> id]
AddPart(p, f)   == [do |-> "part", part |-> p, full |-> f]
ErasePart(p)    == [do |-> "unpart", part |-> p]
List(id)        == [do |-> "list", id |-> id]
Unlist(id)      == [do |-> "unlist", id |-> id]
SetOrder(l, s)  == [do |-> "order", list |-> l, ids |-> s]
Save(id, f, c, src, settings) ==
  [do |-> "save", id |-> id, full |-> f, conv |-> c, src |-> src, settings |-> settings]
SetActive(id)   == [do |-> "active", id |-> id]
SetInactive(id) == [do |-> "inactive", id |-> id]
Resume(id)      == [do |-> "resume", id |-> id]
ClearConversion == [do |-> "clear"]
DropConversion  == [do |-> "drop"]
SaveConversion   == [do |-> "convert"]
Call(c, id)     == [do |-> "call", id |-> id, call |-> c]

Sequential(S, Step(_)) == LET s == SetToSeq(S) IN [i \in DOMAIN s |-> Step(s[i])]

EraseParts(S) == Sequential(S, ErasePart)

With(S, p, yes) == IF yes THEN S \cup {p} ELSE S \ {p}

\* A child's fields, all set or not.
SavePart(p, full, settings) ==
  Save(p.of, With(PartsOf(p.of) \cap filled, p, full), PartsOf(p.of) \cap converted,
       source[p.of], settings)

\* The row of id with none of its fields changed but its settings.
SaveSettings(id) ==
  Save(id, PartsOf(id) \cap filled, PartsOf(id) \cap converted, source[id], TRUE)

Doing(w, what) == ~Idle(w) /\ Head(todo[w]).do = what

Step(w) == Head(todo[w])

Advance(w) == todo' = [todo EXCEPT ![w] = Tail(@)] /\ UNCHANGED called

\* An exception: the rest of the page is not done, nor the calls in it.
Abort(w) ==
  /\ todo' = [todo EXCEPT ![w] = <<>>]
  /\ called' = (called /\ \A i \in DOMAIN todo[w] : todo[w][i].do # "call")

InsertRow(w) ==
  /\ Doing(w, "insert")
  /\ rows' = rows \cup {Step(w).id}
  /\ Advance(w)
  /\ UNCHANGED <<active, order, parts, filled, converted, conversion, source, daemon, whole>>

\* MUTANT of add_display_order: the list is replaced.
ListOnlyThis(list, id) == <<id>>

add_display_order(list, id) == Append(list, id)

ListRow(w) ==
  LET l == ListOf[Kind[Step(w).id]] IN
  /\ Doing(w, "list")
  /\ order' = [order EXCEPT ![l] = add_display_order(@, Step(w).id)]
  /\ Advance(w)
  /\ UNCHANGED <<rows, active, parts, filled, converted, conversion, source, daemon, whole>>

\* Where an id comes first in a list that has it.
Place(list, id) == CHOOSE i \in DOMAIN list : list[i] = id /\ \A j \in 1..(i - 1) : list[j] # id

Without(list, id) == RemoveAt(list, Place(list, id))

\* list.remove(); an id that is not in the list raises.
UnlistRow(w) ==
  LET l == ListOf[Kind[Step(w).id]] IN
  /\ Doing(w, "unlist")
  /\ order' = IF Step(w).id \in ToSet(order[l])
              THEN [order EXCEPT ![l] = Without(@, Step(w).id)] ELSE order
  /\ IF Step(w).id \in ToSet(order[l]) THEN Advance(w) ELSE Abort(w)
  /\ UNCHANGED <<rows, active, parts, filled, converted, conversion, source, daemon, whole>>

WriteOrder(w) ==
  /\ Doing(w, "order")
  /\ order' = [order EXCEPT ![Step(w).list] = Step(w).ids]
  /\ Advance(w)
  /\ UNCHANGED <<rows, active, parts, filled, converted, conversion, source, daemon, whole>>

InsertPart(w) ==
  /\ Doing(w, "part")
  /\ parts' = parts \cup {Step(w).part}
  /\ filled' = IF Step(w).full THEN filled \cup {Step(w).part} ELSE filled \ {Step(w).part}
  /\ Advance(w)
  /\ UNCHANGED <<rows, active, order, converted, conversion, source, daemon, whole>>

\* delete_entry_with_id: session.delete(None) raises.
DeletePart(w) ==
  /\ Doing(w, "unpart")
  /\ parts' = parts \ {Step(w).part}
  /\ filled' = filled \ {Step(w).part} /\ converted' = converted \ {Step(w).part}
  /\ IF Step(w).part \in parts THEN Advance(w) ELSE Abort(w)
  /\ UNCHANGED <<rows, active, order, conversion, source, daemon, whole>>

DeleteRow(w) ==
  LET id == Step(w).id IN
  /\ Doing(w, "erase")
  /\ rows' = rows \ {id} /\ active' = active \ {id}
  /\ source' = [source EXCEPT ![id] = NoSource]
  /\ IF id \in rows THEN Advance(w) ELSE Abort(w)
  /\ UNCHANGED <<order, parts, filled, converted, conversion, daemon, whole>>

SaveRow(w) ==
  LET id == Step(w).id IN
  /\ Doing(w, "save")
  /\ filled' = (filled \ PartsOf(id)) \cup (Step(w).full \cap parts)
  /\ converted' = (converted \ PartsOf(id)) \cup (Step(w).conv \cap parts)
  /\ source' = [source EXCEPT ![id] = Step(w).src]
  /\ stale' = IF Step(w).settings /\ id \in running THEN stale \cup {id} ELSE stale
  /\ Advance(w)
  /\ UNCHANGED <<rows, active, order, parts, conversion, running, whole>>

\* controller_activate_deactivate, up to its commit.
ActivateRow(w) ==
  LET id == Step(w).id IN
  /\ Doing(w, "active")
  /\ IF id \in rows /\ (Kind[id] \in {"Input", "Math", "PID"} => Usable(id))
     THEN active' = active \cup {id} /\ Advance(w)
     ELSE UNCHANGED active /\ Abort(w)
  /\ UNCHANGED <<rows, order, parts, filled, converted, conversion, source, daemon, whole>>

\* pid_manipulate's commit for "Resume": nothing is checked.
ResumeRow(w) ==
  LET id == Step(w).id IN
  /\ Doing(w, "resume")
  /\ active' = active \cup {id}
  /\ stale' = IF id \in running THEN stale \cup {id} ELSE stale
  /\ Advance(w)
  /\ UNCHANGED <<rows, order, parts, filled, converted, conversion, source, running, whole>>

DeactivateRow(w) ==
  /\ Doing(w, "inactive")
  /\ active' = active \ {Step(w).id}
  /\ Advance(w)
  /\ UNCHANGED <<rows, order, parts, filled, converted, conversion, source, daemon, whole>>

\* remove_conversion_from_controllers, and the Conversion's own row.  What runs
\* with it has read it when it started.
ChangeConversion(w) ==
  /\ \/ Doing(w, "clear") /\ converted' = {} /\ UNCHANGED conversion
     \/ Doing(w, "drop") /\ conversion' = FALSE /\ UNCHANGED converted
     \/ Doing(w, "convert") /\ conversion' = TRUE /\ UNCHANGED converted
  /\ stale' = stale \cup {id \in running : PartsOf(id) \cap converted # {}}
  /\ Advance(w)
  /\ UNCHANGED <<rows, active, order, parts, filled, source, running, whole>>

\* A thread that has ended has no use for the settings it read.
Forgotten(id) == stale \ {id}

\* The daemon does what it is asked, and writes is_activated itself when it
\* activates, and when it deactivates a PID.
DaemonDoes(w) ==
  LET id == Step(w).id IN
  /\ Doing(w, "call")
  /\ \/ /\ Step(w).call \in {"activate", "setup"} /\ id \in rows
        /\ running' = running \cup {id}
        /\ stale' = IF Step(w).call = "setup" THEN stale \ {id} ELSE stale
        /\ active' = IF Step(w).call = "activate" THEN active \cup {id} ELSE active
     \/ /\ Step(w).call \in {"deactivate", "remove"}
        /\ running' = running \ {id} /\ stale' = Forgotten(id)
        /\ active' = IF Kind[id] = "PID" /\ id \in running THEN active \ {id} ELSE active
     \/ /\ Step(w).call = "refresh"
        /\ stale' = stale \ {id} /\ UNCHANGED <<running, active>>
  /\ Advance(w)
  /\ UNCHANGED <<rows, order, parts, filled, converted, conversion, source, whole>>

\* The daemon is down, or does not answer: the page says so and goes on.
\* BOUND: once between two restarts.
CallFails(w) ==
  /\ Doing(w, "call") /\ called
  /\ called' = FALSE
  /\ todo' = [todo EXCEPT ![w] = Tail(@)]
  /\ UNCHANGED <<tables, daemon, whole>>

\* The web server is stopped, or the thread dies, between two steps.
\* BOUND: once.
BreakOff(w) ==
  /\ ~Idle(w) /\ whole
  /\ whole' = FALSE
  /\ Abort(w)
  /\ UNCHANGED <<tables, daemon>>

\* The daemon is started anew: it runs what the tables call activated, and all
\* outputs, with the settings of their rows.
Restart ==
  /\ running' = active \cup OfKind("Output")
  /\ stale' = {} /\ called' = TRUE
  /\ UNCHANGED <<tables, todo, whole>>

\* A handler whose checks have passed begins its page.
Begin(w, plan) ==
  /\ todo' = [todo EXCEPT ![w] = plan]
  /\ UNCHANGED <<tables, daemon, called, whole>>

(***************************************************************************)
(* utils_general.py: what the pages share                                  *)
(***************************************************************************)
controller_activate(id) == <<SetActive(id), Call("activate", id)>>

controller_deactivate(id) == <<SetInactive(id), Call("deactivate", id)>>

Swapped(s, i, j) == [s EXCEPT ![i] = s[j], ![j] = s[i]]

\* One up or one down, unless it is at that end of the list.
reorder_list(s, id) ==
  LET i == CHOOSE k \in DOMAIN s : s[k] = id
  IN {Swapped(s, i, j) : j \in {i - 1, i + 1} \cap DOMAIN s}

\* The list is read when the request comes in.
reorder(w, id) ==
  /\ Kind[id] # "Dashboard" /\ Shown(id \in rows) /\ id \in ToSet(order[ListOf[Kind[id]]])
  /\ \E s \in reorder_list(order[ListOf[Kind[id]]], id) :
       Begin(w, <<SetOrder(ListOf[Kind[id]], s)>>)

\* Elements dragged by the user: the list becomes what the form shows.
reorder_visible(w, l) ==
  LET visible == {id \in ToSet(order[l]) : id \in rows} IN
  \E V \in SUBSET visible : \E s \in SetToSeqs(V) :
    Shown(V = visible) /\ s # order[l] /\ Begin(w, <<SetOrder(l, s)>>)

(***************************************************************************)
(* utils_function.py                                                       *)
(***************************************************************************)
FunctionKinds == {"Conditional", "PID", "Trigger", "Function", "Custom"}

Part(id, s, n) == [of |-> id, sort |-> s, no |-> n]

NewPart(id, s) == {Part(id, s, n) : n \in {m \in 1..MaxParts[id][s] :
                     /\ Part(id, s, m) \notin parts
                     /\ \A k \in 1..(m - 1) : Part(id, s, k) \in parts}}

\* A PID's setpoint has no unit until a measurement is chosen for it.
function_add(w, id) ==
  /\ Kind[id] \in FunctionKinds /\ Unused(id)
  /\ Begin(w, IF Kind[id] = "PID"
              THEN <<Insert(id), AddPart(Part(id, "measurement", 1), FALSE), List(id)>>
              ELSE <<Insert(id), List(id)>>)

function_del(w, id) ==
  /\ Kind[id] = "Function" /\ Shown(id \in rows)
  /\ Begin(w, EraseParts(SortOf(id, "action")) \o <<Erase(id), Unlist(id)>>)

\* A function that is not found is not active either.
action_add(w, id) ==
  /\ Kind[id] \in {"Conditional", "Trigger", "Function"} /\ Shown(id \in rows)
  /\ id \notin active
  /\ \E p \in NewPart(id, "action") : Begin(w, <<AddPart(p, FALSE)>>)

\* Whether check_form_actions demands what check_actions will: it does not ask
\* for the code of an infrared action.
check_form_actions(full) == ActionType = "output" => full

\* Allowed while the function is active.  Actions are read when they are run.
action_mod(w, p) ==
  /\ p \in parts /\ p.sort = "action"
  /\ \E full \in BOOLEAN :
       /\ check_form_actions(full)
       /\ Begin(w, <<SavePart(p, full, FALSE)>>)

action_del(w, p) ==
  /\ p \in parts /\ p.sort = "action" /\ p.of \notin active
  /\ Begin(w, <<ErasePart(p)>>)

(***************************************************************************)
(* utils_conditional.py                                                    *)
(***************************************************************************)
\* An active function is told to take over what was saved.
Refreshed(id) == IF id \in active THEN <<Call("refresh", id)>> ELSE <<>>

conditional_mod(w, id) ==
  /\ Kind[id] = "Conditional" /\ id \in rows
  /\ Begin(w, <<SaveSettings(id)>> \o Refreshed(id))

conditional_deactivate(id) == controller_deactivate(id)

\* MUTANT of conditional_del_plan: the row goes before its conditions and actions.
RowBeforeParts(id) ==
  <<Erase(id), Unlist(id)>> \o EraseParts(SortOf(id, "condition") \cup SortOf(id, "action"))

conditional_del_plan(id) ==
  EraseParts(SortOf(id, "condition")) \o EraseParts(SortOf(id, "action"))
    \o <<Erase(id), Unlist(id)>>

conditional_del(w, id) ==
  /\ Kind[id] = "Conditional" /\ id \in rows
  /\ Begin(w, (IF id \in active THEN conditional_deactivate(id) ELSE <<>>)
              \o conditional_del_plan(id))

conditional_condition_add(w, id) ==
  /\ Kind[id] = "Conditional" /\ id \in rows \ active
  /\ \E p \in NewPart(id, "condition") : Begin(w, <<AddPart(p, FALSE)>>)

\* Only the conditions on measurements have their form checked.
conditional_condition_mod(w, p) ==
  /\ p \in parts /\ p.sort = "condition"
  /\ \E full \in BOOLEAN :
       /\ ConditionType = "measurement" => full
       /\ Begin(w, <<SavePart(p, full, TRUE)>> \o Refreshed(p.of))

conditional_condition_del(w, p) ==
  /\ p \in parts /\ p.sort = "condition" /\ p.of \notin active
  /\ Begin(w, <<ErasePart(p)>>)

\* check_cond_conditions and check_actions of each; it may have none.
conditional_activate(w, id) ==
  /\ Kind[id] = "Conditional" /\ id \in rows /\ Shown(id \notin active)
  /\ PartsOf(id) \subseteq filled
  /\ Begin(w, controller_activate(id))

(***************************************************************************)
(* utils_trigger.py, utils_controller.py                                   *)
(***************************************************************************)
trigger_mod(w, id) ==
  /\ Kind[id] = "Trigger" /\ id \in rows
  /\ Begin(w, <<SaveSettings(id)>> \o Refreshed(id))

trigger_deactivate(id) == controller_deactivate(id)

trigger_del(w, id) ==
  /\ Kind[id] = "Trigger" /\ id \in rows
  /\ Begin(w, (IF id \in active THEN trigger_deactivate(id) ELSE <<>>)
              \o EraseParts(SortOf(id, "action")) \o <<Erase(id), Unlist(id)>>)

\* Unlike a Conditional it needs an action.
trigger_activate(w, id) ==
  /\ Kind[id] = "Trigger" /\ id \in rows /\ Shown(id \notin active)
  /\ SortOf(id, "action") # {} /\ SortOf(id, "action") \subseteq filled
  /\ Begin(w, controller_activate(id))

controller_mod(w, id) ==
  /\ Kind[id] = "Custom" /\ id \in rows \ active
  /\ Begin(w, <<SaveSettings(id)>>)

controller_del(w, id) ==
  /\ Kind[id] = "Custom" /\ id \in rows
  /\ Begin(w, (IF id \in active THEN controller_deactivate(id) ELSE <<>>)
              \o <<Erase(id), Unlist(id)>>)

custom_activate(w, id) ==
  /\ Kind[id] = "Custom" /\ id \in rows /\ Shown(id \notin active)
  /\ Begin(w, controller_activate(id))

(***************************************************************************)
(* utils_pid.py                                                            *)
(***************************************************************************)
\* The setpoint takes the unit of the measurement q that is chosen.
pid_mod(w, id, q) ==
  /\ Kind[id] = "PID" /\ id \in rows
  /\ q \in parts /\ q.sort = "measurement" /\ Kind[q.of] \in {"Input", "Math"}
  /\ Retarget \/ id \notin active \/ q.of = source[id]
  /\ Begin(w, <<Save(id, IF q \in filled THEN PartsOf(id) ELSE {},
                     PartsOf(id) \cap converted, q.of, TRUE)>> \o Refreshed(id))

pid_deactivate(id) == <<SetInactive(id)>> \o controller_deactivate(id)

\* The id is looked for in the display order of Maths, where it is not found:
\* it stays in the one of functions.
pid_del(w, id) ==
  /\ Kind[id] = "PID" /\ id \in rows
  /\ Begin(w, (IF id \in active THEN pid_deactivate(id) ELSE <<>>)
              \o EraseParts(SortOf(id, "measurement")) \o <<Erase(id)>>)

has_required_pid_values(id) == source[id] \in OfKind("Input") \cup OfKind("Math")

SourceIsActive(id) == source[id] \in active

CanActivatePID(id) ==
  /\ Kind[id] = "PID" /\ id \in rows
  /\ has_required_pid_values(id) /\ SourceIsActive(id)

pid_activate(w, id) ==
  /\ CanActivatePID(id) /\ Shown(id \notin active)
  /\ Begin(w, controller_activate(id))

\* The flag is saved whether the PID can be activated or not.
pid_autotune(w, id) ==
  /\ Kind[id] = "PID" /\ id \in rows /\ Shown(id \notin active)
  /\ Begin(w, <<SaveSettings(id)>> \o
              (IF CanActivatePID(id) THEN controller_activate(id) ELSE <<>>))

\* Hold and Pause; Resume also writes is_activated.
pid_manipulate(w, id) ==
  /\ Kind[id] = "PID" /\ id \in rows /\ Shown(id \in active)
  /\ \/ Begin(w, <<SaveSettings(id), Call("refresh", id)>>)
     \/ Begin(w, <<Resume(id), Call("refresh", id)>>)

(***************************************************************************)
(* utils_input.py                                                          *)
(***************************************************************************)
\* The units of a measurement are given by the input's module or set later.
input_add(w, id) ==
  /\ Kind[id] = "Input" /\ Unused(id)
  /\ \E full \in BOOLEAN :
       Begin(w, <<Insert(id), List(id), AddPart(Part(id, "measurement", 1), full)>>)

\* For modules with a variable number of measurements: to reach a lower number
\* the last one is deleted, once; to reach a higher one they are added.
input_channels(id, number) ==
  LET have == SortOf(id, "measurement")
      last == CHOOSE p \in have : \A q \in have : q.no <= p.no
      new  == {Part(id, "measurement", n) : n \in 1..number} \ have
      AddEmpty(p) == AddPart(p, FALSE)
  IN IF number < Cardinality(have) THEN <<ErasePart(last)>> ELSE Sequential(new, AddEmpty)

input_mod(w, id) ==
  /\ Kind[id] = "Input" /\ id \in rows \ active
  /\ \E number \in 1..MaxParts[id]["measurement"] :
       Begin(w, <<SaveSettings(id)>> \o input_channels(id, number))

\* MUTANT of MayChange: measurements of an active controller may be changed.
AlwaysChange(id) == TRUE

MayChange(id) == id \notin active

\* Sets the unit, or removes it, and the conversion; math_measurement_mod does
\* the same for a Math.
measurement_mod(w, p, kind) ==
  /\ p \in parts /\ p.sort = "measurement" /\ Kind[p.of] = kind /\ MayChange(p.of)
  /\ \E full, conv \in BOOLEAN :
       /\ conv => Shown(conversion)
       /\ Begin(w, <<Save(p.of, With(PartsOf(p.of) \cap filled, p, full),
                          With(PartsOf(p.of) \cap converted, p, conv), source[p.of], TRUE)>>)

\* PIDs that use this input.
input_deactivate_associated_controllers(id) ==
  LET users == SetToSeq({p \in active : Kind[p] = "PID" /\ source[p] = id})
  IN FlattenSeq([i \in DOMAIN users |-> controller_deactivate(users[i])])

\* MUTANT of input_deactivate_plan: the input goes before the PIDs that use it.
InputFirst(id) ==
  controller_deactivate(id) \o input_deactivate_associated_controllers(id)

input_deactivate_plan(id) ==
  input_deactivate_associated_controllers(id) \o controller_deactivate(id)

input_deactivate(w, id) ==
  /\ Kind[id] = "Input" /\ id \in rows /\ Shown(id \in active)
  /\ Begin(w, input_deactivate_plan(id))

input_del(w, id) ==
  /\ Kind[id] = "Input" /\ id \in rows
  /\ Begin(w, (IF id \in active THEN input_deactivate_plan(id) ELSE <<>>)
              \o EraseParts(SortOf(id, "measurement")) \o <<Erase(id), Unlist(id)>>)

input_activate(w, id) ==
  /\ Kind[id] = "Input" /\ id \in rows /\ Shown(id \notin active)
  /\ SortOf(id, "measurement") # {}
  /\ Begin(w, controller_activate(id))

(***************************************************************************)
(* utils_math.py                                                           *)
(***************************************************************************)
math_add(w, id) ==
  /\ Kind[id] = "Math" /\ Unused(id)
  /\ \E full \in BOOLEAN :
       Begin(w, <<Insert(id), List(id), AddPart(Part(id, "measurement", 1), full)>>)

\* One unit for all of its measurements.
math_mod(w, id) ==
  /\ Kind[id] = "Math" /\ id \in rows \ active
  /\ \E full \in {{}, PartsOf(id), PartsOf(id) \cap filled} :
       Begin(w, <<Save(id, full, PartsOf(id) \cap converted, source[id], TRUE)>>)

math_del(w, id) ==
  /\ Kind[id] = "Math" /\ id \in rows
  /\ Begin(w, (IF id \in active THEN controller_deactivate(id) ELSE <<>>)
              \o EraseParts(SortOf(id, "measurement")) \o <<Erase(id), Unlist(id)>>)

math_activate(w, id) ==
  /\ Kind[id] = "Math" /\ id \in rows /\ Shown(id \notin active)
  /\ Begin(w, controller_activate(id))

\* What the buttons "deactivate" of the other kinds do.
page_deactivate(w, id) ==
  /\ id \in rows /\ Shown(id \in active) /\ Kind[id] \in Controllers \ {"Input"}
  /\ Begin(w, IF Kind[id] = "PID" THEN pid_deactivate(id) ELSE controller_deactivate(id))

(***************************************************************************)
(* utils_lcd.py                                                            *)
(***************************************************************************)
lcd_add(w, id) ==
  /\ Kind[id] = "LCD" /\ Unused(id)
  /\ Begin(w, <<Insert(id), AddPart(Part(id, "display", 1), FALSE), List(id)>>)

lcd_mod(w, id) ==
  /\ Kind[id] = "LCD" /\ id \in rows \ active
  /\ Begin(w, <<SaveSettings(id)>>)

lcd_del(w, id) ==
  /\ Kind[id] = "LCD" /\ id \in rows \ active
  /\ Begin(w, EraseParts(SortOf(id, "display")) \o <<Erase(id), Unlist(id)>>)

\* No display may have a blank line.
lcd_activate(w, id) ==
  /\ Kind[id] = "LCD" /\ id \in rows /\ Shown(id \notin active)
  /\ SortOf(id, "display") \subseteq filled
  /\ Begin(w, controller_activate(id))

lcd_display_add(w, id) ==
  /\ Kind[id] = "LCD" /\ id \in rows \ active
  /\ \E p \in NewPart(id, "display") : Begin(w, <<AddPart(p, FALSE)>>)

lcd_display_mod(w, p) ==
  /\ p \in parts /\ p.sort = "display" /\ p.of \notin active
  /\ \E full \in BOOLEAN : Begin(w, <<SavePart(p, full, TRUE)>>)

lcd_display_del(w, p) ==
  /\ p \in parts /\ p.sort = "display" /\ p.of \notin active
  /\ Cardinality(SortOf(p.of, "display")) >= 2
  /\ Begin(w, <<ErasePart(p)>>)

(***************************************************************************)
(* utils_output.py                                                         *)
(***************************************************************************)
output_add(w, id) ==
  /\ Kind[id] = "Output" /\ Unused(id)
  /\ Begin(w, <<Insert(id), List(id), AddPart(Part(id, "measurement", 1), TRUE),
                Call("setup", id)>>)

output_mod(w, id) ==
  /\ Kind[id] = "Output" /\ id \in rows
  /\ Begin(w, <<SaveSettings(id), Call("setup", id)>>)

output_del(w, id) ==
  /\ Kind[id] = "Output" /\ id \in rows
  /\ Begin(w, EraseParts(SortOf(id, "measurement"))
              \o <<Erase(id), Unlist(id), Call("remove", id)>>)

(***************************************************************************)
(* utils_dashboard.py                                                      *)
(***************************************************************************)
dashboard_add(w, id) ==
  /\ Kind[id] = "Dashboard" /\ Unused(id)
  /\ Begin(w, <<Insert(id)>>)

dashboard_mod(w, id) == id \in OfKind("Dashboard") /\ Begin(w, <<SaveSettings(id)>>)

\* The last dashboard stays.
dashboard_del(w, id) ==
  /\ Kind[id] = "Dashboard" /\ Shown(id \in rows) /\ Cardinality(OfKind("Dashboard")) # 1
  /\ Begin(w, EraseParts(SortOf(id, "widget")) \o <<Erase(id)>>)

widget_add(w, id) ==
  /\ Kind[id] = "Dashboard" /\ Shown(id \in rows)
  /\ \E p \in NewPart(id, "widget") : Begin(w, <<AddPart(p, TRUE)>>)

widget_mod(w, p) ==
  /\ p \in parts /\ p.sort = "widget"
  /\ Begin(w, <<SavePart(p, TRUE, TRUE)>>)

widget_del(w, p) ==
  /\ p \in parts /\ p.sort = "widget"
  /\ Begin(w, <<ErasePart(p)>>)

(***************************************************************************)
(* utils_settings.py: conversions of units                                 *)
(***************************************************************************)
\* MUTANT of check_conversion_being_used: only Inputs are looked at.
OnlyInputs == \A p \in converted : Kind[p.of] = "Input" => p.of \notin active

\* No active Input, Math or PID may use it.
check_conversion_being_used ==
  \A p \in converted : Kind[p.of] \in {"Input", "Math", "PID"} => p.of \notin active

settings_convert_add(w) == ~conversion /\ Begin(w, <<SaveConversion>>)

\* That an inactive Input uses it is told too, but saved all the same.
settings_convert_mod(w) ==
  /\ conversion /\ check_conversion_being_used
  /\ Begin(w, <<SaveConversion>>)

settings_convert_del(w) ==
  /\ conversion /\ check_conversion_being_used
  /\ Begin(w, <<ClearConversion, DropConversion>>)

(***************************************************************************)
(* Specification                                                           *)
(***************************************************************************)
Init ==
  /\ rows = {Default} /\ active = {} /\ order = [l \in Lists |-> <<>>]
  /\ parts = {} /\ filled = {} /\ converted = {} /\ conversion = FALSE
  /\ source = [id \in Ids |-> NoSource]
  /\ running = {} /\ stale = {}
  /\ todo = [w \in Workers |-> <<>>]
  /\ called = TRUE /\ whole = TRUE

\* The forms of routes_page.py: which handler a button calls.
page_function(w) ==
  \/ \E id \in Ids :
       \/ function_add(w, id) \/ function_del(w, id)
       \/ Kind[id] \in FunctionKinds \ {"Custom"} /\ reorder(w, id)
       \/ \E q \in parts : pid_mod(w, id, q)
       \/ pid_del(w, id) \/ pid_activate(w, id) \/ pid_autotune(w, id) \/ pid_manipulate(w, id)
       \/ trigger_mod(w, id) \/ trigger_del(w, id) \/ trigger_activate(w, id)
       \/ conditional_mod(w, id) \/ conditional_del(w, id) \/ conditional_activate(w, id)
       \/ controller_mod(w, id) \/ controller_del(w, id) \/ custom_activate(w, id)
       \/ conditional_condition_add(w, id) \/ action_add(w, id)
       \/ Kind[id] \in FunctionKinds /\ page_deactivate(w, id)
  \/ \E p \in parts :
       \/ action_mod(w, p) \/ action_del(w, p)
       \/ conditional_condition_mod(w, p) \/ conditional_condition_del(w, p)
  \/ reorder_visible(w, "function")

page_data(w) ==
  \/ \E id \in Ids :
       \/ input_add(w, id) \/ input_mod(w, id) \/ input_del(w, id)
       \/ input_activate(w, id) \/ input_deactivate(w, id)
       \/ math_add(w, id) \/ math_mod(w, id) \/ math_del(w, id) \/ math_activate(w, id)
       \/ Kind[id] = "Math" /\ page_deactivate(w, id)
       \/ Kind[id] \in {"Input", "Math"} /\ reorder(w, id)
  \/ \E p \in parts : measurement_mod(w, p, "Input") \/ measurement_mod(w, p, "Math")
  \/ reorder_visible(w, "inputs") \/ reorder_visible(w, "math")

page_lcd(w) ==
  \/ \E id \in Ids :
       \/ lcd_add(w, id) \/ lcd_mod(w, id) \/ lcd_del(w, id) \/ lcd_activate(w, id)
       \/ lcd_display_add(w, id)
       \/ Kind[id] = "LCD" /\ (page_deactivate(w, id) \/ reorder(w, id))
  \/ \E p \in parts : lcd_display_mod(w, p) \/ lcd_display_del(w, p)

page_output(w) ==
  \/ \E id \in Ids : output_add(w, id) \/ output_mod(w, id) \/ output_del(w, id)
  \/ reorder_visible(w, "output")

page_dashboard(w) ==
  \/ \E id \in Ids : \/ dashboard_add(w, id) \/ dashboard_mod(w, id) \/ dashboard_del(w, id)
                     \/ widget_add(w, id)
  \/ \E p \in parts : widget_mod(w, p) \/ widget_del(w, p)

settings_measurement(w) ==
  settings_convert_add(w) \/ settings_convert_mod(w) \/ settings_convert_del(w)

Request(w) ==
  /\ Idle(w) /\ (Overlap \/ AllIdle)
  /\ \/ page_function(w) \/ page_data(w) \/ page_lcd(w) \/ page_output(w)
     \/ page_dashboard(w) \/ settings_measurement(w)

Commit(w) ==
  \/ InsertRow(w) \/ ListRow(w) \/ UnlistRow(w) \/ WriteOrder(w) \/ InsertPart(w)
  \/ DeletePart(w) \/ DeleteRow(w) \/ SaveRow(w) \/ ActivateRow(w) \/ ResumeRow(w)
  \/ DeactivateRow(w) \/ ChangeConversion(w)

Next ==
  \/ \E w \in Workers : Request(w) \/ Commit(w) \/ DaemonDoes(w) \/ CallFails(w) \/ BreakOff(w)
  \/ Restart

Spec == Init /\ [][Next]_vars

(***************************************************************************)
(* Properties                                                              *)
(***************************************************************************)
\* Every variable stays in its type, and what is said of rows and children is
\* said of those there are.
TypeOK ==
  /\ rows \subseteq Ids /\ active \subseteq rows
  /\ order \in [Lists -> Seq(Ids)]
  /\ parts \subseteq Parts /\ filled \subseteq parts /\ converted \subseteq parts
  /\ conversion \in BOOLEAN
  /\ source \in [Ids -> Ids \cup {NoSource}]
  /\ running \subseteq Ids /\ stale \subseteq running
  /\ DOMAIN todo = Workers /\ called \in BOOLEAN /\ whole \in BOOLEAN

\* Wherever a page breaks off, no measurement, condition, action, display or
\* widget is left without the row it belongs to: the handlers delete children
\* first (utils_conditional.py:114-126, utils_input.py:551-556, and so on).
NoOrphans == \A p \in parts : p.of \in rows

\* As long as no page has broken off, each row is found once in its list: the
\* pages show what the lists name (utils_general.py:956-995).
RowsListed ==
  whole /\ AllIdle =>
    \A id \in rows : Kind[id] # "Dashboard" =>
      Cardinality({i \in DOMAIN order[ListOf[Kind[id]]] : order[ListOf[Kind[id]]][i] = id}) = 1

\* The tables of settings agree with each other: no child without its row, no
\* row that its page does not show (utils_conditional.py:162-198).
TablesAgree == NoOrphans /\ RowsListed

\* Between pages, the daemon runs what the tables call activated and all
\* outputs, with the settings of their rows, unless a call was missed since it
\* was started (controller_activate_deactivate, utils_general.py:186-291).
DaemonInStep ==
  called /\ AllIdle => running = active \cup OfKind("Output") /\ stale = {}

\* A PID is not active when the input it reads is not (utils_pid.py:287-291,
\* utils_input.py:670-680), wherever a page breaks off.
SourceIsSampled ==
  \A id \in active : Kind[id] = "PID" /\ source[id] \in {i \in Ids : Kind[i] = "Input"} =>
    source[id] \in active

\* What an activation asked for stays true as long as the controller is active:
\* units and conversions of measurements, the lines of displays, conditions and
\* actions (utils_general.py:155-183, utils_lcd.py:191-213,
\* utils_conditional.py:283-301, utils_trigger.py:173-180).
ActiveComplete ==
  \A id \in active : Kind[id] # "PID" =>
    /\ PartsOf(id) \subseteq filled
    /\ Kind[id] \in {"Input", "Math", "Trigger"} => PartsOf(id) # {}
    /\ PartsOf(id) \cap converted # {} => conversion
=============================================================================
