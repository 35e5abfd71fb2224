---------------------------- MODULE MethodTable ----------------------------
(***************************************************************************)
(* The pages on which a Method is made and edited, row by row              *)
(* (mycodo/mycodo_flask/utils/utils_method.py), what the controllers read  *)
(* from its rows (calculate_method_setpoint, mycodo/utils/method.py), and  *)
(* the graph of them that the pages draw (routes_method.py).               *)
(*                                                                         *)
(* A page is a plan, the commits that are left of it (todo).  How a        *)
(* Duration Method begins, repeats and ends is told by DurationMethod.     *)
(***************************************************************************)
EXTENDS Integers, Sequences, FiniteSets, FiniteSetsExt, SequencesExt

CONSTANTS
  Types,      \* the types of Method that are made
  MaxRows,    \* BOUND: rows that are ever added to a Method of each type
  Times,      \* BOUND: the instants, and the durations, that forms name
  Setpoints,  \* BOUND: the setpoints that forms name
  Blank,      \* a field that was left empty
  BlankForms, \* TRUE: users leave empty what the checks let them
  Workers,    \* threads of the web server
  Breaks,     \* TRUE: a page may break off between two commits
  Overlap     \* FALSE: a page begins when no other is in progress

Curves == {"DailySine", "DailyBezier"}

\* As rows are numbered in the order in which they were added, and found in
\* that order, their numbers stand for their ids, too.
Keys == 1..Max({MaxRows[t] : t \in Types} \cup {0})

ASSUME MethodAssumption ==
  /\ Types \subseteq {"Date", "Daily", "Duration"} \cup Curves
  /\ Types \subseteq DOMAIN MaxRows /\ \A t \in Types : MaxRows[t] \in Nat
  /\ Times \subseteq Nat /\ Setpoints \subseteq Nat
  /\ Blank \in Int \ Nat
  /\ {BlankForms, Breaks, Overlap} \subseteq BOOLEAN

VARIABLES
  type,         \* method_type; "none" when there is no Method
  listed,       \* the Method is in the display order of Methods
  rows,         \* the keys of its rows
  row,          \* what each row says
  method_order, \* the keys of its rows that the pages go by
  last,         \* the last key given
  todo          \* what is left of each worker's page

table == <<type, listed, rows, row, method_order, last>>
vars == <<table, todo>>

(***************************************************************************)
(* Rows.  A Duration is a span that begins at 0; times of the others are   *)
(* those of the form.                                                      *)
(***************************************************************************)
Row(what, start, end, from, to) ==
  [what |-> what, start |-> start, end |-> end, from |-> from, to |-> to]

Span(start, end, from, to) == Row("span", start, end, from, to)
OutputRow == Row("output", 0, 0, Blank, Blank)
RepeatRow == Row("repeat", 0, 0, Blank, Blank)
CurveRow  == Row("curve", 0, 0, Blank, Blank)
NoRow     == Row("none", 0, 0, Blank, Blank)

\* What the forms for a span may say.
Forms ==
  {Span(start, end, from, to) : start \in Times, end \in Times \cup {Blank},
                                from \in Setpoints \cup {Blank}, to \in Setpoints \cup {Blank}}

Rows == [what : {"span", "output", "repeat", "curve", "none"}, start : Times \cup {0},
         end : Times \cup {0, Blank}, from : Setpoints \cup {Blank}, to : Setpoints \cup {Blank}]

Spans == {k \in rows : row[k].what = "span"}

\* All that have no output_id.
Ordered == {k \in rows : row[k].what # "output"}

HasOutputs == \E k \in rows : row[k].what = "output"
Repeats == \E k \in rows : row[k].what = "repeat"

(***************************************************************************)
(* Steps: each is one commit                                               *)
(***************************************************************************)
Make(t)          == [do |-> "make", type |-> t]
ListMethod       == [do |-> "listmethod"]
Insert(r, order) == [do |-> "insert", row |-> r, order |-> order]
List(order)      == [do |-> "list", order |-> order]
Save(k, r)       == [do |-> "save", key |-> k, row |-> r]
Erase(k)         == [do |-> "erase", key |-> k]
Unlist(k)        == [do |-> "unlist", key |-> k]

Idle(w) == todo[w] = <<>>
AllIdle == \A w \in Workers : Idle(w)

Step(w) == Head(todo[w])
Doing(w, what) == ~Idle(w) /\ Step(w).do = what

\* The web server is stopped, or the next commit fails, or nothing of the kind.
Then(w, rest) ==
  \E plan \in {rest} \cup (IF Breaks THEN {<<>>} ELSE {}) : todo' = [todo EXCEPT ![w] = plan]

Advance(w) == Then(w, Tail(todo[w]))

MakeMethod(w) ==
  /\ Doing(w, "make")
  /\ type' = Step(w).type
  /\ Advance(w)
  /\ UNCHANGED <<listed, rows, row, method_order, last>>

ListTheMethod(w) ==
  /\ Doing(w, "listmethod")
  /\ listed' = TRUE
  /\ Advance(w)
  /\ UNCHANGED <<type, rows, row, method_order, last>>

\* A row of its own first; then it is put behind the order read before, unless it
\* is an output's.
InsertRow(w) ==
  LET new == last + 1
      r == Step(w).row
  IN /\ Doing(w, "insert") /\ new \in Keys
     /\ last' = new /\ rows' = rows \cup {new} /\ row' = [row EXCEPT ![new] = r]
     /\ Then(w, IF r.what = "output" THEN <<>> ELSE <<List(Append(Step(w).order, new))>>)
     /\ UNCHANGED <<type, listed, method_order>>

SaveOrder(w) ==
  /\ Doing(w, "list")
  /\ method_order' = Step(w).order
  /\ Advance(w)
  /\ UNCHANGED <<type, listed, rows, row, last>>

\* A row that is gone meanwhile makes the commit raise.
SaveRow(w) ==
  LET k == Step(w).key IN
  /\ Doing(w, "save")
  /\ row' = IF k \in rows THEN [row EXCEPT ![k] = Step(w).row] ELSE row
  /\ Advance(w)
  /\ UNCHANGED <<type, listed, rows, method_order, last>>

EraseRow(w) ==
  LET k == Step(w).key IN
  /\ Doing(w, "erase")
  /\ rows' = rows \ {k} /\ row' = [row EXCEPT ![k] = NoRow]
  /\ Then(w, IF k \in rows THEN Tail(todo[w]) ELSE <<>>)
  /\ UNCHANGED <<type, listed, method_order, last>>

\* MUTANT of Without: the last entry goes, whichever was deleted.
WithoutLast(order, k) == Front(order)

\* list.remove(): the first occurrence goes.
Place(order, k) == CHOOSE i \in DOMAIN order : order[i] = k /\ \A j \in 1..(i - 1) : order[j] # k

Without(order, k) == RemoveAt(order, Place(order, k))

\* The order is read again; list.remove() raises if the row is not in it.
UnlistRow(w) ==
  LET k == Step(w).key IN
  /\ Doing(w, "unlist")
  /\ method_order' = IF k \in ToSet(method_order) THEN Without(method_order, k) ELSE method_order
  /\ Advance(w)
  /\ UNCHANGED <<type, listed, rows, row, last>>

(***************************************************************************)
(* utils_method.py                                                         *)
(***************************************************************************)
\* A handler whose checks have passed begins its page.
Begin(w, plan) ==
  /\ Idle(w) /\ (Overlap \/ AllIdle)
  /\ todo' = [todo EXCEPT ![w] = plan]
  /\ UNCHANGED table

\* MUTANT of method_create_plan: the row of a curve is left to the user.
NoCurve(t) == <<Make(t), ListMethod>>

\* A curve gets its only row at once.
method_create_plan(t) ==
  <<Make(t), ListMethod>> \o (IF t \in Curves THEN <<Insert(CurveRow, <<>>)>> ELSE <<>>)

\* BOUND: one Method at a time.
method_create(w) ==
  /\ type = "none" /\ AllIdle
  /\ \E t \in Types : Begin(w, method_create_plan(t))

\* validate_method_data: what a form for a span may say.  Of a Date or a Daily
\* a start setpoint that is missing is not noticed; of a Duration nothing is
\* looked at when the form names an end for repeating, too (BOUND: no duration is
\* 0, which is what tells a repeat from a span).
validate_method_data(r) ==
  /\ r.from = Blank => BlankForms
  /\ IF type = "Duration"
     THEN r.start = 0 /\ r.end # 0 /\ (BlankForms \/ (r.end # Blank /\ r.from # 0))
     ELSE r.end > r.start

\* A new span of a Date or a Daily begins when the one that is last in the order
\* has ended, or later; what is not found there is not asked.
AfterLast(r) ==
  LET k == method_order[Len(method_order)] IN
  method_order # <<>> /\ k \in Spans => r.start >= row[k].end

\* A Duration that repeats is offered no form for more.
method_add_span(w) ==
  /\ type \in {"Date", "Daily", "Duration"} /\ last < MaxRows[type]
  /\ type = "Duration" => ~Repeats
  /\ \E r \in Forms :
       /\ validate_method_data(r)
       /\ type # "Duration" => AfterLast(r)
       /\ Begin(w, <<Insert(r, method_order)>>)

method_add_repeat(w) ==
  /\ type = "Duration" /\ ~Repeats /\ last < MaxRows[type]
  /\ Begin(w, <<Insert(RepeatRow, method_order)>>)

method_add_output(w) ==
  /\ type \in {"Date", "Daily", "Duration"} /\ last < MaxRows[type]
  /\ type = "Duration" => ~Repeats
  /\ Begin(w, <<Insert(OutputRow, method_order)>>)

\* MUTANT of BeforeNext: the entry after the next is asked.
BeforeNextButOne(k, r) ==
  \A i \in 1..(Len(method_order) - 2) :
    method_order[i] = k /\ method_order[i + 2] \in Spans => r.end <= row[method_order[i + 2]].start

\* Neighbours in the order, if they are found.
AfterPrevious(k, r) ==
  \A i \in 2..Len(method_order) :
    method_order[i] = k /\ method_order[i - 1] \in Spans => r.start >= row[method_order[i - 1]].end

BeforeNext(k, r) ==
  \A i \in 1..(Len(method_order) - 1) :
    method_order[i] = k /\ method_order[i + 1] \in Spans => r.end <= row[method_order[i + 1]].start

\* Only of a Date the neighbours are looked at.
method_mod_span(w) ==
  \E k \in Spans : \E r \in Forms :
    /\ validate_method_data(r)
    /\ type = "Date" => AfterPrevious(k, r) /\ BeforeNext(k, r)
    /\ Begin(w, <<Save(k, r)>>)

method_mod_delete(w) ==
  \E k \in rows \ {k \in rows : row[k].what = "curve"} :
    Begin(w, <<Erase(k)>> \o (IF row[k].what = "output" THEN <<>> ELSE <<Unlist(k)>>))

\* The name, and the numbers of a curve, are told from others by no property.
method_mod_rename(w) == type # "none" /\ Begin(w, <<>>)

method_add_curve(w) ==
  \E k \in rows : row[k].what = "curve" /\ Begin(w, <<Save(k, CurveRow)>>)

\* What may be changed of an output's row, and until when it repeats.
method_mod_other(w) ==
  \E k \in rows : row[k].what \in {"output", "repeat"} /\ Begin(w, <<Save(k, row[k])>>)

\* One commit; the order of Methods must name it, or nothing is deleted.
\* BOUND: not while a page is in progress.
method_delete(w) ==
  /\ type # "none" /\ listed /\ AllIdle
  /\ type' = "none" /\ listed' = FALSE /\ rows' = {} /\ method_order' = <<>> /\ last' = 0
  /\ row' = [k \in Keys |-> NoRow]
  /\ UNCHANGED todo

(***************************************************************************)
(* calculate_method_setpoint(): the setpoint at an instant of the day or   *)
(* of all time, or so long after the beginning of a Duration.  It is one   *)
(* number, in a set, or none.                                              *)
(***************************************************************************)
\* MUTANT of Interpolated: the difference, which has no sign, is always added.
Rising(from, to, part, total) ==
  from + ((IF from < to THEN to - from ELSE from - to) * part) \div total

\* BOUND: Setpoints are multiples of what they are divided by.
Interpolated(from, to, part, total) ==
  IF from < to THEN from + ((to - from) * part) \div total
               ELSE from - ((from - to) * part) \div total

\* An end of 0 is taken for none.
EndSetpoint(r) == IF r.to \in {Blank, 0} THEN r.from ELSE r.to

\* The seconds of a Duration before the span k.
SecondsBefore(k) == MapThenSumSet(LAMBDA j : row[j].end, {j \in Spans : j < k})

From(k) == IF type = "Duration" THEN SecondsBefore(k) ELSE row[k].start
Until(k) == IF type = "Duration" THEN SecondsBefore(k) + row[k].end ELSE row[k].end

Matches(k, t) ==
  IF type = "Duration" THEN From(k) <= t /\ t < Until(k) ELSE From(k) < t /\ t < Until(k)

\* The first that matches.
Matching(t) ==
  LET S == {k \in Spans : Matches(k, t)} IN {k \in S : \A j \in S : k <= j}

setpoint(t) ==
  {Interpolated(row[k].from, EndSetpoint(row[k]), t - From(k), Until(k) - From(k)) : k \in Matching(t)}

\* Times that are missing, a setpoint that is missing where it is asked for, and
\* a curve without its row.
Raises(t) ==
  \/ type \in Curves /\ rows = {}
  \/ type = "Duration" /\ \E k \in Spans : row[k].end = Blank
  \/ type \notin Curves /\ \E k \in Matching(t) : row[k].from = Blank

(***************************************************************************)
(* method_data(): the graph, a line for each span.  Of a Date it raises    *)
(* when there are rows of outputs, which have no end.                      *)
(***************************************************************************)
Line(k) ==
  [x1 |-> From(k), y1 |-> row[k].from, x2 |-> Until(k),
   y2 |-> IF row[k].to = Blank THEN row[k].from ELSE row[k].to]

Drawn == IF type = "Date" /\ HasOutputs THEN {} ELSE {Line(k) : k \in Spans}

(***************************************************************************)
(* Specification                                                           *)
(***************************************************************************)
Init ==
  /\ type = "none" /\ listed = FALSE
  /\ rows = {} /\ row = [k \in Keys |-> NoRow] /\ method_order = <<>> /\ last = 0
  /\ todo = [w \in Workers |-> <<>>]

\* method_builder(): which handler a form is for.
method_builder(w) ==
  \/ method_create(w) \/ method_delete(w)
  \/ method_add_span(w) \/ method_add_repeat(w) \/ method_add_output(w)
  \/ method_add_curve(w) \/ method_mod_span(w) \/ method_mod_other(w) \/ method_mod_delete(w)
  \/ method_mod_rename(w)

Commit(w) ==
  \/ MakeMethod(w) \/ ListTheMethod(w) \/ InsertRow(w) \/ SaveOrder(w)
  \/ SaveRow(w) \/ EraseRow(w) \/ UnlistRow(w)

Next == \E w \in Workers : method_builder(w) \/ Commit(w)

Spec == Init /\ [][Next]_vars

(***************************************************************************)
(* Properties                                                              *)
(***************************************************************************)
\* Every variable stays in its type, and there are rows of a Method only.
TypeOK ==
  /\ type \in {"none"} \cup Types /\ listed \in BOOLEAN
  /\ last \in Keys \cup {0} /\ rows \subseteq 1..last
  /\ row \in [Keys -> Rows]
  /\ method_order \in Seq(1..last)
  /\ type = "none" => rows = {} /\ ~listed
  /\ \A k \in Keys : k \in rows <=> row[k].what # "none"
  /\ DOMAIN todo = Workers

\* The order that the pages check new and changed spans by is that of all rows
\* but those of outputs, as the controllers find them (utils_method.py:329-333).
OrderIsTable ==
  AllIdle =>
    /\ ToSet(method_order) = Ordered
    /\ \A i, j \in DOMAIN method_order : i < j => method_order[i] < method_order[j]

\* Spans of a Date do not overlap ("it cannot overlap", build_date.html:4,
\* utils_method.py:268-278 and 408-435), however they were added, changed and
\* deleted, so that one at most matches.
SpansApart ==
  type = "Date" => \A j, k \in Spans : j < k => row[j].end <= row[k].start

\* What the graph shows is what a controller is told: inside each line its
\* setpoint, and none where there is no line (routes_method.py:47-157).
On(line, t, y) == (y - line.y1) * (line.x2 - line.x1) = (line.y2 - line.y1) * (t - line.x1)

DrawnIsDone ==
  AllIdle /\ type \in {"Date", "Duration"} /\ Drawn # {} =>
    \A t \in 0..Max({line.x2 : line \in Drawn}) :
      /\ \A line \in Drawn : line.x1 < t /\ t < line.x2 => \E y \in setpoint(t) : On(line, t, y)
      /\ (\A line \in Drawn : t < line.x1 \/ line.x2 < t) => setpoint(t) = {}

\* A look at a Method does not raise, once the page that made it has ended.
LooksSucceed ==
  AllIdle /\ type # "none" => \A t \in 0..(Max(Times \cup {0}) * Max(Keys)) : ~Raises(t)
=============================================================================
