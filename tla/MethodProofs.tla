---------------------------- MODULE MethodProofs ----------------------------
(***************************************************************************)
(* Theorems about MethodTable, for any types, rows and forms, when pages   *)
(* neither overlap nor break off, and about DurationMethod, for any Method *)
(* and any intervals, when users ask while the controller's thread does    *)
(* nothing.                                                                *)
(***************************************************************************)
EXTENDS MethodTable, DurationMethod, SequenceTheorems, FiniteSetTheorems, TLAPS

(***************************************************************************)
(* The inductive invariant                                                 *)
(***************************************************************************)
Words ==
  /\ type \in {"none"} \cup Types /\ last \in Nat
  /\ rows \subseteq Keys /\ (\A k \in rows : k <= last)
  /\ row \in [Keys -> Rows]
  /\ method_order \in Seq(Keys)
  /\ todo = [w \in Workers |-> todo[w]]

\* Without a Method there is nothing of it, and a curve has curves only.
OfType ==
  /\ type = "none" => rows = {} /\ method_order = <<>>
  /\ type \in Curves => \A k \in rows : row[k].what = "curve"
  /\ type = "Date" => \A k \in rows : row[k].what \in {"span", "output"}

\* Each span ends after it begins, and has what a look asks for.
IsWhole(r) ==
  r.what = "span" =>
    /\ type = "Date" => r.start < r.end
    /\ ~BlankForms => r.from # Blank /\ (type = "Duration" => r.end # Blank)

Whole == \A k \in rows : IsWhole(row[k])

InOrder(k) == \E i \in 1..Len(method_order) : method_order[i] = k

Increasing == \A i, j \in 1..Len(method_order) : i < j => method_order[i] < method_order[j]

\* The order names all it is to name.
Settled == \A k \in Keys : InOrder(k) <=> k \in Ordered

HasCurve == type \in Curves => rows # {}

\* What is about to be inserted comes after all there is, ...
MayInsert(r) ==
  /\ r \in Rows /\ r.what # "none" /\ type # "none" /\ IsWhole(r)
  /\ type \in Curves <=> r.what = "curve"
  /\ type = "Date" => r.what \in {"span", "output"}
  /\ type = "Date" /\ r.what = "span" => \A j \in Spans : row[j].end <= r.start

\* ... and what is about to be saved fits between what is before and after it.
MaySave(k, r) ==
  /\ k \in rows /\ r \in Rows /\ r.what = row[k].what /\ IsWhole(r)
  /\ type = "Date" /\ r.what = "span" =>
       \A j \in Spans : (j < k => row[j].end <= r.start) /\ (k < j => r.end <= row[j].start)

\* What is left of a page, and what it has done of it.
Making(p) ==
  /\ type = "none" /\ Settled
  /\ \E t \in Types : \/ p = <<Make(t), ListMethod>> /\ t \notin Curves
                      \/ p = <<Make(t), ListMethod, Insert(CurveRow, <<>>)>> /\ t \in Curves

Listing(p) ==
  /\ Settled /\ type # "none"
  /\ \/ p = <<ListMethod>> /\ HasCurve
     \/ p = <<ListMethod, Insert(CurveRow, <<>>)>> /\ type \in Curves /\ method_order = <<>>

Inserting(p) == Settled /\ \E r \in Rows : p = <<Insert(r, method_order)>> /\ MayInsert(r)

Ordering(p) ==
  /\ p = <<List(Append(method_order, last))>> /\ HasCurve /\ last \in Ordered
  /\ \A k \in Keys : InOrder(k) <=> k \in Ordered \ {last}

Saving(p) == Settled /\ HasCurve /\ \E k \in rows, r \in Rows : p = <<Save(k, r)>> /\ MaySave(k, r)

Erasing(p) ==
  /\ Settled /\ type \notin Curves
  /\ \E k \in rows : \/ p = <<Erase(k)>> /\ k \notin Ordered
                     \/ p = <<Erase(k), Unlist(k)>> /\ k \in Ordered

Unlisting(p) ==
  /\ type \notin Curves
  /\ \E k \in Keys \ rows : /\ p = <<Unlist(k)>> /\ k <= last
                           /\ \A j \in Keys : InOrder(j) <=> j \in Ordered \/ j = k

Plan(p) ==
  \/ Making(p) \/ Listing(p) \/ Inserting(p) \/ Ordering(p)
  \/ Saving(p) \/ Erasing(p) \/ Unlisting(p)

\* One page at a time, and nothing is left to do when it has ended.
Pages ==
  /\ \A v, w \in Workers : ~Idle(v) /\ ~Idle(w) => v = w
  /\ \A w \in Workers : ~Idle(w) => Plan(todo[w])
  /\ AllIdle => Settled /\ HasCurve

IInv == Words /\ OfType /\ Whole /\ Increasing /\ SpansApart /\ Pages
(***************************************************************************)
(* Rows, spans and the order                                               *)
(***************************************************************************)
LEMMA KeysAreInts == \A k \in Keys : k \in Int /\ k >= 1
BY DEF Keys

LEMMA RowFields ==
  ASSUME NEW r \in Rows
  PROVE  r.start \in Nat /\ r.end \in Int /\ (r.end # Blank => r.end \in Nat)
<1>1. r.start \in Times \cup {0} /\ r.end \in Times \cup {0, Blank}
  BY DEF Rows
<1>2. (\A t \in Times : t \in Nat) /\ Blank \in Int
  BY MethodAssumption
<1>3. r.start \in Nat
  BY <1>1, <1>2
<1>4. r.end \in Int /\ (r.end # Blank => r.end \in Nat)
  BY <1>1, <1>2
<1> QED BY <1>3, <1>4

LEMMA SimpleRows == OutputRow \in Rows /\ RepeatRow \in Rows /\ CurveRow \in Rows /\ NoRow \in Rows
BY MethodAssumption DEF OutputRow, RepeatRow, CurveRow, NoRow, Row, Rows

LEMMA FormsAreRows == \A r \in Forms : r \in Rows /\ r.what = "span"
BY DEF Forms, Span, Row, Rows

\* What is last in the order is last of all.
LEMMA LastIsGreatest ==
  ASSUME Words, Increasing, Settled, method_order # <<>>
  PROVE  /\ method_order[Len(method_order)] \in Ordered
         /\ \A k \in Ordered : k <= method_order[Len(method_order)]
<1> DEFINE n == Len(method_order)
<1>1. n \in Nat /\ n >= 1 /\ \A i \in 1..n : method_order[i] \in Keys
  BY DEF Words
<1>2. \A k \in Ordered : k \in Keys
  BY DEF Ordered, Words
<1>3. method_order[n] \in Ordered
  BY <1>1 DEF Settled, InOrder
<1>4. ASSUME NEW k \in Ordered PROVE k <= method_order[n]
  <2>1. PICK i \in 1..n : method_order[i] = k
    BY <1>2, <1>4 DEF Settled, InOrder
  <2>2. method_order[i] \in Int /\ method_order[n] \in Int
    <3> HIDE DEF n
    <3> QED BY <1>1, KeysAreInts
  <2>3. i < n => method_order[i] < method_order[n]
    BY <1>1 DEF Increasing
  <2> HIDE DEF n
  <2> QED BY <1>1, <2>1, <2>2, <2>3
<1> QED BY <1>3, <1>4

\* Only Dates have their spans apart, and all that is ordered of them are spans.
LEMMA DatesAreSpans ==
  ASSUME Words, OfType, Whole, type = "Date"
  PROVE  Ordered = Spans /\ \A k \in Spans : row[k] \in Rows /\ row[k].start < row[k].end
BY DEF Words, OfType, Whole, IsWhole, Ordered, Spans

\* Removing one that is there leaves the others, in their order.
LEMMA Removal ==
  ASSUME Words, Increasing, NEW k \in Keys, InOrder(k)
  PROVE  /\ Without(method_order, k) \in Seq(Keys)
         /\ \A j \in Keys : (\E i \in 1..Len(Without(method_order, k)) : Without(method_order, k)[i] = j)
                              <=> InOrder(j) /\ j # k
         /\ \A i, j \in 1..Len(Without(method_order, k)) :
              i < j => Without(method_order, k)[i] < Without(method_order, k)[j]
<1> DEFINE s == method_order
           n == Len(s)
           p == Place(s, k)
           t == Without(s, k)
<1>1. s \in Seq(Keys) /\ n \in Nat /\ DOMAIN s = 1..n /\ \A i \in 1..n : s[i] \in Int
  BY KeysAreInts DEF Words
<1>2. PICK q \in 1..n : s[q] = k
  BY DEF InOrder
<1>3. \A j \in 1..(q - 1) : s[j] # k
  BY <1>1, <1>2 DEF Increasing
<1>4. p \in 1..n /\ s[p] = k
  BY <1>1, <1>2, <1>3 DEF Place
<1>5. t = SubSeq(s, 1, p - 1) \o SubSeq(s, p + 1, n)
  BY DEF Without, RemoveAt
<1>6. t \in Seq(Keys) /\ Len(t) = n - 1 /\ \A i \in 1..(n - 1) : t[i] = IF i < p THEN s[i] ELSE s[i + 1]
  <2> DEFINE a == SubSeq(s, 1, p - 1)
             b == SubSeq(s, p + 1, n)
  <2>1. a \in Seq(Keys) /\ Len(a) = p - 1 /\ \A i \in 1..(p - 1) : a[i] = s[i]
    <3>1. \A i \in 1..(p - 1) : s[i] \in Keys
      BY <1>1, <1>4
    <3>2. 1 \in Int /\ p - 1 \in Int
      BY <1>1, <1>4
    <3> HIDE DEF p, s
    <3> QED BY <1>1, <1>4, <3>1, <3>2, SubSeqProperties
  <2>2. b \in Seq(Keys) /\ Len(b) = n - p /\ \A i \in 1..(n - p) : b[i] = s[p + i]
    <3>1. \A i \in (p + 1)..n : s[i] \in Keys
      BY <1>1, <1>4
    <3>2. p + 1 \in Int /\ n \in Int
      BY <1>1, <1>4
    <3>3. b \in Seq(Keys) /\ Len(b) = (IF p + 1 <= n THEN n - (p + 1) + 1 ELSE 0)
            /\ \A i \in 1..(n - (p + 1) + 1) : b[i] = s[p + 1 + i - 1]
      <4> HIDE DEF p, s, n
      <4> QED BY <3>1, <3>2, SubSeqProperties
    <3> HIDE DEF b, p, s, n
    <3> QED BY <1>1, <1>4, <3>3
  <2> HIDE DEF a, b, p, n
  <2>3. a \o b \in Seq(Keys) /\ Len(a \o b) = n - 1
    <3>1. a \o b \in Seq(Keys) /\ Len(a \o b) = Len(a) + Len(b)
      BY <2>1, <2>2, ConcatProperties
    <3> QED BY <1>1, <1>4, <2>1, <2>2, <3>1
  <2>4. \A i \in 1..(n - 1) : (a \o b)[i] = IF i < p THEN a[i] ELSE b[i - (p - 1)]
    <3>1. \A i \in 1..(Len(a) + Len(b)) : (a \o b)[i] = IF i <= Len(a) THEN a[i] ELSE b[i - Len(a)]
      BY <2>1, <2>2, ConcatProperties
    <3>2. Len(a) = p - 1 /\ Len(a) + Len(b) = n - 1 /\ p \in Int
      BY <1>1, <1>4, <2>1, <2>2
    <3>3. \A i \in 1..(n - 1) : i \in Int /\ (i <= p - 1 <=> i < p)
      BY <3>2
    <3> HIDE DEF s
    <3> QED BY <3>1, <3>2, <3>3
  <2>5. t = a \o b
    BY <1>5 DEF a, b, n, p
  <2>6. \A i \in 1..(n - 1) : i < p => (a \o b)[i] = s[i]
    BY <1>1, <1>4, <2>1, <2>4
  <2>7. \A i \in 1..(n - 1) : ~(i < p) => (a \o b)[i] = s[i + 1]
    <3> SUFFICES ASSUME NEW i \in 1..(n - 1), ~(i < p) PROVE (a \o b)[i] = s[i + 1]
      OBVIOUS
    <3>1. i - (p - 1) \in 1..(n - p)
      BY <1>1, <1>4
    <3>2. b[i - (p - 1)] = s[p + (i - (p - 1))] /\ p + (i - (p - 1)) = i + 1
      BY <1>1, <1>4, <2>2, <3>1
    <3> QED BY <2>4, <3>2
  <2> HIDE DEF t
  <2> QED BY <2>3, <2>5, <2>6, <2>7
<1> HIDE DEF t, p
<1>7. \A i, j \in 1..n : i < j => s[i] < s[j]
  BY DEF Increasing
<1>8. \A i \in 1..n : s[i] = k => i = p
  BY <1>1, <1>4, <1>7
<1>9. \A j \in Keys : (\E i \in 1..Len(t) : t[i] = j) <=> InOrder(j) /\ j # k
  <2>1. ASSUME NEW i \in 1..(n - 1) PROVE InOrder(t[i]) /\ t[i] # k
    BY <1>1, <1>4, <1>6, <1>8 DEF InOrder
  <2>2. ASSUME NEW i \in 1..n, s[i] # k PROVE \E h \in 1..(n - 1) : t[h] = s[i]
    <3>1. CASE i < p
      <4>1. i \in 1..(n - 1) /\ t[i] = s[i]
        BY <1>1, <1>4, <1>6, <3>1
      <4> QED BY <4>1
    <3>2. CASE i > p
      <4>1. i - 1 \in 1..(n - 1) /\ t[i - 1] = s[i]
        BY <1>1, <1>4, <1>6, <3>2
      <4> QED BY <4>1
    <3> QED BY <1>1, <1>4, <2>2, <3>1, <3>2
  <2>3. Len(t) = n - 1
    BY <1>6
  <2>4. ASSUME NEW j \in Keys, NEW i \in 1..Len(t), t[i] = j PROVE InOrder(j) /\ j # k
    BY Zenon, <2>1, <2>3, <2>4
  <2>5. ASSUME NEW j \in Keys, InOrder(j), j # k PROVE \E i \in 1..Len(t) : t[i] = j
    <3>1. PICK i \in 1..n : s[i] = j
      BY <2>5 DEF InOrder
    <3> QED BY Zenon, <2>2, <2>3, <2>5, <3>1
  <2> QED BY Zenon, <2>4, <2>5
<1>10. \A i, j \in 1..Len(t) : i < j => t[i] < t[j]
  <2>0. Len(t) = n - 1
    BY <1>6
  <2> SUFFICES ASSUME NEW i \in 1..(n - 1), NEW j \in 1..(n - 1), i < j
               PROVE  t[i] < t[j]
    BY Zenon, <2>0
  <2> DEFINE a == IF i < p THEN i ELSE i + 1
             b == IF j < p THEN j ELSE j + 1
  <2>1. t[i] = s[a] /\ t[j] = s[b]
    BY <1>6
  <2>2. a \in 1..n /\ b \in 1..n /\ a < b
    BY <1>1, <1>4
  <2> HIDE DEF a, b
  <2> QED BY <1>7, <2>1, <2>2
<1> QED BY <1>6, <1>9, <1>10 DEF t

(***************************************************************************)
(* Pages                                                                   *)
(***************************************************************************)
USE DEF Idle

LEMMA InitInv == Init => IInv
<1> SUFFICES ASSUME Init PROVE IInv
  OBVIOUS
<1>1. Words
  BY SimpleRows DEF Init, Words
<1>2. OfType /\ Whole /\ Increasing /\ SpansApart
  BY DEF Init, OfType, Whole, Increasing, SpansApart, Spans
<1>3. Settled /\ HasCurve
  <2>1. "none" \notin Curves
    BY DEF Curves
  <2> QED BY <2>1 DEF Init, Settled, HasCurve, InOrder, Ordered
<1>4. Pages
  BY <1>3 DEF Init, Pages, AllIdle
<1> QED BY <1>1, <1>2, <1>3, <1>4 DEF IInv

\* The step that is next tells which plan a page follows.
LEMMA WhichPlan ==
  ASSUME Pages, NEW w \in Workers, ~Idle(w)
  PROVE  /\ Step(w).do = "make" => Making(todo[w])
         /\ Step(w).do = "listmethod" => Listing(todo[w])
         /\ Step(w).do = "insert" => Inserting(todo[w])
         /\ Step(w).do = "list" => Ordering(todo[w])
         /\ Step(w).do = "save" => Saving(todo[w])
         /\ Step(w).do = "erase" => Erasing(todo[w])
         /\ Step(w).do = "unlist" => Unlisting(todo[w])
<1>1. Plan(todo[w])
  BY DEF Pages
<1>2. Making(todo[w]) => Step(w).do = "make"
  BY DEF Making, Make, Step
<1>3. Listing(todo[w]) => Step(w).do = "listmethod"
  BY DEF Listing, ListMethod, Step
<1>4. Inserting(todo[w]) => Step(w).do = "insert"
  BY DEF Inserting, Insert, Step
<1>5. Ordering(todo[w]) => Step(w).do = "list"
  BY DEF Ordering, List, Step
<1>6. Saving(todo[w]) => Step(w).do = "save"
  BY DEF Saving, Save, Step
<1>7. Erasing(todo[w]) => Step(w).do = "erase"
  BY DEF Erasing, Erase, Step
<1>8. Unlisting(todo[w]) => Step(w).do = "unlist"
  BY DEF Unlisting, Unlist, Step
<1> QED BY <1>1, <1>2, <1>3, <1>4, <1>5, <1>6, <1>7, <1>8 DEF Plan

\* Whoever has the turn keeps it until the page has ended.
LEMMA PagesKept ==
  ASSUME Words, Pages, NEW w \in Workers, ~Idle(w) \/ AllIdle,
         todo' = [todo EXCEPT ![w] = todo'[w]],
         \/ todo'[w] = <<>> /\ Settled' /\ HasCurve'
         \/ Plan(todo[w])' /\ todo'[w] # <<>>
  PROVE  Pages'
<1>1. \A v \in Workers \ {w} : todo[v] = <<>>
  BY DEF Pages, AllIdle
<1>2. \A v \in Workers \ {w} : todo'[v] = <<>>
  BY <1>1 DEF Words
<1>3. \A u, v \in Workers : ~Idle(u)' /\ ~Idle(v)' => u = v
  BY <1>2
<1>4. \A v \in Workers : ~Idle(v)' => Plan(todo[v])'
  BY <1>2
<1>5. AllIdle' => Settled' /\ HasCurve'
  BY DEF AllIdle
<1> QED BY <1>3, <1>4, <1>5 DEF Pages

\* A handler that begins has looked at what stays as it is until its first commit.
LEMMA Begun ==
  ASSUME IInv, ~Overlap, NEW w \in Workers, NEW p, Begin(w, p), p # <<>> => Plan(p)
  PROVE  IInv'
<1>1. AllIdle /\ todo' = [todo EXCEPT ![w] = p] /\ UNCHANGED table
  BY DEF Begin
<1> USE <1>1 DEF table
<1>2. todo'[w] = p /\ todo' = [v \in Workers |-> todo'[v]]
  BY DEF IInv, Words
<1>3. Words'
  BY <1>2 DEF IInv, Words
<1>4. OfType' /\ Whole' /\ Increasing' /\ SpansApart'
  BY DEF IInv, OfType, Whole, IsWhole, Increasing, SpansApart, Spans
<1>5. (Settled /\ HasCurve)'
  BY DEF IInv, Pages, Settled, HasCurve, InOrder, Ordered
<1>6. Plan(p) => Plan(p)'
  BY DEF Plan, Making, Listing, Inserting, Ordering, Saving, Erasing, Unlisting, Settled, HasCurve,
     InOrder, Ordered, MayInsert, MaySave, IsWhole, Spans
<1>7. Plan(p)' => Plan(todo[w])'
  BY <1>2
<1>8. Pages'
  BY <1>1, <1>2, <1>5, <1>6, <1>7, PagesKept DEF IInv
<1> QED BY <1>3, <1>4, <1>8 DEF IInv

\* Nothing is left to do when a handler begins.
LEMMA AtRest ==
  ASSUME IInv, ~Overlap, NEW w \in Workers, NEW p, Begin(w, p)
  PROVE  AllIdle /\ Settled /\ HasCurve
BY DEF Begin, IInv, Pages

(***************************************************************************)
(* The handlers                                                            *)
(***************************************************************************)
LEMMA CreateStep ==
  ASSUME IInv, ~Overlap, NEW w \in Workers, method_create(w)
  PROVE  IInv'
<1>1. PICK t \in Types : Begin(w, method_create_plan(t))
  BY DEF method_create
<1>2. PICK p : p = method_create_plan(t)
  OBVIOUS
<1>3. type = "none" /\ Settled
  BY <1>1, AtRest DEF method_create
<1>4. p = IF t \in Curves THEN <<Make(t), ListMethod, Insert(CurveRow, <<>>)>> ELSE <<Make(t), ListMethod>>
  BY <1>2 DEF method_create_plan
<1>5. Making(p)
  BY <1>3, <1>4 DEF Making
<1> QED BY <1>1, <1>2, <1>5, Begun DEF Plan

LEMMA NoCurves == "Date" \notin Curves /\ "Daily" \notin Curves /\ "Duration" \notin Curves /\ "none" \notin Curves
BY DEF Curves

\* A span that begins after the last in the order begins after all.
LEMMA AddSpanStep ==
  ASSUME IInv, ~Overlap, NEW w \in Workers, method_add_span(w)
  PROVE  IInv'
<1>1. PICK r \in Forms : /\ validate_method_data(r)
                         /\ type # "Duration" => AfterLast(r)
                         /\ Begin(w, <<Insert(r, method_order)>>)
  BY DEF method_add_span
<1>2. PICK p : p = <<Insert(r, method_order)>>
  OBVIOUS
<1>3. Settled
  BY <1>1, AtRest
<1>4. r \in Rows /\ r.what = "span" /\ r.start \in Nat /\ r.end \in Int /\ (r.end # Blank => r.end \in Nat)
  BY <1>1, FormsAreRows, RowFields
<1>5. type \in {"Date", "Daily", "Duration"}
  BY DEF method_add_span
<1>6. IsWhole(r)
  BY <1>1, <1>4, <1>5 DEF IsWhole, validate_method_data
<1>7. ASSUME type = "Date", NEW j \in Spans PROVE row[j].end <= r.start
  <2> DEFINE k == method_order[Len(method_order)]
  <2>1. Ordered = Spans /\ \A i \in Spans : row[i] \in Rows /\ row[i].start < row[i].end
    BY <1>7, DatesAreSpans DEF IInv
  <2>2. method_order # <<>>
    <3>1. j \in Keys /\ j \in Ordered
      BY <2>1 DEF IInv, Words, Spans
    <3> QED BY <1>3, <3>1 DEF Settled, InOrder
  <2>3. k \in Spans /\ j <= k
    BY <1>3, <2>1, <2>2, LastIsGreatest DEF IInv
  <2>4. r.start >= row[k].end
    BY <1>1, <1>7, <2>2, <2>3 DEF AfterLast
  <2>5. row[j].end \in Int /\ row[k].end \in Int /\ row[k].start \in Int /\ row[k].start < row[k].end
    BY <2>1, <2>3, RowFields
  <2>6. j \in Int /\ k \in Int
    BY <2>3, KeysAreInts DEF IInv, Words, Spans
  <2>7. j < k => row[j].end <= row[k].start
    BY <1>7, <2>3 DEF IInv, SpansApart
  <2> HIDE DEF k
  <2> QED BY <1>4, <2>3, <2>4, <2>5, <2>6, <2>7
<1>8. MayInsert(r)
  BY <1>4, <1>5, <1>6, <1>7, NoCurves DEF MayInsert, Curves
<1>9. Inserting(p)
  BY <1>2, <1>3, <1>4, <1>8 DEF Inserting
<1> QED BY <1>1, <1>2, <1>9, Begun DEF Plan

LEMMA AddOtherStep ==
  ASSUME IInv, ~Overlap, NEW w \in Workers, method_add_repeat(w) \/ method_add_output(w)
  PROVE  IInv'
<1>1. PICK r \in {RepeatRow, OutputRow} :
        /\ Begin(w, <<Insert(r, method_order)>>)
        /\ type \in {"Date", "Daily", "Duration"} /\ (type = "Date" => r = OutputRow)
  BY DEF method_add_repeat, method_add_output
<1>2. PICK p : p = <<Insert(r, method_order)>>
  OBVIOUS
<1>3. Settled
  BY <1>1, AtRest
<1>4. r \in Rows /\ r.what \in {"output", "repeat"} /\ (type = "Date" => r.what = "output")
  BY <1>1, SimpleRows DEF RepeatRow, OutputRow, Row
<1>5. MayInsert(r)
  BY <1>1, <1>4, NoCurves DEF MayInsert, IsWhole, Curves
<1>6. Inserting(p)
  BY <1>2, <1>3, <1>4, <1>5 DEF Inserting
<1> QED BY <1>1, <1>2, <1>6, Begun DEF Plan

\* What fits between its neighbours fits between all.
LEMMA ModSpanStep ==
  ASSUME IInv, ~Overlap, NEW w \in Workers, method_mod_span(w)
  PROVE  IInv'
<1>1. PICK k \in Spans, r \in Forms :
        /\ validate_method_data(r)
        /\ type = "Date" => AfterPrevious(k, r) /\ BeforeNext(k, r)
        /\ Begin(w, <<Save(k, r)>>)
  BY DEF method_mod_span
<1>2. PICK p : p = <<Save(k, r)>>
  OBVIOUS
<1>3. Settled /\ HasCurve
  BY <1>1, AtRest
<1>4. r \in Rows /\ r.what = "span" /\ r.start \in Nat /\ r.end \in Int /\ (r.end # Blank => r.end \in Nat)
  BY <1>1, FormsAreRows, RowFields
<1>5. k \in rows /\ k \in Keys /\ row[k].what = "span"
  BY <1>1 DEF IInv, Words, Spans
<1>6. IsWhole(r)
  BY <1>1, <1>4 DEF IsWhole, validate_method_data
<1>7. ASSUME type = "Date", NEW j \in Spans
      PROVE  (j < k => row[j].end <= r.start) /\ (k < j => r.end <= row[j].start)
  <2> DEFINE s == method_order
             n == Len(s)
  <2>1. Ordered = Spans /\ \A h \in Spans : row[h] \in Rows /\ row[h].start < row[h].end
    BY <1>7, DatesAreSpans DEF IInv
  <2>2. \A h \in Spans : row[h].start \in Int /\ row[h].end \in Int /\ row[h].start < row[h].end /\ h \in Keys
    BY <2>1, RowFields DEF IInv, Words, Spans
  <2>3. n \in Nat /\ \A i \in 1..n : s[i] \in Keys /\ s[i] \in Int /\ s[i] \in Spans
    <3>1. n \in Nat /\ \A i \in 1..n : s[i] \in Keys
      BY DEF IInv, Words
    <3>2. \A i \in 1..n : s[i] \in Spans
      BY <1>3, <2>1, <3>1 DEF Settled, InOrder
    <3> QED BY <3>1, <3>2, KeysAreInts
  <2>4. PICK a \in 1..n : s[a] = j
    BY <1>3, <2>1, <2>2 DEF Settled, InOrder
  <2>5. PICK b \in 1..n : s[b] = k
    BY <1>1, <1>3, <2>1, <2>2 DEF Settled, InOrder
  <2>6. \A i, h \in 1..n : i < h => s[i] < s[h] /\ row[s[i]].end <= row[s[h]].start
    <3>1. \A i, h \in 1..n : i < h => s[i] < s[h]
      BY DEF IInv, Increasing
    <3> QED BY <1>7, <2>3, <3>1 DEF IInv, SpansApart
  <2>7. \A i \in 2..n : s[i] = k => r.start >= row[s[i - 1]].end
    <3>1. \A i \in 2..n : i - 1 \in 1..n
      BY <2>3
    <3> QED BY <1>1, <1>7, <2>3, <3>1 DEF AfterPrevious
  <2>8. \A i \in 1..(n - 1) : s[i] = k => r.end <= row[s[i + 1]].start
    <3>1. \A i \in 1..(n - 1) : i + 1 \in 1..n
      BY <2>3
    <3> QED BY <1>1, <1>7, <2>3, <3>1 DEF BeforeNext
  <2> HIDE DEF s, n
  <2>9. ASSUME j < k PROVE row[j].end <= r.start
    <3>1. a < b
      BY <2>3, <2>4, <2>5, <2>6, <2>9
    <3>2. b \in 2..n /\ b - 1 \in 1..n /\ a <= b - 1
      BY <2>3, <3>1
    <3>3. r.start >= row[s[b - 1]].end
      BY <2>5, <2>7, <3>2
    <3>4. CASE a = b - 1
      BY <2>4, <3>3, <3>4, <1>4, <2>2
    <3>5. CASE a < b - 1
      <4>1. row[j].end <= row[s[b - 1]].start
        BY <2>4, <2>6, <3>2, <3>5
      <4>2. s[b - 1] \in Spans
        BY <2>3, <3>2
      <4> QED BY <1>4, <2>2, <3>3, <4>1, <4>2
    <3> QED BY <3>2, <3>4, <3>5
  <2>10. ASSUME k < j PROVE r.end <= row[j].start
    <3>1. b < a
      BY <2>3, <2>4, <2>5, <2>6, <2>10
    <3>2. b \in 1..(n - 1) /\ b + 1 \in 1..n /\ b + 1 <= a
      BY <2>3, <3>1
    <3>3. r.end <= row[s[b + 1]].start
      BY <2>5, <2>8, <3>2
    <3>4. CASE a = b + 1
      BY <2>4, <3>3, <3>4, <1>4, <2>2
    <3>5. CASE b + 1 < a
      <4>1. row[s[b + 1]].end <= row[j].start
        BY <2>4, <2>6, <3>2, <3>5
      <4>2. s[b + 1] \in Spans
        BY <2>3, <3>2
      <4> QED BY <1>4, <2>2, <3>3, <4>1, <4>2
    <3> QED BY <3>2, <3>4, <3>5
  <2> QED BY <2>9, <2>10
<1>8. MaySave(k, r)
  BY <1>4, <1>5, <1>6, <1>7 DEF MaySave
<1>9. Saving(p)
  BY <1>2, <1>3, <1>4, <1>5, <1>8 DEF Saving
<1> QED BY <1>1, <1>2, <1>9, Begun DEF Plan

\* What is no span may be saved again wherever it is.
LEMMA SaveOther ==
  ASSUME IInv, ~Overlap, NEW w \in Workers, NEW k \in rows, NEW r \in Rows,
         r.what = row[k].what, r.what # "span", Begin(w, <<Save(k, r)>>)
  PROVE  IInv'
<1>1. PICK p : p = <<Save(k, r)>>
  OBVIOUS
<1>2. Settled /\ HasCurve
  BY AtRest
<1>3. MaySave(k, r)
  BY DEF MaySave, IsWhole
<1>4. Saving(p)
  BY <1>1, <1>2, <1>3 DEF Saving
<1> QED BY <1>1, <1>4, Begun DEF Plan

LEMMA ModOtherStep ==
  ASSUME IInv, ~Overlap, NEW w \in Workers, method_mod_other(w) \/ method_add_curve(w)
  PROVE  IInv'
<1>1. CASE method_mod_other(w)
  <2>1. PICK k \in rows : row[k].what \in {"output", "repeat"} /\ Begin(w, <<Save(k, row[k])>>)
    BY <1>1 DEF method_mod_other
  <2>2. row[k] \in Rows /\ row[k].what # "span"
    BY <2>1 DEF IInv, Words
  <2> QED BY <2>1, <2>2, SaveOther
<1>2. CASE method_add_curve(w)
  <2>1. PICK k \in rows : row[k].what = "curve" /\ Begin(w, <<Save(k, CurveRow)>>)
    BY <1>2 DEF method_add_curve
  <2>2. CurveRow \in Rows /\ CurveRow.what = "curve"
    BY SimpleRows DEF CurveRow, Row
  <2> QED BY <2>1, <2>2, SaveOther
<1> QED BY <1>1, <1>2

LEMMA ModDeleteStep ==
  ASSUME IInv, ~Overlap, NEW w \in Workers, method_mod_delete(w)
  PROVE  IInv'
<1>1. PICK k \in rows :
        /\ row[k].what # "curve"
        /\ Begin(w, <<Erase(k)>> \o (IF row[k].what = "output" THEN <<>> ELSE <<Unlist(k)>>))
  BY DEF method_mod_delete
<1>2. PICK p : p = <<Erase(k)>> \o (IF row[k].what = "output" THEN <<>> ELSE <<Unlist(k)>>)
  OBVIOUS
<1>3. Settled
  BY <1>1, AtRest
<1>4. type \notin Curves
  BY <1>1 DEF IInv, OfType
<1>5. p = IF k \in Ordered THEN <<Erase(k), Unlist(k)>> ELSE <<Erase(k)>>
  BY <1>2 DEF Ordered
<1>6. Erasing(p)
  BY <1>3, <1>4, <1>5 DEF Erasing
<1> QED BY <1>1, <1>2, <1>6, Begun DEF Plan

LEMMA RenameStep ==
  ASSUME IInv, ~Overlap, NEW w \in Workers, method_mod_rename(w)
  PROVE  IInv'
<1>1. PICK p : p = <<>>
  OBVIOUS
<1> QED BY <1>1, Begun DEF method_mod_rename

LEMMA DeleteStep ==
  ASSUME IInv, ~Overlap, NEW w \in Workers, method_delete(w)
  PROVE  IInv'
<1> USE DEF method_delete
<1>1. Words'
  BY SimpleRows DEF IInv, Words
<1>2. OfType' /\ Whole' /\ Increasing' /\ SpansApart'
  BY DEF OfType, Whole, Increasing, SpansApart, Spans
<1>3. (Settled /\ HasCurve)'
  BY NoCurves DEF Settled, HasCurve, InOrder, Ordered
<1>4. Pages'
  BY <1>3 DEF Pages, AllIdle
<1> QED BY <1>1, <1>2, <1>4 DEF IInv

(***************************************************************************)
(* The commits                                                             *)
(***************************************************************************)
\* Nothing breaks off: what is left is what the commit leaves.
LEMMA Goes ==
  ASSUME IInv, ~Breaks, NEW w \in Workers, NEW rest, Then(w, rest)
  PROVE  todo'[w] = rest /\ todo' = [todo EXCEPT ![w] = todo'[w]] /\ todo' = [v \in Workers |-> todo'[v]]
<1>1. todo' = [todo EXCEPT ![w] = rest]
  BY DEF Then
<1> QED BY <1>1 DEF IInv, Words

LEMMA MakeStep ==
  ASSUME IInv, ~Breaks, NEW w \in Workers, MakeMethod(w)
  PROVE  IInv'
<1>1. Step(w).do = "make" /\ ~Idle(w) /\ type' = Step(w).type /\ Then(w, Tail(todo[w]))
  BY DEF MakeMethod, Doing, Advance
<1>2. Making(todo[w])
  BY <1>1, WhichPlan DEF IInv
<1>3. PICK t \in Types :
        \/ todo[w] = <<Make(t), ListMethod>> /\ t \notin Curves
        \/ todo[w] = <<Make(t), ListMethod, Insert(CurveRow, <<>>)>> /\ t \in Curves
  BY <1>2 DEF Making
<1>4. type' = t
  BY <1>1, <1>3 DEF Step, Make
<1>5. rows = {} /\ method_order = <<>> /\ t # "none" /\ Settled /\ UNCHANGED <<listed, rows, row, method_order, last>>
  BY <1>2, MethodAssumption, NoCurves DEF Making, IInv, OfType, MakeMethod
<1>6. Words' /\ OfType' /\ Whole' /\ Increasing' /\ SpansApart' /\ Settled'
  <2>1. todo' = [v \in Workers |-> todo'[v]]
    BY <1>1, Goes
  <2> QED BY <1>4, <1>5, <2>1
      DEF IInv, Words, OfType, Whole, Increasing, SpansApart, Spans, Settled, InOrder, Ordered
<1>7. Listing(todo[w])' /\ todo'[w] # <<>>
  <2>1. todo'[w] = Tail(todo[w])
    BY <1>1, Goes
  <2>2. CASE todo[w] = <<Make(t), ListMethod>> /\ t \notin Curves
    <3>1. todo'[w] = <<ListMethod>>
      BY <2>1, <2>2
    <3>2. HasCurve'
      BY <1>4, <2>2 DEF HasCurve
    <3> QED BY <1>4, <1>5, <1>6, <3>1, <3>2 DEF Listing
  <2>3. CASE todo[w] = <<Make(t), ListMethod, Insert(CurveRow, <<>>)>> /\ t \in Curves
    <3>1. todo'[w] = <<ListMethod, Insert(CurveRow, <<>>)>>
      BY <2>1, <2>3
    <3>2. type' \in Curves /\ method_order' = <<>>
      BY <1>4, <1>5, <2>3
    <3> QED BY <1>4, <1>5, <1>6, <3>1, <3>2 DEF Listing
  <2> QED BY <1>3, <2>2, <2>3
<1>8. Pages'
  <2>1. todo' = [todo EXCEPT ![w] = todo'[w]]
    BY <1>1, Goes
  <2> QED BY <1>1, <1>7, <2>1, PagesKept DEF IInv, Plan
<1> QED BY <1>6, <1>8 DEF IInv

LEMMA ListTheStep ==
  ASSUME IInv, ~Breaks, NEW w \in Workers, ListTheMethod(w)
  PROVE  IInv'
<1>1. Step(w).do = "listmethod" /\ ~Idle(w) /\ Then(w, Tail(todo[w])) /\ UNCHANGED <<type, rows, row, method_order, last>>
  BY DEF ListTheMethod, Doing, Advance
<1>2. Listing(todo[w])
  BY <1>1, WhichPlan DEF IInv
<1>3. todo'[w] = Tail(todo[w]) /\ todo' = [todo EXCEPT ![w] = todo'[w]] /\ todo' = [v \in Workers |-> todo'[v]]
  BY <1>1, Goes
<1>4. Words' /\ OfType' /\ Whole' /\ Increasing' /\ SpansApart'
  BY <1>1, <1>3 DEF IInv, Words, OfType, Whole, IsWhole, Increasing, SpansApart, Spans
<1>5. Settled'
  BY <1>1, <1>2 DEF Listing, Settled, InOrder, Ordered
<1>6. CASE todo[w] = <<ListMethod>> /\ HasCurve
  <2>1. todo'[w] = <<>> /\ HasCurve'
    BY <1>1, <1>3, <1>6 DEF HasCurve
  <2>2. Pages'
    BY <1>1, <1>3, <1>5, <2>1, PagesKept DEF IInv
  <2> QED BY <1>4, <2>2 DEF IInv
<1>7. CASE todo[w] = <<ListMethod, Insert(CurveRow, <<>>)>> /\ type \in Curves /\ method_order = <<>>
  <2>1. todo'[w] = <<Insert(CurveRow, method_order')>> /\ todo'[w] # <<>>
    BY <1>1, <1>3, <1>7
  <2>2. CurveRow \in Rows /\ CurveRow.what = "curve"
    BY SimpleRows DEF CurveRow, Row
  <2>3. MayInsert(CurveRow)'
    BY <1>1, <1>7, <2>2, NoCurves DEF MayInsert, IsWhole
  <2>4. Inserting(todo[w])'
    BY <1>5, <2>1, <2>2, <2>3 DEF Inserting
  <2>5. Pages'
    BY <1>1, <1>3, <2>1, <2>4, PagesKept DEF IInv, Plan
  <2> QED BY <1>4, <2>5 DEF IInv
<1> QED BY <1>2, <1>6, <1>7 DEF Listing

LEMMA SaveOrderStep ==
  ASSUME IInv, ~Breaks, NEW w \in Workers, SaveOrder(w)
  PROVE  IInv'
<1>1. Step(w).do = "list" /\ ~Idle(w) /\ Then(w, Tail(todo[w])) /\ UNCHANGED <<type, listed, rows, row, last>>
      /\ method_order' = Step(w).order
  BY DEF SaveOrder, Doing, Advance
<1>2. Ordering(todo[w])
  BY <1>1, WhichPlan DEF IInv
<1>3. method_order' = Append(method_order, last) /\ todo'[w] = <<>>
  <2>1. todo'[w] = Tail(todo[w])
    BY <1>1, Goes
  <2> QED BY <1>1, <1>2, <2>1 DEF Ordering, Step, List
<1> DEFINE n == Len(method_order)
<1>4. n \in Nat /\ (\A i \in 1..n : method_order[i] \in Keys) /\ last \in Keys
  BY <1>2 DEF IInv, Words, Ordering, Ordered
<1>5. method_order' \in Seq(Keys) /\ Len(method_order') = n + 1
      /\ method_order'[n + 1] = last /\ \A i \in 1..n : method_order'[i] = method_order[i]
  BY <1>3, <1>4 DEF IInv, Words
<1>6. \A i \in 1..n : method_order[i] < last
  <2> SUFFICES ASSUME NEW i \in 1..n PROVE method_order[i] < last
    OBVIOUS
  <2>1. method_order[i] \in Ordered \ {last}
    BY <1>2, <1>4 DEF Ordering, InOrder
  <2>2. method_order[i] <= last /\ method_order[i] # last
    BY <2>1 DEF IInv, Words, Ordered
  <2> QED BY <1>4, <2>2, KeysAreInts
<1>7. Increasing'
  <2>1. \A i, j \in 1..n : i < j => method_order[i] < method_order[j]
    BY DEF IInv, Increasing
  <2> HIDE DEF n
  <2> QED BY <1>4, <1>5, <1>6, <2>1 DEF Increasing
<1>8. \A k \in Keys : InOrder(k)' <=> InOrder(k) \/ k = last
  <2> SUFFICES ASSUME NEW k \in Keys PROVE InOrder(k)' <=> InOrder(k) \/ k = last
    OBVIOUS
  <2>1. InOrder(k) <=> \E i \in 1..n : method_order[i] = k
    BY DEF InOrder
  <2>2. InOrder(k)' <=> \E i \in 1..(n + 1) : method_order'[i] = k
    BY <1>5 DEF InOrder
  <2>3. \A i \in 1..(n + 1) : i \in 1..n \/ i = n + 1
    BY <1>4
  <2>4. n + 1 \in 1..(n + 1) /\ \A i \in 1..n : i \in 1..(n + 1)
    BY <1>4
  <2> HIDE DEF n
  <2> QED BY <1>5, <2>1, <2>2, <2>3, <2>4
<1>9. Settled' /\ HasCurve'
  BY <1>1, <1>2, <1>8 DEF Ordering, Settled, Ordered, HasCurve
<1>10. todo' = [todo EXCEPT ![w] = todo'[w]] /\ todo' = [v \in Workers |-> todo'[v]]
  BY <1>1, Goes
<1>11. Words' /\ OfType' /\ Whole' /\ SpansApart'
  <2>1. type # "none"
    BY <1>2, <1>4 DEF IInv, OfType, Ordering, Ordered
  <2> QED BY <1>1, <1>5, <1>10, <2>1 DEF IInv, Words, OfType, Whole, IsWhole, SpansApart, Spans
<1>12. Pages'
  BY <1>1, <1>3, <1>9, <1>10, PagesKept DEF IInv
<1> QED BY <1>7, <1>11, <1>12 DEF IInv

LEMMA InsertStep ==
  ASSUME IInv, ~Breaks, NEW w \in Workers, InsertRow(w)
  PROVE  IInv'
<1> DEFINE new == last + 1
<1>1. /\ Step(w).do = "insert" /\ ~Idle(w) /\ new \in Keys
      /\ last' = new /\ rows' = rows \cup {new} /\ row' = [row EXCEPT ![new] = Step(w).row]
      /\ Then(w, IF Step(w).row.what = "output" THEN <<>> ELSE <<List(Append(Step(w).order, new))>>)
      /\ UNCHANGED <<type, listed, method_order>>
  BY DEF InsertRow, Doing
<1>2. Inserting(todo[w])
  BY <1>1, WhichPlan DEF IInv
<1>3. PICK r \in Rows : todo[w] = <<Insert(r, method_order)>> /\ MayInsert(r)
  BY <1>2 DEF Inserting
<1>4. Step(w).row = r /\ Step(w).order = method_order
  BY <1>3 DEF Step, Insert
<1>5. todo'[w] = IF r.what = "output" THEN <<>> ELSE <<List(Append(method_order, new))>>
  BY <1>1, <1>4, Goes
<1>6. todo' = [todo EXCEPT ![w] = todo'[w]] /\ todo' = [v \in Workers |-> todo'[v]]
  BY <1>1, Goes
<1>7. last \in Nat /\ \A k \in rows : k \in Keys /\ k \in Int /\ k < new
  BY KeysAreInts DEF IInv, Words
<1>8. new \notin rows /\ row'[new] = r /\ \A k \in rows : row'[k] = row[k]
  BY <1>1, <1>4, <1>7 DEF IInv, Words
<1> HIDE DEF new
<1>9. Words'
  <2>1. last' \in Nat /\ \A k \in rows' : k <= last'
    BY <1>1, <1>7 DEF new
  <2>2. row' \in [Keys -> Rows]
    BY <1>1, <1>3, <1>4 DEF IInv, Words
  <2> QED BY <1>1, <1>6, <2>1, <2>2 DEF IInv, Words
<1>10. OfType' /\ Whole' /\ Increasing'
  BY <1>1, <1>3, <1>8 DEF IInv, OfType, Whole, IsWhole, Increasing, MayInsert
<1>11. SpansApart'
  <2> SUFFICES ASSUME type' = "Date", NEW j \in Spans', NEW k \in Spans', j < k
               PROVE  row'[j].end <= row'[k].start
    BY DEF SpansApart
  <2>1. j # new /\ j \in Spans /\ row'[j] = row[j]
    <3>1. j # new
      BY <1>1, <1>7 DEF Spans, new
    <3> QED BY <1>1, <1>8, <3>1 DEF Spans
  <2>2. CASE k = new
    BY <1>1, <1>3, <1>8, <2>1, <2>2 DEF MayInsert, Spans
  <2>3. CASE k # new
    <3>1. k \in Spans /\ row'[k] = row[k]
      BY <1>1, <1>8, <2>3 DEF Spans
    <3> QED BY <1>1, <2>1, <3>1 DEF IInv, SpansApart
  <2> QED BY <2>2, <2>3
<1>12. Ordered' = Ordered \cup {k \in {new} : r.what # "output"} /\ ~InOrder(new)
  <2>1. Ordered' = Ordered \cup {k \in {new} : r.what # "output"}
    BY <1>1, <1>8 DEF Ordered
  <2>2. ~InOrder(new)
    BY <1>1, <1>2, <1>8 DEF Inserting, Settled, Ordered
  <2> QED BY <2>1, <2>2
<1>13. HasCurve' /\ \A k \in Keys : InOrder(k)' <=> k \in Ordered
  BY <1>1, <1>2 DEF Inserting, Settled, InOrder, HasCurve
<1>14. CASE r.what = "output"
  <2>1. Settled'
    BY <1>12, <1>13, <1>14 DEF Settled
  <2> QED BY <1>1, <1>5, <1>6, <1>9, <1>10, <1>11, <1>13, <1>14, <2>1, PagesKept DEF IInv
<1>15. CASE r.what # "output"
  <2>1. todo'[w] = <<List(Append(method_order', last'))>> /\ todo'[w] # <<>>
    BY <1>1, <1>5, <1>15
  <2>2. new \notin Ordered
    BY <1>8 DEF Ordered
  <2>3. Ordering(todo[w])'
    BY <1>1, <1>12, <1>13, <1>15, <2>1, <2>2 DEF Ordering
  <2> QED BY <1>1, <1>6, <1>9, <1>10, <1>11, <2>1, <2>3, PagesKept DEF IInv, Plan
<1> QED BY <1>14, <1>15

LEMMA SaveRowStep ==
  ASSUME IInv, ~Breaks, NEW w \in Workers, SaveRow(w)
  PROVE  IInv'
<1>1. /\ Step(w).do = "save" /\ ~Idle(w) /\ Then(w, Tail(todo[w]))
      /\ row' = IF Step(w).key \in rows THEN [row EXCEPT ![Step(w).key] = Step(w).row] ELSE row
      /\ UNCHANGED <<type, listed, rows, method_order, last>>
  BY DEF SaveRow, Doing, Advance
<1>2. Saving(todo[w])
  BY <1>1, WhichPlan DEF IInv
<1>3. PICK k \in rows, r \in Rows : todo[w] = <<Save(k, r)>> /\ MaySave(k, r)
  BY <1>2 DEF Saving
<1>4. Step(w).key = k /\ Step(w).row = r
  BY <1>3 DEF Step, Save
<1>5. todo'[w] = <<>> /\ todo' = [todo EXCEPT ![w] = todo'[w]] /\ todo' = [v \in Workers |-> todo'[v]]
  BY <1>1, <1>3, Goes
<1>6. row' \in [Keys -> Rows] /\ \A j \in rows : row'[j] = IF j = k THEN r ELSE row[j]
  BY <1>1, <1>4 DEF IInv, Words
<1>7. \A j \in rows : row'[j].what = row[j].what
  BY <1>3, <1>6 DEF MaySave
<1>8. Words' /\ OfType' /\ Increasing'
  BY <1>1, <1>5, <1>6, <1>7 DEF IInv, Words, OfType, Increasing
<1>9. Whole'
  BY <1>1, <1>3, <1>6 DEF IInv, Whole, IsWhole, MaySave
<1>10. Spans' = Spans /\ Ordered' = Ordered
  BY <1>1, <1>7 DEF Spans, Ordered
<1>11. SpansApart'
  <2> SUFFICES ASSUME type = "Date", NEW i \in Spans, NEW j \in Spans, i < j
               PROVE  row'[i].end <= row'[j].start
    BY <1>1, <1>10 DEF SpansApart
  <2>1. i \in rows /\ j \in rows /\ i \in Int
    BY KeysAreInts DEF IInv, Words, Spans
  <2>2. row[i].end <= row[j].start
    BY DEF IInv, SpansApart
  <2>3. i # j
    BY <2>1
  <2>4. CASE j = k
    BY <1>3, <1>6, <2>1, <2>3, <2>4 DEF MaySave, Spans
  <2>5. CASE i = k
    BY <1>3, <1>6, <2>1, <2>3, <2>5 DEF MaySave, Spans
  <2>6. CASE i # k /\ j # k
    BY <1>6, <2>1, <2>2, <2>6
  <2> QED BY <2>4, <2>5, <2>6
<1>12. Settled' /\ HasCurve'
  BY <1>1, <1>2, <1>10 DEF Saving, Settled, InOrder, HasCurve
<1>13. Pages'
  BY <1>1, <1>5, <1>12, PagesKept DEF IInv
<1> QED BY <1>8, <1>9, <1>11, <1>13 DEF IInv

LEMMA EraseStep ==
  ASSUME IInv, ~Breaks, NEW w \in Workers, EraseRow(w)
  PROVE  IInv'
<1>1. /\ Step(w).do = "erase" /\ ~Idle(w)
      /\ rows' = rows \ {Step(w).key} /\ row' = [row EXCEPT ![Step(w).key] = NoRow]
      /\ Then(w, IF Step(w).key \in rows THEN Tail(todo[w]) ELSE <<>>)
      /\ UNCHANGED <<type, listed, method_order, last>>
  BY DEF EraseRow, Doing
<1>2. Erasing(todo[w])
  BY <1>1, WhichPlan DEF IInv
<1>3. PICK k \in rows : \/ todo[w] = <<Erase(k)>> /\ k \notin Ordered
                        \/ todo[w] = <<Erase(k), Unlist(k)>> /\ k \in Ordered
  BY <1>2 DEF Erasing
<1>4. Step(w).key = k
  BY <1>3 DEF Step, Erase
<1>5. todo'[w] = Tail(todo[w]) /\ todo' = [todo EXCEPT ![w] = todo'[w]] /\ todo' = [v \in Workers |-> todo'[v]]
  BY <1>1, <1>4, Goes
<1>6. row' \in [Keys -> Rows] /\ rows' = rows \ {k} /\ \A j \in rows' : row'[j] = row[j]
  BY <1>1, <1>4, SimpleRows DEF IInv, Words
<1>7. Words' /\ OfType' /\ Increasing' /\ Whole'
  <2>1. Words'
    BY <1>1, <1>5, <1>6 DEF IInv, Words
  <2> QED BY <1>1, <1>6, <2>1 DEF IInv, OfType, Increasing, Whole, IsWhole
<1>8. Spans' = Spans \ {k} /\ Ordered' = Ordered \ {k} /\ k \in Keys
  BY <1>1, <1>6 DEF Spans, Ordered, IInv, Words
<1>9. SpansApart'
  BY <1>1, <1>6, <1>8 DEF IInv, SpansApart, Spans
<1>10. type' \notin Curves /\ HasCurve' /\ \A j \in Keys : InOrder(j)' <=> j \in Ordered
  BY <1>1, <1>2 DEF Erasing, Settled, InOrder, HasCurve
<1>11. CASE todo[w] = <<Erase(k)>> /\ k \notin Ordered
  <2>1. todo'[w] = <<>> /\ Settled'
    BY <1>5, <1>8, <1>10, <1>11 DEF Settled
  <2>2. Pages'
    BY <1>1, <1>5, <1>10, <2>1, PagesKept DEF IInv
  <2> QED BY <1>7, <1>9, <2>2 DEF IInv
<1>12. CASE todo[w] = <<Erase(k), Unlist(k)>> /\ k \in Ordered
  <2>1. todo'[w] = <<Unlist(k)>> /\ todo'[w] # <<>>
    BY <1>5, <1>12
  <2>2. k \in Keys \ rows' /\ k <= last'
    BY <1>1, <1>6, <1>8 DEF IInv, Words
  <2>3. \A j \in Keys : InOrder(j)' <=> j \in Ordered' \/ j = k
    BY <1>8, <1>10, <1>12
  <2>4. Unlisting(todo[w])'
    BY <1>10, <2>1, <2>2, <2>3 DEF Unlisting
  <2>5. Pages'
    BY <1>1, <1>5, <2>1, <2>4, PagesKept DEF IInv, Plan
  <2> QED BY <1>7, <1>9, <2>5 DEF IInv
<1> QED BY <1>3, <1>11, <1>12

LEMMA UnlistStep ==
  ASSUME IInv, ~Breaks, NEW w \in Workers, UnlistRow(w)
  PROVE  IInv'
<1>1. /\ Step(w).do = "unlist" /\ ~Idle(w) /\ Then(w, Tail(todo[w]))
      /\ method_order' = IF Step(w).key \in ToSet(method_order)
                         THEN Without(method_order, Step(w).key) ELSE method_order
      /\ UNCHANGED <<type, listed, rows, row, last>>
  BY DEF UnlistRow, Doing, Advance
<1>2. Unlisting(todo[w])
  BY <1>1, WhichPlan DEF IInv
<1>3. PICK k \in Keys \ rows : todo[w] = <<Unlist(k)>> /\ \A j \in Keys : InOrder(j) <=> j \in Ordered \/ j = k
  BY <1>2 DEF Unlisting
<1>4. Step(w).key = k
  BY <1>3 DEF Step, Unlist
<1>5. todo'[w] = <<>> /\ todo' = [todo EXCEPT ![w] = todo'[w]] /\ todo' = [v \in Workers |-> todo'[v]]
  BY <1>1, <1>3, Goes
<1>6. InOrder(k) /\ k \in ToSet(method_order)
  BY <1>3 DEF InOrder, ToSet, IInv, Words
<1>7. method_order' = Without(method_order, k)
  BY <1>1, <1>4, <1>6
<1>8. /\ method_order' \in Seq(Keys)
      /\ \A j \in Keys : InOrder(j)' <=> InOrder(j) /\ j # k
      /\ Increasing'
  BY <1>3, <1>6, <1>7, Removal DEF IInv, InOrder, Increasing
<1>9. type # "none" => Words' /\ OfType'
  BY <1>1, <1>5, <1>8 DEF IInv, Words, OfType
<1>10. type = "none" => FALSE
  BY <1>6 DEF IInv, OfType, InOrder
<1>11. Whole' /\ SpansApart'
  BY <1>1 DEF IInv, Whole, IsWhole, SpansApart, Spans
<1>12. Settled' /\ HasCurve'
  <2>1. Ordered' = Ordered /\ k \notin Ordered
    BY <1>1, <1>3 DEF Ordered
  <2> QED BY <1>1, <1>2, <1>3, <1>8, <2>1 DEF Settled, HasCurve, Unlisting
<1>13. Pages'
  BY <1>1, <1>5, <1>12, PagesKept DEF IInv
<1> QED BY <1>8, <1>9, <1>10, <1>11, <1>13 DEF IInv

(***************************************************************************)
(* The theorems                                                            *)
(***************************************************************************)
LEMMA Invariance == ~Overlap /\ ~Breaks => (Spec => []IInv)
<1> SUFFICES ASSUME ~Overlap, ~Breaks PROVE Spec => []IInv
  OBVIOUS
<1>1. ASSUME IInv, [Next]_vars PROVE IInv'
  <2>1. ASSUME NEW w \in Workers, method_builder(w) PROVE IInv'
    BY <1>1, <2>1, CreateStep, DeleteStep, AddSpanStep, AddOtherStep, ModSpanStep, ModOtherStep,
       ModDeleteStep, RenameStep DEF method_builder
  <2>2. ASSUME NEW w \in Workers, Commit(w) PROVE IInv'
    BY <1>1, <2>2, MakeStep, ListTheStep, InsertStep, SaveOrderStep, SaveRowStep, EraseStep,
       UnlistStep DEF Commit
  <2>3. CASE UNCHANGED vars
    <3> USE <2>3 DEF vars, table
    <3>1. Words' /\ OfType' /\ Whole' /\ Increasing' /\ SpansApart'
      BY <1>1 DEF IInv, Words, OfType, Whole, IsWhole, Increasing, SpansApart, Spans
    <3>2. \A p : Plan(p) => Plan(p)'
      BY DEF Plan, Making, Listing, Inserting, Ordering, Saving, Erasing, Unlisting, Settled, HasCurve,
         InOrder, Ordered, MayInsert, MaySave, IsWhole, Spans
    <3>3. Pages'
      BY <1>1, <3>2 DEF IInv, Pages, AllIdle, Settled, HasCurve, InOrder, Ordered
    <3> QED BY <3>1, <3>3 DEF IInv
  <2> QED BY <1>1, <2>1, <2>2, <2>3 DEF Next
<1> QED BY <1>1, InitInv, PTL DEF Spec

\* Between pages the order names each row that it is to name, in the order in which
\* the controllers find them, whatever was added, changed and deleted, when pages
\* come one after the other and none breaks off (utils_method.py:329-333, 408-412).
THEOREM OrderStaysTable == ~Overlap /\ ~Breaks => (Spec => []OrderIsTable)
<1>1. IInv => OrderIsTable
  <2> SUFFICES ASSUME IInv, AllIdle
               PROVE  /\ ToSet(method_order) = Ordered
                      /\ \A i, j \in DOMAIN method_order : i < j => method_order[i] < method_order[j]
    BY DEF OrderIsTable
  <2>1. DOMAIN method_order = 1..Len(method_order) /\ \A i \in 1..Len(method_order) : method_order[i] \in Keys
    BY DEF IInv, Words
  <2>2. \A k \in Ordered : k \in Keys
    BY DEF IInv, Words, Ordered
  <2>3. Settled
    BY DEF IInv, Pages
  <2>4. ToSet(method_order) = Ordered
    BY <2>1, <2>2, <2>3 DEF ToSet, Settled, InOrder
  <2> QED BY <2>1, <2>4 DEF IInv, Increasing
<1> QED BY <1>1, Invariance, PTL

\* The checks of a new span against the last one in the order, and of a changed one
\* against its neighbours, keep all spans of a Date apart, under the same conditions
\* (utils_method.py:268-278, 408-435).
THEOREM SpansStayApart == ~Overlap /\ ~Breaks => (Spec => []SpansApart)
<1>1. IInv => SpansApart
  BY DEF IInv
<1> QED BY <1>1, Invariance, PTL

\* If users leave nothing empty that is needed, a controller that looks at a Method
\* between pages is told a setpoint or none, and never raises (utils/method.py:113-239).
THEOREM LooksStaySucceed == ~Overlap /\ ~Breaks /\ ~BlankForms => (Spec => []LooksSucceed)
<1> SUFFICES ASSUME ~Overlap, ~Breaks, ~BlankForms PROVE Spec => []LooksSucceed
  OBVIOUS
<1>1. IInv => LooksSucceed
  <2> SUFFICES ASSUME IInv, AllIdle, NEW t, Raises(t) PROVE FALSE
    BY DEF LooksSucceed
  <2>1. \A k \in Spans : row[k].from # Blank /\ (type = "Duration" => row[k].end # Blank)
    BY DEF IInv, Whole, IsWhole, Spans
  <2>2. HasCurve
    BY DEF IInv, Pages
  <2>3. \A k \in Matching(t) : k \in Spans
    BY DEF Matching
  <2> QED BY <2>1, <2>2, <2>3 DEF Raises, HasCurve
<1>2. Spec => []IInv
  BY Invariance
<1> QED BY <1>1, <1>2, PTL

(***************************************************************************)
(* The types of what the pages keep                                        *)
(***************************************************************************)
\* A Method is listed only when there is one, keys are given while there are any,
\* and a row that is gone says nothing.
Noted ==
  /\ listed \in BOOLEAN /\ last \in Keys \cup {0}
  /\ type = "none" => ~listed
  /\ \A k \in Keys : k \in rows <=> row[k].what # "none"

\* Without rows nothing is noted.
LEMMA NoRows ==
  ASSUME rows = {}, row = [k \in Keys |-> NoRow]
  PROVE  \A k \in Keys : k \in rows <=> row[k].what # "none"
<1>1. NoRow.what = "none"
  BY DEF NoRow, Row
<1> QED BY <1>1

LEMMA NotedInit == Init => Noted
BY NoRows DEF Init, Noted

LEMMA NotedStep ==
  ASSUME IInv, Noted, ~Breaks, [Next]_vars
  PROVE  Noted'
<1>1. CASE UNCHANGED table
  BY <1>1 DEF Noted, table
<1>2. CASE \E w \in Workers : method_delete(w)
  <2>1. rows' = {} /\ row' = [k \in Keys |-> NoRow] /\ listed' = FALSE /\ last' = 0
    BY <1>2 DEF method_delete
  <2>2. NoRow.what = "none"
    BY DEF NoRow, Row
  <2> QED BY <2>1, <2>2 DEF Noted
<1>3. ASSUME NEW w \in Workers, MakeMethod(w) PROVE Noted'
  <2>1. UNCHANGED <<listed, rows, row, last>> /\ Making(todo[w])
    BY <1>3, WhichPlan DEF MakeMethod, Doing, IInv
  <2> QED BY <2>1 DEF Noted, Making
<1>4. ASSUME NEW w \in Workers, ListTheMethod(w) PROVE Noted'
  <2>1. UNCHANGED <<type, rows, row, last>> /\ listed' = TRUE /\ Listing(todo[w])
    BY <1>4, WhichPlan DEF ListTheMethod, Doing, IInv
  <2> QED BY <2>1 DEF Noted, Listing
<1>5. ASSUME NEW w \in Workers, InsertRow(w) PROVE Noted'
  <2>1. /\ last' = last + 1 /\ last + 1 \in Keys /\ rows' = rows \cup {last + 1}
        /\ row' = [row EXCEPT ![last + 1] = Step(w).row] /\ UNCHANGED <<type, listed>>
        /\ Inserting(todo[w])
    BY <1>5, WhichPlan DEF InsertRow, Doing, IInv
  <2>2. PICK r \in Rows : todo[w] = <<Insert(r, method_order)>> /\ MayInsert(r)
    BY <2>1 DEF Inserting
  <2>3. Step(w).row = r /\ r.what # "none"
    BY <2>2 DEF Step, Insert, MayInsert
  <2> QED BY <2>1, <2>3 DEF Noted, IInv, Words
<1>6. ASSUME NEW w \in Workers, SaveOrder(w) PROVE Noted'
  BY <1>6 DEF Noted, SaveOrder
<1>7. ASSUME NEW w \in Workers, SaveRow(w) PROVE Noted'
  <2>1. /\ row' = IF Step(w).key \in rows THEN [row EXCEPT ![Step(w).key] = Step(w).row] ELSE row
        /\ UNCHANGED <<type, listed, rows, last>> /\ Saving(todo[w])
    BY <1>7, WhichPlan DEF SaveRow, Doing, IInv
  <2>2. PICK k \in rows, r \in Rows : todo[w] = <<Save(k, r)>> /\ MaySave(k, r)
    BY <2>1 DEF Saving
  <2>3. Step(w).key = k /\ Step(w).row = r /\ r.what = row[k].what
    BY <2>2 DEF Step, Save, MaySave
  <2> QED BY <2>1, <2>3 DEF Noted, IInv, Words
<1>8. ASSUME NEW w \in Workers, EraseRow(w) PROVE Noted'
  <2>1. /\ rows' = rows \ {Step(w).key} /\ row' = [row EXCEPT ![Step(w).key] = NoRow]
        /\ UNCHANGED <<type, listed, last>>
    BY <1>8 DEF EraseRow
  <2>2. NoRow.what = "none"
    BY DEF NoRow, Row
  <2> QED BY <2>1, <2>2 DEF Noted, IInv, Words
<1>9. ASSUME NEW w \in Workers, UnlistRow(w) PROVE Noted'
  BY <1>9 DEF Noted, UnlistRow
<1>10. ASSUME NEW w \in Workers, method_builder(w) PROVE UNCHANGED table \/ method_delete(w)
  BY <1>10 DEF method_builder, method_create, method_add_span, method_add_repeat, method_add_output,
     method_add_curve, method_mod_span, method_mod_other, method_mod_delete, method_mod_rename, Begin
<1>11. CASE \E w \in Workers : Commit(w)
  BY <1>3, <1>4, <1>5, <1>6, <1>7, <1>8, <1>9, <1>11 DEF Commit
<1>12. CASE UNCHANGED vars
  BY <1>1, <1>12 DEF vars
<1> QED BY <1>1, <1>2, <1>10, <1>11, <1>12 DEF Next

\* What the order names has been given as a key.
LEMMA OrderWasGiven ==
  ASSUME IInv
  PROVE  method_order \in Seq(1..last)
<1>1. Settled \/ \E w \in Workers : Plan(todo[w])
  BY DEF IInv, Pages, AllIdle
<1>2. ASSUME NEW k \in Keys, InOrder(k) PROVE k \in 1..last
  <2>1. k \in Ordered \/ k <= last
    BY <1>1, <1>2 DEF Plan, Making, Listing, Inserting, Ordering, Saving, Erasing, Unlisting, Settled
  <2>2. k <= last /\ last \in Nat
    BY <2>1 DEF IInv, Words, Ordered
  <2> QED BY <2>2, KeysAreInts
<1>3. \A i \in 1..Len(method_order) : method_order[i] \in 1..last
  BY <1>2 DEF InOrder, IInv, Words
<1> QED BY <1>3 DEF IInv, Words

\* Every variable of a Method's pages stays in its type, and the order names only
\* keys that were given, while pages come one after the other and none breaks off.
THEOREM TableTyped == ~Overlap /\ ~Breaks => (Spec => []TypeOK)
<1> SUFFICES ASSUME ~Overlap, ~Breaks PROVE Spec => []TypeOK
  OBVIOUS
<1>1. IInv /\ Noted /\ [Next]_vars => Noted'
  BY NotedStep
<1>2. IInv /\ Noted => TypeOK
  <2> SUFFICES ASSUME IInv, Noted PROVE TypeOK
    OBVIOUS
  <2>1. rows \subseteq 1..last
    <3> SUFFICES ASSUME NEW k \in rows PROVE k \in 1..last
      OBVIOUS
    <3> QED BY KeysAreInts DEF IInv, Words
  <2>2. DOMAIN todo = Workers
    BY DEF IInv, Words
  <2> QED BY <2>1, <2>2, OrderWasGiven DEF IInv, Words, OfType, Noted, TypeOK
<1>3. Spec => []IInv
  BY Invariance
<1> QED BY <1>1, <1>2, <1>3, NotedInit, PTL DEF Spec

(***************************************************************************)
(* Sums of durations                                                       *)
(***************************************************************************)
\* The library's induction theorem takes a predicate; its minimal elements of
\* well-founded relations are as good, a counterexample being chosen least.
LEMMA LeastSet ==
  ASSUME NEW U, IsFiniteSet(U), NEW T \in SUBSET (SUBSET U), T # {}
  PROVE  \E S \in T : \A R \in T : ~(R \subseteq S /\ R # S)
<1>1. IsWellFoundedOn(StrictSubsetOrdering(U), FiniteSubsetsOf(U))
  BY FS_StrictSubsetOrderingWellFounded
<1>2. FiniteSubsetsOf(U) = SUBSET U
  BY FS_FiniteSubsetsOfFinite
<1>3. PICK S \in T : \A R \in T : ~(<<R, S>> \in StrictSubsetOrdering(U))
  BY <1>1, <1>2, WFMin
<1> QED BY <1>3 DEF StrictSubsetOrdering

Seconds(S) == MapThenSumSet(LAMBDA j : row[j].end, S)

\* The recursion that MapThenSumSet stands for.
PickFrom(S) == CHOOSE k \in S : TRUE

SumStep(S, f) == IF S = {} THEN 0 ELSE row[PickFrom(S)].end + f[S \ {PickFrom(S)}]

IsSum(f, U) == f = [S \in SUBSET U |-> SumStep(S, f)]

SumOver(U) == CHOOSE f : IsSum(f, U)

LEMMA SecondsAreSum == ASSUME NEW S PROVE Seconds(S) = SumOver(S)[S]
BY Zenon DEF Seconds, MapThenSumSet, MapThenFoldSet, SumOver, IsSum, SumStep, PickFrom

\* Two functions that sum agree wherever both are defined.
LEMMA SumIsUnique ==
  ASSUME NEW U, IsFiniteSet(U), NEW V, NEW f, IsSum(f, U), NEW g, IsSum(g, V),
         NEW S \in (SUBSET U) \cap (SUBSET V)
  PROVE  f[S] = g[S]
<1> DEFINE Bad == {R \in (SUBSET U) \cap (SUBSET V) : f[R] # g[R]}
<1>1. SUFFICES ASSUME Bad # {} PROVE FALSE
  OBVIOUS
<1>2. PICK R \in Bad : \A Q \in Bad : ~(Q \subseteq R /\ Q # R)
  <2>1. Bad \in SUBSET (SUBSET U)
    OBVIOUS
  <2> HIDE DEF Bad
  <2> QED BY <1>1, <2>1, LeastSet
<1>3. f[R] = SumStep(R, f) /\ g[R] = SumStep(R, g)
  <2>1. R \in SUBSET U /\ R \in SUBSET V
    BY <1>2
  <2> QED BY <2>1 DEF IsSum
<1>4. R # {} => PickFrom(R) \in R
  BY DEF PickFrom
<1>5. R # {} => f[R \ {PickFrom(R)}] = g[R \ {PickFrom(R)}]
  BY <1>2, <1>4
<1> QED BY <1>2, <1>3, <1>5 DEF SumStep

\* There is such a function on the subsets of every finite set.
LEMMA SumExists ==
  ASSUME NEW U, IsFiniteSet(U)
  PROVE  \E f : IsSum(f, U)
<1> DEFINE Bad == {R \in SUBSET U : ~\E f : IsSum(f, R)}
<1>1. SUFFICES ASSUME Bad # {} PROVE FALSE
  OBVIOUS
<1>2. PICK R \in Bad : \A Q \in Bad : ~(Q \subseteq R /\ Q # R)
  <2>1. Bad \in SUBSET (SUBSET U)
    OBVIOUS
  <2> HIDE DEF Bad
  <2> QED BY <1>1, <2>1, LeastSet
<1>3. \A Q \in SUBSET R : Q # R => IsSum(SumOver(Q), Q)
  BY <1>2 DEF SumOver
<1>4. \A Q \in SUBSET R : IsFiniteSet(Q)
  BY <1>2, FS_Subset
<1> DEFINE h == [Q \in SUBSET R |-> IF Q = R THEN IF R = {} THEN 0
                                     ELSE row[PickFrom(R)].end + SumOver(R \ {PickFrom(R)})[R \ {PickFrom(R)}]
                                   ELSE SumOver(Q)[Q]]
<1>5. \A Q \in SUBSET R : Q # {} => PickFrom(Q) \in Q
  BY DEF PickFrom
<1>6. ASSUME NEW Q \in SUBSET R PROVE h[Q] = SumStep(Q, h)
  <2>1. CASE Q = R
    BY <1>5, <2>1 DEF SumStep
  <2>2. CASE Q # R /\ Q = {}
    <3>1. SumOver(Q)[Q] = SumStep(Q, SumOver(Q))
      BY <1>3, <2>2 DEF IsSum
    <3> QED BY <2>2, <3>1 DEF SumStep
  <2>3. CASE Q # R /\ Q # {}
    <3> DEFINE P == Q \ {PickFrom(Q)}
    <3>1. SumOver(Q)[Q] = SumStep(Q, SumOver(Q))
      BY <1>3, <2>3 DEF IsSum
    <3>2. P \in SUBSET R /\ P # R /\ P \in SUBSET Q
      BY <1>5, <2>3
    <3>3. SumOver(Q)[P] = SumOver(P)[P]
      <4>1. IsSum(SumOver(Q), Q) /\ IsSum(SumOver(P), P) /\ IsFiniteSet(Q)
        BY <1>3, <1>4, <2>3, <3>2
      <4>2. P \in (SUBSET Q) \cap (SUBSET P)
        BY <3>2
      <4> HIDE DEF P
      <4> QED BY <4>1, <4>2, SumIsUnique
    <3>4. h[P] = SumOver(P)[P] /\ h[Q] = SumOver(Q)[Q]
      BY <2>3, <3>2
    <3> QED BY <2>3, <3>1, <3>3, <3>4 DEF SumStep
  <2> QED BY <2>1, <2>2, <2>3
<1>7. IsSum(h, R)
  <2>1. h = [Q \in SUBSET R |-> h[Q]]
    OBVIOUS
  <2> HIDE DEF h
  <2> QED BY <1>6, <2>1 DEF IsSum
<1> QED BY <1>2, <1>7

\* The sum of no durations, and of some: one of them and the rest.
LEMMA SecondsStep ==
  ASSUME NEW S, IsFiniteSet(S)
  PROVE  /\ S = {} => Seconds(S) = 0
         /\ S # {} => /\ PickFrom(S) \in S
                      /\ Seconds(S) = row[PickFrom(S)].end + Seconds(S \ {PickFrom(S)})
<1>1. IsSum(SumOver(S), S)
  BY SumExists DEF SumOver
<1>2. Seconds(S) = SumStep(S, SumOver(S))
  <2>1. SumOver(S)[S] = SumStep(S, SumOver(S))
    BY <1>1 DEF IsSum
  <2> QED BY <2>1, SecondsAreSum
<1>3. CASE S # {}
  <2> DEFINE P == S \ {PickFrom(S)}
  <2>1. PickFrom(S) \in S
    BY <1>3 DEF PickFrom
  <2>2. IsFiniteSet(P) /\ P \in (SUBSET S) \cap (SUBSET P)
    BY FS_Subset
  <2>3. IsSum(SumOver(P), P)
    BY <2>2, SumExists DEF SumOver
  <2>4. SumOver(S)[P] = SumOver(P)[P]
    <3> HIDE DEF P
    <3> QED BY <1>1, <2>2, <2>3, SumIsUnique
  <2> QED BY <1>2, <1>3, <2>1, <2>4, SecondsAreSum DEF SumStep
<1> QED BY <1>2, <1>3 DEF SumStep

\* Rows that have no end are not added up.
Lasting(U) == IsFiniteSet(U) /\ \A k \in U : row[k].end \in Nat

\* A sum of durations is a natural number.
LEMMA SecondsType ==
  ASSUME NEW U, Lasting(U), NEW S \in SUBSET U
  PROVE  Seconds(S) \in Nat
<1> DEFINE Bad == {R \in SUBSET U : Seconds(R) \notin Nat}
<1>1. SUFFICES ASSUME Bad # {} PROVE FALSE
  OBVIOUS
<1>2. PICK R \in Bad : \A Q \in Bad : ~(Q \subseteq R /\ Q # R)
  <2>1. Bad \in SUBSET (SUBSET U) /\ IsFiniteSet(U)
    BY DEF Lasting
  <2> HIDE DEF Bad
  <2> QED BY <1>1, <2>1, LeastSet
<1>3. IsFiniteSet(R)
  BY <1>2, FS_Subset DEF Lasting
<1>4. CASE R = {}
  <2>1. Seconds(R) = 0
    BY <1>3, <1>4, SecondsStep
  <2> QED BY <1>2, <2>1
<1>5. CASE R # {}
  <2>1. PickFrom(R) \in R /\ Seconds(R) = row[PickFrom(R)].end + Seconds(R \ {PickFrom(R)})
    BY <1>3, <1>5, SecondsStep
  <2>2. row[PickFrom(R)].end \in Nat
    BY <1>2, <2>1 DEF Lasting
  <2>3. Seconds(R \ {PickFrom(R)}) \in Nat
    BY <1>2, <2>1
  <2> QED BY <1>2, <2>1, <2>2, <2>3
<1> QED BY <1>4, <1>5

\* Whichever row is taken out, its duration is what the sum loses.
LEMMA SecondsWithout ==
  ASSUME NEW U, Lasting(U), NEW S \in SUBSET U, NEW e \in S
  PROVE  Seconds(S) = row[e].end + Seconds(S \ {e})
<1> DEFINE Bad == {R \in SUBSET U : \E k \in R : Seconds(R) # row[k].end + Seconds(R \ {k})}
<1>1. SUFFICES ASSUME Bad # {} PROVE FALSE
  OBVIOUS
<1>2. PICK R \in Bad : \A Q \in Bad : ~(Q \subseteq R /\ Q # R)
  <2>1. Bad \in SUBSET (SUBSET U) /\ IsFiniteSet(U)
    BY DEF Lasting
  <2> HIDE DEF Bad
  <2> QED BY <1>1, <2>1, LeastSet
<1>3. PICK k \in R : Seconds(R) # row[k].end + Seconds(R \ {k})
  BY <1>2
<1> DEFINE p == PickFrom(R)
<1>4. p \in R /\ Seconds(R) = row[p].end + Seconds(R \ {p})
  <2>1. IsFiniteSet(R)
    BY <1>2, FS_Subset DEF Lasting
  <2> QED BY <1>3, <2>1, SecondsStep
<1> HIDE DEF p
<1>5. k # p
  BY <1>3, <1>4
<1>6. Seconds(R \ {p}) = row[k].end + Seconds((R \ {p}) \ {k})
  BY <1>2, <1>3, <1>4, <1>5
<1>7. Seconds(R \ {k}) = row[p].end + Seconds((R \ {k}) \ {p})
  BY <1>2, <1>3, <1>4, <1>5
<1>8. Seconds((R \ {p}) \ {k}) = Seconds((R \ {k}) \ {p})
  <2>1. (R \ {p}) \ {k} = (R \ {k}) \ {p}
    OBVIOUS
  <2> QED BY Zenon, <2>1
<1>9. row[k].end \in Nat /\ row[p].end \in Nat /\ Seconds((R \ {k}) \ {p}) \in Nat
  BY <1>2, <1>3, <1>4, SecondsType DEF Lasting
<1> QED BY <1>3, <1>4, <1>6, <1>7, <1>8, <1>9

\* More rows do not add up to less.
LEMMA SecondsGrow ==
  ASSUME NEW U, Lasting(U), NEW S \in SUBSET U, NEW R \in SUBSET S
  PROVE  Seconds(R) <= Seconds(S)
<1> DEFINE Bad == {T \in SUBSET U : \E Q \in SUBSET T : ~(Seconds(Q) <= Seconds(T))}
<1>1. SUFFICES ASSUME Bad # {} PROVE FALSE
  OBVIOUS
<1>2. PICK T \in Bad : \A Q \in Bad : ~(Q \subseteq T /\ Q # T)
  <2>1. Bad \in SUBSET (SUBSET U) /\ IsFiniteSet(U)
    BY DEF Lasting
  <2> HIDE DEF Bad
  <2> QED BY <1>1, <2>1, LeastSet
<1>3. PICK Q \in SUBSET T : ~(Seconds(Q) <= Seconds(T))
  BY <1>2
<1>4. T \in SUBSET U /\ Q \in SUBSET U
  BY <1>2, <1>3
<1>5. Seconds(Q) \in Nat /\ Seconds(T) \in Nat
  BY <1>4, SecondsType
<1>6. PICK e \in T : e \notin Q
  BY <1>3, <1>5
<1>7. T \ {e} \notin Bad /\ T \ {e} \in SUBSET U /\ Q \in SUBSET (T \ {e})
  BY <1>2, <1>4, <1>6
<1>8. Seconds(Q) <= Seconds(T \ {e})
  BY <1>7
<1>9. Seconds(T) = row[e].end + Seconds(T \ {e})
  BY <1>4, <1>6, SecondsWithout
<1>10. row[e].end \in Nat /\ Seconds(T \ {e}) \in Nat
  BY <1>4, <1>7, SecondsType DEF Lasting
<1> QED BY <1>3, <1>5, <1>8, <1>9, <1>10

(***************************************************************************)
(* The graph and the controllers                                           *)
(***************************************************************************)
\* What an end setpoint of 0 stands for, and fractions, are left out: the graph goes
\* down to 0 while the controllers keep the start setpoint.
SlopesAreWhole ==
  /\ 0 \notin Setpoints
  /\ \A from, to \in Setpoints : \A s \in Times \cup {0}, e \in Times :
       s < e => \E slope \in Int : to - from = slope * (e - s)

\* What the quotient of a multiple is.
LEMMA Quotient ==
  ASSUME NEW n \in Nat \ {0}, NEW q \in Int
  PROVE  (q * n) \div n = q
<1>1. PICK a \in Int : a = q * n
  OBVIOUS
<1>2. PICK p \in Int, s \in 0..(n - 1) : a = p * n + s /\ p = a \div n
  <2>1. a \div n \in Int /\ a % n \in 0..(n - 1) /\ a = (a \div n) * n + (a % n)
    BY Z3
  <2> QED BY <2>1
<1>3. ~(p < q)
  <2> SUFFICES ASSUME p < q PROVE FALSE
    OBVIOUS
  <2>1. PICK k \in Nat : q = p + 1 + k
    <3>1. q - p - 1 \in Nat /\ q = p + 1 + (q - p - 1)
      OBVIOUS
    <3> QED BY <3>1
  <2>2. q * n = p * n + n + k * n /\ k * n >= 0
    BY <2>1
  <2> QED BY <1>1, <1>2, <2>2
<1>4. ~(q < p)
  <2> SUFFICES ASSUME q < p PROVE FALSE
    OBVIOUS
  <2>1. PICK k \in Nat : p = q + 1 + k
    <3>1. p - q - 1 \in Nat /\ p = q + 1 + (p - q - 1)
      OBVIOUS
    <3> QED BY <3>1
  <2>2. p * n = q * n + n + k * n /\ k * n >= 0
    BY <2>1
  <2> QED BY <1>1, <1>2, <2>2
<1> QED BY <1>1, <1>2, <1>3, <1>4

\* A setpoint between two others lies on the line from the one to the other.
LEMMA Between ==
  ASSUME NEW from \in Int, NEW to \in Int, NEW part \in Int, NEW total \in Nat \ {0},
         NEW slope \in Int, to - from = slope * total
  PROVE  /\ Interpolated(from, to, part, total) \in Int
         /\ (Interpolated(from, to, part, total) - from) * total = (to - from) * part
<1>1. PICK q \in Int : q = slope * part
  OBVIOUS
<1>2. (to - from) * part = q * total
  BY <1>1
<1>3. Interpolated(from, to, part, total) = from + q
  <2>1. CASE from < to
    <3>1. ((to - from) * part) \div total = q
      BY <1>2, Quotient
    <3> QED BY <2>1, <3>1 DEF Interpolated
  <2>2. CASE ~(from < to)
    <3>1. (from - to) * part = (0 - q) * total
      BY <1>2
    <3>2. ((from - to) * part) \div total = 0 - q
      <4>1. 0 - q \in Int
        OBVIOUS
      <4> QED BY <3>1, <4>1, Quotient
    <3> QED BY <2>2, <3>2 DEF Interpolated
  <2> QED BY <2>1, <2>2
<1> QED BY <1>2, <1>3

\* Spans whose ends are durations can be added up, up to any of them.
LEMMA SpansLast ==
  ASSUME Words, \A i \in Spans : row[i].end \in Nat, NEW k \in Spans
  PROVE  Lasting({i \in Spans : i < k})
<1> DEFINE U == {i \in Spans : i < k}
<1>1. k \in Int /\ \A i \in Spans : i \in Int /\ i >= 1
  BY KeysAreInts DEF Words, Spans
<1>2. IsFiniteSet(U)
  <2>1. IsFiniteSet(1..k)
    BY <1>1, FS_Interval
  <2>2. ASSUME NEW i \in U PROVE i \in 1..k
    <3>1. i \in Int /\ i >= 1 /\ i < k
      BY <1>1
    <3> QED BY <1>1, <3>1
  <2> HIDE DEF U
  <2> QED BY <2>1, <2>2, FS_Subset
<1> QED BY <1>2 DEF Lasting

\* The seconds before a span are a natural number.
LEMMA BeforeIsNat ==
  ASSUME Words, \A i \in Spans : row[i].end \in Nat, NEW k \in Spans
  PROVE  SecondsBefore(k) \in Nat
<1> DEFINE U == {i \in Spans : i < k}
<1>1. SecondsBefore(k) = Seconds(U)
  BY Zenon DEF SecondsBefore, Seconds
<1>2. Lasting(U)
  BY SpansLast
<1> HIDE DEF U
<1> QED BY <1>1, <1>2, SecondsType

\* Of a Duration one span begins when the one before it has ended, or later.
LEMMA DurationsFollow ==
  ASSUME Words, \A k \in Spans : row[k].end \in Nat,
         NEW j \in Spans, NEW k \in Spans, j < k
  PROVE  /\ SecondsBefore(j) \in Nat /\ SecondsBefore(k) \in Nat
         /\ SecondsBefore(j) + row[j].end <= SecondsBefore(k)
<1> DEFINE U == {i \in Spans : i < k}
           R == {i \in Spans : i < j}
<1>1. j \in Int /\ k \in Int /\ k \in Nat /\ \A i \in Spans : i \in Int /\ i >= 1
  BY KeysAreInts DEF Words, Spans
<1>2. Lasting(U)
  BY SpansLast
<1>3. j \in U /\ R \cup {j} \in SUBSET U /\ R \in SUBSET U /\ (R \cup {j}) \ {j} = R
  <2>1. \A i \in R : i \in U
    <3> SUFFICES ASSUME NEW i \in R PROVE i \in Spans /\ i < k
      OBVIOUS
    <3>1. i \in Int /\ i < j
      BY <1>1
    <3> QED BY <1>1, <3>1
  <2>2. j \in U /\ j \notin R
    BY <1>1
  <2> HIDE DEF U, R
  <2> QED BY <2>1, <2>2
<1>4. SecondsBefore(j) = Seconds(R) /\ SecondsBefore(k) = Seconds(U)
  BY Zenon DEF SecondsBefore, Seconds
<1> HIDE DEF U, R
<1>5. Seconds(R) \in Nat /\ Seconds(U) \in Nat
  BY <1>2, <1>3, SecondsType
<1>6. Seconds(R \cup {j}) = row[j].end + Seconds(R)
  <2>1. Seconds(R \cup {j}) = row[j].end + Seconds((R \cup {j}) \ {j})
    BY <1>2, <1>3, SecondsWithout
  <2> QED BY <1>3, <2>1
<1>7. Seconds(R \cup {j}) <= Seconds(U)
  BY <1>2, <1>3, SecondsGrow
<1> QED BY <1>4, <1>5, <1>6, <1>7

\* Where a span begins and ends, between which setpoints, and how steep.
LEMMA SpanIsLine ==
  ASSUME IInv, ~BlankForms, SlopesAreWhole, type \in {"Date", "Duration"}, NEW k \in Spans
  PROVE  /\ From(k) \in Int /\ Until(k) \in Int
         /\ row[k].from \in Int /\ EndSetpoint(row[k]) \in Int
         /\ Line(k) = [x1 |-> From(k), y1 |-> row[k].from, x2 |-> Until(k), y2 |-> EndSetpoint(row[k])]
         /\ From(k) < Until(k) =>
              \E slope \in Int : EndSetpoint(row[k]) - row[k].from = slope * (Until(k) - From(k))
<1>1. k \in rows /\ row[k] \in Rows /\ row[k].what = "span" /\ IsWhole(row[k])
  BY DEF IInv, Words, Whole, Spans
<1>2. /\ row[k].start \in Times \cup {0} /\ row[k].end \in Times \cup {0, Blank}
      /\ row[k].from \in Setpoints /\ row[k].to \in Setpoints \cup {Blank}
      /\ type = "Date" => row[k].start < row[k].end
      /\ type = "Duration" => row[k].end # Blank
  BY <1>1 DEF Rows, IsWhole
<1>3. /\ \A t \in Times : t \in Nat
      /\ \A s \in Setpoints : s \in Nat
      /\ Blank \in Int /\ Blank < 0
  BY MethodAssumption
<1>4. /\ EndSetpoint(row[k]) = (IF row[k].to = Blank THEN row[k].from ELSE row[k].to)
      /\ EndSetpoint(row[k]) \in Setpoints
  BY <1>2, <1>3 DEF EndSetpoint, SlopesAreWhole
<1>5. row[k].from \in Int /\ EndSetpoint(row[k]) \in Int
  BY <1>2, <1>3, <1>4
<1>6. Line(k) = [x1 |-> From(k), y1 |-> row[k].from, x2 |-> Until(k), y2 |-> EndSetpoint(row[k])]
  BY <1>4 DEF Line
<1>7. CASE type = "Date"
  <2>1. From(k) = row[k].start /\ Until(k) = row[k].end
    BY <1>7 DEF From, Until
  <2>2. row[k].start \in Nat /\ row[k].end \in Int /\ row[k].start < row[k].end
    BY <1>2, <1>3, <1>7
  <2>3. row[k].end \in Times
    BY <1>2, <1>3, <2>2
  <2>4. \E slope \in Int : EndSetpoint(row[k]) - row[k].from = slope * (row[k].end - row[k].start)
    BY <1>2, <1>4, <2>2, <2>3 DEF SlopesAreWhole
  <2> QED BY <1>5, <1>6, <2>1, <2>2, <2>4
<1>8. CASE type = "Duration"
  <2>1. row[k].end \in Nat
    BY <1>2, <1>3, <1>8
  <2>2. SecondsBefore(k) \in Nat
    <3>1. \A i \in Spans : row[i].end \in Nat
      <4> SUFFICES ASSUME NEW i \in Spans PROVE row[i].end \in Nat
        OBVIOUS
      <4>1. row[i] \in Rows /\ row[i].end # Blank
        BY <1>8 DEF IInv, Words, Whole, IsWhole, Spans
      <4> QED BY <4>1, RowFields
    <3>2. k \in Int /\ \A i \in Spans : i \in Int
      BY KeysAreInts DEF IInv, Words, Spans
    <3> QED BY <3>1, <3>2, BeforeIsNat DEF IInv
  <2>3. From(k) = SecondsBefore(k) /\ Until(k) = SecondsBefore(k) + row[k].end
    BY <1>8 DEF From, Until
  <2>4. From(k) < Until(k) =>
          \E slope \in Int : EndSetpoint(row[k]) - row[k].from = slope * (Until(k) - From(k))
    <3> SUFFICES ASSUME From(k) < Until(k)
                 PROVE  \E slope \in Int : EndSetpoint(row[k]) - row[k].from = slope * (Until(k) - From(k))
      OBVIOUS
    <3>1. 0 < row[k].end
      BY <2>1, <2>2, <2>3
    <3>2. row[k].end \in Times
      BY <1>2, <1>3, <1>8, <3>1
    <3>3. row[k].end - 0 = row[k].end /\ Until(k) - From(k) = row[k].end
      BY <2>1, <2>2, <2>3
    <3>4. \E slope \in Int : EndSetpoint(row[k]) - row[k].from = slope * (row[k].end - 0)
      BY <1>2, <1>4, <3>1, <3>2 DEF SlopesAreWhole
    <3> QED BY <3>3, <3>4
  <2> QED BY <1>5, <1>6, <2>1, <2>2, <2>3, <2>4
<1> QED BY <1>7, <1>8

\* No span begins before those that were added before it have ended.
LEMMA LinesFollow ==
  ASSUME IInv, ~BlankForms, type \in {"Date", "Duration"}, NEW j \in Spans, NEW k \in Spans, j < k
  PROVE  Until(j) <= From(k)
<1>1. CASE type = "Date"
  BY <1>1 DEF IInv, SpansApart, From, Until
<1>2. CASE type = "Duration"
  <2>1. \A i \in Spans : row[i].end \in Nat
    <3> SUFFICES ASSUME NEW i \in Spans PROVE row[i].end \in Nat
      OBVIOUS
    <3>1. row[i] \in Rows /\ row[i].end # Blank
      BY <1>2 DEF IInv, Words, Whole, IsWhole, Spans
    <3> QED BY <3>1, RowFields
  <2> QED BY <1>2, <2>1, DurationsFollow DEF IInv, From, Until
<1> QED BY <1>1, <1>2

\* Inside its line a span is the only one that matches.
LEMMA OneMatches ==
  ASSUME IInv, ~BlankForms, SlopesAreWhole, type \in {"Date", "Duration"},
         NEW k \in Spans, NEW t \in Int, From(k) < t, t < Until(k)
  PROVE  Matching(t) = {k}
<1>1. Matches(k, t)
  BY SpanIsLine DEF Matches
<1>2. ASSUME NEW j \in Spans, Matches(j, t) PROVE j = k
  <2>1. /\ j \in Int /\ k \in Int
        /\ From(j) \in Int /\ Until(j) \in Int /\ From(k) \in Int /\ Until(k) \in Int
    BY SpanIsLine, KeysAreInts DEF IInv, Words, Spans
  <2>2. From(j) <= t /\ t < Until(j)
    BY <1>2, <2>1 DEF Matches
  <2>3. ~(j < k) /\ ~(k < j)
    <3>1. j < k => Until(j) <= From(k)
      BY LinesFollow
    <3>2. k < j => Until(k) <= From(j)
      BY LinesFollow
    <3> QED BY <2>1, <2>2, <3>1, <3>2
  <2> QED BY <2>1, <2>3
<1>3. {j \in Spans : Matches(j, t)} = {k}
  BY <1>1, <1>2
<1>4. k <= k
  BY KeysAreInts DEF IInv, Words, Spans
<1> QED BY <1>3, <1>4 DEF Matching

\* What the graph shows of a Date or a Duration is what a controller is told, at each
\* instant, while pages come one after the other and none breaks off, and users leave
\* nothing empty that is needed (routes_method.py:47-157, utils/method.py:113-239).
THEOREM DrawnStaysDone ==
  ASSUME ~Overlap, ~Breaks, ~BlankForms, SlopesAreWhole
  PROVE  Spec => []DrawnIsDone
<1>1. IInv => DrawnIsDone
  <2> SUFFICES ASSUME IInv, type \in {"Date", "Duration"}, Drawn # {}, NEW t \in Int
               PROVE  /\ \A line \in Drawn : line.x1 < t /\ t < line.x2 =>
                           \E y \in setpoint(t) : On(line, t, y)
                      /\ (\A line \in Drawn : t < line.x1 \/ line.x2 < t) => setpoint(t) = {}
    BY DEF DrawnIsDone
  <2>1. Drawn = {Line(k) : k \in Spans}
    BY DEF Drawn
  <2>2. ASSUME NEW k \in Spans, Line(k).x1 < t, t < Line(k).x2
        PROVE  \E y \in setpoint(t) : On(Line(k), t, y)
    <3> DEFINE y == Interpolated(row[k].from, EndSetpoint(row[k]), t - From(k), Until(k) - From(k))
    <3>1. /\ From(k) \in Int /\ Until(k) \in Int /\ row[k].from \in Int /\ EndSetpoint(row[k]) \in Int
          /\ Line(k) = [x1 |-> From(k), y1 |-> row[k].from, x2 |-> Until(k), y2 |-> EndSetpoint(row[k])]
      BY SpanIsLine
    <3>2. From(k) < t /\ t < Until(k)
      BY <2>2, <3>1
    <3>3. PICK slope \in Int : EndSetpoint(row[k]) - row[k].from = slope * (Until(k) - From(k))
      BY <3>1, <3>2, SpanIsLine
    <3>4. PICK part \in Int, total \in Nat \ {0} : part = t - From(k) /\ total = Until(k) - From(k)
      BY <3>1, <3>2
    <3>5. (y - row[k].from) * (Until(k) - From(k)) = (EndSetpoint(row[k]) - row[k].from) * (t - From(k))
      <4>1. PICK from \in Int, to \in Int : from = row[k].from /\ to = EndSetpoint(row[k])
        BY <3>1
      <4>2. to - from = slope * total
        BY <3>3, <3>4, <4>1
      <4>3. (Interpolated(from, to, part, total) - from) * total = (to - from) * part
        BY <4>2, Between
      <4> QED BY <3>4, <4>1, <4>3
    <3>6. y \in setpoint(t)
      BY <3>2, OneMatches DEF setpoint
    <3> HIDE DEF y
    <3>7. On(Line(k), t, y)
      BY <3>1, <3>5 DEF On
    <3> QED BY <3>6, <3>7
  <2>3. ASSUME \A line \in Drawn : t < line.x1 \/ line.x2 < t
        PROVE  setpoint(t) = {}
    <3>1. ASSUME NEW k \in Spans PROVE ~Matches(k, t)
      <4>1. /\ From(k) \in Int /\ Until(k) \in Int
            /\ Line(k) = [x1 |-> From(k), y1 |-> row[k].from, x2 |-> Until(k), y2 |-> EndSetpoint(row[k])]
        BY SpanIsLine
      <4>2. t < Line(k).x1 \/ Line(k).x2 < t
        BY <2>1, <2>3
      <4> QED BY <4>1, <4>2 DEF Matches
    <3> QED BY <3>1 DEF setpoint, Matching
  <2> QED BY <2>1, <2>2, <2>3
<1>2. Spec => []IInv
  BY Invariance
<1> QED BY <1>1, <1>2, PTL

(***************************************************************************)
(* What the row of a Method that runs, its thread and its clock have in    *)
(* common                                                                  *)
(***************************************************************************)
Fields ==
  /\ set \in Settings /\ start \in {"never", "Ready", "Ended", "At"}
  /\ active \in BOOLEAN /\ up \in BOOLEAN /\ running \in BOOLEAN
  /\ over \in BOOLEAN /\ ready \in BOOLEAN /\ wish \in BOOLEAN
  /\ pc \in {"none", "init", "loop", "write"} /\ seen \in {"none", "end", "again"}
  /\ page \in {"idle", "activate", "method"}

Counts ==
  /\ elapsed \in 0..Longest /\ left \in Int /\ -1 <= left /\ left <= RepeatFor
  /\ timer \in 0..Interval /\ passes \in 0..(RepeatFor + 1) /\ stops \in 0..MaxStops

\* Of what is left there is a beginning, and an end if it is repeated for a time.
TimeLeft ==
  /\ left > 0 => start = "At"
  /\ set.repeat = "until" /\ start = "At" => left # Open
  /\ IsPID /\ ~active => left <= 0

\* Where the thread is, and what it is told.
Threads ==
  /\ running => pc \in {"loop", "write"}
  /\ pc # "none" => up
  /\ pc = "init" => active
  /\ over => IsPID /\ pc = "loop" /\ left <= 0
  /\ running /\ ~active => ~IsPID /\ start = "Ended"
  /\ IsPID /\ active /\ up => pc # "none" /\ (pc # "init" => running)

\* What is about to be written is still true, and what a page has begun is
\* not disturbed by the thread.
Undisturbed ==
  /\ pc = "write" => start = "At" /\ running /\ page = "idle" /\ seen # "none"
  /\ pc = "write" /\ seen = "again" => set.repeat = "until" /\ left > 0 /\ elapsed = Length
  /\ page = "activate" => /\ up /\ ~active /\ (pc = "none" \/ (pc = "loop" /\ running))
                          /\ IsPID => start = "Ready"
  /\ page = "method" => IsPID /\ up /\ active /\ running /\ pc = "loop" /\ ~over /\ start = "Ready"

FieldTypes == Fields /\ Counts

RunInv == FieldTypes /\ TimeLeft /\ Threads /\ Undisturbed

\* What the constants are.
LEMMA Numbers == /\ Length \in Nat /\ Length # 0 /\ RepeatFor \in Nat /\ RepeatFor # 0
                 /\ MaxStops \in Nat /\ Longest = Length /\ Open = -1
BY DurationAssumption DEF Longest, Open

LEMMA IntervalType == set \in Settings => Interval \in Nat
BY DurationAssumption DEF Interval

\* The invariant holds initially.
LEMMA RunBegins == RunInit => RunInv
<1> SUFFICES ASSUME RunInit PROVE RunInv
  OBVIOUS
<1>1. timer \in 0..Interval
  BY IntervalType DEF RunInit
<1>2. Counts
  BY <1>1, Numbers DEF RunInit, Counts
<1>3. Fields
  BY DEF RunInit, Fields
<1> QED BY <1>2, <1>3, Numbers DEF RunInit, RunInv, FieldTypes, TimeLeft, Threads, Undisturbed

\* Every step keeps the types.
LEMMA TypesStep == FieldTypes /\ [RunNext]_runVars => FieldTypes'
<1> SUFFICES ASSUME FieldTypes, [RunNext]_runVars PROVE FieldTypes'
  OBVIOUS
<1> USE Numbers DEF FieldTypes, Fields, Counts, methodRow, thread, history
<1>0. UNCHANGED set /\ Interval \in Nat /\ Interval' = Interval
  <2>1. UNCHANGED set
    BY DEF RunNext, runVars, Thread, Daemon, initialize_variables, Look, LookInVain, WriteEnd, WriteAgain, EndPID,
           ThreadEnds, controller_activate, set_method_sets_up, start_all_controllers, Tick, Crash, Terminate,
           ActivatePage, controller_deactivate, set_method
  <2> QED BY <2>1, IntervalType DEF Interval
<1>1. CASE UNCHANGED runVars
  BY <1>0, <1>1 DEF runVars
<1>2. CASE initialize_variables
  <2>1. Fields'
    <3>1. CASE IsPID
      BY <1>0, <1>2, <3>1 DEF initialize_variables, setup_method, start_method, BeginAnew, EndFromNow
    <3>2. CASE ~IsPID
      BY <1>0, <1>2, <3>2 DEF initialize_variables, setup_method, start_method, BeginAnew, EndFromNow
    <3> QED BY <3>1, <3>2
  <2>2. timer' \in 0..Interval /\ stops' \in 0..MaxStops
    BY <1>0, <1>2 DEF initialize_variables
  <2>3. \/ elapsed' = 0 /\ left' = EndFromNow /\ passes' = 1
        \/ UNCHANGED <<elapsed, left, passes>>
    BY <1>2 DEF initialize_variables, setup_method, start_method, BeginAnew
  <2>4. EndFromNow \in Int /\ -1 <= EndFromNow /\ EndFromNow <= RepeatFor
    BY DEF EndFromNow
  <2> QED BY <1>0, <2>1, <2>2, <2>3, <2>4
<1>3. CASE Look \/ LookInVain
  BY <1>0, <1>3 DEF Look, LookInVain, calculate_method_setpoint
<1>4. CASE WriteEnd \/ WriteAgain \/ EndPID \/ ThreadEnds
  <2>1. Fields'
    BY <1>0, <1>4 DEF WriteEnd, WriteAgain, EndPID, ThreadEnds
  <2>2. Counts'
    BY <1>0, <1>4 DEF WriteEnd, WriteAgain, EndPID, ThreadEnds
  <2> QED BY <2>1, <2>2
<1>5. CASE Daemon
  <2>1. Fields'
    BY <1>0, <1>5 DEF Daemon, controller_activate, set_method_sets_up, start_all_controllers, setup_method,
                    BeginAnew, EndFromNow
  <2>2. Counts'
    BY <1>0, <1>5 DEF Daemon, controller_activate, set_method_sets_up, start_all_controllers, setup_method,
                    BeginAnew, EndFromNow
  <2> QED BY <2>1, <2>2
<1>6. CASE Tick
  BY <1>0, <1>6 DEF Tick
<1>7. CASE Crash \/ Terminate
  <2>1. Fields'
    BY <1>0, <1>7 DEF Crash, Terminate, Gone, Unset
  <2>2. Counts'
    BY <1>0, <1>7 DEF Crash, Terminate, Gone, Unset
  <2> QED BY <2>1, <2>2
<1>8. CASE ActivatePage \/ controller_deactivate \/ set_method
  <2>1. Fields'
    <3>1. CASE ActivatePage
      BY <1>0, <3>1 DEF ActivatePage
    <3>2. CASE controller_deactivate
      <4>1. UNCHANGED <<set, up, pc, over, ready, seen, page>> /\ active' = FALSE /\ wish' = FALSE
        BY <3>2 DEF controller_deactivate
      <4>2. running' \in BOOLEAN /\ start' \in {"never", "Ready", "Ended", "At"}
        BY <3>2 DEF controller_deactivate, Unset
      <4> QED BY <4>1, <4>2
    <3>3. CASE set_method
      <4>1. start' = "Ready" /\ page' = "method" /\ UNCHANGED <<set, active, up, thread, wish>>
        BY <3>3 DEF set_method
      <4> QED BY <4>1
    <3> QED BY <1>8, <3>1, <3>2, <3>3
  <2>2. Counts'
    BY <1>0, <1>8 DEF ActivatePage, controller_deactivate, set_method, Unset
  <2> QED BY <2>1, <2>2
<1> QED BY <1>1, <1>2, <1>3, <1>4, <1>5, <1>6, <1>7, <1>8 DEF RunNext, Thread

\* A thread that begins keeps the rest of the invariant ...
LEMMA BeginsWell ==
  ASSUME RunInv, initialize_variables
  PROVE  TimeLeft' /\ Threads' /\ Undisturbed'
<1> USE Numbers DEF RunInv, FieldTypes, Fields, Counts, Threads
<1>1. /\ pc = "init" /\ up /\ active /\ ~over /\ page # "method" /\ page # "activate"
      /\ pc' = "loop" /\ running' /\ UNCHANGED <<set, up, page>> /\ (IsPID' <=> IsPID)
  BY DEF initialize_variables, Undisturbed, IsPID
<1>2. \/ start' = "At" /\ left' = EndFromNow /\ ~over' /\ active'
      \/ UNCHANGED <<start, left, active>> /\ (over' => IsPID /\ (start = "Ended" \/ ~ResumesPID))
      \/ ~IsPID /\ start = "Ended" /\ UNCHANGED <<start, left>> /\ ~over'
  <2>1. CASE IsPID
    BY <1>1, <2>1 DEF initialize_variables, setup_method, BeginAnew
  <2>2. CASE ~IsPID
    BY <1>1, <2>2 DEF initialize_variables, start_method, BeginAnew
  <2> QED BY <2>1, <2>2
<1>3. EndFromNow \in Int /\ EndFromNow \in {RepeatFor, Open} /\ (set.repeat = "until" => EndFromNow = RepeatFor)
  BY DEF EndFromNow
<1>4. TimeLeft'
  <2>1. CASE start' = "At" /\ left' = EndFromNow /\ active'
    BY <1>1, <1>3, <2>1 DEF TimeLeft
  <2>2. CASE UNCHANGED <<start, left>> /\ (active' \/ (~IsPID /\ start = "Ended"))
    BY <1>1, <2>2 DEF TimeLeft
  <2> QED BY <1>1, <1>2, <2>1, <2>2
<1>5. over' => left' <= 0
  <2>1. ~ResumesPID => left <= 0
    BY DEF ResumesPID, Passed
  <2> QED BY <1>1, <1>2, <2>1 DEF TimeLeft
<1>6. Threads'
  BY <1>1, <1>2, <1>5
<1>7. Undisturbed'
  BY <1>1 DEF Undisturbed
<1> QED BY <1>4, <1>6, <1>7

\* ... so does one that says its Method has ended ...
LEMMA EndsWell ==
  ASSUME RunInv, WriteEnd
  PROVE  TimeLeft' /\ Threads' /\ Undisturbed'
<1> USE Numbers DEF RunInv, FieldTypes, Fields, Counts, Threads
<1>1. /\ pc = "write" /\ pc' = "loop" /\ start' = "Ended" /\ left' = Open
      /\ UNCHANGED <<set, up, page>> /\ (IsPID' <=> IsPID) /\ running /\ up /\ page = "idle"
  BY DEF WriteEnd, IsPID, Undisturbed
<1>2. IF IsPID THEN UNCHANGED <<active, running>> ELSE ~over' /\ ~running'
  <2>1. CASE IsPID
    BY <2>1 DEF WriteEnd
  <2>2. CASE ~IsPID
    BY <2>2 DEF WriteEnd
  <2> QED BY <2>1, <2>2
<1>3. TimeLeft'
  BY <1>1 DEF TimeLeft
<1>4. Threads'
  <2>1. CASE IsPID
    BY <1>1, <1>2, <2>1
  <2>2. CASE ~IsPID
    BY <1>1, <1>2, <2>2
  <2> QED BY <2>1, <2>2
<1>5. Undisturbed'
  BY <1>1 DEF Undisturbed
<1> QED BY <1>3, <1>4, <1>5

\* ... and so does every step, when users ask while the thread does nothing.
LEMMA InvStep ==
  ASSUME ~AnyMoment, RunInv, [RunNext]_runVars
  PROVE  RunInv'
<1>0. FieldTypes'
  BY TypesStep DEF RunInv
<1> SUFFICES TimeLeft' /\ Threads' /\ Undisturbed'
  BY <1>0 DEF RunInv
<1> USE Numbers DEF RunInv, FieldTypes, Fields, Counts, methodRow, thread, history, IsPID, Passed, TimeLeft, Threads, Undisturbed
<1>1. CASE UNCHANGED runVars
  BY <1>1 DEF runVars
<1>2. CASE initialize_variables
  BY <1>2, BeginsWell
<1>3. CASE Look
  BY <1>3 DEF Look, calculate_method_setpoint, MethodHasEnded, LooksNow, IsEnding
<1>4. CASE LookInVain
  BY <1>4 DEF LookInVain
<1>5. CASE WriteEnd
  BY <1>5, EndsWell
<1>6. CASE WriteAgain
  BY <1>6 DEF WriteAgain
<1>7. CASE EndPID
  BY <1>7 DEF EndPID, IsEnding
<1>8. CASE ThreadEnds
  BY <1>8 DEF ThreadEnds
<1>9. CASE controller_activate
  BY <1>9 DEF controller_activate
<1>10. CASE set_method_sets_up
  BY <1>10 DEF set_method_sets_up, setup_method, BeginAnew, EndFromNow, IsAsked
<1>11. CASE start_all_controllers
  BY <1>11 DEF start_all_controllers
<1>12. CASE Tick
  BY <1>12 DEF Tick, IsBusy
<1>13. CASE Crash
  BY <1>13 DEF Crash, Gone
<1>14. CASE Terminate
  BY <1>14 DEF Terminate, Gone, Rests, Unset
<1>15. CASE ActivatePage
  BY <1>15 DEF ActivatePage, MayAsk, Rests
<1>16. CASE controller_deactivate
  BY <1>16 DEF controller_deactivate, MayAsk, Rests, Unset
<1>17. CASE set_method
  BY <1>17 DEF set_method, MayAsk, Rests, IsEnding
<1> QED BY <1>1, <1>2, <1>3, <1>4, <1>5, <1>6, <1>7, <1>8, <1>9, <1>10, <1>11, <1>12, <1>13, <1>14, <1>15,
           <1>16, <1>17 DEF RunNext, Thread, Daemon

LEMMA InvHolds == ~AnyMoment /\ RunSpec => []RunInv
<1> SUFFICES ASSUME ~AnyMoment PROVE RunSpec => []RunInv
  OBVIOUS
<1>1. RunInv /\ [RunNext]_runVars => RunInv'
  BY InvStep
<1> QED BY <1>1, RunBegins, PTL DEF RunSpec

\* When users ask while the thread does nothing, a Method has time left only if it
\* has begun, and every variable keeps its type, through crashes and restarts.
THEOREM TypeCorrect == ~AnyMoment /\ RunSpec => []RunTypeOK
<1>1. RunInv => RunTypeOK
  BY Numbers DEF RunInv, FieldTypes, Fields, Counts, TimeLeft, RunTypeOK
<1> QED BY <1>1, InvHolds, PTL

(***************************************************************************)
(* How often the Method begins                                             *)
(***************************************************************************)
\* Seconds that went by before it last began.
Spent == (passes - 1) * Length

\* They, the seconds since and those that are left are no more than RepeatFor.
InTime ==
  set.repeat = "until" =>
    Spent < RepeatFor /\ (start = "At" /\ left > 0 => Spent + elapsed + left <= RepeatFor)

LEMMA InTimeInit == RunInit => InTime
<1> SUFFICES ASSUME RunInit PROVE InTime
  OBVIOUS
<1>1. Spent < RepeatFor
  BY Numbers DEF RunInit, Spent
<1> QED BY <1>1 DEF RunInit, InTime

LEMMA InTimeStep ==
  ASSUME RunInv, InTime, [RunNext]_runVars
  PROVE  InTime'
<1> USE Numbers DEF methodRow, thread, history
<1>0. elapsed \in Int /\ left \in Int /\ passes \in Int /\ Spent \in Int
  BY DEF RunInv, FieldTypes, Counts, Spent
<1>1. ASSUME UNCHANGED <<set, passes>>, start' # "At" \/ UNCHANGED <<start, elapsed, left>> PROVE InTime'
  BY <1>1 DEF InTime, Spent
<1>2. ASSUME UNCHANGED set, BeginAnew PROVE InTime'
  <2>1. Spent' = 0 /\ elapsed' = 0 /\ (set.repeat = "until" => left' = RepeatFor)
    BY <1>2 DEF BeginAnew, Spent, EndFromNow
  <2> QED BY <1>2, <2>1 DEF InTime
<1>3. ASSUME UNCHANGED set, passes' = 0, start' # "At" PROVE InTime'
  <2>1. Spent' < RepeatFor
    BY <1>3 DEF Spent
  <2> QED BY <1>3, <2>1 DEF InTime
<1>4. CASE UNCHANGED runVars
  BY <1>1, <1>4 DEF runVars
<1>5. CASE initialize_variables
  <2>1. UNCHANGED set /\ (BeginAnew \/ UNCHANGED <<start, elapsed, left, passes>>)
    BY <1>5 DEF initialize_variables, setup_method, start_method
  <2> QED BY <1>1, <1>2, <2>1
<1>6. CASE Look \/ LookInVain \/ EndPID \/ ThreadEnds \/ WriteEnd
  BY <1>1, <1>6 DEF Look, LookInVain, EndPID, ThreadEnds, WriteEnd
<1>7. CASE WriteAgain
  <2>1. /\ set.repeat = "until" /\ left > 0 /\ elapsed = Length /\ start = "At"
        /\ UNCHANGED <<set, left>> /\ elapsed' = 0 /\ passes' \in {passes, passes + 1}
    BY <1>7 DEF WriteAgain, RunInv, Undisturbed
  <2>2. Spent + Length + left <= RepeatFor
    BY <2>1 DEF InTime
  <2>3. Spent' \in {Spent, Spent + Length}
    <3>1. CASE passes' = passes
      BY <3>1 DEF Spent
    <3>2. CASE passes' = passes + 1
      <4>1. Spent' = ((passes + 1) - 1) * Length
        BY <3>2 DEF Spent
      <4>2. ((passes + 1) - 1) * Length = (passes - 1) * Length + Length
        BY <1>0
      <4> QED BY <4>1, <4>2 DEF Spent
    <3> QED BY <2>1, <3>1, <3>2
  <2>4. Spent' \in Int /\ Spent' <= Spent + Length
    BY <1>0, <2>3
  <2>5. \A a, b, l \in Int : a + Length + l <= RepeatFor /\ b <= a + Length /\ l > 0 => b < RepeatFor /\ b + 0 + l <= RepeatFor
    OBVIOUS
  <2>6. Spent' < RepeatFor /\ Spent' + elapsed' + left' <= RepeatFor
    BY <1>0, <2>1, <2>2, <2>4, <2>5
  <2> QED BY <2>6 DEF InTime
<1>8. CASE Daemon
  <2>1. CASE controller_activate \/ start_all_controllers
    BY <1>1, <2>1 DEF controller_activate, start_all_controllers
  <2>2. CASE set_method_sets_up
    BY <1>1, <1>2, <2>2 DEF set_method_sets_up, setup_method
  <2> QED BY <1>8, <2>1, <2>2 DEF Daemon
<1>9. CASE Tick
  <2>1. /\ UNCHANGED <<set, start, passes>> /\ Spent' = Spent
        /\ start = "At" => elapsed' \in {elapsed, elapsed + 1}
        /\ left' > 0 => left' = left - 1
    BY <1>0, <1>9 DEF Tick, Spent
  <2> QED BY <1>0, <2>1 DEF InTime
<1>10. CASE Crash \/ Terminate
  BY <1>1, <1>10 DEF Crash, Terminate, Unset
<1>11. CASE ActivatePage \/ controller_deactivate \/ set_method
  <2>1. CASE ActivatePage
    BY <1>1, <1>3, <2>1 DEF ActivatePage
  <2>2. CASE controller_deactivate
    BY <1>1, <2>2 DEF controller_deactivate, Unset
  <2>3. CASE set_method
    BY <1>3, <2>3 DEF set_method
  <2> QED BY <1>11, <2>1, <2>2, <2>3
<1> QED BY <1>4, <1>5, <1>6, <1>7, <1>8, <1>9, <1>10, <1>11 DEF RunNext, Thread

\* When users ask while the thread does nothing, a Method that is repeated for
\* RepeatFor seconds begins no more often than it fits in, whatever crashes.
THEOREM RepeatsInTime == ~AnyMoment /\ RunSpec => []RepeatsAsTold
<1> SUFFICES ASSUME ~AnyMoment PROVE RunSpec => []RepeatsAsTold
  OBVIOUS
<1>1. RunInv /\ InTime /\ [RunNext]_runVars => InTime'
  BY InTimeStep
<1>2. InTime => RepeatsAsTold
  BY DEF InTime, Spent, RepeatsAsTold
<1> QED BY <1>1, <1>2, InTimeInit, InvHolds, PTL DEF RunSpec

(***************************************************************************)
(* A crash                                                                 *)
(***************************************************************************)
\* A PID's Method can only be resumed if there is an end to come.
Resumes == \A s \in Settings : s.kind = "PID" => s.repeat = "until"

Wanted == wish /\ start = "At" /\ ~Passed

LEMMA RunsStep ==
  ASSUME ~AnyMoment, Resumes, RunInv, RunsOn, [RunNext]_runVars
  PROVE  RunsOn'
<1> USE Numbers DEF methodRow, thread, history, Wanted
<1>0. /\ RunInv /\ FieldTypes /\ TimeLeft /\ Threads /\ Undisturbed /\ Fields /\ Counts
      /\ Wanted => active /\ (up => pc # "none" /\ (pc # "init" => running /\ ~over))
  BY DEF RunInv, FieldTypes, RunsOn
<1>1. SUFFICES ASSUME Wanted'
               PROVE  active' /\ (up' => pc' # "none" /\ (pc' # "init" => running' /\ ~over'))
  BY DEF RunsOn
<1>2. CASE UNCHANGED runVars
  BY <1>0, <1>1, <1>2 DEF runVars, Passed
<1>3. CASE initialize_variables
  <2>1. active /\ ~over /\ pc' = "loop" /\ running' /\ UNCHANGED <<set, wish>>
    BY <1>0, <1>3 DEF initialize_variables, Threads
  <2>2. CASE IsAsked
    BY <1>3, <2>1, <2>2 DEF initialize_variables, setup_method, start_method, BeginAnew
  <2>3. CASE ~IsAsked
    <3>1. UNCHANGED <<start, left>>
      BY <1>3, <2>1, <2>3 DEF initialize_variables, setup_method, start_method
    <3>2. Wanted /\ start # "Ended" /\ (IsPID => ResumesPID)
      BY <1>0, <1>1, <2>1, <3>1 DEF Resumes, Fields, TimeLeft, IsPID, Passed, ResumesPID
    <3> QED BY <1>3, <2>1, <2>3, <3>2 DEF initialize_variables, setup_method, start_method
  <2> QED BY <2>2, <2>3
<1>4. CASE Look \/ LookInVain
  <2>1. Wanted /\ UNCHANGED <<active, up, running, over>> /\ pc = "loop" /\ pc' \in {"loop", "write"} /\ running
    BY <1>1, <1>4 DEF Look, LookInVain, calculate_method_setpoint, Passed
  <2> QED BY <1>0, <2>1
<1>5. CASE WriteEnd
  BY <1>1, <1>5 DEF WriteEnd
<1>6. CASE WriteAgain
  BY <1>0, <1>1, <1>6 DEF WriteAgain, Undisturbed, Passed
<1>7. CASE EndPID \/ ThreadEnds
  BY <1>0, <1>1, <1>7 DEF EndPID, ThreadEnds, IsEnding, Threads, Passed
<1>8. CASE controller_activate
  BY <1>0, <1>1, <1>8 DEF controller_activate, Undisturbed, Threads, Passed
<1>9. CASE set_method_sets_up
  BY <1>0, <1>9 DEF set_method_sets_up, setup_method, IsAsked, Undisturbed
<1>10. CASE start_all_controllers
  BY <1>0, <1>1, <1>10 DEF start_all_controllers, Passed
<1>11. CASE Tick
  <2>1. Wanted
    BY <1>0, <1>1, <1>11 DEF Tick, Passed, Counts
  <2> QED BY <1>0, <1>11, <2>1 DEF Tick
<1>12. CASE Crash
  BY <1>0, <1>1, <1>12 DEF Crash, Passed
<1>13. CASE Terminate
  BY <1>0, <1>1, <1>13 DEF Terminate, Unset, Rests, Passed
<1>14. CASE ActivatePage
  BY <1>0, <1>1, <1>14 DEF ActivatePage, Passed
<1>15. CASE controller_deactivate \/ set_method
  BY <1>1, <1>15 DEF controller_deactivate, set_method
<1> QED BY <1>2, <1>3, <1>4, <1>5, <1>6, <1>7, <1>8, <1>9, <1>10, <1>11, <1>12, <1>13, <1>14, <1>15
        DEF RunNext, Thread, Daemon

\* When users ask while the thread does nothing, and PIDs only have Methods that are
\* repeated for a time, a Method that the user has started runs until its end though
\* the daemon crashes, whatever it lasts and however often it is looked at.
THEOREM CrashesAreSurvived == ~AnyMoment /\ Resumes /\ RunSpec => []RunsOn
<1> SUFFICES ASSUME ~AnyMoment, Resumes PROVE RunSpec => []RunsOn
  OBVIOUS
<1>1. RunInit => RunsOn
  BY DEF RunInit, RunsOn
<1>2. RunInv /\ RunsOn /\ [RunNext]_runVars => RunsOn'
  BY RunsStep
<1> QED BY <1>1, <1>2, InvHolds, PTL DEF RunSpec
=============================================================================
