----------------------- MODULE InputControllerProofs -----------------------
(***************************************************************************)
(* Theorems about InputController, for any Inputs, periods and time-outs:  *)
(* its types, that it implements Sampling, and that two Inputs take turns  *)
(* with their pre-output.                                                  *)
(***************************************************************************)
EXTENDS InputController, FiniteSetTheorems, TLAPS

(***************************************************************************)
(* Remainders                                                              *)
(***************************************************************************)
\* A number is a multiple of the period and a remainder.
LEMMA ModIs ==
  ASSUME NEW a \in Int, NEW P \in Nat \ {0}
  PROVE  a = P * (a \div P) + (a % P) /\ a \div P \in Int /\ a % P \in 0..(P - 1)
OBVIOUS

\* There is only one such remainder.
LEMMA ModUnique ==
  ASSUME NEW P \in Nat \ {0}, NEW q1 \in Int, NEW q2 \in Int,
         NEW r1 \in 0..(P - 1), NEW r2 \in 0..(P - 1), P * q1 + r1 = P * q2 + r2
  PROVE  r1 = r2
<1>1. CASE q1 = q2
  BY <1>1
<1>2. CASE q1 < q2
  <2>1. P * (q2 - q1) >= P
    BY <1>2
  <2> QED BY <2>1
<1>3. CASE q2 < q1
  <2>1. P * (q1 - q2) >= P
    BY <1>3
  <2> QED BY <2>1
<1> QED BY <1>1, <1>2, <1>3

\* So it is found by giving the multiple.
LEMMA ModBy ==
  ASSUME NEW P \in Nat \ {0}, NEW a \in Int, NEW q \in Int, NEW r \in 0..(P - 1), a = P * q + r
  PROVE  a % P = r
<1> DEFINE b == a \div P
           c == a % P
<1>1. a = P * b + c /\ b \in Int /\ c \in 0..(P - 1)
  BY ModIs
<1> HIDE DEF b, c
<1>2. c = r
  BY <1>1, ModUnique
<1> QED BY <1>2 DEF c

\* When the clock moves on, the time since a period began grows by one or
\* becomes zero.
LEMMA ModTick ==
  ASSUME NEW P \in Nat \ {0}, NEW d \in Int
  PROVE  (-(d - 1)) % P = IF (-d) % P = P - 1 THEN 0 ELSE ((-d) % P) + 1
<1> DEFINE q == (-d) \div P
           r == (-d) % P
<1>1. -d = P * q + r /\ q \in Int /\ r \in 0..(P - 1)
  BY ModIs
<1> HIDE DEF q, r
<1>2. CASE r = P - 1
  <2>1. -(d - 1) = P * (q + 1) + 0 /\ -(d - 1) \in Int /\ q + 1 \in Int /\ 0 \in 0..(P - 1)
    BY <1>1, <1>2
  <2>2. (-(d - 1)) % P = 0
    BY <2>1, ModBy
  <2> QED BY <1>2, <2>2 DEF r
<1>3. CASE r # P - 1
  <2>1. -(d - 1) = P * q + (r + 1) /\ -(d - 1) \in Int /\ r + 1 \in 0..(P - 1)
    BY <1>1, <1>3
  <2>2. (-(d - 1)) % P = r + 1
    BY <1>1, <2>1, ModBy
  <2> QED BY <1>3, <2>2 DEF r
<1> QED BY <1>2, <1>3

\* Adding periods to the next instant until it lies in the future leaves the time
\* since the last one as it was.
LEMMA ModNext ==
  ASSUME NEW P \in Nat \ {0}, NEW d \in Int
  PROVE  (-(d % P)) % P = (-d) % P
<1> DEFINE q == d \div P
           s == d % P
           p == (-d) \div P
           r == (-d) % P
<1>1. d = P * q + s /\ q \in Int /\ s \in 0..(P - 1)
  BY ModIs
<1>2. -d = P * p + r /\ p \in Int /\ r \in 0..(P - 1)
  BY ModIs
<1> HIDE DEF q, s, p, r
<1>3. -s = P * (p + q) + r /\ -s \in Int /\ p + q \in Int
  BY <1>1, <1>2
<1>4. (-s) % P = r
  BY <1>2, <1>3, ModBy
<1> QED BY <1>4 DEF r, s

\* An instant that has passed is at least as long ago as the last one.
LEMMA ModLess ==
  ASSUME NEW P \in Nat \ {0}, NEW d \in Int, d <= 0
  PROVE  (-d) % P <= -d
<1> DEFINE q == (-d) \div P
           r == (-d) % P
<1>1. -d = P * q + r /\ q \in Int /\ r \in 0..(P - 1)
  BY ModIs
<1> HIDE DEF q, r
<1>2. q >= 0
  <2>1. CASE q < 0
    <3>1. P * q <= -P
      BY <2>1, <1>1
    <3> QED BY <1>1, <3>1
  <2> QED BY <1>1, <2>1
<1>3. P * q >= 0
  BY <1>1, <1>2
<1> QED BY <1>1, <1>3 DEF r

(***************************************************************************)
(* Types                                                                   *)
(***************************************************************************)
\* There are more lock files than inputs, so one is not locked.
LEMMA FreeFile ==
  ASSUME NEW h \in [Inputs -> Files \cup {None}]
  PROVE  \E f \in Files : \A i \in Inputs : h[i] # f
<1> DEFINE n == Cardinality(Inputs)
           T == {h[i] : i \in Inputs}
<1>1. IsFiniteSet(Inputs) /\ n \in Nat
  BY InputsAssumption, FS_CardinalityType
<1>2. h \in Surjection(Inputs, T)
  BY DEF Surjection
<1>3. IsFiniteSet(T) /\ Cardinality(T) <= n
  BY <1>1, <1>2, FS_Surjection
<1>4. Cardinality(Files) = n + 1
  BY <1>1, FS_Interval DEF Files
<1>5. ASSUME Files \subseteq T PROVE FALSE
  <2>1. Cardinality(Files) <= Cardinality(T) /\ Cardinality(T) \in Nat
    BY <1>3, <1>5, FS_Subset, FS_CardinalityType
  <2> QED BY <1>1, <1>3, <1>4, <2>1
<1> QED BY <1>5

\* What lock_acquire() may lock is a file.
LEMMA LockableFiles == TypeOK => Lockable \subseteq Files
<1> SUFFICES ASSUME TypeOK PROVE Lockable \subseteq Files
  OBVIOUS
<1>1. CASE file = None
  <2> DEFINE Free(f) == \A j \in Inputs : held[j] # f
  <2>1. \E f \in Files : Free(f)
    BY FreeFile DEF TypeOK
  <2>2. (CHOOSE f \in Files : Free(f)) \in Files
    BY <2>1
  <2>3. Lockable = {CHOOSE f \in Files : Free(f)}
    BY <1>1 DEF Lockable
  <2> HIDE DEF Free
  <2> QED BY <2>2, <2>3
<1>2. CASE file # None
  BY <1>2 DEF Lockable, TypeOK
<1> QED BY <1>1, <1>2

\* The instant that follows one that has passed is less than a period away.
LEMMA NextDueType ==
  ASSUME TypeOK, NEW i \in Inputs
  PROVE  NextDue(i) \in Int /\ NextDue(i) < Period
<1>1. Period \in Nat \ {0} /\ due[i] \in Int /\ due[i] < Period
  BY InputsAssumption DEF TypeOK
<1>2. due[i] % Period \in 0..(Period - 1)
  BY <1>1, ModIs
<1> QED BY <1>1, <1>2 DEF NextDue

\* What the variables may be set to.
LEMMA Values ==
  /\ 0 \in 0..LockTimeout /\ LockTimeout \in 0..LockTimeout
  /\ -1 \in -1..Duration /\ Duration \in -1..Duration
  /\ 0 \in 0..OldAge /\ OldAge \in 0..OldAge
  /\ 0 \in Int /\ 0 < Period
<1>1. Period \in Nat \ {0} /\ Duration \in Nat /\ LockTimeout \in Nat /\ MaxLate \in Nat
  BY InputsAssumption
<1> QED BY <1>1 DEF OldAge

\* A thread is told one of three things.
LEMMA CommandType ==
  \A i \in Inputs, what \in {"on", "on for", "off"} : Command(i, what) \in Commands
BY DEF Command, Commands

\* The types hold initially.
LEMMA TypeInit == Init => TypeOK
<1>1. Period > 0 /\ OldAge \in 0..OldAge
  BY InputsAssumption DEF OldAge
<1> QED BY <1>1, InputsAssumption DEF Init, TypeOK, Places, None, Off, On, Files

\* A turn of the loop keeps the types.
LEMMA TypeLoop ==
  ASSUME TypeOK, NEW i \in Inputs, Loop(i)
  PROVE  TypeOK'
<1> USE Values DEF Goes, lock, preOutput, None
<1>1. CASE TopOfLoop(i)
  <2>1. NextPlace(i) \in Places
    BY DEF NextPlace, Places
  <2>2. wanted[i] \/ IsDue(i) \in BOOLEAN
    BY DEF TypeOK, IsDue
  <2>3. /\ pc' \in [Inputs -> Places] /\ patience' \in [Inputs -> 0..LockTimeout]
        /\ wanted' \in [Inputs -> BOOLEAN]
    BY <1>1, <2>1, <2>2 DEF TopOfLoop, TypeOK
  <2>4. due' \in [Inputs -> Int] /\ \A j \in Inputs : due'[j] < Period
    BY <1>1, NextDueType DEF TopOfLoop, TypeOK
  <2> QED BY <1>1, <2>3, <2>4 DEF TopOfLoop, TypeOK
<1>2. CASE LockAcquired(i)
  <2>1. PICK f \in Lockable : file' = f /\ held' = [held EXCEPT ![i] = f]
    BY <1>2 DEF LockAcquired
  <2>2. f \in Files
    BY <2>1, LockableFiles
  <2>3. /\ pc' \in [Inputs -> Places] /\ patience' \in [Inputs -> 0..LockTimeout]
        /\ held' \in [Inputs -> Files \cup {None}] /\ file' \in Files \cup {None}
    BY <1>2, <2>1, <2>2 DEF LockAcquired, TypeOK, Places
  <2> QED BY <1>2, <2>3 DEF LockAcquired, TypeOK
<1>3. CASE LockBroken(i)
  BY <1>3 DEF LockBroken, TypeOK, Places
<1>4. CASE TurnOn(i)
  <2>1. /\ pc' \in [Inputs -> Places] /\ timer' \in [Inputs -> -1..Duration]
        /\ activated' \in [Inputs -> BOOLEAN]
    BY <1>4 DEF TurnOn, TypeOK, Places
  <2>2. sending' \subseteq Commands
    BY <1>4, CommandType DEF TurnOn, TypeOK
  <2> QED BY <1>4, <2>1, <2>2 DEF TurnOn, TypeOK
<1>5. CASE Measure(i)
  <2>1. [age EXCEPT ![i] = 0] \in [Inputs -> 0..OldAge]
    BY DEF TypeOK
  <2>2. age' \in [Inputs -> 0..OldAge]
    BY <1>5, <2>1 DEF Measure, TypeOK
  <2>3. pc' \in {[pc EXCEPT ![i] = "off"], [pc EXCEPT ![i] = "asleep"]}
    BY <1>5 DEF Measure
  <2>4. wanted' \in {wanted, [wanted EXCEPT ![i] = FALSE]}
    BY <1>5 DEF Measure
  <2>5. pc' \in [Inputs -> Places] /\ wanted' \in [Inputs -> BOOLEAN]
    BY <2>3, <2>4 DEF TypeOK, Places
  <2> QED BY <1>5, <2>2, <2>5 DEF Measure, TypeOK
<1>6. CASE TurnOff(i)
  <2>1. /\ pc' \in [Inputs -> Places] /\ timer' \in [Inputs -> -1..Duration]
        /\ activated' \in [Inputs -> BOOLEAN] /\ wanted' \in [Inputs -> BOOLEAN]
        /\ held' \in [Inputs -> Files \cup {None}]
    BY <1>6 DEF TurnOff, TypeOK, Places
  <2>2. sending' \subseteq Commands
    BY <1>6, CommandType DEF TurnOff, TypeOK
  <2> QED BY <1>6, <2>1, <2>2 DEF TurnOff, TypeOK
<1>7. CASE RemoveFile(i)
  BY <1>7 DEF RemoveFile, TypeOK, Places
<1>8. CASE End(i)
  <2>1. /\ pc' \in [Inputs -> Places] /\ timer' \in [Inputs -> -1..Duration]
        /\ activated' \in [Inputs -> BOOLEAN] /\ wanted' \in [Inputs -> BOOLEAN]
    BY <1>8 DEF End, TypeOK, Places
  <2>2. due' \in [Inputs -> Int] /\ \A j \in Inputs : due'[j] < Period
    BY <1>8 DEF End, TypeOK
  <2> QED BY <1>8, <2>1, <2>2 DEF End, TypeOK
<1> QED BY <1>1, <1>2, <1>3, <1>4, <1>5, <1>6, <1>7, <1>8 DEF Loop

\* So do requests, the output controller and the clock.
LEMMA TypeStep == TypeOK /\ [Next]_vars => TypeOK'
<1> SUFFICES ASSUME TypeOK, [Next]_vars PROVE TypeOK'
  OBVIOUS
<1> USE Values DEF lock, preOutput, None
<1>1. CASE UNCHANGED vars
  BY <1>1 DEF vars, TypeOK
<1>2. ASSUME NEW i \in Inputs, Loop(i) PROVE TypeOK'
  BY <1>2, TypeLoop
<1>3. ASSUME NEW i \in Inputs, Freed(i) \/ force_measurements(i) \/ stop_controller(i) PROVE TypeOK'
  BY <1>3 DEF Freed, force_measurements, stop_controller, TypeOK
<1>4. ASSUME NEW i \in Inputs, pre_stop(i) PROVE TypeOK'
  <2>1. sending' \subseteq Commands
    BY <1>4, CommandType DEF pre_stop, OffAtStop, TypeOK
  <2> QED BY <1>4, <2>1 DEF pre_stop, TypeOK
<1>5. CASE Switch
  <2>1. lamp' \in {On, Off, Duration} /\ Duration \in 1..Duration
    BY <1>5, InputsAssumption DEF Switch
  <2> QED BY <1>5, <2>1 DEF Switch, TypeOK
<1>6. CASE Tick
  <2>1. ASSUME NEW i \in Inputs
        PROVE  /\ due'[i] \in Int /\ due'[i] < Period
               /\ age'[i] \in 0..OldAge
               /\ timer'[i] \in -1..Duration /\ patience'[i] \in 0..LockTimeout
    <3>1. /\ due[i] \in Int /\ due[i] < Period /\ age[i] \in 0..OldAge
          /\ timer[i] \in -1..Duration /\ patience[i] \in 0..LockTimeout
      BY DEF TypeOK
    <3>2. Period \in Nat /\ Duration \in Nat /\ LockTimeout \in Nat /\ MaxLate \in Nat
      BY InputsAssumption
    <3>3. /\ due'[i] \in {due[i], due[i] - 1} /\ age'[i] = IF age[i] < OldAge THEN age[i] + 1 ELSE age[i]
          /\ timer'[i] = Later(timer[i])
          /\ patience'[i] = IF patience[i] > 0 THEN patience[i] - 1 ELSE 0
      BY <1>6 DEF Tick
    <3> QED BY <3>1, <3>2, <3>3 DEF Later, OldAge
  <2>2. /\ due' = [i \in Inputs |-> due'[i]] /\ age' = [i \in Inputs |-> age'[i]]
        /\ timer' = [i \in Inputs |-> timer'[i]] /\ patience' = [i \in Inputs |-> patience'[i]]
    BY <1>6 DEF Tick
  <2>3. /\ due' \in [Inputs -> Int] /\ age' \in [Inputs -> 0..OldAge]
        /\ timer' \in [Inputs -> -1..Duration] /\ patience' \in [Inputs -> 0..LockTimeout]
    BY <2>1, <2>2
  <2>4. lamp' \in {On, Off} \cup 1..Duration
    <3>1. Duration \in Nat /\ lamp \in {-1, 0} \cup 1..Duration
      BY InputsAssumption DEF TypeOK, On, Off
    <3>2. lamp' = IF lamp \in {-1, 0} THEN lamp ELSE lamp - 1
      BY <1>6 DEF Tick, Dimmed, On, Off
    <3> QED BY <3>1, <3>2 DEF On, Off
  <2> QED BY <1>6, <2>1, <2>3, <2>4 DEF Tick, TypeOK
<1> QED BY <1>1, <1>2, <1>3, <1>4, <1>5, <1>6 DEF Next

\* Whatever pages, threads and the clock do, an input's next measurement is less
\* than a period away, its waiting is bounded, and files, commands and the
\* pre-output are what they can be.
THEOREM TypeCorrect == Spec => []TypeOK
BY TypeInit, TypeStep, PTL DEF Spec

(***************************************************************************)
(* Implementing Sampling                                                   *)
(***************************************************************************)
\* A measurement that is wanted and not taken yet is the first of its period; who
\* waits for it, or for what it needs, wants it.
FirstOfPeriod ==
  \A i \in Inputs :
    /\ pc[i] \in {"lock", "on", "measure", "off"} => wanted[i]
    /\ wanted[i] /\ pc[i] # "off" => age[i] > Phase(i)

\* The inductive invariant of sampling.
IInv == TypeOK /\ FirstOfPeriod

\* The time since a period began is less than a period.
LEMMA PhaseType ==
  ASSUME TypeOK, NEW i \in Inputs
  PROVE  Phase(i) \in 0..(Period - 1)
<1>1. Period \in Nat \ {0} /\ -due[i] \in Int
  BY InputsAssumption DEF TypeOK
<1> QED BY <1>1, ModIs DEF Phase

\* Initially nothing is wanted.
LEMMA FirstInit == Init => FirstOfPeriod
BY DEF Init, FirstOfPeriod

\* The next instant, whatever it is, is a whole number of periods away from the
\* last, and a measurement begins to be wanted only in a period that has none.
LEMMA Due ==
  ASSUME TypeOK, NEW i \in Inputs
  PROVE  /\ (-NextDue(i)) % Period = Phase(i)
         /\ IsDue(i) => age[i] > Phase(i)
<1>1. Period \in Nat \ {0} /\ due[i] \in Int /\ age[i] \in Int
  BY InputsAssumption DEF TypeOK, OldAge
<1>2. (-NextDue(i)) % Period = Phase(i)
  BY <1>1, ModNext DEF NextDue, Phase
<1>3. ASSUME IsDue(i) PROVE age[i] > Phase(i)
  <2>1. due[i] < 0 /\ age[i] > -due[i]
    BY <1>3 DEF IsDue
  <2>2. Phase(i) <= -due[i] /\ Phase(i) \in Int
    BY <1>1, <2>1, ModLess, PhaseType DEF Phase
  <2> QED BY <1>1, <2>1, <2>2
<1> QED BY <1>2, <1>3

\* The clock adds one to what has passed, and a period that is over begins anew.
LEMMA Passing ==
  ASSUME TypeOK, Tick, NEW i \in Inputs
  PROVE  /\ Phase(i)' = IF running[i] THEN IF Phase(i) = Period - 1 THEN 0 ELSE Phase(i) + 1 ELSE Phase(i)
         /\ age'[i] = IF age[i] < OldAge THEN age[i] + 1 ELSE OldAge
<1>1. Period \in Nat \ {0} /\ due[i] \in Int /\ age[i] \in 0..OldAge /\ OldAge \in Nat
  BY InputsAssumption DEF TypeOK, OldAge
<1>2. due'[i] = IF running[i] THEN due[i] - 1 ELSE due[i]
  BY DEF Tick
<1>3. age'[i] = IF age[i] < OldAge THEN age[i] + 1 ELSE age[i]
  BY DEF Tick
<1>4. Phase(i)' = (-due'[i]) % Period
  BY DEF Phase
<1>5. (-(due[i] - 1)) % Period = IF Phase(i) = Period - 1 THEN 0 ELSE Phase(i) + 1
  BY <1>1, ModTick DEF Phase
<1>6. CASE running[i]
  BY <1>1, <1>2, <1>3, <1>4, <1>5, <1>6
<1>7. CASE ~running[i]
  BY <1>1, <1>2, <1>3, <1>4, <1>7 DEF Phase
<1> QED BY <1>6, <1>7

\* Every step keeps what is wanted the first of its period.
LEMMA FirstStep == IInv /\ [Next]_vars => FirstOfPeriod'
<1> SUFFICES ASSUME IInv, [Next]_vars, NEW i \in Inputs
             PROVE  /\ pc'[i] \in {"lock", "on", "measure", "off"} => wanted'[i]
                    /\ wanted'[i] /\ pc'[i] # "off" => age'[i] > Phase(i)'
  BY DEF FirstOfPeriod
<1>0. /\ pc \in [Inputs -> Places] /\ wanted \in [Inputs -> BOOLEAN]
      /\ due \in [Inputs -> Int] /\ age \in [Inputs -> 0..OldAge]
      /\ pc[i] \in {"lock", "on", "measure", "off"} => wanted[i]
      /\ wanted[i] /\ pc[i] # "off" => age[i] > Phase(i)
      /\ TypeOK
  BY DEF IInv, TypeOK, FirstOfPeriod
<1>1. Phase(i)' = (-due'[i]) % Period
  BY DEF Phase
<1>2. CASE UNCHANGED <<pc, wanted, due, age>>
  BY <1>0, <1>2, <1>1 DEF Phase
<1>3. CASE TopOfLoop(i)
  <2>1. /\ due'[i] = NextDue(i) /\ age' = age /\ pc'[i] = NextPlace(i) /\ pc[i] = "asleep"
        /\ wanted'[i] = (wanted[i] \/ IsDue(i))
    BY <1>0, <1>3 DEF TopOfLoop, Goes
  <2>2. Phase(i)' = Phase(i) /\ (IsDue(i) => age[i] > Phase(i))
    BY <1>0, <1>1, <2>1, Due
  <2>3. NextPlace(i) # "asleep" => wanted[i] \/ IsDue(i)
    BY DEF NextPlace
  <2> QED BY <1>0, <2>1, <2>2, <2>3
<1>4. CASE LockAcquired(i) \/ LockBroken(i) \/ TurnOn(i) \/ RemoveFile(i)
  <2>1. /\ pc'[i] \in {"on", "asleep"} /\ UNCHANGED <<wanted, due, age>>
        /\ pc[i] \in {"lock", "on", "remove"} /\ (pc'[i] = "on" => pc[i] = "lock")
    BY <1>0, <1>4 DEF LockAcquired, LockBroken, TurnOn, RemoveFile, Goes
  <2> QED BY <1>0, <1>1, <2>1 DEF Phase
<1>5. CASE Measure(i)
  BY <1>0, <1>5 DEF Measure, Goes
<1>6. CASE TurnOff(i) \/ End(i)
  BY <1>0, <1>6 DEF TurnOff, End, Goes
<1>7. CASE force_measurements(i)
  <2>1. UNCHANGED <<pc, wanted, age>> /\ due'[i] = 0
    BY <1>0, <1>7 DEF force_measurements
  <2>2. Phase(i)' = 0
    <3>1. Period \in Nat \ {0} /\ 0 \in 0..(Period - 1) /\ 0 = Period * 0 + 0
      BY InputsAssumption
    <3>2. 0 % Period = 0
      BY <3>1, ModBy
    <3> QED BY <1>1, <2>1, <3>2
  <2>3. Phase(i) >= 0 /\ age[i] \in Int /\ Phase(i) \in Int
    BY <1>0, PhaseType
  <2> QED BY <1>0, <2>1, <2>2, <2>3
<1>8. CASE Tick
  <2>1. UNCHANGED <<pc, wanted>>
    BY <1>8 DEF Tick
  <2>2. Phase(i) \in 0..(Period - 1) /\ Period \in Nat \ {0} /\ OldAge \in Nat /\ OldAge > Period
    BY <1>0, PhaseType, InputsAssumption DEF OldAge
  <2>3. age[i] \in 0..OldAge
    BY <1>0
  <2> QED BY <1>0, <1>8, <2>1, <2>2, <2>3, Passing
<1>9. ASSUME NEW j \in Inputs \ {i}, Loop(j) \/ force_measurements(j)
      PROVE  pc'[i] = pc[i] /\ wanted'[i] = wanted[i] /\ due'[i] = due[i] /\ age'[i] = age[i]
  BY <1>0, <1>9 DEF Loop, TopOfLoop, LockAcquired, LockBroken, TurnOn, Measure, TurnOff, RemoveFile, End,
                    force_measurements, Goes
<1>10. ASSUME NEW j \in Inputs, Freed(j) \/ pre_stop(j) \/ stop_controller(j)
       PROVE  UNCHANGED <<pc, wanted, due, age>>
  BY <1>10 DEF Freed, pre_stop, stop_controller
<1>11. CASE Switch
  BY <1>2, <1>11 DEF Switch
<1>12. ASSUME NEW j \in Inputs \ {i}, Loop(j) \/ force_measurements(j)
       PROVE  /\ pc'[i] \in {"lock", "on", "measure", "off"} => wanted'[i]
              /\ wanted'[i] /\ pc'[i] # "off" => age'[i] > Phase(i)'
  BY <1>0, <1>1, <1>9, <1>12 DEF Phase
<1>13. ASSUME Loop(i)
       PROVE  /\ pc'[i] \in {"lock", "on", "measure", "off"} => wanted'[i]
              /\ wanted'[i] /\ pc'[i] # "off" => age'[i] > Phase(i)'
  BY <1>3, <1>4, <1>5, <1>6, <1>13 DEF Loop
<1> QED BY <1>2, <1>7, <1>8, <1>10, <1>11, <1>12, <1>13 DEF Next, vars

\* The invariant holds of every behaviour.
LEMMA Invariance == Spec => []IInv
<1>1. Init => IInv
  BY TypeInit, FirstInit DEF IInv
<1>2. IInv /\ [Next]_vars => IInv'
  BY TypeStep, FirstStep DEF IInv
<1> QED BY <1>1, <1>2, PTL DEF Spec

\* Initially no sample has been taken.
LEMMA SamplesInit == Init => Samples!Init
<1> SUFFICES ASSUME Init PROVE Samples!Init
  OBVIOUS
<1>1. /\ Period \in Nat \ {0} /\ OldAge \in Nat /\ OldAge > Period
      /\ 0 = Period * 0 + 0 /\ 0 \in 0..(Period - 1)
  BY InputsAssumption DEF OldAge
<1>2. \A i \in Inputs : Phase(i) = 0
  BY <1>1, ModBy DEF Init, Phase
<1>3. \A i \in Inputs : Since(i) = Period
  BY <1>1 DEF Init, Since
<1> QED BY <1>2, <1>3 DEF Samples!Init

\* Each step is one of Sampling's, or changes nothing there.
LEMMA SamplesStep ==
  IInv /\ [Next]_vars =>
    [Samples!Next]_<<[i \in Inputs |-> Phase(i)], [i \in Inputs |-> Since(i)]>>
<1> DEFINE phase == [i \in Inputs |-> Phase(i)]
           since == [i \in Inputs |-> Since(i)]
<1> SUFFICES ASSUME IInv, [Next]_vars
             PROVE  Samples!Next \/ UNCHANGED <<phase, since>>
  OBVIOUS
<1>0. /\ pc \in [Inputs -> Places] /\ wanted \in [Inputs -> BOOLEAN]
      /\ due \in [Inputs -> Int] /\ age \in [Inputs -> 0..OldAge]
      /\ TypeOK
  BY DEF IInv, TypeOK
<1>1. /\ \A i \in Inputs : Phase(i)' = (-due'[i]) % Period
      /\ \A i \in Inputs : Since(i)' = IF age'[i] < Period THEN age'[i] ELSE Period
  BY DEF Phase, Since
<1>2. CASE UNCHANGED <<due, age>>
  BY <1>2 DEF Phase, Since
<1>3. ASSUME NEW i \in Inputs, TopOfLoop(i) PROVE UNCHANGED <<phase, since>>
  <2>1. age' = age /\ due' = [due EXCEPT ![i] = NextDue(i)]
    BY <1>3 DEF TopOfLoop
  <2>2. \A j \in Inputs : Phase(j)' = Phase(j)
    BY <1>0, <1>1, <2>1, Due DEF Phase
  <2> QED BY <2>1, <2>2 DEF Since
<1>4. ASSUME NEW i \in Inputs, Measure(i) PROVE Samples!Next \/ UNCHANGED <<phase, since>>
  <2>1. due' = due /\ age' \in {age, [age EXCEPT ![i] = 0]} /\ pc[i] = "measure"
    BY <1>4 DEF Measure
  <2>2. phase' = phase
    BY <2>1 DEF Phase
  <2>3. CASE age' = age
    BY <2>2, <2>3 DEF Since
  <2>4. CASE age' = [age EXCEPT ![i] = 0]
    <3>1. age[i] > Phase(i) /\ age[i] \in Int /\ Phase(i) \in 0..(Period - 1) /\ Period \in Nat \ {0}
      BY <1>0, <2>1, PhaseType, InputsAssumption DEF IInv, FirstOfPeriod
    <3>2. Since(i) > Phase(i)
      BY <3>1 DEF Since
    <3>3. since' = [since EXCEPT ![i] = 0]
      <4>1. \A j \in Inputs : Since(j)' = IF j = i THEN 0 ELSE Since(j)
        BY <1>0, <1>1, <2>4, <3>1 DEF Since
      <4> QED BY <4>1
    <3> QED BY <2>2, <3>2, <3>3 DEF Samples!Next, Samples!Sample
  <2> QED BY <2>1, <2>3, <2>4
<1>5. ASSUME NEW i \in Inputs, End(i) \/ force_measurements(i) PROVE Samples!Next
  <2>1. age' = age /\ due' = [due EXCEPT ![i] = 0]
    BY <1>5 DEF End, force_measurements
  <2>2. Period \in Nat \ {0} /\ 0 = Period * 0 + 0 /\ 0 \in 0..(Period - 1)
    BY InputsAssumption
  <2>3. phase' = [phase EXCEPT ![i] = 0]
    <3>1. 0 % Period = 0
      BY <2>2, ModBy
    <3>2. \A j \in Inputs : Phase(j)' = IF j = i THEN 0 ELSE Phase(j)
      BY <1>0, <1>1, <2>1, <3>1 DEF Phase
    <3> QED BY <3>2
  <2> QED BY <2>1, <2>3 DEF Samples!Next, Samples!BeginPeriod, Since
<1>6. CASE Tick
  <2> DEFINE active == {i \in Inputs : running[i]}
  <2>1. phase' = [i \in Inputs |-> IF i \in active THEN Samples!NextPhase(i) ELSE phase[i]]
    BY <1>0, <1>6, Passing DEF Samples!NextPhase
  <2>2. since' = [i \in Inputs |-> IF since[i] = Period THEN Period ELSE since[i] + 1]
    <3>1. Period \in Nat \ {0} /\ OldAge \in Nat /\ OldAge > Period
      BY InputsAssumption DEF OldAge
    <3>2. \A i \in Inputs : Since(i)' = IF Since(i) = Period THEN Period ELSE Since(i) + 1
      BY <1>0, <1>1, <1>6, <3>1, Passing DEF Since
    <3> QED BY <3>2
  <2>3. active \in SUBSET Inputs
    OBVIOUS
  <2> QED BY <2>1, <2>2, <2>3 DEF Samples!Next, Samples!Pass
<1>7. ASSUME NEW i \in Inputs,
             LockAcquired(i) \/ LockBroken(i) \/ TurnOn(i) \/ TurnOff(i) \/ RemoveFile(i) \/ Freed(i)
               \/ pre_stop(i) \/ stop_controller(i)
      PROVE  UNCHANGED <<due, age>>
  BY <1>7 DEF LockAcquired, LockBroken, TurnOn, TurnOff, RemoveFile, Freed, pre_stop, stop_controller
<1>8. CASE Switch \/ UNCHANGED vars
  BY <1>2, <1>8 DEF Switch, vars
<1> QED BY <1>2, <1>3, <1>4, <1>5, <1>6, <1>7, <1>8 DEF Next, Loop

\* However inputs wait for each other's lock and for the pre-output, and whatever
\* pages ask of them, no input is measured twice for one instant at which it was
\* due: the loop implements Sampling.
THEOREM OneSampleStays == Spec => OneSampleEach
<1>1. IInv /\ [Next]_vars => [Samples!Next]_<<[i \in Inputs |-> Phase(i)], [i \in Inputs |-> Since(i)]>>
  BY SamplesStep
<1> QED BY Invariance, SamplesInit, <1>1, PTL DEF Spec, OneSampleEach, Samples!Spec

(***************************************************************************)
(* The pre-output                                                          *)
(***************************************************************************)
\* Two inputs share the pre-output at most, they take turns, and who waits for the
\* lock waits longer than the other has it on.
TwoShare ==
  /\ ~Overlap /\ Duration + 1 < LockTimeout
  /\ \A i, j, k \in PreOutput : i = j \/ j = k \/ i = k

\* None of those that share it has been asked to stop.
AllRun == \A j \in PreOutput : running[j] /\ ~stopping[j]

\* What concerns the pre-output concerns only who has one.
Shared ==
  \A i \in Inputs :
    /\ i \notin PreOutput => /\ pc[i] \notin {"lock", "on", "off", "remove"}
                             /\ held[i] = None /\ ~activated[i]
    /\ pc[i] = "ended" => ~running[i]

\* Who has locked the file is about to switch the pre-output on, or has done so and
\* will switch it off; and what it waits for is its measurement.
Holds ==
  \A i \in PreOutput :
    /\ held[i] # None <=> pc[i] = "on" \/ activated[i]
    /\ pc[i] \in {"measure", "off"} => activated[i]
    /\ pc[i] \in {"lock", "on", "remove"} => ~activated[i]
    /\ activated[i] => wanted[i]
    /\ pc[i] = "measure" => timer[i] < 0

\* Only one has locked it, the file that there is, and nobody while it is deleted.
OneHolds ==
  /\ \A i \in PreOutput : held[i] # None => file = held[i]
  /\ \A i, j \in PreOutput : held[i] # None /\ held[j] # None => i = j
  /\ \A i, j \in PreOutput : pc[i] = "remove" => held[j] = None

\* Who waits for the lock will be given it in time.
Patient ==
  /\ \A j \in PreOutput : pc[j] = "lock" =>
       /\ patience[j] > 0
       /\ \A i \in PreOutput : /\ activated[i] => patience[j] > timer[i] + 1
                               /\ pc[i] # "on"
  /\ \A j, k \in PreOutput :
       pc[j] = "lock" /\ pc[k] = "lock" /\ (\A i \in PreOutput : held[i] = None) => j = k

\* As the holder has told it.
Told(i) ==
  IF i \in During
  THEN sending \subseteq {Command(i, "on")} /\ (sending = {} => lamp = On)
  ELSE \/ sending = {} /\ lamp = (IF timer[i] >= 0 THEN timer[i] ELSE Off)
       \/ sending = {Command(i, "on for")} /\ timer[i] = Duration

\* That of whoever has the pre-output.
LampAsTold == \A i \in PreOutput : activated[i] => Told(i)

\* The inductive invariant of the turns.
TurnsInv == AllRun => Holds /\ OneHolds /\ Patient /\ LampAsTold

\* It holds initially.
LEMMA TurnsInit == Init => Shared /\ TurnsInv
<1> SUFFICES ASSUME Init PROVE Shared /\ TurnsInv
  OBVIOUS
<1>1. \A i \in Inputs : /\ pc[i] = "asleep" /\ running[i] /\ held[i] = None
                         /\ activated[i] = FALSE
  BY DEF Init
<1>2. PreOutput \subseteq Inputs
  BY InputsAssumption
<1>3. Shared
  BY <1>1 DEF Shared
<1>4. Holds /\ OneHolds /\ Patient /\ LampAsTold
  BY <1>1, <1>2 DEF Holds, OneHolds, Patient, LampAsTold
<1> QED BY <1>3, <1>4 DEF TurnsInv

\* Every step keeps the pre-output to those that have one.
LEMMA SharedStep ==
  ASSUME TypeOK, Shared, [Next]_vars
  PROVE  Shared'
<1>0. /\ pc \in [Inputs -> Places] /\ held \in [Inputs -> Files \cup {None}] /\ activated \in [Inputs -> BOOLEAN]
      /\ running \in [Inputs -> BOOLEAN] /\ PreOutput \subseteq Inputs
  BY InputsAssumption DEF TypeOK
<1>1. CASE UNCHANGED <<pc, held, activated, running>>
  BY <1>1 DEF Shared
<1>2. ASSUME NEW i \in Inputs, TopOfLoop(i) PROVE Shared'
  <2>1. /\ UNCHANGED <<held, activated, running>> /\ running[i] /\ pc' = [pc EXCEPT ![i] = NextPlace(i)]
        /\ NextPlace(i) \in {"asleep", "lock", "measure"} /\ (NextPlace(i) = "lock" => i \in PreOutput)
    BY <1>2 DEF TopOfLoop, Goes, NextPlace, lock, preOutput
  <2> QED BY <1>0, <2>1 DEF Shared
<1>3. ASSUME NEW i \in Inputs, LockAcquired(i) \/ LockBroken(i) PROVE Shared'
  <2>1. /\ UNCHANGED <<activated, running>> /\ pc[i] = "lock" /\ pc' = [pc EXCEPT ![i] = "on"]
        /\ \A j \in Inputs \ {i} : held'[j] = held[j]
    BY <1>0, <1>3 DEF LockAcquired, LockBroken, Goes, preOutput
  <2> QED BY <1>0, <2>1 DEF Shared
<1>4. ASSUME NEW i \in Inputs, TurnOn(i) PROVE Shared'
  <2>1. /\ UNCHANGED <<held, running>> /\ pc[i] = "on" /\ pc' = [pc EXCEPT ![i] = "asleep"]
        /\ activated' = [activated EXCEPT ![i] = TRUE]
    BY <1>4 DEF TurnOn, Goes, lock
  <2> QED BY <1>0, <2>1 DEF Shared
<1>5. ASSUME NEW i \in Inputs, Measure(i) PROVE Shared'
  <2>1. /\ UNCHANGED <<held, activated, running>>
        /\ pc' = [pc EXCEPT ![i] = IF i \in PreOutput THEN "off" ELSE "asleep"]
    BY <1>5 DEF Measure, Goes, lock, preOutput
  <2> QED BY <1>0, <2>1 DEF Shared
<1>6. ASSUME NEW i \in Inputs, TurnOff(i) PROVE Shared'
  <2>1. /\ UNCHANGED running /\ pc[i] = "off" /\ pc' = [pc EXCEPT ![i] = "remove"]
        /\ activated' = [activated EXCEPT ![i] = FALSE] /\ held' = [held EXCEPT ![i] = None]
    BY <1>6 DEF TurnOff, Goes
  <2> QED BY <1>0, <2>1 DEF Shared
<1>7. ASSUME NEW i \in Inputs, RemoveFile(i) PROVE Shared'
  <2>1. UNCHANGED <<running, held, activated>> /\ pc' = [pc EXCEPT ![i] = "asleep"]
    BY <1>7 DEF RemoveFile, Goes, preOutput
  <2> QED BY <1>0, <2>1 DEF Shared
<1>8. ASSUME NEW i \in Inputs, End(i) PROVE Shared'
  <2>1. /\ UNCHANGED <<running, held>> /\ pc' = [pc EXCEPT ![i] = "ended"] /\ ~running[i]
        /\ activated' = [activated EXCEPT ![i] = FALSE]
    BY <1>8 DEF End, Goes, lock
  <2> QED BY <1>0, <2>1 DEF Shared
<1>9. ASSUME NEW i \in Inputs, Freed(i) PROVE Shared'
  <2>1. UNCHANGED <<running, pc, activated>> /\ held' = [held EXCEPT ![i] = None]
    BY <1>9 DEF Freed, preOutput
  <2> QED BY <1>0, <2>1 DEF Shared
<1>10. ASSUME NEW i \in Inputs, stop_controller(i) PROVE Shared'
  <2>1. UNCHANGED <<held, pc, activated>> /\ running' = [running EXCEPT ![i] = FALSE]
    BY <1>10 DEF stop_controller, preOutput, lock
  <2> QED BY <1>0, <2>1 DEF Shared
<1>11. ASSUME NEW i \in Inputs, force_measurements(i) \/ pre_stop(i) PROVE Shared'
  BY <1>1, <1>11 DEF force_measurements, pre_stop, lock, preOutput
<1>12. CASE Switch \/ Tick \/ UNCHANGED vars
  BY <1>1, <1>12 DEF Switch, Tick, vars, lock, preOutput
<1> QED BY <1>2, <1>3, <1>4, <1>5, <1>6, <1>7, <1>8, <1>9, <1>10, <1>11, <1>12 DEF Next, Loop

\* Whom a page has asked to stop stays asked.
LEMMA AllRanBefore ==
  ASSUME TypeOK, [Next]_vars, AllRun'
  PROVE  AllRun
<1>0. running \in [Inputs -> BOOLEAN] /\ stopping \in [Inputs -> BOOLEAN] /\ PreOutput \subseteq Inputs
  BY InputsAssumption DEF TypeOK
<1>1. CASE UNCHANGED <<running, stopping>>
  BY <1>1 DEF AllRun
<1>2. ASSUME NEW i \in Inputs, pre_stop(i) PROVE AllRun
  BY <1>0, <1>2 DEF AllRun, pre_stop
<1>3. ASSUME NEW i \in Inputs, stop_controller(i) PROVE AllRun
  BY <1>0, <1>3 DEF AllRun, stop_controller
<1>4. ASSUME NEW i \in Inputs, Loop(i) \/ Freed(i) \/ force_measurements(i) PROVE UNCHANGED <<running, stopping>>
  BY <1>4 DEF Loop, TopOfLoop, LockAcquired, LockBroken, TurnOn, Measure, TurnOff, RemoveFile, End, Freed,
              force_measurements
<1>5. CASE Switch \/ Tick \/ UNCHANGED vars
  BY <1>1, <1>5 DEF Switch, Tick, vars
<1> QED BY <1>1, <1>2, <1>3, <1>4, <1>5 DEF Next

\* The four parts, for whoever has the pre-output.
InTurns == Holds /\ OneHolds /\ Patient /\ LampAsTold

\* What the others do does not touch them.
LEMMA TurnsOfOthers ==
  ASSUME InTurns,
         \A i \in PreOutput : /\ pc'[i] = pc[i] /\ held'[i] = held[i] /\ activated'[i] = activated[i]
                              /\ wanted'[i] = wanted[i] /\ timer'[i] = timer[i]
                              /\ patience'[i] = patience[i],
         UNCHANGED <<file, sending, lamp>>
  PROVE  InTurns'
<1>1. Holds'
  BY DEF InTurns, Holds
<1>2. OneHolds'
  BY DEF InTurns, OneHolds
<1>3. Patient'
  BY DEF InTurns, Patient
<1>4. LampAsTold'
  BY DEF InTurns, LampAsTold, Told
<1> QED BY <1>1, <1>2, <1>3, <1>4 DEF InTurns

\* Nobody has locked the file where there is none, or one that may be locked.
LEMMA NobodyHolds ==
  ASSUME TypeOK, InTurns
  PROVE  Lockable # {} <=> \A i \in Inputs : file = None \/ held[i] # file
BY DEF Lockable, TypeOK

\* A turn of the loop.
LEMMA TurnsTop ==
  ASSUME TwoShare, TypeOK, Shared, InTurns, NEW i \in PreOutput, TopOfLoop(i)
  PROVE  InTurns'
<1>0. /\ pc \in [Inputs -> Places] /\ patience \in [Inputs -> 0..LockTimeout]
      /\ wanted \in [Inputs -> BOOLEAN] /\ activated \in [Inputs -> BOOLEAN]
      /\ timer \in [Inputs -> -1..Duration] /\ i \in Inputs /\ PreOutput \subseteq Inputs
      /\ Duration \in Nat /\ LockTimeout \in Nat /\ Duration + 1 < LockTimeout
      /\ held \in [Inputs -> Files \cup {None}]
  BY InputsAssumption DEF TypeOK, TwoShare
<1>1. /\ UNCHANGED <<held, activated, timer, file, sending, lamp>> /\ pc[i] = "asleep"
      /\ wanted' = [wanted EXCEPT ![i] = @ \/ IsDue(i)]
      /\ pc' = [pc EXCEPT ![i] = NextPlace(i)]
      /\ patience' = IF NextPlace(i) = "lock" THEN [patience EXCEPT ![i] = LockTimeout] ELSE patience
      /\ Lockable = {} \/ \A j \in Inputs : pc[j] # "lock"
      /\ \A j \in Inputs \ {i} : pc[j] \in Resting
  BY DEF TopOfLoop, Goes, lock, preOutput, MayStep, TwoShare
<1>2. /\ NextPlace(i) \in {"asleep", "lock", "measure"}
      /\ NextPlace(i) = "lock" => ~activated[i]
      /\ NextPlace(i) = "measure" => activated[i] /\ ~WaitsForOutput(i)
  BY DEF NextPlace
<1>3. Holds'
  <2>1. NextPlace(i) = "measure" => activated[i] /\ timer[i] < 0
    BY <1>0, <1>2 DEF WaitsForOutput, InTurns, Holds
  <2>2. ASSUME NEW j \in PreOutput
        PROVE  /\ held'[j] # None <=> pc'[j] = "on" \/ activated'[j]
               /\ pc'[j] \in {"measure", "off"} => activated'[j]
               /\ pc'[j] \in {"lock", "on", "remove"} => ~activated'[j]
               /\ activated'[j] => wanted'[j]
               /\ pc'[j] = "measure" => timer'[j] < 0
    <3>1. CASE j = i
      BY <1>0, <1>1, <1>2, <2>1, <3>1 DEF InTurns, Holds
    <3>2. CASE j # i
      BY <1>0, <1>1, <3>2 DEF InTurns, Holds
    <3> QED BY <3>1, <3>2
  <2> QED BY <2>2 DEF Holds
<1>4. OneHolds'
  BY <1>0, <1>1, <1>2 DEF InTurns, OneHolds
<1>5. Patient'
  <2>1. \A j \in PreOutput : pc'[j] # "on"
    BY <1>0, <1>1, <1>2 DEF Resting
  <2>2. ASSUME NEW j \in PreOutput, pc'[j] = "lock"
        PROVE  patience'[j] > 0 /\ \A k \in PreOutput : activated'[k] => patience'[j] > timer'[k] + 1
    <3>1. CASE j = i
      <4>1. patience'[j] = LockTimeout
        BY <1>0, <1>1, <2>2, <3>1
      <4>2. \A k \in PreOutput : timer[k] \in -1..Duration
        BY <1>0
      <4> QED BY <1>0, <1>1, <4>1, <4>2
    <3>2. CASE j # i
      <4>1. pc[j] = "lock" /\ patience'[j] = patience[j]
        BY <1>0, <1>1, <2>2, <3>2
      <4> QED BY <1>1, <4>1 DEF InTurns, Patient
    <3> QED BY <3>1, <3>2
  <2>3. ASSUME NEW j \in PreOutput, NEW k \in PreOutput, pc'[j] = "lock", pc'[k] = "lock", j # k,
               \A l \in PreOutput : held'[l] = None
        PROVE  FALSE
    <3>1. \A l \in Inputs : held[l] = None
      BY <1>1, <2>3 DEF Shared
    <3>2. Lockable # {}
      BY <3>1, NobodyHolds
    <3>3. \A l \in Inputs : pc[l] # "lock"
      BY <1>1, <3>2
    <3> QED BY <1>0, <1>1, <2>3, <3>3
  <2> QED BY <2>1, <2>2, <2>3 DEF Patient
<1>6. LampAsTold'
  BY <1>1 DEF InTurns, LampAsTold, Told
<1> QED BY <1>3, <1>4, <1>5, <1>6 DEF InTurns

\* The lock is given.
LEMMA TurnsLock ==
  ASSUME TwoShare, TypeOK, Shared, InTurns, NEW i \in PreOutput, LockAcquired(i)
  PROVE  InTurns'
<1>0. /\ pc \in [Inputs -> Places] /\ i \in Inputs /\ PreOutput \subseteq Inputs
      /\ held \in [Inputs -> Files \cup {None}] /\ file \in Files \cup {None} /\ None \notin Files
  BY InputsAssumption DEF TypeOK, Files, None
<1>1. PICK f \in Lockable : file' = f /\ held' = [held EXCEPT ![i] = f]
  BY DEF LockAcquired
<1>2. /\ UNCHANGED <<activated, timer, wanted, sending, lamp>> /\ pc[i] = "lock"
      /\ pc' = [pc EXCEPT ![i] = "on"]
      /\ \A j \in Inputs \ {i} : patience'[j] = patience[j] /\ pc[j] \in Resting
  BY <1>0 DEF LockAcquired, Goes, preOutput, MayStep, TwoShare, TypeOK
<1>3. f \in Files
  BY <1>1, LockableFiles
<1>4. \A j \in PreOutput : held[j] = None
  <2>1. \A j \in Inputs : held[j] # f
    <3>1. CASE file = None
      <4> DEFINE Free(g) == \A j \in Inputs : held[j] # g
      <4>1. \E g \in Files : Free(g)
        BY <1>0, FreeFile
      <4>2. f = CHOOSE g \in Files : Free(g)
        BY <1>1, <3>1 DEF Lockable
      <4> HIDE DEF Free
      <4>3. Free(f)
        BY <4>1, <4>2
      <4> QED BY <4>3 DEF Free
    <3>2. CASE file # None
      BY <1>1, <3>2 DEF Lockable
    <3> QED BY <3>1, <3>2
  <2>2. file = None \/ file = f
    BY <1>1 DEF Lockable
  <2> QED BY <1>0, <2>1, <2>2 DEF InTurns, OneHolds
<1>5. Holds'
  BY <1>0, <1>1, <1>2, <1>3, <1>4 DEF InTurns, Holds
<1>6. OneHolds'
  BY <1>0, <1>1, <1>2, <1>3, <1>4 DEF InTurns, OneHolds, Resting
<1>7. Patient'
  <2>1. \A j \in PreOutput : pc[j] = "lock" => j = i
    BY <1>2, <1>4 DEF InTurns, Patient
  <2>2. \A j \in PreOutput : pc'[j] # "lock"
    BY <1>0, <1>2, <2>1
  <2> QED BY <2>2 DEF Patient
<1>8. LampAsTold'
  BY <1>2 DEF InTurns, LampAsTold, Told
<1> QED BY <1>5, <1>6, <1>7, <1>8 DEF InTurns

\* The pre-output is switched on.
LEMMA TurnsOn ==
  ASSUME TwoShare, TypeOK, InTurns, FirstOfPeriod, NEW i \in PreOutput, TurnOn(i)
  PROVE  InTurns'
<1>0. /\ pc \in [Inputs -> Places] /\ i \in Inputs /\ PreOutput \subseteq Inputs
      /\ activated \in [Inputs -> BOOLEAN] /\ timer \in [Inputs -> -1..Duration]
  BY InputsAssumption DEF TypeOK
<1>1. /\ UNCHANGED <<held, file, wanted, patience, lamp>> /\ pc[i] = "on" /\ sending = {}
      /\ pc' = [pc EXCEPT ![i] = "asleep"]
      /\ timer' = [timer EXCEPT ![i] = Duration] /\ activated' = [activated EXCEPT ![i] = TRUE]
      /\ sending' = {Command(i, IF i \in During THEN "on" ELSE "on for")}
  BY DEF TurnOn, Goes, lock, MayStep, TwoShare
<1>2. wanted[i] /\ held[i] # None
  BY <1>0, <1>1 DEF FirstOfPeriod, InTurns, Holds
<1>3. \A j \in PreOutput : j # i => held[j] = None /\ ~activated[j]
  BY <1>2 DEF InTurns, Holds, OneHolds
<1>4. Holds'
  BY <1>0, <1>1, <1>2 DEF InTurns, Holds
<1>5. OneHolds'
  BY <1>0, <1>1 DEF InTurns, OneHolds
<1>6. Patient'
  <2>1. \A j \in PreOutput : pc[j] # "lock"
    BY <1>1 DEF InTurns, Patient
  <2>2. \A j \in PreOutput : pc'[j] # "lock"
    BY <1>0, <1>1, <2>1
  <2> QED BY <2>2 DEF Patient
<1>7. LampAsTold'
  <2>1. \A j \in PreOutput : activated'[j] => j = i
    BY <1>0, <1>1, <1>3
  <2>2. Told(i)'
    BY <1>0, <1>1 DEF Told
  <2> QED BY <2>1, <2>2 DEF LampAsTold
<1> QED BY <1>4, <1>5, <1>6, <1>7 DEF InTurns

\* A measurement is taken.
LEMMA TurnsMeasure ==
  ASSUME TwoShare, TypeOK, Shared, InTurns, NEW i \in PreOutput, Measure(i)
  PROVE  InTurns'
<1>0. pc \in [Inputs -> Places] /\ i \in Inputs /\ PreOutput \subseteq Inputs
  BY InputsAssumption DEF TypeOK
<1>1. /\ UNCHANGED <<held, file, wanted, patience, lamp, sending, timer, activated>> /\ pc[i] = "measure"
      /\ pc' = [pc EXCEPT ![i] = "off"]
  BY DEF Measure, Goes, lock, preOutput
<1>2. activated[i]
  BY <1>1 DEF InTurns, Holds
<1>3. Holds'
  BY <1>0, <1>1, <1>2 DEF InTurns, Holds
<1>4. OneHolds'
  BY <1>0, <1>1 DEF InTurns, OneHolds
<1>5. Patient'
  BY <1>0, <1>1 DEF InTurns, Patient
<1>6. LampAsTold'
  BY <1>1 DEF InTurns, LampAsTold, Told
<1> QED BY <1>3, <1>4, <1>5, <1>6 DEF InTurns

\* The pre-output is switched off.
LEMMA TurnsOff ==
  ASSUME TwoShare, TypeOK, Shared, InTurns, NEW i \in PreOutput, TurnOff(i)
  PROVE  InTurns'
<1>0. /\ pc \in [Inputs -> Places] /\ i \in Inputs /\ PreOutput \subseteq Inputs
      /\ activated \in [Inputs -> BOOLEAN] /\ timer \in [Inputs -> -1..Duration]
      /\ wanted \in [Inputs -> BOOLEAN] /\ held \in [Inputs -> Files \cup {None}]
  BY InputsAssumption DEF TypeOK
<1>1. /\ UNCHANGED <<file, patience, lamp>> /\ pc[i] = "off"
      /\ pc' = [pc EXCEPT ![i] = "remove"]
      /\ timer' = [timer EXCEPT ![i] = -1] /\ activated' = [activated EXCEPT ![i] = FALSE]
      /\ wanted' = [wanted EXCEPT ![i] = FALSE] /\ held' = [held EXCEPT ![i] = None]
  BY DEF TurnOff, Goes
<1>2. activated[i] /\ held[i] # None
  BY <1>1 DEF InTurns, Holds
<1>3. \A j \in PreOutput : j # i => held[j] = None /\ ~activated[j]
  BY <1>2 DEF InTurns, Holds, OneHolds
<1>4. Holds'
  BY <1>0, <1>1 DEF InTurns, Holds
<1>5. OneHolds'
  BY <1>0, <1>1, <1>3 DEF InTurns, OneHolds
<1>6. Patient'
  <2>1. \A j \in PreOutput : ~activated'[j] /\ pc'[j] # "on"
    BY <1>0, <1>1, <1>3 DEF InTurns, Holds
  <2>2. \A j \in PreOutput : pc'[j] = "lock" => j # i /\ patience'[j] > 0
    BY <1>0, <1>1 DEF InTurns, Patient
  <2>3. \A j, k \in PreOutput : pc'[j] = "lock" /\ pc'[k] = "lock" => j = k
    BY <2>2 DEF TwoShare
  <2> QED BY <2>1, <2>2, <2>3 DEF Patient
<1>7. LampAsTold'
  BY <1>0, <1>1, <1>3 DEF LampAsTold
<1> QED BY <1>4, <1>5, <1>6, <1>7 DEF InTurns

\* The file is deleted.
LEMMA TurnsRemove ==
  ASSUME TypeOK, InTurns, NEW i \in PreOutput, RemoveFile(i)
  PROVE  InTurns'
<1>0. pc \in [Inputs -> Places] /\ i \in Inputs /\ PreOutput \subseteq Inputs
  BY InputsAssumption DEF TypeOK
<1>1. /\ UNCHANGED <<held, wanted, patience, lamp, sending, timer, activated>> /\ pc[i] = "remove"
      /\ pc' = [pc EXCEPT ![i] = "asleep"]
  BY DEF RemoveFile, Goes, preOutput
<1>2. \A j \in PreOutput : held[j] = None
  BY <1>1 DEF InTurns, OneHolds
<1>3. Holds'
  BY <1>0, <1>1 DEF InTurns, Holds
<1>4. OneHolds'
  BY <1>0, <1>1, <1>2 DEF InTurns, OneHolds
<1>5. Patient'
  BY <1>0, <1>1 DEF InTurns, Patient
<1>6. LampAsTold'
  BY <1>1 DEF InTurns, LampAsTold, Told
<1> QED BY <1>3, <1>4, <1>5, <1>6 DEF InTurns

\* A thread gives its command.
LEMMA TurnsSwitch ==
  ASSUME TypeOK, InTurns, Switch
  PROVE  InTurns'
<1>1. PICK c \in sending :
        /\ sending' = sending \ {c}
        /\ lamp' = CASE c.do = "on" -> On [] c.do = "off" -> Off [] OTHER -> Duration
  BY DEF Switch
<1>2. UNCHANGED <<pc, held, file, wanted, patience, timer, activated>>
  BY DEF Switch, lock, preOutput
<1>3. Holds' /\ OneHolds' /\ Patient'
  BY <1>2 DEF InTurns, Holds, OneHolds, Patient
<1>4. ASSUME NEW i \in PreOutput, activated[i] PROVE Told(i)'
  <2>1. Told(i)
    BY <1>4 DEF InTurns, LampAsTold
  <2>2. CASE i \in During
    <3>1. c = Command(i, "on") /\ sending' = {}
      BY <1>1, <2>1, <2>2 DEF Told
    <3>2. lamp' = On
      BY <1>1, <3>1 DEF Command
    <3> QED BY <2>2, <3>1, <3>2 DEF Told
  <2>3. CASE i \notin During
    <3>1. c = Command(i, "on for") /\ sending' = {} /\ timer[i] = Duration
      BY <1>1, <2>1, <2>3 DEF Told
    <3>2. lamp' = Duration /\ Duration >= 0
      <4>1. c.do = "on for"
        BY <3>1 DEF Command
      <4>2. lamp' = Duration
        BY <1>1, <4>1
      <4>3. Duration >= 0
        BY InputsAssumption
      <4> QED BY <4>2, <4>3
    <3> QED BY <1>2, <2>3, <3>1, <3>2 DEF Told
  <2> QED BY <2>2, <2>3
<1>5. LampAsTold'
  BY <1>2, <1>4 DEF LampAsTold
<1> QED BY <1>3, <1>5 DEF InTurns

\* The clock moves on: the holder's time passes as the waiting one's does.
LEMMA TurnsTick ==
  ASSUME TwoShare, TypeOK, Shared, InTurns, AllRun, Tick
  PROVE  InTurns'
<1>0. /\ pc \in [Inputs -> Places] /\ PreOutput \subseteq Inputs /\ Duration \in Nat
      /\ patience \in [Inputs -> 0..LockTimeout] /\ timer \in [Inputs -> -1..Duration]
      /\ file \in Files \cup {None} /\ LockTimeout \in Nat
  BY InputsAssumption DEF TypeOK
<1>1. /\ UNCHANGED <<pc, held, file, wanted, activated>> /\ sending = {} /\ sending' = {}
      /\ \A i \in Inputs : timer'[i] = Later(timer[i]) /\ Waits(i)
      /\ \A i \in Inputs : patience'[i] = IF patience[i] > 0 THEN patience[i] - 1 ELSE 0
      /\ lamp' = Dimmed
  BY DEF Tick, TwoShare, lock
<1>2. \A i \in PreOutput : pc[i] # "ended" /\ pc[i] # "measure"
  BY <1>0, <1>1 DEF Waits, AllRun, Shared
<1>3. Holds'
  BY <1>1, <1>2 DEF InTurns, Holds
<1>4. OneHolds'
  BY <1>1 DEF InTurns, OneHolds
<1>5. ASSUME NEW i \in PreOutput, activated[i] PROVE timer[i] >= 0
  <2>1. pc[i] = "asleep" /\ ~HasWork(i) /\ wanted[i]
    BY <1>0, <1>1, <1>2, <1>5 DEF Waits, InTurns, Holds
  <2>2. NextPlace(i) = "asleep"
    BY <2>1 DEF HasWork
  <2>3. WaitsForOutput(i)
    BY <1>5, <2>1, <2>2 DEF NextPlace
  <2> QED BY <2>3 DEF WaitsForOutput
<1>6. ASSUME NEW j \in PreOutput, pc[j] = "lock"
      PROVE  /\ patience'[j] > 0
             /\ \A i \in PreOutput : activated[i] => patience'[j] > timer'[i] + 1
  <2>1. patience[j] > 0 /\ \A i \in PreOutput : activated[i] => patience[j] > timer[i] + 1
    BY <1>6 DEF InTurns, Patient
  <2>2. Lockable = {}
    BY <1>0, <1>1, <1>6, <2>1 DEF Waits
  <2>3. PICK h \in Inputs : held[h] = file /\ file # None
    <3>1. ~(\A i \in Inputs : file = None \/ held[i] # file)
      BY <2>2, NobodyHolds
    <3> QED BY <3>1
  <2>4. h \in PreOutput /\ pc[h] # "on"
    BY <1>6, <2>3 DEF Shared, InTurns, Patient
  <2>5. activated[h]
    BY <2>3, <2>4 DEF InTurns, Holds
  <2>6. timer[h] >= 0 /\ patience[j] > timer[h] + 1
    BY <1>5, <2>1, <2>4, <2>5
  <2>7. patience'[j] = patience[j] - 1 /\ patience'[j] > 0 /\ patience[j] \in Int
    BY <1>0, <1>1, <2>1, <2>4, <2>6
  <2>8. ASSUME NEW i \in PreOutput, activated[i] PROVE patience'[j] > timer'[i] + 1
    <3>1. timer[i] \in Int /\ timer[i] >= 0 /\ timer'[i] = timer[i] - 1
      BY <1>0, <1>1, <1>5, <2>8 DEF Later
    <3> QED BY <2>1, <2>7, <2>8, <3>1
  <2> QED BY <2>7, <2>8
<1>7. Patient'
  BY <1>1, <1>6 DEF InTurns, Patient
<1>8. ASSUME NEW i \in PreOutput, activated[i] PROVE Told(i)'
  <2>1. Told(i) /\ timer[i] \in Int /\ timer[i] >= 0 /\ timer'[i] = timer[i] - 1
    BY <1>0, <1>1, <1>5, <1>8 DEF InTurns, LampAsTold, Later
  <2>2. CASE i \in During
    BY <1>1, <2>1, <2>2 DEF Told, Dimmed
  <2>3. CASE i \notin During
    <3>1. lamp = timer[i]
      BY <1>1, <2>1, <2>3 DEF Told
    <3>2. lamp' = IF timer[i] = 0 THEN 0 ELSE timer[i] - 1
      BY <1>1, <2>1, <3>1 DEF Dimmed, On, Off
    <3>3. lamp' = IF timer'[i] >= 0 THEN timer'[i] ELSE Off
      BY <2>1, <3>2 DEF Off
    <3> QED BY <1>1, <2>3, <3>3 DEF Told
  <2> QED BY <2>2, <2>3
<1>9. LampAsTold'
  BY <1>1, <1>8 DEF LampAsTold
<1> QED BY <1>3, <1>4, <1>7, <1>9 DEF InTurns

\* Every step keeps the turns while none of them has been asked to stop.
LEMMA TurnsStep ==
  ASSUME TwoShare, IInv, Shared, TurnsInv, [Next]_vars
  PROVE  TurnsInv'
<1> SUFFICES ASSUME AllRun' PROVE InTurns'
  BY DEF TurnsInv, InTurns
<1>0. AllRun /\ InTurns /\ TypeOK /\ FirstOfPeriod /\ PreOutput \subseteq Inputs
  BY AllRanBefore, InputsAssumption DEF TurnsInv, InTurns, IInv
<1>1. ASSUME NEW i \in PreOutput, Loop(i) PROVE InTurns'
  <2>1. ~LockBroken(i)
    <3>1. ASSUME LockBroken(i) PROVE FALSE
      <4>1. pc[i] = "lock" /\ (~running[i] \/ patience[i] = 0)
        BY <3>1 DEF LockBroken, IsImpatient
      <4>2. running[i]
        BY <1>0 DEF AllRun
      <4>3. patience[i] > 0
        BY <1>0, <4>1 DEF InTurns, Patient
      <4> QED BY <4>1, <4>2, <4>3
    <3> QED BY <3>1
  <2>2. ~End(i)
    BY <1>0 DEF End, AllRun
  <2> QED BY <1>0, <1>1, <2>1, <2>2, TurnsTop, TurnsLock, TurnsOn, TurnsMeasure, TurnsOff, TurnsRemove DEF Loop
<1>2. ASSUME NEW i \in Inputs \ PreOutput, Loop(i) PROVE InTurns'
  <2>0. /\ pc \in [Inputs -> Places] /\ held \in [Inputs -> Files \cup {None}]
        /\ activated \in [Inputs -> BOOLEAN] /\ wanted \in [Inputs -> BOOLEAN]
        /\ timer \in [Inputs -> -1..Duration] /\ patience \in [Inputs -> 0..LockTimeout]
    BY <1>0 DEF TypeOK
  <2>1. TopOfLoop(i) \/ Measure(i) \/ End(i)
    BY <1>2 DEF Loop, LockAcquired, LockBroken, TurnOn, TurnOff, RemoveFile, Shared
  <2>2. /\ \A j \in PreOutput : /\ pc'[j] = pc[j] /\ held'[j] = held[j] /\ activated'[j] = activated[j]
                                /\ wanted'[j] = wanted[j] /\ timer'[j] = timer[j]
                                /\ patience'[j] = patience[j]
        /\ UNCHANGED <<file, sending, lamp>>
    <3>1. CASE TopOfLoop(i)
      BY <1>0, <2>0, <3>1 DEF TopOfLoop, Goes, lock, preOutput
    <3>2. CASE Measure(i)
      BY <1>0, <2>0, <3>2 DEF Measure, Goes, lock, preOutput
    <3>3. CASE End(i)
      BY <1>0, <2>0, <3>3 DEF End, Goes, lock, preOutput
    <3> QED BY <2>1, <3>1, <3>2, <3>3
  <2> QED BY <1>0, <2>2, TurnsOfOthers
<1>3. ASSUME UNCHANGED <<pc, held, activated, wanted, timer, patience, file, sending, lamp>> PROVE InTurns'
  BY <1>0, <1>3, TurnsOfOthers
<1>4. ASSUME NEW i \in Inputs, Freed(i) PROVE InTurns'
  <2>1. i \notin PreOutput
    BY <1>0, <1>4 DEF Freed, Shared, AllRun
  <2>2. /\ \A j \in PreOutput : held'[j] = held[j]
        /\ UNCHANGED <<pc, activated, wanted, timer, patience, file, sending, lamp>>
    BY <1>0, <1>4, <2>1 DEF Freed, preOutput, TypeOK
  <2> QED BY <1>0, <2>2, TurnsOfOthers
<1>5. ASSUME NEW i \in Inputs, force_measurements(i) \/ stop_controller(i) PROVE InTurns'
  BY <1>3, <1>5 DEF force_measurements, stop_controller, lock, preOutput
<1>6. ASSUME NEW i \in Inputs, pre_stop(i) PROVE InTurns'
  <2>1. i \notin PreOutput
    <3>1. stopping'[i]
      BY <1>0, <1>6 DEF pre_stop, TypeOK
    <3> QED BY <3>1 DEF AllRun
  <2>2. sending' = sending
    BY <1>6, <2>1 DEF pre_stop, OffAtStop
  <2> QED BY <1>3, <1>6, <2>2 DEF pre_stop, lock, preOutput
<1>7. CASE Switch
  BY <1>0, <1>7, TurnsSwitch
<1>8. CASE Tick
  BY <1>0, <1>8, TurnsTick
<1>9. CASE UNCHANGED vars
  BY <1>3, <1>9 DEF vars, lock, preOutput
<1> QED BY <1>1, <1>2, <1>4, <1>5, <1>6, <1>7, <1>8, <1>9 DEF Next

\* Two inputs that share a pre-output measure with it on, or after it was on, as the
\* user has chosen, if the lock's time-out is longer than it is on, until one of them
\* is asked to stop.
THEOREM MeasuresAsTold ==
  ASSUME TwoShare
  PROVE  Spec => MeasuredAsTold
<1> DEFINE Told1 == \A i \in PreOutput :
                      Measure(i) /\ (\A j \in PreOutput : running[j] /\ ~stopping[j]) =>
                        IF i \in During THEN lamp = On ELSE lamp = Off
           Inv == IInv /\ Shared /\ TurnsInv
<1>1. Init => Inv
  BY TypeInit, FirstInit, TurnsInit DEF IInv
<1>2. Inv /\ [Next]_vars => Inv'
  BY TypeStep, FirstStep, SharedStep, TurnsStep DEF IInv
<1>3. Inv => Told1
  <2> SUFFICES ASSUME Inv, AllRun, NEW i \in PreOutput, Measure(i)
               PROVE  IF i \in During THEN lamp = On ELSE lamp = Off
    BY DEF AllRun
  <2>1. pc[i] = "measure" /\ sending = {}
    BY DEF Measure, MayStep, TwoShare
  <2>2. activated[i] /\ timer[i] < 0
    BY <2>1 DEF TurnsInv, Holds
  <2>3. Told(i)
    BY <2>2 DEF TurnsInv, LampAsTold
  <2>4. timer[i] \in Int
    BY InputsAssumption DEF IInv, TypeOK
  <2>5. CASE i \in During
    BY <2>1, <2>3, <2>5 DEF Told
  <2>6. CASE i \notin During
    <3>1. ~(timer[i] >= 0)
      BY <2>2, <2>4
    <3>2. lamp = IF timer[i] >= 0 THEN timer[i] ELSE Off
      BY <2>1, <2>3, <2>6 DEF Told
    <3>3. lamp = Off
      BY <3>1, <3>2
    <3> QED BY <2>6, <3>3
  <2> QED BY <2>5, <2>6
<1>4. Inv /\ [Next]_vars => [Told1]_vars
  BY <1>3
<1> QED BY <1>1, <1>2, <1>4, PTL DEF Spec, MeasuredAsTold
=============================================================================
