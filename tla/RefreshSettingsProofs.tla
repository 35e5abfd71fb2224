----------------------- MODULE RefreshSettingsProofs -----------------------
(***************************************************************************)
(* Theorems about RefreshSettings and TriggerTimers, for any pages,        *)
(* settings, timers and clock.                                             *)
(***************************************************************************)
EXTENDS TriggerTimers, TLAPS

\* Every step keeps the types.
LEMMA TypeStep == TypeOK /\ [Next]_vars => TypeOK'
<1> SUFFICES ASSUME TypeOK, [Next]_vars PROVE TypeOK'
  OBVIOUS
<1> USE DEF TypeOK, flagVars, dbVars, Goto, At
<1>1. CASE UNCHANGED vars
  BY <1>1 DEF vars
<1>2. ASSUME NEW r \in Pages, SaveSettings(r) \/ SaveInactive(r) PROVE TypeOK'
  BY <1>2 DEF SaveSettings, SaveInactive
<1>3. ASSUME NEW r \in Pages, RequestStep(r) PROVE TypeOK'
  <2>1. NoOp \in Ops
    BY RefreshAssumption DEF NoOp, Ops
  <2>2. /\ [op[r] EXCEPT !.waited = ~verify_pause_loop] \in Ops
        /\ [op[r] EXCEPT !.read = saved] \in Ops
    <3>1. op[r] \in Ops
      OBVIOUS
    <3> QED BY <3>1 DEF Ops
  <2>3. CASE SignalPause(r)
    <3>1. op' = [op EXCEPT ![r] = [op[r] EXCEPT !.waited = ~verify_pause_loop]]
      BY <2>3 DEF SignalPause
    <3> QED BY <2>2, <2>3, <3>1 DEF SignalPause
  <2>4. CASE BeginInitialize(r)
    <3>1. op' = [op EXCEPT ![r] = [op[r] EXCEPT !.read = saved]]
      BY <2>4 DEF BeginInitialize, ReadRow
    <3> QED BY <2>2, <2>4, <3>1 DEF BeginInitialize
  <2>5. CASE EndInitialize(r)
    <3>1. op[r].read \in Versions
      BY DEF Ops
    <3> QED BY <2>1, <2>5, <3>1 DEF EndInitialize
  <2>6. CASE Resume(r) \/ Reset(r) \/ StopController(r) \/ Join(r)
    BY <2>1, <2>6 DEF Resume, Reset, StopController, Join
  <2> QED BY <1>3, <2>3, <2>4, <2>5, <2>6 DEF RequestStep
<1>4. CASE LoopStep
  BY <1>4 DEF LoopStep, TopOfLoop, NextTurn, VerifyPause, Paused, Act, WakeUp
<1> QED BY <1>1, <1>2, <1>3, <1>4 DEF Next

\* The types hold initially.
LEMMA TypeInit == Init => TypeOK
<1>1. NoOp \in Ops
  BY RefreshAssumption DEF NoOp, Ops
<1>2. Initial \in Versions
  BY RefreshAssumption
<1> QED BY <1>1, <1>2 DEF Init, TypeOK

\* However pages and loop interleave, the controller's attributes, its flags and
\* the requests' locals stay in their types.
THEOREM TypeCorrect == Spec => []TypeOK
BY TypeInit, TypeStep, PTL DEF Spec

(***************************************************************************)
(* The handshake                                                           *)
(***************************************************************************)
\* One request is in progress at most.
OneAtATime ==
  \A r \in Pages, q \in Pages : ~At(r, "idle") /\ ~At(q, "idle") => r = q

\* While a request that had to wait is waiting or changing the settings, the
\* pause is asked for, and once the loop has verified it the loop is paused.
Held ==
  \A r \in Pages :
    /\ pc[r] \in {"wait", "initialize"} /\ op[r].waited =>
         pause_loop /\ (verify_pause_loop => loop = "paused")
    /\ At(r, "initialize") => verify_pause_loop

\* The inductive invariant of the handshake.
IInv == TypeOK /\ OneAtATime /\ Held

\* The handshake holds initially.
LEMMA HandshakeInit == Init => OneAtATime /\ Held
BY DEF Init, OneAtATime, Held, At

\* Every step keeps the handshake when requests are spaced.
LEMMA HandshakeStep ==
  ASSUME Spaced PROVE IInv /\ [Next]_vars => OneAtATime' /\ Held'
<1> SUFFICES ASSUME IInv, [Next]_vars PROVE OneAtATime' /\ Held'
  OBVIOUS
<1> USE DEF flagVars, dbVars, Goto, At
<1>0. TypeOK /\ OneAtATime /\ Held
  BY DEF IInv
<1>1. CASE UNCHANGED vars
  BY <1>0, <1>1 DEF vars, OneAtATime, Held
<1>2. ASSUME NEW r \in Pages, SaveSettings(r) \/ SaveInactive(r) PROVE OneAtATime' /\ Held'
  <2>1. /\ \A q \in Pages : pc[q] = "idle" /\ (q # r => pc'[q] = "idle")
        /\ pc'[r] \in {"idle", "refresh", "stop"} /\ UNCHANGED <<pause_loop, verify_pause_loop, loop, op>>
    BY <1>0, <1>2 DEF TypeOK, SaveSettings, SaveInactive, MayBegin
  <2> QED BY <2>1 DEF OneAtATime, Held
<1>3. ASSUME NEW r \in Pages, RequestStep(r) PROVE OneAtATime' /\ Held'
  <2>1. /\ pc[r] # "idle"
        /\ \A q \in Pages \ {r} : pc[q] = "idle" /\ pc'[q] = "idle" /\ op'[q] = op[q]
    BY <1>0, <1>3 DEF TypeOK, OneAtATime, RequestStep, SignalPause, BeginInitialize, EndInitialize,
                      Resume, Reset, StopController, Join
  <2>2. OneAtATime'
    BY <2>1 DEF OneAtATime
  <2>3. CASE SignalPause(r)
    <3>1. /\ pc'[r] = "wait" /\ pause_loop' /\ verify_pause_loop' = verify_pause_loop
          /\ op'[r].waited = ~verify_pause_loop
      BY <1>0, <2>3 DEF SignalPause, TypeOK, Ops
    <3> QED BY <2>1, <2>2, <3>1 DEF Held
  <2>4. CASE BeginInitialize(r)
    <3>1. /\ pc[r] = "wait" /\ pc'[r] = "initialize" /\ verify_pause_loop'
          /\ op'[r].waited = op[r].waited /\ UNCHANGED <<pause_loop, verify_pause_loop, loop>>
      BY <1>0, <2>4 DEF BeginInitialize, TypeOK, Ops
    <3> QED BY <1>0, <2>1, <2>2, <3>1 DEF Held
  <2>5. CASE EndInitialize(r) \/ Resume(r) \/ Reset(r) \/ StopController(r) \/ Join(r)
    <3>1. pc'[r] \notin {"wait", "initialize"}
      BY <1>0, <2>5 DEF TypeOK, EndInitialize, Resume, Reset, StopController, Join
    <3> QED BY <2>1, <2>2, <3>1 DEF Held
  <2> QED BY <1>3, <2>3, <2>4, <2>5 DEF RequestStep
<1>4. CASE LoopStep
  BY <1>0, <1>4 DEF TypeOK, OneAtATime, Held, LoopStep, TopOfLoop, NextTurn, VerifyPause, Paused, Resumed, Act, WakeUp
<1> QED BY <1>1, <1>2, <1>3, <1>4 DEF Next

\* When requests are spaced, the loop does not act while a request that had to
\* wait for it changes the settings.
THEOREM HandshakeHolds ==
  ASSUME Spaced
  PROVE  Spec => []WaitedIsSafe
<1>1. Init => IInv
  BY TypeInit, HandshakeInit DEF IInv
<1>2. IInv /\ [Next]_vars => IInv'
  BY TypeStep, HandshakeStep DEF IInv
<1>3. IInv => WaitedIsSafe
  BY DEF IInv, Held, WaitedIsSafe, At
<1> QED BY <1>1, <1>2, <1>3, PTL DEF Spec

(***************************************************************************)
(* What was saved last                                                     *)
(***************************************************************************)
\* How far a request is with what was saved last.
InHand ==
  \A r \in Pages :
    /\ At(r, "initialize") => op[r].read = saved
    /\ pc[r] \in {"resume", "reset"} => settings = saved
    /\ pc[r] \in {"stop", "join"} => ~is_activated

\* Every step keeps what is in hand, when requests are spaced.
LEMMA InHandStep ==
  ASSUME Spaced, TypeOK, OneAtATime, InHand, UpToDate, [Next]_vars
  PROVE  InHand' /\ UpToDate'
<1> USE DEF flagVars, dbVars, Goto, At
<1>1. ASSUME UNCHANGED <<dbVars, settings, pc, op>> PROVE InHand' /\ UpToDate'
  BY <1>1 DEF InHand, UpToDate
<1>2. CASE UNCHANGED vars
  BY <1>1, <1>2 DEF vars
<1>3. ASSUME NEW r \in Pages, SaveSettings(r) \/ SaveInactive(r) PROVE InHand' /\ UpToDate'
  <2>1. /\ \A q \in Pages : pc[q] = "idle"
        /\ pc'[r] = "idle" => ~is_activated'
        /\ \A q \in Pages : pc'[q] \in {"idle", "refresh"} \/ (pc'[q] = "stop" /\ ~is_activated')
    BY <1>3 DEF SaveSettings, SaveInactive, MayBegin, TypeOK
  <2> QED BY <2>1 DEF InHand, UpToDate
<1>4. ASSUME NEW r \in Pages, RequestStep(r) PROVE InHand' /\ UpToDate'
  <2>1. /\ \A q \in Pages \ {r} : pc'[q] = pc[q] /\ op'[q] = op[q]
        /\ UNCHANGED dbVars
    BY <1>4 DEF TypeOK, RequestStep, SignalPause, BeginInitialize, EndInitialize, Resume, Reset,
                StopController, Join
  <2>2. pc[r] \in {"refresh", "wait", "initialize", "resume", "reset", "stop", "join"}
    BY <1>4 DEF RequestStep, SignalPause, BeginInitialize, EndInitialize, Resume, Reset, StopController, Join
  <2>3. CASE SignalPause(r) \/ Resume(r) \/ Reset(r) \/ StopController(r) \/ Join(r)
    <3>1. /\ UNCHANGED settings
          /\ pc'[r] = "reset" => pc[r] = "resume"
          /\ pc'[r] \notin {"initialize", "resume", "stop"}
          /\ pc'[r] = "join" => pc[r] = "stop"
          /\ pc'[r] = "idle" => pc[r] \in {"reset", "stop", "join"}
      BY <2>3 DEF SignalPause, Resume, Reset, StopController, Join, TypeOK
    <3>2. InHand'
      BY <2>1, <3>1 DEF InHand
    <3>3. UpToDate'
      BY <2>1, <3>1 DEF InHand, UpToDate
    <3> QED BY <3>2, <3>3
  <2>4. CASE BeginInitialize(r)
    <3>1. /\ pc'[r] = "initialize" /\ op'[r].read = saved
          /\ \A q \in Pages \ {r} : pc'[q] = "idle"
      BY <2>4 DEF BeginInitialize, ReadRow, TypeOK, Ops, OneAtATime
    <3> QED BY <2>1, <3>1 DEF InHand, UpToDate
  <2>5. CASE EndInitialize(r)
    BY <2>1, <2>5 DEF EndInitialize, InHand, UpToDate, TypeOK
  <2> QED BY <1>4, <2>3, <2>4, <2>5 DEF RequestStep
<1>5. CASE LoopStep
  BY <1>1, <1>5 DEF LoopStep, TopOfLoop, VerifyPause, Paused, Act, WakeUp
<1> QED BY <1>2, <1>3, <1>4, <1>5 DEF Next

\* When requests are spaced, an active controller has the settings that were saved
\* last once no page waits, however many pages and settings there are.
THEOREM SettingsArrive ==
  ASSUME Spaced
  PROVE  Spec => []UpToDate
<1>1. Init => IInv /\ InHand /\ UpToDate
  BY TypeInit, HandshakeInit DEF IInv, Init, InHand, UpToDate, At
<1>2. IInv /\ [Next]_vars => IInv'
  BY TypeStep, HandshakeStep DEF IInv
<1>3. IInv /\ InHand /\ UpToDate /\ [Next]_vars => InHand' /\ UpToDate'
  BY InHandStep DEF IInv
<1> QED BY <1>1, <1>2, <1>3, PTL DEF Spec

(***************************************************************************)
(* The timers                                                              *)
(***************************************************************************)
\* What the manual tells of timers can only hold with such settings: periods are
\* positive; the clock runs for two days; a sun's time is not put a day or more
\* behind, and it rises every day.
TimersAreSet ==
  /\ Spaced /\ 2 * Day <= LastNow + 1
  /\ \A v \in Versions : Says[v].period > 0
  /\ "sun" \in Kinds => Dark = {} /\ Zone >= -Day

\* The instant is one of a row taken over at o, whether or not the clock gets there.
OnGrid(v, o, d) ==
  CASE trigger_type = "point" -> d % Day = Says[v].start
    [] trigger_type = "sun"   -> d % Day = (Says[v].sun + Zone) % Day /\ d \div Day \notin Dark
    [] trigger_type = "span"  -> (d - o) % Says[v].period = 0
    [] OTHER                  -> d >= o + Says[v].offset
                                   /\ (d - o - Says[v].offset) % Says[v].period = 0

\* The types, and what a turn remembers while it acts.
TurnInv ==
  /\ trigger_type \in Kinds /\ now \in 0..LastNow
  /\ timer_period \in Int \cup {None}
  /\ turn \in {"look", "catchup", "check"}
  /\ {origin, looked, found, last.at} \subseteq 0..now /\ last.acted \in BOOLEAN
  /\ turn # "look" => loop = "acting" /\ found = looked

\* A controller that is told to end has a page waiting for it until it has ended,
\* and settings are those that were saved last, or a page is about to change them.
EndsSoon ==
  /\ ~is_activated => loop = "ended" \/ \E r \in Pages : pc[r] \in {"stop", "join"}
  /\ ~running => ~is_activated /\ (loop = "ended" \/ \E r \in Pages : At(r, "join"))
TakenOver ==
  /\ \A r \in Pages : At(r, "initialize") => settings = Changing
  /\ settings # saved => \/ settings = Changing \/ loop = "ended"
                         \/ \E r \in Pages : pc[r] \in {"refresh", "wait"}

\* The loop runs with what was saved last.
Settled == loop # "ended" /\ settings = saved

\* The timer is an instant of the row's, not before what the last turn has found due.
TimerInv ==
  Settled =>
    /\ timer_period \in Int /\ OnGrid(settings, origin, timer_period) /\ origin <= timer_period
    /\ \/ turn \in {"look", "check"} /\ running
       \/ turn = "look" /\ loop \in {"verify", "paused", "acting"}
       => found <= timer_period

\* A check has come after the instant, and Actions were carried out or out of the span.
Acted(d) ==
  /\ last.at > d
  /\ \/ last.acted
     \/ trigger_type = "span"
          /\ ~time_between_range(Says[settings].start, Says[settings].end, last.at)

\* Of the instants before the timer's, each was acted upon or is behind now.
CoveredInv ==
  Settled =>
    /\ \A d \in Dues(settings) : d < timer_period => Acted(d) \/ (turn # "look" /\ d < now)
    /\ loop = "sleeping" => \A d \in Dues(settings) : d < looked => Acted(d)

\* What the handshake keeps.
HandInv == IInv /\ InHand /\ UpToDate

(***************************************************************************)
(* Numbers                                                                 *)
(***************************************************************************)
\* What \div and % are.
LEMMA DivMod ==
  ASSUME NEW a \in Int, NEW n \in Nat \ {0}
  PROVE  a \div n \in Int /\ a % n \in 0..(n - 1) /\ a = (a \div n) * n + (a % n)
BY Z3

\* Multiples of different numbers are apart.
LEMMA Multiples ==
  ASSUME NEW p \in Int, NEW q \in Int, NEW n \in Nat \ {0}, p < q
  PROVE  p * n + n <= q * n
<1>1. PICK k \in Nat : q = p + 1 + k
  <2>1. q - p - 1 \in Nat /\ q = p + 1 + (q - p - 1)
    OBVIOUS
  <2> QED BY <2>1
<1>2. k * n >= 0
  OBVIOUS
<1>3. q * n = p * n + n + k * n
  BY <1>1
<1> QED BY <1>2, <1>3

\* They are nothing else.
LEMMA ModIs ==
  ASSUME NEW n \in Nat \ {0}, NEW q \in Int, NEW r \in 0..(n - 1)
  PROVE  (q * n + r) % n = r /\ (q * n + r) \div n = q
<1>1. PICK a \in Int : a = q * n + r
  OBVIOUS
<1>2. PICK p \in Int, s \in 0..(n - 1) : a = p * n + s /\ s = a % n /\ p = a \div n
  BY DivMod
<1>3. ~(p < q) /\ ~(q < p)
  <2>1. CASE p < q
    BY <1>1, <1>2, <2>1, Multiples
  <2>2. CASE q < p
    BY <1>1, <1>2, <2>2, Multiples
  <2> QED BY <2>1, <2>2
<1>4. p = q
  BY <1>3
<1> QED BY <1>1, <1>2, <1>4

\* An instant and the next of its kind, ...
LEMMA ModShift ==
  ASSUME NEW a \in Int, NEW n \in Nat \ {0}
  PROVE  (a + n) % n = a % n
<1>1. PICK q \in Int, r \in 0..(n - 1) : a = q * n + r /\ r = a % n
  BY DivMod
<1>2. a + n = (q + 1) * n + r
  BY <1>1
<1>3. ((q + 1) * n + r) % n = r
  BY ModIs
<1> QED BY <1>1, <1>2, <1>3

\* ... between which there is none.
LEMMA ModApart ==
  ASSUME NEW a \in Int, NEW b \in Int, NEW n \in Nat \ {0}, a % n = b % n, a < b
  PROVE  a + n <= b
<1>1. PICK p \in Int, r \in 0..(n - 1) : a = p * n + r /\ r = a % n
  BY DivMod
<1>2. PICK q \in Int, s \in 0..(n - 1) : b = q * n + s /\ s = b % n
  BY DivMod
<1>3. r = s /\ p * n < q * n
  BY <1>1, <1>2
<1>4. p < q
  <2>1. CASE q < p
    BY <1>3, <2>1, Multiples
  <2>2. CASE q = p
    BY <1>3, <2>2
  <2> QED BY <2>1, <2>2
<1>5. p * n + n <= q * n
  BY <1>4, Multiples
<1> QED BY <1>1, <1>2, <1>3, <1>5

\* Where a day begins.
LEMMA Days ==
  ASSUME NEW t \in Int
  PROVE  /\ Today(t) \in Int /\ Today(t) <= t /\ t < Today(t) + Day
         /\ \A s \in 0..(Day - 1) : (Today(t) + s) % Day = s
<1>1. Day \in Nat \ {0}
  BY TimersAssumption
<1>2. PICK q \in Int, r \in 0..(Day - 1) : t = q * Day + r /\ q = t \div Day
  BY <1>1, DivMod
<1>3. \A s \in 0..(Day - 1) : (q * Day + s) % Day = s
  BY <1>1, ModIs
<1>4. Today(t) = q * Day
  BY <1>2 DEF Today
<1> QED BY <1>1, <1>2, <1>3, <1>4

\* The next time point is one, and none lies between.
LEMMA NextPoint ==
  ASSUME NEW start \in 0..(Day - 1), NEW t \in Int
  PROVE  LET e == epoch_of_next_time(start, t)
         IN  /\ e \in Int /\ e >= t /\ e % Day = start
             /\ \A d \in Int : d % Day = start /\ d < e => d < t
<1>1. Day \in Nat \ {0}
  BY TimersAssumption
<1>2. PICK b \in Int : b = Today(t) /\ b <= t /\ t < b + Day /\ (b + start) % Day = start
  BY Days
<1>3. b + start \in Int /\ (b + start + Day) % Day = start
  <2>1. PICK a \in Int : a = b + start
    OBVIOUS
  <2>2. (a + Day) % Day = a % Day /\ a % Day = start
    BY <1>1, <1>2, <2>1, ModShift
  <2> QED BY <2>1, <2>2
<1>4. PICK e : e = epoch_of_next_time(start, t)
  OBVIOUS
<1>5. e = IF b + start < t THEN b + start + Day ELSE b + start
  BY <1>2, <1>4 DEF epoch_of_next_time
<1>6. e \in Int /\ e >= t /\ e % Day = start
  BY <1>1, <1>2, <1>3, <1>5
<1>7. ASSUME NEW d \in Int, d % Day = start, d < e PROVE d < t
  <2>1. d + Day <= e
    BY <1>1, <1>6, <1>7, ModApart
  <2> QED BY <1>1, <1>2, <1>5, <2>1
<1> QED BY <1>4, <1>6, <1>7

\* The sun's next time is one, and none lies between if local time is not ahead.
LEMMA NextSun ==
  ASSUME NEW v \in Versions, NEW t \in Int, Dark = {}, Zone >= -Day
  PROVE  LET e == calculate_sunrise_sunset_epoch(v, t)
             s == (Says[v].sun + Zone) % Day
         IN  /\ e \in Int /\ e >= t /\ e % Day = s
             /\ Zone <= 0 => \A d \in Int : d % Day = s /\ d < e => d < t
<1>1. Day \in Nat \ {0} /\ Zone \in Int /\ Says[v].sun \in 0..(Day - 1) /\ LastNow \in Nat
  BY TimersAssumption
<1>2. PICK b \in Int : b = Today(t) /\ b <= t /\ t < b + Day /\ b = (t \div Day) * Day
  BY Days DEF Today
<1>3. PICK m \in Int : m = Says[v].sun + Zone
  BY <1>1
<1>4. PICK s \in 0..(Day - 1) : s = m % Day
  BY <1>1, DivMod
<1>5. PICK f \in Int : f = b + Says[v].sun + Zone /\ f = b + m
  BY <1>1, <1>2, <1>3
<1>6. f % Day = s
  <2>1. PICK q \in Int : q = t \div Day /\ b = q * Day
    BY <1>1, <1>2, DivMod
  <2>2. PICK p \in Int : m = p * Day + s
    BY <1>1, <1>4, DivMod
  <2>3. PICK x \in Int : x = q + p /\ x * Day = q * Day + p * Day
    BY <1>1
  <2>4. f = x * Day + s
    <3>1. PICK qd \in Int, pd \in Int : qd = q * Day /\ pd = p * Day
      BY <1>1
    <3>2. f = qd + (pd + s) /\ x * Day = qd + pd
      BY <1>5, <2>1, <2>2, <2>3, <3>1
    <3> QED BY <3>1, <3>2
  <2>5. (x * Day + s) % Day = s
    BY <1>1, ModIs
  <2> QED BY <2>4, <2>5
<1>7. ASSUME NEW x \in Int, x % Day = s, NEW y, y = x + Day PROVE y \in Int /\ y % Day = s
  <2>1. (x + Day) % Day = x % Day
    BY <1>1, ModShift
  <2> QED BY <1>1, <1>7, <2>1
<1>8. LastNow \div Day \in Nat
  <2>1. PICK q \in Int, r \in 0..(Day - 1) : LastNow = q * Day + r /\ q = LastNow \div Day
    BY <1>1, DivMod
  <2>2. CASE q < 0
    <3>1. q * Day + Day <= 0 * Day
      BY <1>1, <2>2, Multiples
    <3> QED BY <1>1, <2>1, <3>1
  <2> QED BY <2>1, <2>2
<1>9. PICK K : K \in Nat /\ K >= 2 /\ K = LastNow \div Day + 2
  BY <1>8
<1>10. PICK ahead : ahead = {f + k * Day : k \in 0..K} \cap {e \in Int : e >= t}
  OBVIOUS
<1>11. PICK c \in Int : c = IF f >= t THEN f ELSE IF f + Day >= t THEN f + Day ELSE f + 2 * Day
  BY <1>1
<1>12. f >= b - Day /\ (Zone <= 0 => f < b + Day)
  BY <1>1, <1>2, <1>5
<1>13. c \in ahead
  <2>1. c = f + 0 * Day \/ c = f + 1 * Day \/ c = f + 2 * Day
    BY <1>1, <1>11
  <2>2. c >= t
    BY <1>1, <1>2, <1>11, <1>12
  <2>3. 0 \in 0..K /\ 1 \in 0..K /\ 2 \in 0..K
    BY <1>9
  <2> QED BY <1>10, <2>1, <2>2, <2>3
<1>14. ASSUME NEW g \in ahead PROVE c <= g
  <2>1. PICK k \in 0..K : g = f + k * Day /\ g >= t
    BY <1>10
  <2>2. k = 0 \/ k = 1 \/ 1 < k
    BY <1>9
  <2>3. CASE k = 0
    BY <1>1, <1>11, <2>1, <2>3
  <2>4. CASE k = 1
    BY <1>1, <1>11, <2>1, <2>4
  <2>5. CASE 1 < k
    <3>1. 1 * Day + Day <= k * Day
      BY <1>1, <1>9, <2>5, Multiples
    <3> QED BY <1>1, <1>9, <1>11, <2>1, <3>1
  <2> QED BY <2>2, <2>3, <2>4, <2>5
<1>15. ahead \subseteq Int
  BY <1>10
<1>16. c = CHOOSE e \in ahead : \A g \in ahead : e <= g
  <2>1. PICK h : h = CHOOSE e \in ahead : \A g \in ahead : e <= g
    OBVIOUS
  <2>2. h \in ahead /\ \A g \in ahead : h <= g
    BY <1>13, <1>14, <2>1
  <2>3. h <= c /\ c <= h /\ h \in Int
    BY <1>13, <1>14, <1>15, <2>2
  <2> QED BY <2>1, <2>3
<1>17. calculate_sunrise_sunset_epoch(v, t) = c
  <2>1. b + Says[v].sun + Zone = f
    BY <1>5
  <2>2. calc_sun_time(v, t) = CHOOSE e \in ahead : \A g \in ahead : e <= g
    BY <1>2, <1>9, <1>10, <2>1 DEF calc_sun_time
  <2> QED BY <1>16, <2>2 DEF calculate_sunrise_sunset_epoch
<1>18. c % Day = s
  <2>1. PICK h, j : h = f + Day /\ j = h + Day
    OBVIOUS
  <2>2. h \in Int /\ h % Day = s
    BY <1>6, <1>7, <2>1
  <2>3. j % Day = s
    BY <1>7, <2>1, <2>2
  <2>4. c = f \/ c = h \/ c = j
    BY <1>1, <1>11, <2>1
  <2> QED BY <1>6, <2>2, <2>3, <2>4
<1>19. ASSUME Zone <= 0, NEW d \in Int, d % Day = s, d < c PROVE d < t
  <2>1. d + Day <= c
    BY <1>1, <1>18, <1>19, ModApart
  <2> QED BY <1>1, <1>2, <1>11, <1>12, <1>19, <2>1
<1>20. c >= t
  BY <1>10, <1>13
<1> QED BY <1>3, <1>4, <1>17, <1>18, <1>19, <1>20

\* Of a period, too, what comes next is one of its instants, and none lies between.
LEMMA NextOfPeriod ==
  ASSUME NEW b \in Int, NEW x \in Int, NEW n \in Nat \ {0}, (x - b) % n = 0
  PROVE  /\ (x + n - b) % n = 0
         /\ \A d \in Int : (d - b) % n = 0 /\ d < x + n => d <= x
<1>1. PICK a \in Int : a = x - b
  OBVIOUS
<1>2. (a + n) % n = 0 /\ x + n - b = a + n
  <2>1. a % n = 0
    BY <1>1
  <2>2. (a + n) % n = a % n
    BY ModShift
  <2>3. x + n - b = a + n
    BY <1>1
  <2> QED BY <2>1, <2>2, <2>3
<1>3. ASSUME NEW d \in Int, (d - b) % n = 0, d < x + n PROVE d <= x
  <2>1. PICK c \in Int : c = d - b
    OBVIOUS
  <2>2. CASE a < c
    <3>1. a + n <= c
      BY <1>1, <1>3, <2>1, <2>2, ModApart
    <3> QED BY <1>1, <1>3, <2>1, <3>1
  <2> QED BY <1>1, <2>1, <2>2
<1> QED BY <1>2, <1>3

\* What a row says, with the timers set.
LEMMA SaysTyped ==
  ASSUME TimersAreSet, NEW v \in Versions
  PROVE  /\ Says[v].period \in Nat \ {0} /\ Says[v].offset \in Nat
         /\ Says[v].start \in 0..(Day - 1) /\ Says[v].end \in 0..(Day - 1)
         /\ Says[v].sun \in 0..(Day - 1)
<1>1. Says[v] \in [period : Int, offset : Nat, start : 0..(Day - 1), end : 0..(Day - 1),
                   sun : 0..(Day - 1)]
  BY TimersAssumption
<1>2. Says[v].period > 0
  BY DEF TimersAreSet
<1> QED BY <1>1, <1>2

\* The kinds there are.
LEMMA KindsAre ==
  ASSUME trigger_type \in Kinds
  PROVE  trigger_type \in {"point", "span", "duration", "sun", "conditional"}
BY TimersAssumption

\* Timers of time points and of the sun are looked up.
LEMMA LookedUp ==
  ASSUME TimersAreSet, trigger_type \in Kinds, NEW v \in Versions, NEW o, NEW t \in Int, NEW e,
         \/ trigger_type = "point" /\ e = epoch_of_next_time(Says[v].start, t)
         \/ trigger_type = "sun" /\ e = calculate_sunrise_sunset_epoch(v, t)
  PROVE  /\ e \in Int /\ e >= t /\ OnGrid(v, o, e)
         /\ (trigger_type = "sun" => Zone <= 0) =>
              \A d \in Int : OnGrid(v, o, d) /\ d < e => d < t
<1>1. CASE trigger_type = "point"
  <2>1. PICK s : s = Says[v].start /\ s \in 0..(Day - 1)
    BY SaysTyped
  <2>2. e = epoch_of_next_time(s, t)
    BY <1>1, <2>1
  <2>3. /\ e \in Int /\ e >= t /\ e % Day = s
        /\ \A d \in Int : d % Day = s /\ d < e => d < t
    BY <2>1, <2>2, NextPoint
  <2>4. \A d : OnGrid(v, o, d) <=> d % Day = s
    BY <1>1, <2>1 DEF OnGrid
  <2> QED BY <2>3, <2>4
<1>2. CASE trigger_type = "sun"
  <2>1. Dark = {} /\ Zone >= -Day
    BY <1>2 DEF TimersAreSet
  <2>2. PICK s : s = (Says[v].sun + Zone) % Day
    OBVIOUS
  <2>3. e = calculate_sunrise_sunset_epoch(v, t)
    BY <1>2
  <2>4. /\ e \in Int /\ e >= t /\ e % Day = s
        /\ Zone <= 0 => \A d \in Int : d % Day = s /\ d < e => d < t
    BY <2>1, <2>2, <2>3, NextSun
  <2>5. \A d : OnGrid(v, o, d) <=> d % Day = s
    BY <1>2, <2>1, <2>2 DEF OnGrid
  <2> QED BY <1>2, <2>4, <2>5
<1> QED BY <1>1, <1>2

\* The others are set forward by their period.
LEMMA SetForward ==
  ASSUME TimersAreSet, trigger_type \in {"span", "duration", "conditional"}, NEW v \in Versions,
         NEW o \in Int, NEW x \in Int, OnGrid(v, o, x), NEW e, e = x + Says[v].period
  PROVE  /\ e \in Int /\ e > x /\ OnGrid(v, o, e)
         /\ \A d \in Int : OnGrid(v, o, d) /\ d < e => d <= x
<1>1. PICK n, s : n = Says[v].period /\ n \in Nat \ {0} /\ s = Says[v].offset /\ s \in Nat
  BY SaysTyped
<1>2. CASE trigger_type = "span"
  <2>1. \A d : OnGrid(v, o, d) <=> (d - o) % n = 0
    BY <1>1, <1>2 DEF OnGrid
  <2>2. (x + n - o) % n = 0 /\ \A d \in Int : (d - o) % n = 0 /\ d < x + n => d <= x
    BY <1>1, <2>1, NextOfPeriod
  <2> QED BY <1>1, <2>1, <2>2
<1>3. CASE trigger_type # "span"
  <2>1. PICK b \in Int : b = o + s
    BY <1>1
  <2>2. \A d : OnGrid(v, o, d) <=> d >= o + s /\ (d - o - s) % n = 0
    BY <1>1, <1>3 DEF OnGrid
  <2>3. \A d \in Int : OnGrid(v, o, d) <=> d >= b /\ (d - b) % n = 0
    <3>1. \A d \in Int : d - o - s = d - b
      BY <1>1, <2>1
    <3> QED BY <2>1, <2>2, <3>1
  <2>4. (x + n - b) % n = 0 /\ \A d \in Int : (d - b) % n = 0 /\ d < x + n => d <= x
    BY <1>1, <2>3, NextOfPeriod
  <2>5. x + n \in Int /\ x + n >= b
    BY <1>1, <2>1, <2>3
  <2> QED BY <1>1, <2>3, <2>4, <2>5
<1> QED BY <1>2, <1>3

\* At first, and when a row is taken over.
LEMMA SetAnew ==
  ASSUME TimersAreSet, trigger_type \in Kinds, NEW v \in Versions, NEW t \in Int,
         NEW e, e = FirstTimer(v, t)
  PROVE  /\ e \in Int /\ e >= t /\ OnGrid(v, t, e)
         /\ (trigger_type = "sun" => Zone <= 0) => \A d \in Int : OnGrid(v, t, d) /\ d < e => d < t
<1>1. CASE trigger_type = "point"
  <2>1. e = epoch_of_next_time(Says[v].start, t)
    BY <1>1 DEF FirstTimer
  <2> QED BY <1>1, <2>1, LookedUp
<1>2. CASE trigger_type = "sun"
  <2>1. e = calculate_sunrise_sunset_epoch(v, t)
    BY <1>2 DEF FirstTimer
  <2> QED BY <1>2, <2>1, LookedUp
<1>3. PICK n, s : n = Says[v].period /\ n \in Nat \ {0} /\ s = Says[v].offset /\ s \in Nat
  BY SaysTyped
<1>4. 0 % n = 0
  <2>1. (0 * n + 0) % n = 0
    BY <1>3, ModIs
  <2> QED BY <1>3, <2>1
<1>5. CASE trigger_type = "span"
  <2>1. e = t
    BY <1>5 DEF FirstTimer
  <2>2. e - t = 0
    BY <2>1
  <2>3. OnGrid(v, t, e)
    BY <1>3, <1>4, <1>5, <2>2 DEF OnGrid
  <2> QED BY <2>1, <2>3
<1>6. CASE trigger_type \in {"duration", "conditional"}
  <2>1. e = t + s
    BY <1>3, <1>6 DEF FirstTimer
  <2>2. e - t - s = 0 /\ e >= t + s
    BY <1>3, <2>1
  <2>3. OnGrid(v, t, e)
    BY <1>3, <1>4, <1>6, <2>2 DEF OnGrid
  <2>4. \A d : OnGrid(v, t, d) => d >= t + s
    BY <1>3, <1>6 DEF OnGrid
  <2> QED BY <1>3, <2>1, <2>3, <2>4
<1> QED BY <1>1, <1>2, <1>5, <1>6, KindsAre

(***************************************************************************)
(* The handshake with the turns taken apart                                *)
(***************************************************************************)
\* Every step with timers is a step of the handshake, or leaves its variables.
LEMMA TimedIsRefresh == [TimedNext]_timedVars => [Next]_vars
<1> SUFFICES ASSUME [TimedNext]_timedVars PROVE [Next]_vars
  OBVIOUS
<1>1. CASE UNCHANGED timedVars
  BY <1>1 DEF timedVars
<1>2. ASSUME NEW r \in Pages, TimedPage(r) PROVE [Next]_vars
  BY <1>2 DEF TimedPage, Next, RequestStep
<1>3. CASE TimedLoop
  BY <1>3 DEF TimedLoop, Look, NextTimePoint, CatchUp, Raise, Check, Next, LoopStep
<1>4. CASE Tick
  BY <1>4 DEF Tick
<1> QED BY <1>1, <1>2, <1>3, <1>4 DEF TimedNext

\* What the handshake keeps holds with timers.
LEMMA HandInvInit == Init => HandInv
BY TypeInit, HandshakeInit DEF HandInv, IInv, Init, InHand, UpToDate, At

\* Every step keeps it.
LEMMA HandInvStep ==
  ASSUME Spaced, HandInv, [TimedNext]_timedVars
  PROVE  HandInv'
<1>1. [Next]_vars
  BY TimedIsRefresh
<1>2. IInv'
  BY <1>1, TypeStep, HandshakeStep DEF HandInv, IInv
<1>3. InHand' /\ UpToDate'
  BY <1>1, InHandStep DEF HandInv, IInv
<1> QED BY <1>2, <1>3 DEF HandInv

(***************************************************************************)
(* The turns                                                               *)
(***************************************************************************)
\* The attributes used are ones of a row, and of the row if it was taken over.
LEMMA AttributesAre ==
  ASSUME TypeOK
  PROVE  /\ Attributes \subseteq Versions
         /\ settings = saved => Attributes = {settings}
BY RefreshAssumption DEF TypeOK, Attributes

\* The timer is a number or none.
LEMMA TimerStays ==
  ASSUME TimersAreSet, TypeOK, TurnInv, [TimedNext]_timedVars
  PROVE  timer_period' \in Int \cup {None}
<1> DEFINE Typed == timer_period' \in Int \cup {None}
<1>1. trigger_type \in Kinds /\ now \in Int /\ timer_period \in Int \cup {None}
  BY DEF TurnInv
<1>2. CASE UNCHANGED timer_period
  BY <1>1, <1>2
<1>3. ASSUME NEW r \in Pages, TimedPage(r) PROVE Typed
  <2>1. timer_period' \in {timer_period, None} \/ timer_period' = FirstTimer(op[r].read, now)
    BY <1>3 DEF TimedPage, timerVars
  <2>2. PICK v \in Versions : v = op[r].read
    BY DEF TypeOK, Ops
  <2>3. ASSUME NEW e, e = FirstTimer(v, now) PROVE e \in Int
    BY <1>1, <2>3, SetAnew
  <2> QED BY <1>1, <2>1, <2>2, <2>3
<1>4. CASE NextTimePoint
  <2>1. PICK v \in Versions : timer_period' = epoch_of_next_time(Says[v].start, now)
    BY <1>4, AttributesAre DEF NextTimePoint
  <2>2. timer_period' \in Int
    BY <1>1, <1>4, <2>1, LookedUp DEF NextTimePoint
  <2> QED BY <2>2
<1>5. CASE CatchUp
  <2>1. CASE StillPast /\ trigger_type = "sun"
    <3>1. PICK v \in Versions : timer_period' = calculate_sunrise_sunset_epoch(v, now)
      BY <1>5, <2>1, AttributesAre DEF CatchUp
    <3> QED BY <1>1, <2>1, <3>1, LookedUp
  <2>2. CASE StillPast /\ trigger_type # "sun"
    <3>1. PICK v \in Versions : timer_period' = timer_period + Says[v].period
      BY <1>5, <2>2, AttributesAre DEF CatchUp, Advanced
    <3>2. timer_period \in Int
      BY <1>1, <2>2 DEF StillPast, Due
    <3>3. Says[v].period \in Int
      BY SaysTyped
    <3> QED BY <3>1, <3>2, <3>3
  <2> QED BY <1>2, <1>5, <2>1, <2>2 DEF CatchUp
<1>6. CASE Check
  <2>1. CASE trigger_type = "sun" /\ Device
    <3>1. timer_period' = calculate_sunrise_sunset_epoch(saved, now) /\ saved \in Versions
      BY <1>6, <2>1 DEF Check, TypeOK
    <3> QED BY <1>1, <2>1, <3>1, LookedUp
  <2> QED BY <1>2, <1>6, <2>1 DEF Check
<1>7. CASE TimedLoop
  BY <1>2, <1>4, <1>5, <1>6, <1>7 DEF TimedLoop, timerVars, Look, Raise
<1> QED BY <1>2, <1>3, <1>7 DEF TimedNext, Tick, timedVars, timerVars

\* What a turn remembers holds after each step.
LEMMA TurnInvStep ==
  ASSUME TimersAreSet, TypeOK, TurnInv, [TimedNext]_timedVars
  PROVE  TurnInv'
<1>0. LastNow \in Nat /\ now \in 0..LastNow
  BY TimersAssumption DEF TurnInv
<1>1. timer_period' \in Int \cup {None}
  BY TimerStays
<1>2. CASE UNCHANGED timedVars
  BY <1>2 DEF TurnInv, timedVars, timerVars, vars, history
<1>3. ASSUME NEW r \in Pages, TimedPage(r), UNCHANGED now PROVE TurnInv'
  <2>1. UNCHANGED <<trigger_type, now, turn, looked, found, last, loop>>
    BY <1>3 DEF TimedPage, timerVars, history, SaveSettings, SaveInactive, SignalPause, Resume, Reset,
                StopController, Join, BeginInitialize, EndInitialize
  <2>2. origin' \in {origin, now}
    BY <1>3 DEF TimedPage, timerVars, history
  <2> QED BY <1>0, <1>1, <2>1, <2>2 DEF TurnInv
<1>4. CASE Tick
  <2>1. now' = now + 1 /\ now' \in 0..LastNow /\ UNCHANGED <<vars, timerVars>>
    BY <1>0, <1>4 DEF Tick
  <2>2. 0..now \subseteq 0..now'
    BY <1>0, <2>1
  <2>3. UNCHANGED <<trigger_type, timer_period, turn, origin, looked, found, last, loop>>
    BY <2>1 DEF vars, timerVars, history
  <2> QED BY <2>1, <2>2, <2>3 DEF TurnInv
<1>5. CASE (TopOfLoop \/ VerifyPause \/ Paused) /\ UNCHANGED timerVars /\ UNCHANGED now
  BY <1>5 DEF TurnInv, timerVars, history, TopOfLoop, VerifyPause, Paused
<1>6. CASE WakeUp /\ looked' = 0 /\ UNCHANGED <<trigger_type, timer_period, turn, origin, found, last>>
             /\ UNCHANGED now
  BY <1>0, <1>6 DEF TurnInv, WakeUp
<1>7. CASE Look /\ UNCHANGED now
  BY <1>0, <1>1, <1>7 DEF TurnInv, Look, vars, Act
<1>8. CASE (NextTimePoint \/ CatchUp) /\ UNCHANGED now
  BY <1>0, <1>1, <1>8 DEF TurnInv, NextTimePoint, CatchUp, vars, history
<1>9. CASE Raise /\ UNCHANGED now
  BY <1>0, <1>1, <1>9 DEF TurnInv, Raise, Act, history
<1>10. CASE Check /\ UNCHANGED now
  <2>1. last'.at = now /\ last'.acted \in BOOLEAN
    BY <1>10 DEF Check
  <2> QED BY <1>0, <1>1, <1>10, <2>1 DEF TurnInv, Check, Act
<1> QED BY <1>2, <1>3, <1>4, <1>5, <1>6, <1>7, <1>8, <1>9, <1>10 DEF TimedNext, TimedLoop

\* It holds initially.
LEMMA TurnInvInit ==
  ASSUME TimersAreSet
  PROVE  TimedInit => TurnInv
<1> SUFFICES ASSUME TimedInit PROVE TurnInv
  OBVIOUS
<1>1. Day \in Nat \ {0} /\ LastNow \in Nat /\ now \in Day..(2 * Day - 1) /\ 2 * Day <= LastNow + 1
  BY TimersAssumption DEF TimedInit, TimersAreSet
<1>2. timer_period \in Int
  <2>1. Initial \in Versions /\ trigger_type \in Kinds /\ now \in Int
    BY <1>1, RefreshAssumption DEF TimedInit
  <2> QED BY <2>1, SetAnew DEF TimedInit
<1> QED BY <1>1, <1>2 DEF TimedInit, TurnInv

\* A controller that is told to end stays awaited until it has ended.
LEMMA EndsSoonStep ==
  ASSUME HandInv, EndsSoon, [Next]_vars
  PROVE  EndsSoon'
<1>0. TypeOK /\ OneAtATime /\ InHand
  BY DEF HandInv, IInv
<1>1. ASSUME UNCHANGED <<is_activated, running, pc>>, loop = "ended" => loop' = "ended" PROVE EndsSoon'
  BY <1>1 DEF EndsSoon, At
<1>2. CASE UNCHANGED vars
  BY <1>1, <1>2 DEF vars, dbVars
<1>3. ASSUME NEW r \in Pages, SaveSettings(r) PROVE EndsSoon'
  <2>1. UNCHANGED <<is_activated, running, loop>> /\ At(r, "idle")
        /\ \A q \in Pages : q # r => pc'[q] = pc[q]
    BY <1>0, <1>3 DEF SaveSettings, Goto, TypeOK
  <2> QED BY <2>1 DEF EndsSoon, At
<1>4. ASSUME NEW r \in Pages, SaveInactive(r) PROVE EndsSoon'
  <2>1. is_activated /\ pc'[r] = "stop" /\ UNCHANGED running
    BY <1>0, <1>4 DEF SaveInactive, Goto, TypeOK
  <2>2. running
    BY <2>1 DEF EndsSoon
  <2> QED BY <2>1, <2>2 DEF EndsSoon
<1>5. ASSUME NEW r \in Pages, StopController(r) PROVE EndsSoon'
  <2>1. /\ pc[r] = "stop" /\ pc'[r] = (IF running THEN "join" ELSE "idle") /\ UNCHANGED <<is_activated, loop>>
    BY <1>0, <1>5 DEF StopController, Goto, At, TypeOK, dbVars
  <2>2. ~is_activated
    BY <1>0, <2>1 DEF InHand
  <2>3. CASE running
    BY <2>1, <2>2, <2>3 DEF EndsSoon, At
  <2>4. CASE ~running
    <3>1. loop = "ended"
      BY <1>0, <2>1, <2>4 DEF EndsSoon, OneAtATime, At
    <3> QED BY <2>1, <2>2, <3>1 DEF EndsSoon
  <2> QED BY <2>3, <2>4
<1>6. ASSUME NEW r \in Pages,
             SignalPause(r) \/ BeginInitialize(r) \/ EndInitialize(r) \/ Resume(r) \/ Reset(r)
      PROVE  EndsSoon'
  <2>1. /\ UNCHANGED <<is_activated, running, loop>> /\ pc[r] \notin {"stop", "join"}
        /\ \A q \in Pages : q # r => pc'[q] = pc[q]
    BY <1>0, <1>6 DEF SignalPause, BeginInitialize, EndInitialize, Resume, Reset, Goto, At, TypeOK, dbVars
  <2> QED BY <2>1 DEF EndsSoon, At
<1>7. ASSUME NEW r \in Pages, Join(r) PROVE EndsSoon'
  BY <1>7 DEF Join, EndsSoon, dbVars
<1>8. CASE LoopStep
  <2>1. UNCHANGED <<is_activated, running, pc>> /\ loop # "ended"
    BY <1>8 DEF LoopStep, TopOfLoop, VerifyPause, Paused, Act, WakeUp, dbVars
  <2> QED BY <1>1, <2>1
<1> QED BY <1>2, <1>3, <1>4, <1>5, <1>6, <1>7, <1>8 DEF Next, RequestStep

\* A page that saved settings stays at work until they are taken over.
LEMMA TakenOverStep ==
  ASSUME Spaced, HandInv, EndsSoon, TakenOver, [Next]_vars
  PROVE  TakenOver'
<1>0. TypeOK /\ OneAtATime /\ InHand /\ Changing \notin Versions
  BY RefreshAssumption DEF HandInv, IInv
<1>1. ASSUME UNCHANGED <<saved, settings, pc>>, loop = "ended" => loop' = "ended" PROVE TakenOver'
  BY <1>1 DEF TakenOver, At
<1>2. CASE UNCHANGED vars
  BY <1>1, <1>2 DEF vars, dbVars
<1>3. ASSUME NEW r \in Pages, SaveSettings(r) PROVE TakenOver'
  <2>1. /\ UNCHANGED <<is_activated, settings, loop>>
        /\ \A q \in Pages : pc[q] = "idle" /\ pc'[q] \in {"idle", "refresh"}
        /\ is_activated => pc'[r] = "refresh"
    BY <1>0, <1>3 DEF SaveSettings, MayBegin, Goto, At, TypeOK
  <2>2. ~is_activated => loop = "ended"
    BY <2>1 DEF EndsSoon
  <2> QED BY <2>1, <2>2 DEF TakenOver, At
<1>4. ASSUME NEW r \in Pages, SaveInactive(r) PROVE TakenOver'
  <2>1. UNCHANGED <<saved, settings, loop>>
        /\ \A q \in Pages : pc[q] = "idle" /\ pc'[q] \in {"idle", "stop"}
    BY <1>0, <1>4 DEF SaveInactive, MayBegin, Goto, At, TypeOK
  <2> QED BY <2>1 DEF TakenOver, At
<1>5. ASSUME NEW r \in Pages, RequestStep(r) PROVE TakenOver'
  <2>1. /\ UNCHANGED <<saved, loop>> /\ pc[r] # "idle"
        /\ \A q \in Pages : q # r => pc'[q] = pc[q] /\ pc[q] = "idle"
    BY <1>0, <1>5 DEF RequestStep, SignalPause, BeginInitialize, EndInitialize, Resume, Reset,
                      StopController, Join, Goto, At, TypeOK, dbVars, OneAtATime
  <2>2. CASE SignalPause(r)
    <3>1. pc'[r] = "wait" /\ pc[r] = "refresh" /\ UNCHANGED settings
      BY <1>0, <2>2 DEF SignalPause, Goto, At, TypeOK
    <3> QED BY <2>1, <3>1 DEF TakenOver, At
  <2>3. CASE BeginInitialize(r)
    <3>1. pc'[r] = "initialize" /\ settings' = Changing
      BY <1>0, <2>3 DEF BeginInitialize, Goto, At, TypeOK
    <3> QED BY <2>1, <3>1 DEF TakenOver, At
  <2>4. CASE EndInitialize(r)
    <3>1. /\ pc[r] = "initialize" /\ op[r].read = saved
          /\ \/ pc'[r] = "idle" /\ UNCHANGED settings
             \/ pc'[r] = "resume" /\ settings' = saved
      BY <1>0, <2>4 DEF EndInitialize, Goto, At, TypeOK, InHand
    <3>2. settings = Changing
      BY <3>1 DEF TakenOver, At
    <3> QED BY <2>1, <3>1, <3>2 DEF TakenOver, At
  <2>5. CASE Resume(r) \/ Reset(r)
    <3>1. pc[r] \in {"resume", "reset"} /\ pc'[r] \in {"reset", "idle"} /\ UNCHANGED settings
      BY <1>0, <2>5 DEF Resume, Reset, Goto, At, TypeOK
    <3>2. settings = saved
      BY <1>0, <3>1 DEF InHand
    <3> QED BY <2>1, <3>1, <3>2 DEF TakenOver, At
  <2>6. CASE StopController(r) \/ Join(r)
    <3>1. pc[r] \in {"stop", "join"} /\ pc'[r] \in {"join", "idle"} /\ UNCHANGED settings
      BY <1>0, <2>6 DEF StopController, Join, Goto, At, TypeOK
    <3> QED BY <2>1, <3>1 DEF TakenOver, At
  <2> QED BY <1>5, <2>2, <2>3, <2>4, <2>5, <2>6 DEF RequestStep
<1>6. CASE LoopStep
  <2>1. UNCHANGED <<saved, settings, pc>> /\ loop # "ended"
    BY <1>6 DEF LoopStep, TopOfLoop, VerifyPause, Paused, Act, WakeUp, dbVars
  <2> QED BY <1>1, <2>1
<1> QED BY <1>2, <1>3, <1>4, <1>5, <1>6 DEF Next

(***************************************************************************)
(* What is due                                                             *)
(***************************************************************************)
\* There is a device for a Trigger to act on, and a sun's time is of the local day
\* or of the one before.
ActionsRun ==
  /\ Device \/ Kinds \subseteq {"conditional"}
  /\ "sun" \in Kinds => Zone <= 0

\* The instants at which Actions are due are those of the row since it was taken over.
LEMMA DuesAre ==
  ASSUME NEW v, NEW d
  PROVE  d \in Dues(v) <=> d \in origin..LastNow /\ OnGrid(v, origin, d)
BY DEF Dues, OnGrid

\* What the invariant says of the timer.
LEMMA TimerIs ==
  ASSUME TimerInv, Settled
  PROVE  /\ timer_period \in Int /\ OnGrid(settings, origin, timer_period) /\ origin <= timer_period
         /\ turn = "look" /\ loop \in {"verify", "paused", "acting"} => found <= timer_period
         /\ turn \in {"look", "check"} /\ running => found <= timer_period
BY DEF TimerInv

\* A page leaves the timer as it was set, or sets it anew with the settings it takes over.
LEMMA TimerOfPage ==
  ASSUME TimersAreSet, HandInv, TurnInv, EndsSoon, TakenOver, TimerInv,
         NEW r \in Pages, TimedPage(r), UNCHANGED now
  PROVE  TimerInv' /\ (ActionsRun /\ CoveredInv => CoveredInv')
<1>0. TypeOK /\ OneAtATime /\ InHand /\ Changing \notin Versions /\ Spaced /\ saved \in Versions
  BY RefreshAssumption DEF HandInv, IInv, TypeOK, TimersAreSet
<1>1. UNCHANGED <<trigger_type, now, turn, looked, found, last, loop>>
  BY DEF TimedPage, timerVars, history, SaveSettings, SaveInactive, SignalPause, Resume, Reset,
         StopController, Join, BeginInitialize, EndInitialize
<1>2. ASSUME UNCHANGED <<timer_period, origin, settings>>, Settled' => Settled, running' => running
      PROVE  TimerInv' /\ (ActionsRun /\ CoveredInv => CoveredInv')
  <2>1. \A v, d : OnGrid(v, origin, d)' <=> OnGrid(v, origin, d)
    BY <1>1, <1>2 DEF OnGrid
  <2>2. TimerInv'
    BY <1>1, <1>2, <2>1, TimerIs DEF TimerInv
  <2>3. CoveredInv => CoveredInv'
    BY <1>1, <1>2 DEF CoveredInv, Acted, Dues
  <2> QED BY <2>2, <2>3
<1>3. CASE SaveSettings(r) /\ UNCHANGED timerVars
  <2>1. /\ UNCHANGED <<settings, running, timer_period, origin>>
        /\ \A q \in Pages : pc[q] = "idle"
        /\ saved' \in Versions
    BY <1>0, <1>3 DEF SaveSettings, MayBegin, At, timerVars, history
  <2>2. Settled' => Settled
    BY <1>0, <1>1, <2>1 DEF Settled, TakenOver
  <2> QED BY <1>2, <2>1, <2>2
<1>4. CASE SaveInactive(r) /\ UNCHANGED timerVars
  <2>1. UNCHANGED <<settings, saved, running, timer_period, origin>>
    BY <1>4 DEF SaveInactive, timerVars, history
  <2> QED BY <1>1, <1>2, <2>1 DEF Settled
<1>5. CASE (SignalPause(r) \/ Resume(r) \/ Reset(r) \/ StopController(r) \/ Join(r)) /\ UNCHANGED timerVars
  <2>1. UNCHANGED <<settings, saved, timer_period, origin>> /\ (running' => running)
    BY <1>5 DEF SignalPause, Resume, Reset, StopController, Join, timerVars, history, dbVars
  <2> QED BY <1>1, <1>2, <2>1 DEF Settled
<1>6. ASSUME settings' = Changing, UNCHANGED saved PROVE TimerInv' /\ CoveredInv'
  <2>1. ~Settled'
    BY <1>0, <1>6 DEF Settled
  <2> QED BY <2>1 DEF TimerInv, CoveredInv
<1>7. CASE BeginInitialize(r)
  <2>1. settings' = Changing /\ UNCHANGED saved
    BY <1>7 DEF BeginInitialize, dbVars
  <2> QED BY <1>6, <2>1
<1>8. CASE /\ EndInitialize(r)
           /\ timer_period' = IF settings' = Changing /\ trigger_type # "conditional"
                             THEN timer_period ELSE FirstTimer(op[r].read, now)
           /\ origin' = IF settings' = Changing THEN origin ELSE now
  <2>1. UNCHANGED saved /\ pc[r] = "initialize" /\ op[r].read = saved
    BY <1>0, <1>8 DEF EndInitialize, At, InHand, dbVars
  <2>2. settings = Changing
    BY <2>1 DEF TakenOver, At
  <2>3. CASE settings' = Changing
    BY <1>6, <2>1, <2>3
  <2>4. CASE settings' # Changing
    <3>1. settings' = saved /\ timer_period' = FirstTimer(saved, now) /\ origin' = now
      BY <1>8, <2>1, <2>2, <2>4 DEF EndInitialize
    <3>2. trigger_type \in Kinds /\ now \in Int /\ found \in Int /\ looked \in Int /\ found <= now
          /\ looked <= now
      BY DEF TurnInv
    <3>3. PICK e : e = FirstTimer(saved, now)
      OBVIOUS
    <3>4. /\ e \in Int /\ e >= now /\ OnGrid(saved, now, e)
          /\ (trigger_type = "sun" => Zone <= 0) => \A d \in Int : OnGrid(saved, now, d) /\ d < e => d < now
      BY <1>0, <3>2, <3>3, SetAnew
    <3>5. \A d : OnGrid(settings, origin, d)' <=> OnGrid(saved, now, d)
      BY <1>1, <3>1 DEF OnGrid
    <3>6. timer_period' = e
      BY <3>1, <3>3
    <3>7. TimerInv'
      BY <1>1, <2>1, <3>1, <3>2, <3>4, <3>5, <3>6 DEF TimerInv
    <3>8. ASSUME ActionsRun, NEW d, d \in Dues(settings)'
          PROVE  d \in Int /\ d >= now /\ d >= e
      <4>1. d \in origin'..LastNow /\ OnGrid(settings, origin, d)'
        BY <3>8, DuesAre DEF Dues, OnGrid
      <4>2. d \in Int /\ d >= now
        BY <3>1, <3>2, <4>1, TimersAssumption
      <4>3. trigger_type = "sun" => Zone <= 0
        BY <3>2, <3>8 DEF ActionsRun
      <4> QED BY <3>2, <3>4, <3>5, <4>1, <4>2, <4>3
    <3>9. ActionsRun => CoveredInv'
      <4> SUFFICES ASSUME ActionsRun PROVE CoveredInv'
        OBVIOUS
      <4>1. \A d \in Dues(settings)' : ~(d < timer_period') /\ ~(d < looked')
        BY <1>1, <3>2, <3>4, <3>6, <3>8
      <4> QED BY <4>1 DEF CoveredInv
    <3> QED BY <3>7, <3>9
  <2> QED BY <2>3, <2>4
<1> QED BY <1>3, <1>4, <1>5, <1>7, <1>8 DEF TimedPage

\* What the thread does, when it has the row's attributes.
LEMMA TimerOfLoop ==
  ASSUME TimersAreSet, HandInv, TurnInv, TimerInv, TimedLoop, UNCHANGED now
  PROVE  TimerInv' /\ (ActionsRun /\ CoveredInv => CoveredInv')
<1>0. TypeOK /\ Changing \notin Versions /\ saved \in Versions /\ None \notin Int
  BY RefreshAssumption, TimersAssumption DEF HandInv, IInv, TypeOK
<1>1. /\ trigger_type \in Kinds /\ now \in Int /\ origin \in Int /\ looked \in Int /\ found \in Int
      /\ last.at \in Int
      /\ origin <= now /\ looked <= now /\ found <= now /\ last.at <= now
      /\ turn # "look" => loop = "acting" /\ found = looked
      /\ turn \in {"look", "catchup", "check"}
  BY DEF TurnInv
<1>2. UNCHANGED <<settings, saved, trigger_type, origin, running>> /\ loop # "ended"
  BY <1>1 DEF TimedLoop, timerVars, history, TopOfLoop, VerifyPause, Paused, WakeUp, Look, NextTimePoint,
         CatchUp, Raise, Check, Act, dbVars, vars
<1>3. CASE ~Settled
  <2>1. ~Settled'
    BY <1>2, <1>3 DEF Settled
  <2> QED BY <2>1 DEF TimerInv, CoveredInv
<1>4. CASE Settled
  <2>0. /\ timer_period \in Int /\ OnGrid(settings, origin, timer_period) /\ origin <= timer_period
        /\ turn = "look" /\ loop \in {"verify", "paused", "acting"} => found <= timer_period
        /\ turn \in {"look", "check"} /\ running => found <= timer_period
        /\ settings = saved /\ Attributes = {settings} /\ settings \in Versions
    BY <1>0, <1>4, TimerIs, AttributesAre DEF Settled
  <2>1. /\ \A v, d : OnGrid(v, origin, d)' <=> OnGrid(v, origin, d)
        /\ \A v : Dues(v)' = Dues(v)
        /\ \A v : Dues(v) \subseteq Int
    BY <1>1, <1>2, TimersAssumption DEF OnGrid, Dues
  <2>2. ASSUME UNCHANGED <<timer_period, turn, found, last>>, turn = "look", loop' # "sleeping",
               loop' \in {"verify", "paused", "acting"} => loop \in {"verify", "paused", "acting"} \/ running
        PROVE TimerInv' /\ (CoveredInv => CoveredInv')
    <3>1. TimerInv'
      BY <1>2, <2>0, <2>1, <2>2 DEF TimerInv
    <3>2. CoveredInv => CoveredInv'
      BY <1>2, <1>4, <2>1, <2>2 DEF CoveredInv, Acted
    <3> QED BY <3>1, <3>2
  <2>3. CASE TopOfLoop /\ UNCHANGED timerVars
    <3>1. UNCHANGED <<timer_period, turn, found, last>> /\ turn = "look"
      BY <1>1, <2>3 DEF TopOfLoop, timerVars, history
    <3>2. CASE loop' = "ended"
      BY <3>2 DEF TimerInv, CoveredInv, Settled
    <3>3. CASE loop' # "ended"
      <4>1. running /\ loop' # "sleeping"
        BY <2>3, <3>3 DEF TopOfLoop, NextTurn
      <4> QED BY <2>2, <3>1, <4>1
    <3> QED BY <3>2, <3>3
  <2>4. CASE (VerifyPause \/ Paused) /\ UNCHANGED timerVars
    <3>1. UNCHANGED <<timer_period, turn, found, last>> /\ turn = "look"
      BY <1>1, <2>4 DEF VerifyPause, Paused, timerVars, history
    <3>2. loop \in {"verify", "paused"} /\ loop' # "sleeping"
      BY <2>4 DEF VerifyPause, Paused
    <3> QED BY <2>2, <3>1, <3>2
  <2>5. CASE WakeUp /\ looked' = 0 /\ UNCHANGED <<trigger_type, timer_period, turn, origin, found, last>>
    <3>1. loop = "sleeping" /\ loop' = "top" /\ turn = "look"
      BY <1>1, <2>5 DEF WakeUp
    <3> QED BY <2>2, <2>5, <3>1
  <2>6. CASE Look
    <3>1. /\ loop = "acting" /\ turn = "look" /\ looked' = now
          /\ UNCHANGED <<timer_period, last>>
      BY <2>6 DEF Look
    <3>2. CASE Due(now)
      <4>1. turn' = "catchup" /\ UNCHANGED loop
        BY <2>6, <3>2 DEF Look, vars
      <4>2. TimerInv'
        BY <1>2, <2>0, <2>1, <3>1, <4>1 DEF TimerInv
      <4>3. CoveredInv => CoveredInv'
        BY <1>2, <1>4, <2>1, <3>1, <4>1 DEF CoveredInv, Acted
      <4> QED BY <4>2, <4>3
    <3>3. CASE ~Due(now)
      <4>1. turn' = "look" /\ loop' = "sleeping" /\ UNCHANGED found
        BY <2>6, <3>1, <3>3 DEF Look, Act
      <4>2. timer_period >= now
        BY <1>0, <1>1, <2>0, <3>3 DEF Due
      <4>3. TimerInv'
        BY <1>2, <2>0, <2>1, <3>1, <4>1 DEF TimerInv
      <4>4. CoveredInv => CoveredInv'
        <5> SUFFICES ASSUME CoveredInv PROVE CoveredInv'
          OBVIOUS
        <5>1. \A d \in Dues(settings) : d < timer_period => Acted(d)
          BY <1>4, <3>1 DEF CoveredInv
        <5>2. \A d \in Dues(settings) : d < now => d < timer_period
          BY <1>1, <2>0, <2>1, <4>2
        <5>3. \A d : Acted(d) => Acted(d)'
          BY <1>2, <3>1 DEF Acted
        <5> QED BY <1>2, <2>1, <3>1, <4>1, <5>1, <5>2, <5>3 DEF CoveredInv
      <4> QED BY <4>3, <4>4
    <3> QED BY <3>2, <3>3
  <2>7. ASSUME UNCHANGED <<loop, last, found, looked, now>>, turn \in {"catchup"}, turn' \in {"catchup", "check"},
               timer_period' \in Int, OnGrid(settings, origin, timer_period'), origin <= timer_period',
               turn' = "check" /\ running => found <= timer_period',
               ActionsRun => \A d \in Int : OnGrid(settings, origin, d) /\ d < timer_period' =>
                                              d < timer_period \/ d < now
        PROVE TimerInv' /\ (ActionsRun /\ CoveredInv => CoveredInv')
    <3>1. TimerInv'
      BY <1>1, <1>2, <2>1, <2>7 DEF TimerInv
    <3>2. loop = "acting"
      BY <1>1, <2>7
    <3>3. ASSUME ActionsRun, CoveredInv, NEW d \in Dues(settings), d < timer_period'
          PROVE  Acted(d) \/ d < now
      <4>1. d \in Int /\ OnGrid(settings, origin, d)
        BY <2>1, DuesAre
      <4>2. d < timer_period \/ d < now
        BY <2>7, <3>3, <4>1
      <4> QED BY <1>4, <3>3, <4>2 DEF CoveredInv
    <3>4. \A d : Acted(d) => Acted(d)'
      BY <1>2, <2>7 DEF Acted
    <3>5. turn' # "look" /\ loop' # "sleeping"
      BY <2>7, <3>2
    <3>6. ActionsRun /\ CoveredInv => CoveredInv'
      BY <1>2, <2>1, <2>7, <3>3, <3>4, <3>5 DEF CoveredInv
    <3> QED BY <3>1, <3>6
  <2>8. CASE NextTimePoint
    <3>1. /\ UNCHANGED <<loop, last, found, looked>> /\ turn = "catchup" /\ turn' = "check"
          /\ trigger_type = "point" /\ timer_period' = epoch_of_next_time(Says[settings].start, now)
      BY <2>0, <2>8 DEF NextTimePoint, vars, history
    <3>2. PICK e : e = timer_period'
      OBVIOUS
    <3>3. /\ e \in Int /\ e >= now /\ OnGrid(settings, origin, e)
          /\ \A d \in Int : OnGrid(settings, origin, d) /\ d < e => d < now
      BY <1>1, <2>0, <3>1, <3>2, LookedUp
    <3>4. origin <= e /\ found <= e
      BY <1>1, <3>3
    <3> QED BY <2>7, <3>1, <3>2, <3>3, <3>4
  <2>9. CASE CatchUp
    <3>1. UNCHANGED <<loop, last, found, looked>> /\ turn = "catchup"
      BY <2>9 DEF CatchUp, vars, history
    <3>2. CASE StillPast /\ trigger_type = "sun"
      <4>1. timer_period' = calculate_sunrise_sunset_epoch(settings, now) /\ UNCHANGED turn
        BY <2>0, <2>9, <3>2 DEF CatchUp
      <4>2. PICK e : e = timer_period'
        OBVIOUS
      <4>3. /\ e \in Int /\ e >= now /\ OnGrid(settings, origin, e)
            /\ Zone <= 0 => \A d \in Int : OnGrid(settings, origin, d) /\ d < e => d < now
        BY <1>1, <2>0, <3>2, <4>1, <4>2, LookedUp
      <4>4. origin <= e /\ (ActionsRun => Zone <= 0)
        BY <1>1, <3>2, <4>3 DEF ActionsRun
      <4> QED BY <2>7, <3>1, <4>1, <4>2, <4>3, <4>4
    <3>3. CASE StillPast /\ trigger_type # "sun"
      <4>1. timer_period' = timer_period + Says[settings].period /\ UNCHANGED turn
        BY <2>0, <2>9, <3>3 DEF CatchUp, Advanced
      <4>2. PICK e : e = timer_period'
        OBVIOUS
      <4>3. trigger_type \in {"span", "duration", "conditional"}
        BY <1>1, <2>9, <3>3, KindsAre DEF CatchUp
      <4>4. /\ e \in Int /\ e > timer_period /\ OnGrid(settings, origin, e)
            /\ \A d \in Int : OnGrid(settings, origin, d) /\ d < e => d <= timer_period
        BY <1>1, <2>0, <4>1, <4>2, <4>3, SetForward
      <4>5. timer_period < now
        BY <1>1, <2>0, <3>3 DEF StillPast, Due
      <4>6. \A d \in Int : OnGrid(settings, origin, d) /\ d < e => d < now
        BY <1>1, <2>0, <4>4, <4>5
      <4>7. origin <= e
        BY <1>1, <2>0, <4>4
      <4> QED BY <2>7, <3>1, <4>1, <4>2, <4>4, <4>6, <4>7
    <3>4. CASE ~StillPast
      <4>1. turn' = "check" /\ timer_period' = timer_period
        BY <2>9, <3>4 DEF CatchUp
      <4>2. running => found <= timer_period
        <5>1. CASE trigger_type = "conditional"
          BY <1>0, <1>1, <2>0, <3>1, <3>4, <5>1 DEF StillPast, Due
        <5>2. CASE trigger_type # "conditional"
          BY <1>0, <1>1, <2>0, <3>4, <5>2 DEF StillPast, Due
        <5> QED BY <5>1, <5>2
      <4> QED BY <2>0, <2>7, <3>1, <4>1, <4>2
    <3> QED BY <3>2, <3>3, <3>4
  <2>10. CASE Raise
    BY <1>0, <2>0, <2>10 DEF Raise, Incomparable
  <2>11. CASE Check
    <3>1. /\ turn = "check" /\ turn' = "look" /\ loop' = "sleeping" /\ loop = "acting"
          /\ UNCHANGED <<found, looked>> /\ last'.at = now
      BY <1>1, <2>11 DEF Check, Act
    <3>2. /\ timer_period' \in Int /\ OnGrid(settings, origin, timer_period') /\ origin <= timer_period'
          /\ running => found <= timer_period'
          /\ ActionsRun => \A d \in Int : OnGrid(settings, origin, d) /\ d < timer_period' =>
                                            d < timer_period \/ d < now
      <4>1. CASE trigger_type = "sun" /\ Device
        <5>1. timer_period' = calculate_sunrise_sunset_epoch(settings, now)
          BY <2>0, <2>11, <4>1 DEF Check
        <5>2. PICK e : e = timer_period'
          OBVIOUS
        <5>3. /\ e \in Int /\ e >= now /\ OnGrid(settings, origin, e)
              /\ Zone <= 0 => \A d \in Int : OnGrid(settings, origin, d) /\ d < e => d < now
          BY <1>1, <2>0, <4>1, <5>1, <5>2, LookedUp
        <5>4. origin <= e /\ found <= e /\ (ActionsRun => Zone <= 0)
          BY <1>1, <4>1, <5>3 DEF ActionsRun
        <5> QED BY <5>2, <5>3, <5>4
      <4>2. CASE ~(trigger_type = "sun" /\ Device)
        <5>1. timer_period' = timer_period
          BY <2>11, <4>2 DEF Check
        <5> QED BY <2>0, <3>1, <5>1
      <4> QED BY <4>1, <4>2
    <3>3. TimerInv'
      BY <1>2, <2>1, <3>1, <3>2, <2>0 DEF TimerInv
    <3>4. ASSUME ActionsRun, NEW d \in Dues(settings), d < now
          PROVE  Acted(d)'
      <4>1. \/ last'.acted
            \/ trigger_type = "span" /\ ~time_between_range(Says[settings].start, Says[settings].end, now)
        <5> DEFINE Out == ~time_between_range(Says[settings].start, Says[settings].end, now)
        <5>1. last' = [at |-> now, acted |-> ~((trigger_type # "conditional" /\ ~Device)
                                              \/ (trigger_type = "span" /\ Out))]
          BY <2>0, <2>11, Zenon DEF Check
        <5>2. Device \/ trigger_type = "conditional"
          BY <1>1, <3>4 DEF ActionsRun
        <5> HIDE DEF Out
        <5>3. last'.acted \/ (trigger_type = "span" /\ Out)
          BY <5>1, <5>2
        <5> QED BY <5>3 DEF Out
      <4> QED BY <1>2, <2>1, <3>1, <3>4, <4>1 DEF Acted
    <3>5. ASSUME ActionsRun, CoveredInv, NEW d \in Dues(settings), d < timer_period' \/ d < looked
          PROVE  d < now
      <4>1. d \in Int /\ OnGrid(settings, origin, d)
        BY <2>1, DuesAre
      <4>2. Acted(d) => d < now
        BY <1>1, <4>1 DEF Acted
      <4>3. d < timer_period => d < now
        BY <1>4, <3>1, <3>5, <4>2 DEF CoveredInv
      <4> QED BY <1>1, <3>2, <3>5, <4>1, <4>3
    <3>6. ActionsRun /\ CoveredInv => CoveredInv'
      BY <1>2, <2>1, <3>1, <3>4, <3>5 DEF CoveredInv
    <3> QED BY <3>3, <3>6
  <2> QED BY <2>3, <2>4, <2>5, <2>6, <2>8, <2>9, <2>10, <2>11 DEF TimedLoop
<1> QED BY <1>3, <1>4

\* The inductive invariant of the timed handshake.
TimedInv == HandInv /\ TurnInv /\ EndsSoon /\ TakenOver /\ TimerInv

\* Both invariants hold initially, ...
LEMMA TimedInvInit ==
  ASSUME TimersAreSet
  PROVE  TimedInit => TimedInv /\ (ActionsRun => CoveredInv)
<1> SUFFICES ASSUME TimedInit PROVE TimedInv /\ (ActionsRun => CoveredInv)
  OBVIOUS
<1>1. HandInv /\ TurnInv
  BY HandInvInit, TurnInvInit DEF TimedInit
<1>2. EndsSoon /\ TakenOver
  BY DEF TimedInit, Init, EndsSoon, TakenOver, At
<1>3. /\ settings = Initial /\ origin = now /\ found = 0 /\ looked = 0 /\ now \in Nat /\ trigger_type \in Kinds
      /\ turn = "look" /\ loop = "top" /\ Initial \in Versions
  BY <1>1, TimersAssumption, RefreshAssumption DEF TimedInit, Init, TurnInv
<1>4. PICK e : e = FirstTimer(Initial, now) /\ timer_period = e
  BY DEF TimedInit
<1>5. /\ e \in Int /\ e >= now /\ OnGrid(Initial, now, e)
      /\ (trigger_type = "sun" => Zone <= 0) => \A d \in Int : OnGrid(Initial, now, d) /\ d < e => d < now
  BY <1>3, <1>4, SetAnew
<1>6. TimerInv
  BY <1>3, <1>4, <1>5 DEF TimerInv
<1>7. ASSUME ActionsRun, NEW d \in Dues(settings) PROVE ~(d < timer_period)
  <2>1. d \in now..LastNow /\ OnGrid(Initial, now, d)
    BY <1>3, DuesAre
  <2>2. d \in Int /\ d >= now
    BY <1>3, <2>1, TimersAssumption
  <2>3. trigger_type = "sun" => Zone <= 0
    BY <1>3, <1>7 DEF ActionsRun
  <2> QED BY <1>3, <1>4, <1>5, <2>1, <2>2, <2>3
<1>8. ActionsRun => CoveredInv
  BY <1>3, <1>7 DEF CoveredInv
<1> QED BY <1>1, <1>2, <1>6, <1>8 DEF TimedInv

\* ... and every step keeps them.
LEMMA TimedInvStep ==
  ASSUME TimersAreSet, TimedInv, [TimedNext]_timedVars
  PROVE  TimedInv' /\ (ActionsRun /\ CoveredInv => CoveredInv')
<1>0. Spaced /\ TypeOK
  BY DEF TimersAreSet, TimedInv, HandInv, IInv
<1>1. HandInv' /\ TurnInv'
  BY <1>0, HandInvStep, TurnInvStep DEF TimedInv
<1>2. EndsSoon' /\ TakenOver'
  BY <1>0, TimedIsRefresh, EndsSoonStep, TakenOverStep DEF TimedInv
<1>3. TimerInv' /\ (ActionsRun /\ CoveredInv => CoveredInv')
  <2>1. ASSUME NEW r \in Pages, TimedPage(r), UNCHANGED now
        PROVE  TimerInv' /\ (ActionsRun /\ CoveredInv => CoveredInv')
    BY <2>1, TimerOfPage DEF TimedInv
  <2>2. CASE TimedLoop /\ UNCHANGED now
    BY <2>2, TimerOfLoop DEF TimedInv
  <2>3. CASE UNCHANGED <<vars, timerVars>> /\ now' \in {now, now + 1}
    <3>1. now \in Int
      BY DEF TimedInv, TurnInv
    <3>2. /\ UNCHANGED <<loop, settings, saved, running, trigger_type, timer_period, turn, origin, looked,
                         found, last>>
      BY <2>3 DEF vars, timerVars, history, dbVars
    <3>3. \A v : Dues(v)' = Dues(v) /\ Dues(v) \subseteq Int
      BY <3>2, TimersAssumption DEF Dues, TimedInv, TurnInv
    <3>4. \A v, d : OnGrid(v, origin, d)' <=> OnGrid(v, origin, d)
      BY <3>2 DEF OnGrid
    <3>5. TimerInv'
      BY <3>2, <3>4 DEF TimedInv, TimerInv, Settled
    <3>6. CoveredInv => CoveredInv'
      <4>1. \A d \in Int : d < now => d < now'
        BY <2>3, <3>1
      <4>2. \A d : Acted(d)' <=> Acted(d)
        BY <3>2 DEF Acted
      <4> QED BY <3>2, <3>3, <4>1, <4>2 DEF CoveredInv, Settled
    <3> QED BY <3>5, <3>6
  <2>4. CASE Tick
    BY <2>3, <2>4 DEF Tick
  <2>5. CASE UNCHANGED timedVars
    BY <2>3, <2>5 DEF timedVars
  <2> QED BY <2>1, <2>2, <2>4, <2>5 DEF TimedNext
<1> QED BY <1>1, <1>2, <1>3 DEF TimedInv

\* The loop with timers keeps its types, and with them the handshake: what a turn
\* remembers has happened, and its timer is a number.
THEOREM TimersTyped ==
  ASSUME TimersAreSet
  PROVE  TimedSpec => []TimedTypeOK
<1>1. TimedInit => TimedInv
  BY TimedInvInit
<1>2. TimedInv /\ [TimedNext]_timedVars => TimedInv'
  BY TimedInvStep
<1>3. TimedInv => TimedTypeOK
  BY DEF TimedInv, HandInv, IInv, TurnInv, TimedTypeOK
<1> QED BY <1>1, <1>2, <1>3, PTL DEF TimedSpec

\* Also when a turn takes several steps and the clock runs meanwhile, the loop does not
\* act while a request that had to wait changes the settings, and the settings saved
\* last arrive.
THEOREM TimersAreRefreshed ==
  ASSUME TimersAreSet
  PROVE  TimedSpec => [](WaitedIsSafe /\ UpToDate)
<1>1. TimedInit => TimedInv
  BY TimedInvInit
<1>2. TimedInv /\ [TimedNext]_timedVars => TimedInv'
  BY TimedInvStep
<1>3. TimedInv => WaitedIsSafe /\ UpToDate
  BY DEF TimedInv, HandInv, IInv, Held, WaitedIsSafe, At
<1> QED BY <1>1, <1>2, <1>3, PTL DEF TimedSpec

\* A timer is found due for an instant that has come since it was found due last.
THEOREM DueOnce ==
  ASSUME TimersAreSet
  PROVE  TimedSpec => OncePerDue
<1> DEFINE Foundation ==
             found' # found \/ (turn = "look" /\ turn' = "catchup") =>
               settings # saved \/ \E d \in Dues(settings) : found <= d /\ d < now
<1>1. TimedInit => TimedInv
  BY TimedInvInit
<1>2. TimedInv /\ [TimedNext]_timedVars => TimedInv'
  BY TimedInvStep
<1>3. TimedInv /\ [TimedNext]_timedVars => [Foundation]_timedVars
  <2> SUFFICES ASSUME TimedInv, [TimedNext]_timedVars,
                      found' # found \/ (turn = "look" /\ turn' = "catchup"), settings = saved
               PROVE  \E d \in Dues(settings) : found <= d /\ d < now
    OBVIOUS
  <2>1. Look /\ Due(now)
    <3>1. CASE UNCHANGED timedVars
      BY <3>1 DEF timedVars, timerVars, history
    <3>2. ASSUME NEW r \in Pages, TimedPage(r) PROVE UNCHANGED <<found, turn>>
      BY <3>2 DEF TimedPage, timerVars, history
    <3>3. CASE Tick
      BY <3>3 DEF Tick, timerVars, history
    <3>4. CASE TimedLoop
      <4>1. CASE Look
        BY <4>1 DEF Look
      <4>2. CASE ~Look
        <5>1. \/ UNCHANGED <<found, turn>>
              \/ turn \in {"catchup", "check"} /\ UNCHANGED found
          BY <3>4, <4>2 DEF TimedLoop, NextTimePoint, CatchUp, Raise, Check, timerVars, history
        <5> QED BY <5>1
      <4> QED BY <4>1, <4>2
    <3> QED BY <3>1, <3>2, <3>3, <3>4 DEF TimedNext
  <2>2. loop = "acting" /\ turn = "look"
    BY <2>1 DEF Look
  <2>3. Settled
    BY <2>2 DEF Settled
  <2>4. timer_period \in Int /\ OnGrid(settings, origin, timer_period) /\ origin <= timer_period
        /\ found <= timer_period
    BY <2>2, <2>3, TimerIs DEF TimedInv
  <2>5. timer_period < now /\ now \in 0..LastNow /\ origin \in Int
    BY <2>1 DEF Due, TimedInv, TurnInv
  <2>6. timer_period \in origin..LastNow
    BY <2>4, <2>5, TimersAssumption
  <2>7. timer_period \in Dues(settings)
    BY <2>4, <2>6, DuesAre
  <2> QED BY <2>4, <2>5, <2>7
<1> QED BY <1>1, <1>2, <1>3, PTL DEF TimedSpec, OncePerDue

\* Once a turn has ended, a check has followed each instant it could see, and
\* Actions were carried out but out of the span.
THEOREM DueActed ==
  ASSUME TimersAreSet, ActionsRun
  PROVE  TimedSpec => []DueIsActed
<1> DEFINE Covered == TimedInv /\ CoveredInv
<1>1. TimedInit => Covered
  BY TimedInvInit
<1>2. Covered /\ [TimedNext]_timedVars => Covered'
  BY TimedInvStep
<1>3. Covered => DueIsActed
  <2> SUFFICES ASSUME CoveredInv, loop = "sleeping", settings = saved, NEW d \in Dues(settings), d < looked
               PROVE  /\ last.at > d
                      /\ \/ last.acted
                         \/ trigger_type = "span"
                              /\ ~time_between_range(Says[settings].start, Says[settings].end, last.at)
    BY DEF DueIsActed
  <2>1. Acted(d)
    BY DEF CoveredInv, Settled
  <2> QED BY <2>1 DEF Acted
<1> QED BY <1>1, <1>2, <1>3, PTL DEF TimedSpec
=============================================================================
