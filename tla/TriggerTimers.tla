---------------------------- MODULE TriggerTimers ----------------------------
(***************************************************************************)
(* When a Trigger's or a Conditional's timer has its Actions carried out   *)
(* (controller_trigger.py, controller_conditional.py, utils/sunriseset.py, *)
(* utils/system_pi.py), composed with the pause handshake of               *)
(* RefreshSettings, which it extends: the loop's Act is taken apart into a *)
(* look at the timer, the steps that catch it up, and the check.           *)
(***************************************************************************)
EXTENDS RefreshSettings

CONSTANTS
  Kinds,    \* "point", "span", "duration", "sun", "conditional"
  Says,     \* what the row of each version says
  Day,      \* BOUND: instants in a day
  LastNow,  \* BOUND: the clock stops there
  Zone,     \* local time less UTC
  Dark,     \* days, by number, on which the sun does not rise
  Device,   \* TRUE: there is an Input, a Math, an Output or a PID
  None      \* no timer

ASSUME TimersAssumption ==
  /\ Kinds \subseteq {"point", "span", "duration", "sun", "conditional"}
  /\ Day \in Nat \ {0} /\ LastNow \in Nat /\ Zone \in Int /\ Dark \subseteq Nat
  /\ Device \in BOOLEAN /\ None \notin Int
  /\ Says \in [Versions -> [period : Int, offset : Nat, start : 0..(Day - 1), end : 0..(Day - 1),
                            sun : 0..(Day - 1)]]

VARIABLES
  trigger_type,  \* it is never changed
  now,
  timer_period,  \* the instant after which the next check is due
  turn,          \* where the thread is in a turn in which it acts
  origin,        \* history: when the settings were taken over
  looked,        \* history: when this turn looked at the timer
  found,         \* history: when a turn found it due last
  last           \* history: the last check, and whether Actions were carried out

history   == <<origin, looked, found, last>>
timerVars == <<trigger_type, timer_period, turn, history>>
timedVars == <<vars, now, timerVars>>

(***************************************************************************)
(* Instants                                                                *)
(***************************************************************************)
Today(t) == (t \div Day) * Day

\* MUTANT of epoch_of_next_time: also what is past is today's.
SameDay(start, t) == Today(t) + start

epoch_of_next_time(start, t) ==
  IF Today(t) + start < t THEN Today(t) + start + Day ELSE Today(t) + start

time_between_range(start, end, t) ==
  LET time == t % Day IN
  IF start < end THEN start <= time /\ time <= end ELSE start <= time \/ time <= end

\* The sun's time in UTC is put on the local day, and days are added while it is
\* past.  BOUND: it rises at one time on every day.
calc_sun_time(v, t) ==
  LET first == Today(t) + Says[v].sun + Zone
      ahead == {first + k * Day : k \in 0..(LastNow \div Day + 2)} \cap {e \in Int : e >= t}
  IN CHOOSE e \in ahead : \A f \in ahead : e <= f

calculate_sunrise_sunset_epoch(v, t) == IF t \div Day \in Dark THEN None ELSE calc_sun_time(v, t)

\* As initialize_variables() sets it.
FirstTimer(v, t) ==
  CASE trigger_type = "point"                     -> epoch_of_next_time(Says[v].start, t)
    [] trigger_type = "span"                      -> t
    [] trigger_type \in {"duration", "conditional"} -> t + Says[v].offset
    [] trigger_type = "sun"                       -> calculate_sunrise_sunset_epoch(v, t)

(***************************************************************************)
(* The pages and refresh_settings                                          *)
(***************************************************************************)
\* check_form_...: only a Duration has its numbers looked at.
Checked(v) == trigger_type = "duration" => Says[v].period > 0

TimedPage(r) ==
  \/ SaveSettings(r) /\ Checked(saved') /\ UNCHANGED timerVars
  \/ SaveInactive(r) /\ UNCHANGED timerVars
  \/ /\ SignalPause(r) \/ Resume(r) \/ Reset(r) \/ StopController(r) \/ Join(r)
     /\ UNCHANGED timerVars
  \/ /\ BeginInitialize(r)
     /\ timer_period' = IF trigger_type = "conditional" THEN timer_period ELSE None
     /\ UNCHANGED <<trigger_type, turn, history>>
  \/ /\ EndInitialize(r)
     /\ timer_period' = IF settings' = Changing /\ trigger_type # "conditional"
                       THEN timer_period
                       ELSE FirstTimer(op[r].read, now)
     /\ origin' = IF settings' = Changing THEN origin ELSE now
     /\ UNCHANGED <<trigger_type, turn, looked, found, last>>

(***************************************************************************)
(* The controller's thread                                                 *)
(***************************************************************************)
\* While settings are being changed, an attribute is an old one or a new one.
Attributes == IF settings = Changing THEN Versions ELSE {settings}

Due(t) == timer_period # None /\ timer_period < t

Look ==
  /\ loop = "acting" /\ turn = "look"
  /\ looked' = now
  /\ IF Due(now) THEN /\ turn' = "catchup" /\ found' = now
                 /\ UNCHANGED vars
                 ELSE Act /\ UNCHANGED <<turn, found>>
  /\ UNCHANGED <<trigger_type, timer_period, origin, last>>

\* The next time point is looked up once.
NextTimePoint ==
  /\ turn = "catchup" /\ trigger_type = "point"
  /\ \E v \in Attributes : timer_period' = epoch_of_next_time(Says[v].start, now)
  /\ turn' = "check"
  /\ UNCHANGED <<vars, trigger_type, history>>

\* MUTANT of Advanced: the period begins when the timer was found due.
AdvancedFromNow(v) == now + Says[v].period

Advanced(v) == timer_period + Says[v].period

\* Of the others the timer is set forward until it is no longer past: to a Trigger,
\* while it is to run, by the clock, to a Conditional by when it looked.
StillPast == IF trigger_type = "conditional" THEN Due(looked) ELSE Due(now) /\ running

\* None is not compared with a number: the turn is over.
Incomparable == timer_period = None /\ running

CatchUp ==
  /\ turn = "catchup" /\ trigger_type # "point" /\ ~Incomparable
  /\ IF StillPast
     THEN /\ \E v \in Attributes :
               timer_period' = IF trigger_type = "sun" THEN calculate_sunrise_sunset_epoch(v, now)
                                                       ELSE Advanced(v)
          /\ UNCHANGED turn
     ELSE turn' = "check" /\ UNCHANGED timer_period
  /\ UNCHANGED <<vars, trigger_type, history>>

Raise ==
  /\ turn = "catchup" /\ trigger_type # "point" /\ Incomparable
  /\ Act /\ turn' = "look"
  /\ UNCHANGED <<trigger_type, timer_period, history>>

\* check_triggers(), check_conditionals(): a span may be over, and the sun's next time
\* is looked up by the row.
Check ==
  /\ turn = "check"
  /\ \E v, w \in Attributes :
       LET returns == \/ trigger_type # "conditional" /\ ~Device
                      \/ trigger_type = "span" /\ ~time_between_range(Says[v].start, Says[w].end, now)
       IN last' = [at |-> now, acted |-> ~returns]
  /\ timer_period' = IF trigger_type = "sun" /\ Device THEN calculate_sunrise_sunset_epoch(saved, now)
                                                       ELSE timer_period
  /\ Act /\ turn' = "look"
  /\ UNCHANGED <<trigger_type, origin, looked, found>>

TimedLoop ==
  \/ (TopOfLoop \/ VerifyPause \/ Paused) /\ UNCHANGED timerVars
  \/ WakeUp /\ looked' = 0 /\ UNCHANGED <<trigger_type, timer_period, turn, origin, found, last>>
  \/ Look \/ NextTimePoint \/ CatchUp \/ Raise \/ Check

Tick ==
  /\ now < LastNow
  /\ now' = now + 1
  /\ UNCHANGED <<vars, timerVars>>

(***************************************************************************)
(* Specification                                                           *)
(***************************************************************************)
TimedInit ==
  /\ Init
  /\ trigger_type \in Kinds /\ now \in Day..(2 * Day - 1)
  /\ timer_period = FirstTimer(Initial, now) /\ turn = "look"
  /\ origin = now /\ looked = 0 /\ found = 0 /\ last = [at |-> 0, acted |-> FALSE]

TimedNext ==
  \/ (\E r \in Pages : TimedPage(r)) /\ UNCHANGED now
  \/ TimedLoop /\ UNCHANGED now
  \/ Tick

\* Threads are scheduled; no page has to make a request.
TimedSpec ==
  /\ TimedInit /\ [][TimedNext]_timedVars
  /\ WF_timedVars(TimedLoop /\ UNCHANGED now)
  /\ \A r \in Pages : WF_timedVars(TimedPage(r) /\ RequestStep(r) /\ UNCHANGED now)

(***************************************************************************)
(* Properties                                                              *)
(***************************************************************************)
\* Every variable stays in its type: what a turn remembers has
\* happened.
TimedTypeOK ==
  /\ TypeOK
  /\ trigger_type \in Kinds /\ now \in 0..LastNow
  /\ timer_period \in Int \cup {None}
  /\ turn \in {"look", "catchup", "check"}
  /\ {origin, looked, found, last.at} \subseteq 0..now /\ last.acted \in BOOLEAN

\* The instants at which Actions are to be carried out, by the settings and since
\* these were taken over: what the manual tells of each kind of timer.
Dues(v) ==
  {d \in origin..LastNow :
     CASE trigger_type = "point" -> d % Day = Says[v].start
       [] trigger_type = "sun"   -> d % Day = (Says[v].sun + Zone) % Day /\ d \div Day \notin Dark
       [] trigger_type = "span"  -> (d - origin) % Says[v].period = 0
       [] OTHER                  -> d >= origin + Says[v].offset
                                      /\ (d - origin - Says[v].offset) % Says[v].period = 0}

\* Whenever a turn has ended, a check has followed each instant that it could see, however
\* late it came, and Actions were carried out but out of the span ("triggers Conditional
\* Actions every period", "at a specific time every day", mycodo-manual.txt:2577-2610).
DueIsActed ==
  loop = "sleeping" /\ settings = saved =>
    \A d \in Dues(settings) : d < looked =>
      /\ last.at > d
      /\ \/ last.acted
         \/ trigger_type = "span"
              /\ ~time_between_range(Says[settings].start, Says[settings].end, last.at)

\* A timer is found due for an instant that has come since it was found due last, also
\* when the settings have been saved again meanwhile: a time point acts once a day, and
\* what was missed is not made up for (controller_trigger.py:119-146).
OncePerDue ==
  [][found' # found \/ (turn = "look" /\ turn' = "catchup") =>
       settings # saved \/ \E d \in Dues(settings) : found <= d /\ d < now]_timedVars

\* A time point that has come is acted upon before the settings are taken over anew.
\* That of today is past then, so the next is tomorrow's (system_pi.py:209-210).
RefreshLosesNone ==
  [][origin' # origin /\ trigger_type = "point" =>
       \A d \in origin..(now - 1) : d % Day = Says[settings'].start => last.at > d]_timedVars
=============================================================================
