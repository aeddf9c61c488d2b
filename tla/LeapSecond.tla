----------------------------- MODULE LeapSecond -----------------------------
(***************************************************************************)
(* The leap second as the device learns it (APP/Gnss/ut4b0_receiver.c):    *)
(* GPS, BDS and GAL say, each from its own day on, how many seconds they   *)
(* differ from UTC, how many they will, and on which day of which week     *)
(* that changes; every second the receiver hands on what it has got of     *)
(* them.  g_leap forecasts the change and takes it over.                   *)
(*                                                                         *)
(* The device may start late, and restart: it always begins with Default.  *)
(***************************************************************************)
EXTENDS Integers

CONSTANTS Default,      \* the leap seconds of gnss_global_variable_init
          Starts,       \* the leap seconds when the device is first started
          Days,         \* days of leap seconds, counted from 6 January 1980
          MaxLeaps,     \* bound: leap seconds
          MaxRestarts   \* bound: restarts

\* The first day each system counts weeks from, as a day since 6 January 1980,
\* and its number for the first day of a week.
Epoch == [GPS |-> 0, BDS |-> 9492, GAL |-> 7168]
First == [GPS |-> 1, BDS |-> 0, GAL |-> 1]

\* Days that all systems can name, in years that u16_t holds.
ASSUME LeapAssumption ==
  /\ Default \in 0..255 /\ Starts \subseteq Nat
  /\ \A d \in Days : d \in Nat /\ Epoch["BDS"] <= d /\ d < 365 * 60000
  /\ \A n \in Starts : n > MaxLeaps + 14 /\ n + MaxLeaps < 256
  /\ MaxLeaps \in Nat /\ MaxRestarts \in Nat

Sat == {"GPS", "BDS", "GAL"}

VARIABLES change,     \* the last change: [from, to, day]
          utc,        \* the leap seconds by now, change.from or change.to
          bcast,      \* each system: "old", "forecast" or "new"
          heard,      \* the systems heard since they last changed
          g_leap,     \* [now_leap, next_leap, sign, leap_time]
          info,       \* g_gnss_info.leap.info
          forecasts,  \* history: forecasts since the change or the start
          leaps,      \* bound: changes so far
          restarts    \* bound: restarts so far

world == <<change, utc, bcast, leaps>>
unit  == <<g_leap, info>>
vars  == <<world, heard, unit, forecasts, restarts>>

Unset == [now_leap |-> Default, next_leap |-> Default, sign |-> 0,
          leap_time |-> [year |-> 0, mon |-> 0, day |-> 0]]

\* gnss_global_variable_init.
Init == /\ \E n \in Starts : change = [from |-> n, to |-> n, day |-> 0]
        /\ utc = change.to
        /\ bcast = [s \in Sat |-> "new"] /\ heard = Sat
        /\ g_leap = Unset /\ info = Unset
        /\ forecasts = 0 /\ leaps = 0 /\ restarts = 0

-----------------------------------------------------------------------------
\* The world: a leap second, positive or negative, is decided months ahead and
\* years after the last one, which all systems have settled by then.
Decide ==
  /\ leaps < MaxLeaps /\ utc = change.to
  /\ heard = Sat /\ \A s \in Sat : bcast[s] = "new"
  /\ \E n \in {utc - 1, utc + 1}, d \in Days :
       change' = [from |-> utc, to |-> n, day |-> d]
  /\ bcast' = [s \in Sat |-> "old"] /\ heard' = {}
  /\ leaps' = leaps + 1 /\ forecasts' = 0
  /\ UNCHANGED <<utc, unit, restarts>>

\* A system begins to announce it, ...
Announce(s) ==
  /\ utc # change.to /\ bcast[s] = "old"
  /\ bcast' = [bcast EXCEPT ![s] = "forecast"] /\ heard' = heard \ {s}
  /\ UNCHANGED <<change, utc, leaps, unit, forecasts, restarts>>

\* ... it happens, ...
Leap ==
  /\ utc # change.to
  /\ utc' = change.to
  /\ UNCHANGED <<change, bcast, leaps, heard, unit, forecasts, restarts>>

\* ... and a system broadcasts the new number, sooner or later.
Settle(s) ==
  /\ utc = change.to /\ bcast[s] # "new"
  /\ bcast' = [bcast EXCEPT ![s] = "new"] /\ heard' = heard \ {s}
  /\ UNCHANGED <<change, utc, leaps, unit, forecasts, restarts>>

\* What a system says of the seconds now and next.
Now(s)  == IF bcast[s] = "new" THEN change.to ELSE change.from
NextOf(s) == IF bcast[s] = "old" THEN change.from ELSE change.to

-----------------------------------------------------------------------------
\* What the receiver says of the day of a change.
Week(s, day)      == (day - Epoch[s]) \div 7
DayOfWeek(s, day) == ((day - Epoch[s]) % 7) + First[s]

IsLeapYear(y) == y % 400 = 0 \/ (y % 100 # 0 /\ y % 4 = 0)

MonDays(y, m) ==
  IF m = 2 THEN (IF IsLeapYear(y) THEN 29 ELSE 28)
  ELSE IF m \in {4, 6, 9, 11} THEN 30 ELSE 31

\* A date while the loop of ut4b0_get_leap_time runs: more days than its month
\* has, or the month after the last of a year.
Date == [year : Nat, mon : 1..13, day : Nat]

\* The loop takes months off the days until what is left fits into one, ...
Months[t \in Date] ==
  IF t.mon = 13 \/ t.day <= MonDays(t.year, t.mon) THEN t
  ELSE Months[[t EXCEPT !.mon = @ + 1, !.day = @ - MonDays(t.year, t.mon)]]

\* ... in this year or one after it.  (The array is set right for February in
\* the round of January.)
Walk[t \in Date] ==
  LET u == Months[t]
  IN  IF u.mon = 13
      THEN Walk[[year |-> u.year + 1, mon |-> 1, day |-> u.day]] ELSE u

\* Mutant: BDS counts the days of the week from 1, too.
DayBack(dn, s) == dn - 1

\* u8_t dn, from 1 for GPS and GAL.
DayFrom0(dn, s) == IF s = "BDS" THEN dn ELSE (dn - 1) % 256

\* The switch: so many days after the epoch of a system.
After(s, days) ==
  CASE s = "GPS" -> [year |-> 1980, mon |-> 1, day |-> days + 6]
    [] s = "BDS" -> [year |-> 2006, mon |-> 1, day |-> days + 1]
    [] s = "GAL" -> [year |-> 1999, mon |-> 8, day |-> days + 22]

\* ut4b0_get_leap_time.
GetLeapTime(s, wn, dn) == Walk[After(s, wn * 7 + DayFrom0(dn, s))]

\* Mutant: any system's forecast is taken, whatever it starts from.
ForecastAny(now, next) == g_leap.sign = 0 /\ now # next

\* The conditions of ut4b0_leap_process.
IsForecast(now, next) ==
  g_leap.sign = 0 /\ now # next /\ now = g_leap.now_leap

\* Mutant: the forecast is never over.
OverNever(now, next) == FALSE

IsOver(now, next) ==
  g_leap.sign # 0 /\ now = next /\ next = g_leap.next_leap

\* A GPSUTC sentence, good or not, begins a second: gnss_receiver_info_clear.
Cleared(s) == IF s = "GPS" THEN Unset ELSE info

\* Mutant: the sign is the difference.
Difference(next) == next - g_leap.now_leap

SignOf(next) == IF next > g_leap.now_leap THEN 1 ELSE 2

\* Mutant: the number is taken over with the forecast.
NextAtOnce(next) == next

\* What it is until the change.
NowUntil(next) == g_leap.now_leap

\* ut4b0_leap_process.
LeapProcess(s, wn, dn, now, next) ==
  \/ /\ IsForecast(now, next)
     /\ g_leap' = [now_leap |-> NowUntil(next), next_leap |-> next,
                   sign |-> SignOf(next),
                   leap_time |-> GetLeapTime(s, wn, dn)]
     /\ info' = g_leap' /\ forecasts' = forecasts + 1
  \/ /\ ~IsForecast(now, next) /\ IsOver(now, next)
     /\ g_leap' = [g_leap EXCEPT !.now_leap = now, !.sign = 0]
     /\ info' = g_leap' /\ UNCHANGED forecasts
  \/ /\ ~IsForecast(now, next) /\ ~IsOver(now, next)
     /\ UNCHANGED <<g_leap, forecasts>>
     /\ info' = Cleared(s)

\* The BDS time began with 14 leap seconds: ut4b0_gpsbds_utc_msg_parser.
InGps(s, n) == IF s = "BDS" THEN (n + 14) % 256 ELSE n

InOwn(s, n) == IF s = "BDS" THEN n - 14 ELSE n

\* A good sentence: the parser of the system and ut4b0_leap_process.
Hear(s) ==
  /\ LeapProcess(s, Week(s, change.day), DayOfWeek(s, change.day),
                 InGps(s, InOwn(s, Now(s))), InGps(s, InOwn(s, NextOf(s))))
  /\ heard' = heard \cup {s}
  /\ UNCHANGED <<world, restarts>>

\* The receiver knows nothing of the system yet.
HearNothing(s) ==
  /\ LeapProcess(s, 0, 0, InGps(s, 0), InGps(s, 0))
  /\ UNCHANGED <<world, heard, restarts>>

\* A sentence whose checksum is wrong.
HearNoise(s) ==
  /\ info' = Cleared(s)
  /\ UNCHANGED <<world, heard, g_leap, forecasts, restarts>>

Restart ==
  /\ restarts < MaxRestarts
  /\ g_leap' = Unset /\ info' = Unset
  /\ forecasts' = 0 /\ restarts' = restarts + 1
  /\ UNCHANGED <<world, heard>>

Next == \/ Decide \/ Leap \/ Restart
        \/ \E s \in Sat : \/ Announce(s) \/ Settle(s)
                          \/ Hear(s) \/ HearNothing(s) \/ HearNoise(s)

Spec == Init /\ [][Next]_vars

\* A change that is decided comes, and good sentences of each system do.
FairSpec == /\ Spec /\ WF_vars(Leap)
            /\ \A s \in Sat : WF_vars(Settle(s)) /\ WF_vars(Hear(s))

-----------------------------------------------------------------------------
Time == [year : {n \in Nat : n < 65536}, mon : 0..12, day : 0..31]

Leaps == [now_leap : 0..255, next_leap : 0..255, sign : 0..2,
          leap_time : Time]

\* Type invariant.
TypeOK ==
  /\ change \in [from : Nat, to : Nat, day : Days \cup {0}]
  /\ utc \in {change.from, change.to}
  /\ bcast \in [Sat -> {"old", "forecast", "new"}] /\ heard \subseteq Sat
  /\ g_leap \in Leaps /\ info \in Leaps
  /\ forecasts \in Nat /\ leaps \in 0..MaxLeaps
  /\ restarts \in 0..MaxRestarts

\* A change is forecast once, however the systems differ in when they announce
\* it and when they stop.
ForecastOnce == forecasts <= 1

\* What is forecast is the change that is due: which way, from what to what.
ForecastTrue ==
  g_leap.sign # 0 =>
    /\ g_leap.now_leap = change.from /\ g_leap.next_leap = change.to
    /\ g_leap.sign = IF change.to > change.from THEN 1 ELSE 2

\* The day of a date, by the number of leap years before it.
LeapYears(y) == y \div 4 - y \div 100 + y \div 400

DayOf(t) ==
  LET before == <<0, 31, 59, 90, 120, 151, 181, 212, 243, 273, 304, 334>>
      leap   == LeapYears(t.year) - LeapYears(t.year - 1)
  IN  365 * (t.year - 1980) + LeapYears(t.year - 1) - LeapYears(1979)
      + before[t.mon] + (IF t.mon > 2 THEN leap ELSE 0) + t.day - 6

\* Whichever system it comes from, the date is the day of the change, and one
\* that the calendar has.
DateRight ==
  g_leap.sign # 0 =>
    LET t == g_leap.leap_time
    IN  /\ t.mon \in 1..12 /\ t.day \in 1..MonDays(t.year, t.mon)
        /\ DayOf(t) = change.day

\* The number of leap seconds changes only to what it is by then.
TakesOverInTime ==
  [][g_leap'.now_leap # g_leap.now_leap /\ g_leap' # Unset
       => g_leap'.now_leap = utc]_vars

\* A forecast ends with the new number taken over, or with a restart.
ForecastEnds ==
  g_leap.sign # 0 ~>
    g_leap = Unset \/ (g_leap.sign = 0 /\ g_leap.now_leap = utc)
=============================================================================
