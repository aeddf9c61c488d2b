----------------------------- MODULE LeapProofs -----------------------------
(***************************************************************************)
(* Theorems about LeapSecond, for every default, number of leap seconds    *)
(* and of restarts, and for every day of a leap second that the three      *)
(* systems can name: what is forecast, when, and that its date is right.   *)
(***************************************************************************)
EXTENDS LeapSecond, WellFoundedInduction, TLAPS

\* What u8_t holds and is the number of no receiver that knows nothing.
Number(n) == n \in Nat /\ 14 < n /\ n < 256

\* The last change, and what there is room for before the number leaves u8_t.
WorldInv ==
  /\ change = [from |-> change.from, to |-> change.to, day |-> change.day]
  /\ Number(change.from) /\ Number(change.to) /\ change.day \in Nat
  /\ leaps \in 0..MaxLeaps
  /\ change.to > 14 + (MaxLeaps - leaps) /\ change.to + (MaxLeaps - leaps) < 256
  /\ utc \in {change.from, change.to}
  /\ bcast \in [Sat -> {"old", "forecast", "new"}] /\ heard \subseteq Sat
  /\ \A s \in Sat : bcast[s] = "new" => utc = change.to

\* Some system has not been heard with the new number yet.
Unsettled == \E s \in Sat : bcast[s] # "new" \/ s \notin heard

UnitInv ==
  /\ g_leap = [now_leap |-> g_leap.now_leap, next_leap |-> g_leap.next_leap,
               sign |-> g_leap.sign, leap_time |-> g_leap.leap_time]
  /\ g_leap.now_leap \in Nat /\ g_leap.sign \in 0..2
  /\ forecasts \in Nat

\* A forecast is of the change, and still needed; one that is over has left
\* the new number.
ForecastInv ==
  /\ g_leap.sign # 0 => /\ change.from # change.to /\ Unsettled
                        /\ forecasts = 1
  /\ g_leap.sign = 0 /\ forecasts # 0 =>
       /\ forecasts = 1
       /\ g_leap.now_leap = change.to /\ change.from # change.to

IInv == WorldInv /\ UnitInv /\ ForecastTrue /\ ForecastInv

-----------------------------------------------------------------------------
\* A number of the BDS comes back through ut4b0_gpsbds_utc_msg_parser's u8_t as
\* what it is.
LEMMA NumberHeard ==
  ASSUME NEW s \in Sat, NEW n, Number(n)
  PROVE  InGps(s, InOwn(s, n)) = n
BY DEF Number, InGps, InOwn, Sat

\* A receiver that knows nothing announces and ends nothing.
LEMMA NothingHeard ==
  ASSUME NEW s \in Sat
  PROVE  InGps(s, 0) \in {0, 14}
BY DEF InGps, Sat

LEMMA InitInv == Init => IInv
<1> SUFFICES ASSUME Init PROVE IInv
  OBVIOUS
<1>1. PICK n \in Starts : change = [from |-> n, to |-> n, day |-> 0]
  BY DEF Init
<1>2. n \in Nat /\ n > MaxLeaps + 14 /\ n + MaxLeaps < 256 /\ MaxLeaps \in Nat
      /\ Default \in Nat
  BY LeapAssumption
<1>3. WorldInv
  BY <1>1, <1>2 DEF Init, WorldInv, Number
<1>4. UnitInv /\ ForecastTrue /\ ForecastInv
  BY <1>2 DEF Init, UnitInv, ForecastTrue, ForecastInv, Unset
<1> QED
  BY <1>3, <1>4 DEF IInv

\* Nobody decides a change while a forecast stands: all have been heard.
LEMMA DecideInv == IInv /\ Decide => IInv'
<1> SUFFICES ASSUME IInv, Decide PROVE IInv'
  OBVIOUS
<1> USE DEF IInv
<1>1. PICK n \in {utc - 1, utc + 1}, d \in Days :
        change' = [from |-> utc, to |-> n, day |-> d]
  BY DEF Decide
<1>2. g_leap.sign = 0
  BY DEF Decide, ForecastInv, Unsettled
<1>3. /\ utc = change.to /\ utc \in Nat
      /\ leaps \in Nat /\ MaxLeaps \in Nat /\ leaps < MaxLeaps /\ leaps' = leaps + 1
      /\ d \in Nat
  BY LeapAssumption DEF Decide, WorldInv, Number
<1>4. WorldInv'
  <2>1. change'.from = utc /\ change'.to = n /\ change'.day = d
    BY <1>1
  <2>2. Number(utc)
    BY <1>3 DEF WorldInv
  <2>3. /\ n \in Nat /\ n > 14 + (MaxLeaps - leaps')
        /\ n + (MaxLeaps - leaps') < 256
    BY <1>3 DEF WorldInv, Number
  <2>4. Number(n)
    BY <2>3, <1>3 DEF Number
  <2>5. bcast' = [s \in Sat |-> "old"] /\ heard' = {} /\ utc' = utc
    BY DEF Decide
  <2> QED
    BY <1>1, <1>3, <2>1, <2>2, <2>3, <2>4, <2>5 DEF WorldInv, Number
<1>5. UnitInv' /\ ForecastTrue' /\ ForecastInv'
  BY <1>2 DEF Decide, unit, UnitInv, ForecastTrue, ForecastInv
<1> QED
  BY <1>4, <1>5

LEMMA AnnounceInv == ASSUME NEW s \in Sat PROVE IInv /\ Announce(s) => IInv'
<1> SUFFICES ASSUME IInv, Announce(s) PROVE IInv'
  OBVIOUS
<1>1. WorldInv'
  BY DEF IInv, Announce, WorldInv
<1>2. UnitInv' /\ ForecastTrue'
  BY DEF IInv, Announce, unit, UnitInv, ForecastTrue
<1>3. Unsettled'
  BY DEF Announce, IInv, WorldInv, Unsettled
<1> QED
  BY <1>1, <1>2, <1>3 DEF IInv, Announce, unit, ForecastInv

LEMMA LeapInv == IInv /\ Leap => IInv'
<1> SUFFICES ASSUME IInv, Leap PROVE IInv'
  OBVIOUS
<1>1. WorldInv'
  BY DEF IInv, Leap, WorldInv
<1>2. UnitInv' /\ ForecastTrue' /\ ForecastInv'
  BY DEF IInv, Leap, unit, UnitInv, ForecastTrue, ForecastInv, Unsettled
<1> QED
  BY <1>1, <1>2 DEF IInv

\* A system that settles has to be heard again.
LEMMA SettleInv == ASSUME NEW s \in Sat PROVE IInv /\ Settle(s) => IInv'
<1> SUFFICES ASSUME IInv, Settle(s) PROVE IInv'
  OBVIOUS
<1>1. WorldInv'
  BY DEF IInv, Settle, WorldInv
<1>2. UnitInv' /\ ForecastTrue'
  BY DEF IInv, Settle, unit, UnitInv, ForecastTrue
<1>3. Unsettled'
  BY DEF Settle, IInv, WorldInv, Unsettled
<1> QED
  BY <1>1, <1>2, <1>3 DEF IInv, Settle, unit, ForecastInv

\* What a system says: only one that still counts the old seconds forecasts, and
\* it forecasts the change; only one that counts the new ones ends that.
LEMMA HearInv == ASSUME NEW s \in Sat PROVE IInv /\ Hear(s) => IInv'
<1> SUFFICES ASSUME IInv, Hear(s) PROVE IInv'
  OBVIOUS
<1> DEFINE now == Now(s)
           next == NextOf(s)
           wn == Week(s, change.day)
           dn == DayOfWeek(s, change.day)
<1>1. Number(now) /\ Number(next)
  BY DEF IInv, WorldInv, Now, NextOf
<1>2. LeapProcess(s, wn, dn, now, next)
  <2>1. InGps(s, InOwn(s, now)) = now /\ InGps(s, InOwn(s, next)) = next
    BY <1>1, NumberHeard
  <2> QED
    BY <2>1 DEF Hear
<1>3. heard' = heard \cup {s} /\ UNCHANGED world
  BY DEF Hear
<1>4. WorldInv'
  BY <1>3 DEF IInv, world, WorldInv
<1>5. /\ bcast[s] = "old" => now = change.from /\ next = change.from
      /\ bcast[s] = "forecast" => now = change.from /\ next = change.to
      /\ bcast[s] = "new" => now = change.to /\ next = change.to
      /\ bcast[s] \in {"old", "forecast", "new"}
  BY DEF IInv, WorldInv, Now, NextOf
<1> HIDE DEF now, next, wn, dn
<1>6. CASE IsForecast(now, next)
  <2>1. /\ bcast[s] = "forecast" /\ g_leap.sign = 0
        /\ now = change.from /\ next = change.to /\ change.from # change.to
        /\ g_leap.now_leap = change.from
    BY <1>5, <1>6 DEF IsForecast
  <2>2. /\ g_leap' = [now_leap |-> NowUntil(next), next_leap |-> next,
                      sign |-> SignOf(next),
                      leap_time |-> GetLeapTime(s, wn, dn)]
        /\ forecasts' = forecasts + 1
    BY <1>2, <1>6 DEF LeapProcess
  <2>3. forecasts = 0
    BY <2>1 DEF IInv, ForecastInv
  <2>4. /\ g_leap'.now_leap = change.from /\ g_leap'.next_leap = change.to
        /\ g_leap'.sign = IF change.to > change.from THEN 1 ELSE 2
    BY <2>1, <2>2 DEF NowUntil, SignOf
  <2>5. Unsettled'
    BY <2>1, <1>3 DEF Unsettled, world
  <2>6. UnitInv'
    <3>1. change.from \in Nat
      BY DEF IInv, WorldInv, Number
    <3>2. forecasts' = 1
      BY <2>2, <2>3
    <3>3. g_leap' = [now_leap |-> g_leap'.now_leap,
                     next_leap |-> g_leap'.next_leap,
                     sign |-> g_leap'.sign, leap_time |-> g_leap'.leap_time]
      BY <2>2
    <3> QED
      BY <2>4, <3>1, <3>2, <3>3 DEF UnitInv
  <2> QED
    BY <1>3, <1>4, <2>1, <2>3, <2>2, <2>4, <2>5, <2>6
    DEF IInv, world, ForecastTrue, ForecastInv
<1>7. CASE ~IsForecast(now, next) /\ IsOver(now, next)
  <2>1. g_leap' = [g_leap EXCEPT !.now_leap = now, !.sign = 0]
        /\ UNCHANGED forecasts
    BY <1>2, <1>7 DEF LeapProcess
  <2>2. now = change.to /\ g_leap.sign # 0
    BY <1>7 DEF IsOver, IInv, ForecastTrue
  <2>3. g_leap'.now_leap = change.to /\ g_leap'.sign = 0
    BY <2>1, <2>2 DEF IInv, UnitInv
  <2>4. UnitInv'
    <3>1. PICK a, b, c, d : g_leap = [now_leap |-> a, next_leap |-> b,
                                      sign |-> c, leap_time |-> d]
      BY DEF IInv, UnitInv
    <3>2. g_leap' = [now_leap |-> now, next_leap |-> b, sign |-> 0,
                     leap_time |-> d]
      BY <2>1, <3>1
    <3>3. g_leap' = [now_leap |-> g_leap'.now_leap,
                     next_leap |-> g_leap'.next_leap,
                     sign |-> g_leap'.sign, leap_time |-> g_leap'.leap_time]
      BY <3>2
    <3>4. now \in Nat /\ forecasts' \in Nat
      BY <1>1, <2>1 DEF Number, IInv, UnitInv
    <3> QED
      BY <3>2, <3>3, <3>4 DEF UnitInv
  <2> QED
    BY <1>3, <1>4, <2>1, <2>2, <2>3, <2>4
    DEF IInv, world, ForecastTrue, ForecastInv
<1>8. CASE ~IsForecast(now, next) /\ ~IsOver(now, next)
  <2>1. UNCHANGED <<g_leap, forecasts>>
    BY <1>2, <1>8 DEF LeapProcess
  <2>2. ASSUME g_leap.sign # 0
        PROVE  bcast[s] # "new"
    BY <2>2, <1>5, <1>8 DEF IsOver, IInv, ForecastTrue
  <2>3. g_leap.sign # 0 => Unsettled'
    BY <2>2, <1>3 DEF Unsettled, world
  <2> QED
    BY <1>3, <1>4, <2>1, <2>3 DEF IInv, world, UnitInv, ForecastTrue, ForecastInv
<1> QED
  BY <1>6, <1>7, <1>8

LEMMA HearNothingInv ==
  ASSUME NEW s \in Sat PROVE IInv /\ HearNothing(s) => IInv'
<1> SUFFICES ASSUME IInv, HearNothing(s) PROVE IInv'
  OBVIOUS
<1> DEFINE n == InGps(s, 0)
<1>1. LeapProcess(s, 0, 0, n, n) /\ UNCHANGED <<world, heard>>
  BY DEF HearNothing
<1>2. n \in {0, 14}
  BY NothingHeard
<1> HIDE DEF n
<1>3. ~IsForecast(n, n)
  BY DEF IsForecast
<1>4. ~IsOver(n, n)
  BY <1>2 DEF IsOver, IInv, ForecastTrue, WorldInv, Number
<1>5. UNCHANGED <<g_leap, forecasts>>
  BY <1>1, <1>3, <1>4 DEF LeapProcess
<1> QED
  BY <1>1, <1>5 DEF IInv, world, WorldInv, UnitInv, ForecastTrue, ForecastInv,
                    Unsettled

LEMMA HearNoiseInv ==
  ASSUME NEW s \in Sat PROVE IInv /\ HearNoise(s) => IInv'
BY DEF HearNoise, IInv, world, WorldInv, UnitInv, ForecastTrue, ForecastInv,
       Unsettled

\* A device that starts again knows nothing of a forecast.
LEMMA RestartInv == IInv /\ Restart => IInv'
<1> SUFFICES ASSUME IInv, Restart PROVE IInv'
  OBVIOUS
<1>1. WorldInv'
  BY DEF IInv, Restart, world, WorldInv
<1>2. UnitInv' /\ ForecastTrue' /\ ForecastInv'
  BY LeapAssumption DEF Restart, Unset, UnitInv, ForecastTrue, ForecastInv
<1> QED
  BY <1>1, <1>2 DEF IInv

LEMMA StutterInv == IInv /\ UNCHANGED vars => IInv'
BY DEF vars, world, unit, IInv, WorldInv, UnitInv, ForecastTrue, ForecastInv,
       Unsettled

LEMMA NextInv == IInv /\ [Next]_vars => IInv'
BY DecideInv, LeapInv, RestartInv, AnnounceInv, SettleInv, HearInv,
   HearNothingInv, HearNoiseInv, StutterInv DEF Next

-----------------------------------------------------------------------------
\* The inductive invariant: a forecast is of the change that is due and stands
\* no longer than some system has not been heard with the new number.
THEOREM Invariance == Spec => []IInv
BY InitInv, NextInv, PTL DEF Spec

\* However the systems differ in when they announce a change and when they drop
\* it, one change is forecast once.
THEOREM ForecastsOnce == Spec => []ForecastOnce
<1>1. IInv => ForecastOnce
  BY DEF IInv, UnitInv, ForecastInv, ForecastOnce
<1> QED
  BY <1>1, Invariance, PTL

\* What is forecast is the change that is due, with its direction.
THEOREM ForecastsTrue == Spec => []ForecastTrue
<1>1. IInv => ForecastTrue
  BY DEF IInv
<1> QED
  BY <1>1, Invariance, PTL

\* The number the device counts with changes only to the one that is true.
THEOREM TakesOver == Spec => TakesOverInTime
<1> DEFINE A == g_leap'.now_leap # g_leap.now_leap /\ g_leap' # Unset
                  => g_leap'.now_leap = utc
<1>1. IInv /\ [Next]_vars => [A]_vars
  <2> SUFFICES ASSUME IInv, Next, g_leap'.now_leap # g_leap.now_leap,
                      g_leap' # Unset
               PROVE  g_leap'.now_leap = utc
    OBVIOUS
  <2>1. PICK s \in Sat : Hear(s) \/ HearNothing(s)
    BY DEF Next, Decide, Announce, Leap, Settle, HearNoise, Restart, unit
  <2>2. PICK wn, dn, now, next : LeapProcess(s, wn, dn, now, next)
                                 /\ (Hear(s) => /\ now = InGps(s, InOwn(s, Now(s)))
                                                /\ next = InGps(s, InOwn(s, NextOf(s))))
                                 /\ (~Hear(s) => now = InGps(s, 0) /\ next = now)
    BY <2>1 DEF Hear, HearNothing
  <2>3. IsOver(now, next) /\ g_leap' = [g_leap EXCEPT !.now_leap = now, !.sign = 0]
    BY <2>2 DEF LeapProcess, NowUntil
  <2>4. g_leap'.now_leap = now
    BY <2>3 DEF IInv, UnitInv
  <2>5. now = change.to /\ next = change.to /\ change.from # change.to
    BY <2>3 DEF IsOver, IInv, ForecastTrue, ForecastInv
  <2>6. Hear(s)
    BY <2>2, <2>5, NothingHeard DEF IInv, WorldInv, Number
  <2>7. Number(Now(s)) /\ Number(NextOf(s))
    BY DEF IInv, WorldInv, Now, NextOf
  <2>8. now = Now(s)
    BY <2>2, <2>6, <2>7, NumberHeard
  <2>9. bcast[s] = "new"
    BY <2>5, <2>8 DEF Now
  <2> QED
    BY <2>4, <2>5, <2>9 DEF IInv, WorldInv
<1>2. Spec => [][A]_vars
  <2> HIDE DEF A, IInv
  <2> QED
    BY <1>1, Invariance, PTL DEF Spec
<1> QED
  BY <1>2 DEF TakesOverInTime

-----------------------------------------------------------------------------
\* The calendar.  A loop that runs g until it is in H has a result: what the
\* places it reaches from t have in H is one place at most.
Closed(S, H, g) == \A v \in S : v \notin H => g[v] \in S

Reach(t, D, H, g) ==
  {u \in D : \A S \in SUBSET D : t \in S /\ Closed(S, H, g) => u \in S}

Stops(t, D, H, g) == Reach(t, D, H, g) \cap H

LEMMA StopsHere ==
  ASSUME NEW D, NEW H, NEW g, NEW t \in D, t \in H
  PROVE  Stops(t, D, H, g) = {t}
<1>1. {t} \in SUBSET D /\ t \in {t} /\ Closed({t}, H, g)
  BY DEF Closed
<1>2. \A u \in Reach(t, D, H, g) : u \in {t}
  BY <1>1, Zenon DEF Reach
<1>3. t \in Reach(t, D, H, g)
  BY DEF Reach
<1> QED
  BY <1>2, <1>3 DEF Stops

LEMMA StopsThere ==
  ASSUME NEW D, NEW H, NEW g, \A v \in D : v \notin H => g[v] \in D,
         NEW t \in D, t \notin H
  PROVE  Stops(t, D, H, g) = Stops(g[t], D, H, g)
<1> DEFINE R == Reach(g[t], D, H, g)
<1>1. g[t] \in D
  OBVIOUS
<1>2. ASSUME NEW u \in Reach(g[t], D, H, g) PROVE u \in Reach(t, D, H, g)
  <2>1. ASSUME NEW S \in SUBSET D, t \in S, Closed(S, H, g) PROVE u \in S
    <3>1. g[t] \in S
      BY <2>1 DEF Closed
    <3> QED
      BY <1>2, <2>1, <3>1 DEF Reach
  <2> QED
    BY <1>2, <2>1 DEF Reach
<1>3. R \subseteq D /\ g[t] \in R
  BY <1>1 DEF Reach
<1>4. Closed(R, H, g)
  <2> SUFFICES ASSUME NEW v \in R, v \notin H PROVE g[v] \in R
    BY DEF Closed
  <2>1. g[v] \in D
    BY <1>3
  <2>2. ASSUME NEW S \in SUBSET D, g[t] \in S, Closed(S, H, g) PROVE g[v] \in S
    <3>1. v \in S
      BY <2>2 DEF Reach
    <3> QED
      BY <2>2, <3>1 DEF Closed
  <2> QED
    BY <2>1, <2>2 DEF Reach
<1> HIDE DEF R
<1>5. /\ {t} \cup R \in SUBSET D /\ t \in {t} \cup R
      /\ Closed({t} \cup R, H, g)
  BY <1>3, <1>4 DEF Closed
<1>6. \A u \in Reach(t, D, H, g) : u \in {t} \cup R
  BY <1>5, Zenon DEF Reach
<1> QED
  BY <1>2, <1>6 DEF Stops, R

IsLoop(f, D, H, g, r) == f = [t \in D |-> IF t \in H THEN r[t] ELSE f[g[t]]]

LEMMA Loops ==
  ASSUME NEW D, NEW H, NEW g, \A v \in D : v \notin H => g[v] \in D, NEW r
  PROVE  \E f : IsLoop(f, D, H, g, r)
<1> DEFINE Result(S) == r[CHOOSE u : u \in S]
           f == [t \in D |-> Result(Stops(t, D, H, g))]
<1>1. ASSUME NEW t \in D PROVE f[t] = IF t \in H THEN r[t] ELSE f[g[t]]
  <2>1. f[t] = Result(Stops(t, D, H, g))
    OBVIOUS
  <2>2. CASE t \in H
    <3>1. Stops(t, D, H, g) = {t}
      BY <2>2, StopsHere
    <3>2. (CHOOSE u : u \in {t}) = t
      OBVIOUS
    <3> QED
      BY <2>1, <2>2, <3>1, <3>2
  <2>3. CASE t \notin H
    <3>1. Stops(t, D, H, g) = Stops(g[t], D, H, g) /\ g[t] \in D
      BY <2>3, StopsThere
    <3>2. f[g[t]] = Result(Stops(g[t], D, H, g))
      BY <3>1
    <3> HIDE DEF Result, f
    <3> QED
      BY <2>1, <2>3, <3>1, <3>2
  <2> QED
    BY <2>2, <2>3
<1>2. f = [t \in D |-> f[t]]
  OBVIOUS
<1> HIDE DEF f
<1>3. f = [t \in D |-> IF t \in H THEN r[t] ELSE f[g[t]]]
  BY <1>1, <1>2
<1> QED
  BY <1>3 DEF IsLoop

-----------------------------------------------------------------------------
\* The month after, and the year after, of a date that is not one yet.
MonthAfter(t) == [t EXCEPT !.mon = @ + 1, !.day = @ - MonDays(t.year, t.mon)]
YearAfter(u)  == [year |-> u.year + 1, mon |-> 1, day |-> u.day]

Whole(t) == t.mon = 13 \/ t.day <= MonDays(t.year, t.mon)

LEMMA MonthLength == ASSUME NEW y, NEW m PROVE MonDays(y, m) \in 28..31
BY DEF MonDays

LEMMA MonthAfterIs ==
  ASSUME NEW t \in Date, ~Whole(t)
  PROVE  /\ MonthAfter(t) \in Date /\ t.mon # 13 /\ t.mon \in 1..12
         /\ MonthAfter(t).year = t.year /\ MonthAfter(t).mon = t.mon + 1
         /\ MonthAfter(t).day = t.day - MonDays(t.year, t.mon)
         /\ MonthAfter(t).day < t.day /\ MonthAfter(t).day >= 1
<1> DEFINE n == MonDays(t.year, t.mon)
<1>1. n \in 28..31
  BY MonthLength
<1>2. t.year \in Nat /\ t.mon \in 1..13 /\ t.day \in Nat
      /\ t = [year |-> t.year, mon |-> t.mon, day |-> t.day]
  BY DEF Date
<1>3. t.mon # 13 /\ ~(t.day <= n)
  BY DEF Whole
<1> HIDE DEF n
<1>4. t.mon \in 1..12 /\ t.mon + 1 \in 1..13 /\ t.day - n \in Nat
      /\ t.day - n < t.day /\ t.day - n >= 1
  BY <1>1, <1>2, <1>3
<1>5. MonthAfter(t) = [t EXCEPT !.mon = t.mon + 1, !.day = t.day - n]
  BY DEF MonthAfter, n
<1>6. /\ MonthAfter(t).year = t.year /\ MonthAfter(t).mon = t.mon + 1
      /\ MonthAfter(t).day = t.day - n
  <2>1. PICK a, b, c : t = [year |-> a, mon |-> b, day |-> c]
    BY <1>2
  <2> QED
    BY <1>5, <2>1
<1>7. MonthAfter(t) \in Date
  <2>1. \A p \in 1..13, q \in Nat : [t EXCEPT !.mon = p, !.day = q] \in Date
    BY DEF Date
  <2> QED
    BY <1>4, <1>5, <2>1
<1> QED
  BY <1>3, <1>4, <1>6, <1>7 DEF n

LEMMA MonthsIs ==
  ASSUME NEW t \in Date
  PROVE  Months[t] = IF Whole(t) THEN t ELSE Months[MonthAfter(t)]
<1> DEFINE H == {u \in Date : Whole(u)}
           g == [u \in Date |-> MonthAfter(u)]
           r == [u \in Date |-> u]
<1>1. \A u \in Date : u \notin H => g[u] \in Date
  BY MonthAfterIs
<1>2. \E f : IsLoop(f, Date, H, g, r)
  <2> HIDE DEF H, g, r
  <2> QED
    BY <1>1, Loops, Zenon
<1>3. PICK f : f = [u \in Date |-> IF u \in H THEN r[u] ELSE f[g[u]]]
  BY <1>2 DEF IsLoop
<1>4. f = [u \in Date |->
             IF u.mon = 13 \/ u.day <= MonDays(u.year, u.mon) THEN u
             ELSE f[[u EXCEPT !.mon = @ + 1,
                              !.day = @ - MonDays(u.year, u.mon)]]]
  <2>1. \A u \in Date : (IF u \in H THEN r[u] ELSE f[g[u]])
                        = IF Whole(u) THEN u ELSE f[MonthAfter(u)]
    OBVIOUS
  <2>2. f = [u \in Date |-> IF Whole(u) THEN u ELSE f[MonthAfter(u)]]
    BY <1>3, <2>1, Zenon
  <2> QED
    BY <2>2, Zenon DEF Whole, MonthAfter
<1>5. Months = [u \in Date |->
                  IF u.mon = 13 \/ u.day <= MonDays(u.year, u.mon) THEN u
                  ELSE Months[[u EXCEPT !.mon = @ + 1,
                                        !.day = @ - MonDays(u.year, u.mon)]]]
  BY <1>4, Zenon DEF Months
<1>6. Months = [u \in Date |-> IF Whole(u) THEN u ELSE Months[MonthAfter(u)]]
  BY <1>5, Zenon DEF Whole, MonthAfter
<1> QED
  BY <1>6, Zenon

-----------------------------------------------------------------------------
\* What adds up.  The days of the months, ...
Before == <<0, 31, 59, 90, 120, 151, 181, 212, 243, 273, 304, 334>>

Leap366(y) == LeapYears(y) - LeapYears(y - 1)

LEMMA LeapYear ==
  ASSUME NEW y \in Nat
  PROVE  /\ LeapYears(y) \in Int /\ LeapYears(y - 1) \in Int
         /\ Leap366(y) = IF IsLeapYear(y) THEN 1 ELSE 0
<1>1. y - 1 \in Int /\ LeapYears(y) \in Int /\ LeapYears(y - 1) \in Int
  BY DEF LeapYears
<1>2. /\ y \div 4 - (y - 1) \div 4 = IF y % 4 = 0 THEN 1 ELSE 0
      /\ y \div 100 - (y - 1) \div 100 = IF y % 100 = 0 THEN 1 ELSE 0
      /\ y \div 400 - (y - 1) \div 400 = IF y % 400 = 0 THEN 1 ELSE 0
  OBVIOUS
<1>3. (y % 100 = 0 => y % 4 = 0) /\ (y % 400 = 0 => y % 100 = 0)
  OBVIOUS
<1> QED
  BY <1>1, <1>2, <1>3 DEF Leap366, LeapYears, IsLeapYear

\* ... and of the years.
Base(y)   == 365 * (y - 1980) + LeapYears(y - 1) - LeapYears(1979)
Off(y, m) == Before[m] + (IF m > 2 THEN Leap366(y) ELSE 0)

LEMMA DayIs ==
  ASSUME NEW t \in Date, t.mon # 13
  PROVE  DayOf(t) = Base(t.year) + Off(t.year, t.mon) + t.day - 6
<1> DEFINE y == t.year
           m == t.mon
           l == IF m > 2 THEN Leap366(y) ELSE 0
<1>1. y \in Nat /\ m \in 1..12 /\ t.day \in Nat
  BY DEF Date
<1>2. LeapYears(y - 1) \in Int /\ LeapYears(1979) \in Int /\ Leap366(y) \in Int
  BY <1>1, LeapYear DEF LeapYears
<1>3. \A i \in 1..12 : Before[i] \in Nat
  BY DEF Before
<1>4. Before[m] \in Nat /\ l \in Int
  BY <1>1, <1>2, <1>3
<1>5. DayOf(t) = 365 * (y - 1980) + LeapYears(y - 1) - LeapYears(1979)
                 + Before[m] + l + t.day - 6
  BY Zenon DEF DayOf, Before, Leap366
<1>6. Base(y) + Off(y, m) = 365 * (y - 1980) + LeapYears(y - 1)
                            - LeapYears(1979) + (Before[m] + l)
  BY Zenon DEF Base, Off
<1> HIDE DEF l
<1> QED
  BY <1>1, <1>2, <1>4, <1>5, <1>6

LEMMA OffIs ==
  ASSUME NEW y \in Nat
  PROVE  /\ Off(y, 1) = 0
         /\ \A m \in 1..12 : Off(y, m) \in Nat
         /\ \A m \in 1..11 : Off(y, m + 1) = Off(y, m) + MonDays(y, m)
         /\ Off(y, 12) + MonDays(y, 12) = 365 + Leap366(y)
<1> DEFINE e == IF IsLeapYear(y) THEN 1 ELSE 0
<1>1. Leap366(y) = e /\ e \in {0, 1}
  BY LeapYear
<1>2. /\ MonDays(y, 1) = 31 /\ MonDays(y, 2) = 28 + e /\ MonDays(y, 3) = 31
      /\ MonDays(y, 4) = 30 /\ MonDays(y, 5) = 31 /\ MonDays(y, 6) = 30
      /\ MonDays(y, 7) = 31 /\ MonDays(y, 8) = 31 /\ MonDays(y, 9) = 30
      /\ MonDays(y, 10) = 31 /\ MonDays(y, 11) = 30 /\ MonDays(y, 12) = 31
  BY DEF MonDays
<1> HIDE DEF e
<1>3. /\ Off(y, 1) = 0 /\ Off(y, 2) = 31 /\ Off(y, 3) = 59 + e
      /\ Off(y, 4) = 90 + e /\ Off(y, 5) = 120 + e /\ Off(y, 6) = 151 + e
  BY <1>1 DEF Off, Before
<1>4. /\ Off(y, 7) = 181 + e /\ Off(y, 8) = 212 + e /\ Off(y, 9) = 243 + e
      /\ Off(y, 10) = 273 + e /\ Off(y, 11) = 304 + e /\ Off(y, 12) = 334 + e
  BY <1>1 DEF Off, Before
<1>5. \A m \in 1..12 : \/ m = 1 \/ m = 2 \/ m = 3 \/ m = 4 \/ m = 5 \/ m = 6
                       \/ m = 7 \/ m = 8 \/ m = 9 \/ m = 10 \/ m = 11 \/ m = 12
  OBVIOUS
<1>6. \A m \in 1..12 : Off(y, m) \in Nat
  BY <1>1, <1>3, <1>4, <1>5
<1>7. ASSUME NEW m \in 1..11 PROVE Off(y, m + 1) = Off(y, m) + MonDays(y, m)
  <2>1. \/ m = 1 \/ m = 2 \/ m = 3 \/ m = 4 \/ m = 5 \/ m = 6
        \/ m = 7 \/ m = 8 \/ m = 9 \/ m = 10 \/ m = 11
    OBVIOUS
  <2> QED
    BY <1>1, <1>2, <1>3, <1>4, <2>1
<1> QED
  BY <1>1, <1>2, <1>3, <1>4, <1>6, <1>7

LEMMA BaseIs ==
  ASSUME NEW y \in Nat
  PROVE  Base(y) \in Int /\ Base(y + 1) = Base(y) + 365 + Leap366(y)
<1>1. LeapYears(y) \in Int /\ LeapYears(y - 1) \in Int /\ LeapYears(1979) \in Int
  BY DEF LeapYears
<1>2. y + 1 - 1 = y
  OBVIOUS
<1> QED
  BY <1>1, <1>2 DEF Base, Leap366

\* The date of a day, when the month is the first of the next year.
Roll(u) == IF u.mon = 13 THEN YearAfter(u) ELSE u

LEMMA RollIs ==
  ASSUME NEW u \in Date, u.mon = 13
  PROVE  /\ YearAfter(u) \in Date /\ YearAfter(u).year = u.year + 1
         /\ YearAfter(u).mon = 1 /\ YearAfter(u).day = u.day
BY DEF YearAfter, Date

LEMMA SameDay ==
  ASSUME NEW t \in Date, ~Whole(t)
  PROVE  DayOf(Roll(MonthAfter(t))) = DayOf(t)
<1> DEFINE u == MonthAfter(t)
           y == t.year
           m == t.mon
           n == MonDays(y, m)
<1>1. u \in Date /\ m \in 1..12 /\ u.year = y /\ u.mon = m + 1
      /\ u.day = t.day - n
  BY MonthAfterIs
<1>2. y \in Nat /\ t.day \in Nat /\ n \in Nat
  BY MonthLength DEF Date
<1>3. /\ Off(y, m) \in Nat
      /\ m # 12 => Off(y, m + 1) = Off(y, m) + n
      /\ m = 12 => Off(y, m) + n = 365 + Leap366(y)
  <2>1. m # 12 => m \in 1..11
    BY <1>1
  <2> QED
    BY <1>1, <1>2, <2>1, OffIs
<1>4. /\ Base(y) \in Int /\ Base(y + 1) = Base(y) + 365 + Leap366(y)
      /\ Off(y + 1, 1) = 0 /\ Leap366(y) \in Int
  <2>1. Leap366(y) \in Int
    BY <1>2, LeapYear
  <2>2. y + 1 \in Nat
    BY <1>2
  <2> QED
    BY <1>2, <2>1, <2>2, OffIs, BaseIs
<1>5. DayOf(t) = Base(y) + Off(y, m) + t.day - 6
  BY <1>1, DayIs
<1> HIDE DEF u, y, m, n
<1>6. CASE m # 12
  <2>1. Roll(u) = u
    BY <1>1, <1>6 DEF Roll
  <2>2. DayOf(u) = Base(y) + Off(y, m + 1) + (t.day - n) - 6
    BY <1>1, <1>6, DayIs
  <2> QED
    BY <1>2, <1>3, <1>4, <1>5, <1>6, <2>1, <2>2 DEF u
<1>7. CASE m = 12
  <2>1. u.mon = 13
    BY <1>1, <1>7
  <2>2. Roll(u) = YearAfter(u)
    BY <2>1 DEF Roll
  <2>3. DayOf(YearAfter(u)) = Base(y + 1) + Off(y + 1, 1) + (t.day - n) - 6
    <3>1. /\ YearAfter(u) \in Date /\ YearAfter(u).year = y + 1
          /\ YearAfter(u).mon = 1 /\ YearAfter(u).day = t.day - n
      BY <1>1, <2>1, RollIs
    <3> QED
      BY <3>1, DayIs
  <2> QED
    BY <1>2, <1>3, <1>4, <1>5, <1>7, <2>2, <2>3 DEF u
<1> QED
  BY <1>6, <1>7

-----------------------------------------------------------------------------
\* A set of numbers that is not empty has a least one.
LEMMA Least ==
  ASSUME NEW T, T \subseteq Nat, T # {}
  PROVE  \E x \in T : \A y \in T : x <= y
<1>1. PICK x \in T : \A y \in T : ~(<<y, x>> \in OpToRel(<, Nat))
  BY NatLessThanWellFounded, WFMin, Zenon
<1>2. ASSUME NEW y \in T, y < x PROVE <<y, x>> \in OpToRel(<, Nat)
  <2>1. y \in Nat /\ x \in Nat
    OBVIOUS
  <2> QED
    BY <1>2, <2>1, Zenon DEF OpToRel
<1>3. \A y \in T : ~(y < x)
  BY <1>1, <1>2
<1> QED
  BY <1>3

\* So what holds of a date as soon as it holds of all with fewer days holds of
\* all of them.
LEMMA FewerDays ==
  ASSUME NEW G, \A t \in Date : (\A v \in Date : v.day < t.day => v \in G)
                                  => t \in G
  PROVE  Date \subseteq G
<1> SUFFICES ASSUME NEW w \in Date, w \notin G PROVE FALSE
  OBVIOUS
<1> DEFINE T == {t.day : t \in Date \ G}
<1>1. \A t \in Date : t.day \in Nat
  BY DEF Date
<1>2. T \subseteq Nat /\ T # {}
  BY <1>1
<1>3. PICK x \in T : \A y \in T : x <= y
  <2> HIDE DEF T
  <2> QED
    BY <1>2, Least
<1>4. PICK t \in Date \ G : x = t.day
  BY <1>3
<1>5. PICK v \in Date : v.day < t.day /\ v \notin G
  BY <1>4
<1>6. v.day \in T
  BY <1>5
<1> HIDE DEF T
<1> QED
  BY <1>1, <1>3, <1>4, <1>5, <1>6

\* What the months of a year leave is the same day.
MonthsGood(t) ==
  LET u == Months[t]
  IN  /\ u \in Date /\ Whole(u) /\ u.year = t.year
      /\ t.day >= 1 => u.day >= 1
      /\ t.mon # 13 /\ u.mon = 13 => u.day < t.day
      /\ DayOf(Roll(u)) = DayOf(Roll(t))

LEMMA MonthsDay == \A t \in Date : MonthsGood(t)
<1> DEFINE G == {t \in Date : MonthsGood(t)}
<1>1. ASSUME NEW t \in Date, \A v \in Date : v.day < t.day => v \in G
      PROVE  t \in G
  <2>1. CASE Whole(t)
    BY <2>1, MonthsIs DEF MonthsGood
  <2>2. CASE ~Whole(t)
    <3> DEFINE v == MonthAfter(t)
    <3>1. v \in Date /\ t.mon # 13 /\ v.year = t.year /\ v.day < t.day
          /\ v.day >= 1
      BY <2>2, MonthAfterIs
    <3>2. Months[t] = Months[v]
      BY <2>2, MonthsIs
    <3>3. DayOf(Roll(v)) = DayOf(Roll(t))
      BY <2>2, <3>1, SameDay DEF Roll
    <3> HIDE DEF v
    <3>4. MonthsGood(v)
      BY <1>1, <3>1
    <3>5. Months[v] \in Date /\ (Months[v].mon = 13 => Months[v].day <= v.day)
      <4>1. v.mon = 13 => Months[v] = v
        BY <3>1, MonthsIs DEF Whole
      <4>2. Months[v].day \in Nat /\ v.day \in Nat
        BY <3>1, <3>4 DEF MonthsGood, Date
      <4> QED
        BY <3>4, <4>1, <4>2 DEF MonthsGood
    <3>6. t.day \in Nat /\ v.day \in Nat /\ Months[v].day \in Nat
      BY <3>1, <3>5 DEF Date
    <3> QED
      BY <3>1, <3>2, <3>3, <3>4, <3>5, <3>6 DEF MonthsGood
  <2> QED
    BY <2>1, <2>2
<1> HIDE DEF G
<1>2. Date \subseteq G
  BY <1>1, FewerDays
<1> QED
  BY <1>2 DEF G

LEMMA WalkIs ==
  ASSUME NEW t \in Date
  PROVE  Walk[t] = IF Months[t].mon = 13 THEN Walk[YearAfter(Months[t])]
                   ELSE Months[t]
<1> DEFINE H == {u \in Date : Months[u].mon # 13}
           g == [u \in Date |-> YearAfter(Months[u])]
           r == [u \in Date |-> Months[u]]
<1>1. \A u \in Date : u \notin H => g[u] \in Date
  BY MonthsDay, RollIs DEF MonthsGood
<1>2. \E f : IsLoop(f, Date, H, g, r)
  <2> HIDE DEF H, g, r
  <2> QED
    BY <1>1, Loops, Zenon
<1>3. PICK f : f = [u \in Date |-> IF u \in H THEN r[u] ELSE f[g[u]]]
  BY <1>2 DEF IsLoop
<1>4. f = [u \in Date |-> IF Months[u].mon = 13 THEN f[YearAfter(Months[u])]
                          ELSE Months[u]]
  <2>1. \A u \in Date :
          (IF u \in H THEN r[u] ELSE f[g[u]])
            = IF Months[u].mon = 13 THEN f[YearAfter(Months[u])] ELSE Months[u]
    OBVIOUS
  <2> QED
    BY <1>3, <2>1, Zenon
<1>5. Walk = [u \in Date |-> IF Months[u].mon = 13
                             THEN Walk[YearAfter(Months[u])] ELSE Months[u]]
  BY <1>4, Zenon DEF Walk, YearAfter
<1> QED
  BY <1>5, Zenon

WalkGood(t) ==
  LET u == Walk[t]
  IN  t.mon # 13 => /\ u \in Date /\ Whole(u) /\ u.mon # 13 /\ u.year >= t.year
                    /\ t.day >= 1 => u.day >= 1
                    /\ DayOf(u) = DayOf(t)

LEMMA WalkDay == \A t \in Date : WalkGood(t)
<1> DEFINE G == {t \in Date : WalkGood(t)}
<1>1. ASSUME NEW t \in Date, \A v \in Date : v.day < t.day => v \in G
      PROVE  t \in G
  <2> SUFFICES ASSUME t.mon # 13 PROVE WalkGood(t)
    BY DEF WalkGood
  <2> DEFINE u == Months[t]
  <2>1. /\ u \in Date /\ Whole(u) /\ u.year = t.year
        /\ t.day >= 1 => u.day >= 1
        /\ u.mon = 13 => u.day < t.day
        /\ DayOf(Roll(u)) = DayOf(t)
    <3>1. MonthsGood(t) /\ Roll(t) = t
      BY MonthsDay DEF Roll
    <3> QED
      BY <3>1 DEF MonthsGood
  <2>2. t.year \in Nat /\ t.day \in Nat
    BY DEF Date
  <2>3. CASE u.mon # 13
    <3>1. Walk[t] = u /\ Roll(u) = u
      BY <2>3, WalkIs DEF Roll
    <3> HIDE DEF u
    <3> QED
      BY <2>1, <2>2, <2>3, <3>1 DEF WalkGood
  <2>4. CASE u.mon = 13
    <3> DEFINE v == YearAfter(u)
    <3>1. v \in Date /\ v.year = t.year + 1 /\ v.mon = 1 /\ v.day = u.day
      BY <2>1, <2>4, RollIs
    <3>2. Walk[t] = Walk[v] /\ Roll(u) = v
      BY <2>4, WalkIs DEF Roll
    <3> HIDE DEF u, v
    <3>3. WalkGood(v)
      BY <1>1, <2>1, <2>4, <3>1
    <3>4. /\ Walk[v] \in Date /\ Whole(Walk[v]) /\ Walk[v].mon # 13
          /\ Walk[v].year >= v.year
          /\ v.day >= 1 => Walk[v].day >= 1
          /\ DayOf(Walk[v]) = DayOf(v)
      BY <3>1, <3>3 DEF WalkGood
    <3>5. Walk[v].year \in Nat
      BY <3>4 DEF Date
    <3> QED
      BY <2>1, <2>2, <3>1, <3>2, <3>4, <3>5 DEF WalkGood
  <2> QED
    BY <2>3, <2>4
<1> HIDE DEF G
<1>2. Date \subseteq G
  BY <1>1, FewerDays
<1> QED
  BY <1>2 DEF G

-----------------------------------------------------------------------------
\* The years between two days are as many as there is room for.
LEMMA OffNat == ASSUME NEW y \in Nat, NEW m \in 1..12 PROVE Off(y, m) \in Nat
BY OffIs

LEMMA BaseLow ==
  ASSUME NEW y \in Nat, y >= 1980
  PROVE  Base(y) \in Int /\ Base(y) >= 365 * (y - 1980)
<1>1. LeapYears(y - 1) >= LeapYears(1979)
  BY DEF LeapYears
<1>2. LeapYears(y - 1) \in Int /\ LeapYears(1979) \in Int
  BY DEF LeapYears
<1> QED
  BY <1>1, <1>2 DEF Base

LEMMA YearFits ==
  ASSUME NEW y \in Nat, y >= 1980, NEW o \in Nat, NEW d \in Nat, d >= 1,
         NEW Y \in Nat, Base(y) + o + d - 6 < 365 * Y
  PROVE  y <= Y + 1980
<1> DEFINE b == Base(y)
<1>1. b \in Int /\ b >= 365 * (y - 1980)
  BY BaseLow
<1>2. b + o + d - 6 < 365 * Y
  OBVIOUS
<1> HIDE DEF b
<1>3. 365 * (y - 1980) < 365 * Y + 6
  BY <1>1, <1>2, SMT
<1> QED
  BY <1>3, SMT

\* What the receiver says of a day comes back as the day.
LEMMA WeekDay ==
  ASSUME NEW s \in Sat, NEW d \in Days
  PROVE  /\ Week(s, d) * 7 + DayFrom0(DayOfWeek(s, d), s) = d - Epoch[s]
         /\ d - Epoch[s] \in Nat
<1> DEFINE n == d - Epoch[s]
<1>1. d \in Nat /\ Epoch["BDS"] <= d /\ Epoch["BDS"] = 9492
      /\ Epoch["GPS"] = 0 /\ Epoch["GAL"] = 7168
  BY LeapAssumption DEF Epoch
<1>2. n \in Nat
  BY <1>1 DEF Sat
<1>3. First["BDS"] = 0 /\ First["GPS"] = 1 /\ First["GAL"] = 1
  BY DEF First
<1>4. Week(s, d) = n \div 7 /\ DayOfWeek(s, d) = (n % 7) + First[s]
  BY Zenon DEF Week, DayOfWeek
<1> HIDE DEF n
<1>5. n % 7 \in 0..6 /\ (n \div 7) * 7 + (n % 7) = n
  BY <1>2
<1>6. DayFrom0((n % 7) + First[s], s) = n % 7
  <2>1. \A r \in 0..6 : (r + 1 - 1) % 256 = r /\ r + 0 = r
    OBVIOUS
  <2> QED
    BY <1>3, <1>5, <2>1 DEF DayFrom0, Sat
<1> QED
  BY <1>2, <1>4, <1>5, <1>6 DEF n

\* The date is that of the day, whichever system says it.
DateOf(t, d) == /\ t \in Date /\ t.year < 65536 /\ t.mon \in 1..12
                /\ t.day \in 1..MonDays(t.year, t.mon) /\ DayOf(t) = d

LEMMA AfterIs ==
  ASSUME NEW s \in Sat, NEW k \in Nat
  PROVE  /\ After(s, k) \in Date /\ After(s, k).mon # 13
         /\ After(s, k).year >= 1980 /\ After(s, k).day >= 1
         /\ DayOf(After(s, k)) = k + Epoch[s]
<1> DEFINE t == After(s, k)
<1>1. /\ Base(1980) = 0 /\ Base(2006) = 9497 /\ Base(1999) = 6940
  BY DEF Base, LeapYears
<1>2. /\ Off(1980, 1) = 0 /\ Off(2006, 1) = 0 /\ Off(1999, 8) = 212
  BY DEF Off, Before, Leap366, LeapYears
<1>3. CASE s = "GPS"
  <2>1. t = [year |-> 1980, mon |-> 1, day |-> k + 6] /\ Epoch[s] = 0
    BY <1>3 DEF After, Epoch
  <2> HIDE DEF t
  <2>2. t \in Date /\ t.year = 1980 /\ t.mon = 1 /\ t.day = k + 6
    BY <2>1 DEF Date
  <2>3. DayOf(t) = 0 + 0 + (k + 6) - 6
    <3>1. t.mon # 13
      BY <2>2
    <3>2. DayOf(t) = Base(t.year) + Off(t.year, t.mon) + t.day - 6
      BY <2>2, <3>1, DayIs
    <3> QED
      BY <1>1, <1>2, <2>2, <3>2
  <2> QED
    BY <2>1, <2>2, <2>3 DEF t
<1>4. CASE s = "BDS"
  <2>1. t = [year |-> 2006, mon |-> 1, day |-> k + 1] /\ Epoch[s] = 9492
    BY <1>4 DEF After, Epoch
  <2> HIDE DEF t
  <2>2. t \in Date /\ t.year = 2006 /\ t.mon = 1 /\ t.day = k + 1
    BY <2>1 DEF Date
  <2>3. DayOf(t) = 9497 + 0 + (k + 1) - 6
    <3>1. t.mon # 13
      BY <2>2
    <3>2. DayOf(t) = Base(t.year) + Off(t.year, t.mon) + t.day - 6
      BY <2>2, <3>1, DayIs
    <3> QED
      BY <1>1, <1>2, <2>2, <3>2
  <2> QED
    BY <2>1, <2>2, <2>3 DEF t
<1>5. CASE s = "GAL"
  <2>1. t = [year |-> 1999, mon |-> 8, day |-> k + 22] /\ Epoch[s] = 7168
    BY <1>5 DEF After, Epoch
  <2> HIDE DEF t
  <2>2. t \in Date /\ t.year = 1999 /\ t.mon = 8 /\ t.day = k + 22
    BY <2>1 DEF Date
  <2>3. DayOf(t) = 6940 + 212 + (k + 22) - 6
    <3>1. t.mon # 13
      BY <2>2
    <3>2. DayOf(t) = Base(t.year) + Off(t.year, t.mon) + t.day - 6
      BY <2>2, <3>1, DayIs
    <3> QED
      BY <1>1, <1>2, <2>2, <3>2
  <2> QED
    BY <2>1, <2>2, <2>3 DEF t
<1> QED
  BY <1>3, <1>4, <1>5 DEF Sat

LEMMA DateTrue ==
  ASSUME NEW s \in Sat, NEW d \in Days
  PROVE  DateOf(GetLeapTime(s, Week(s, d), DayOfWeek(s, d)), d)
<1> DEFINE k == Week(s, d) * 7 + DayFrom0(DayOfWeek(s, d), s)
           t == After(s, k)
           u == Walk[t]
           Y == 60000
<1>1. k = d - Epoch[s] /\ k \in Nat
  BY WeekDay
<1>2. /\ d \in Nat /\ Epoch[s] \in Nat
      /\ Y \in Nat /\ d < 365 * Y /\ Y + 1980 < 65536
  BY LeapAssumption, SMT DEF Epoch, Sat
<1>3. GetLeapTime(s, Week(s, d), DayOfWeek(s, d)) = u
  BY DEF GetLeapTime
<1> HIDE DEF Y
<1>4. /\ t \in Date /\ t.mon # 13 /\ t.year >= 1980 /\ t.day >= 1
      /\ DayOf(t) = d
  <2> HIDE DEF k
  <2> QED
    BY <1>1, <1>2, AfterIs
<1> HIDE DEF k, t
<1>5. /\ u \in Date /\ Whole(u) /\ u.mon # 13 /\ u.year >= t.year
      /\ u.day >= 1 /\ DayOf(u) = d
  BY <1>4, WalkDay DEF WalkGood
<1> HIDE DEF u
<1>6. u.year \in Nat /\ u.mon \in 1..12 /\ u.day \in Nat /\ t.year \in Nat
  BY <1>4, <1>5 DEF Date
<1>7. u.year < 65536
  <2>1. DayOf(u) = Base(u.year) + Off(u.year, u.mon) + u.day - 6
    BY <1>5, DayIs
  <2>2. u.year >= 1980
    BY <1>4, <1>5, <1>6
  <2>3. Off(u.year, u.mon) \in Nat
    BY <1>6, OffNat
  <2>4. u.year <= Y + 1980
    <3>1. Base(u.year) + Off(u.year, u.mon) + u.day - 6 < 365 * Y
      BY <1>2, <1>5, <2>1
    <3> QED
      BY <1>2, <1>5, <1>6, <2>2, <2>3, <3>1, YearFits
  <2> QED
    BY <1>2, <1>6, <2>4, SMT
<1>8. u.day \in 1..MonDays(u.year, u.mon)
  <2>1. u.day <= MonDays(u.year, u.mon)
    BY <1>5 DEF Whole
  <2>2. MonDays(u.year, u.mon) \in 28..31
    BY MonthLength
  <2> QED
    BY <1>5, <1>6, <2>1, <2>2
<1>9. DateOf(u, d)
  BY <1>5, <1>6, <1>7, <1>8 DEF DateOf
<1> QED
  BY <1>3, <1>9

-----------------------------------------------------------------------------
\* A change that is decided has its day, a forecast the date of that, and all
\* of it fits into what holds it.
DateInv ==
  /\ change.day \in Days \cup {0}
  /\ change.from # change.to => change.day \in Days
  /\ g_leap.sign # 0 => DateOf(g_leap.leap_time, change.day)
  /\ g_leap \in Leaps /\ info \in Leaps
  /\ restarts \in 0..MaxRestarts

LEMMA UnsetFits == Unset \in Leaps
BY LeapAssumption DEF Unset, Leaps, Time

LEMMA DateFits == ASSUME NEW t, NEW d, DateOf(t, d) PROVE t \in Time
<1> DEFINE Y == {n \in Nat : n < 65536}
<1>1. t = [year |-> t.year, mon |-> t.mon, day |-> t.day] /\ t.year \in Nat
  BY DEF DateOf, Date
<1>2. t.year \in Y /\ t.mon \in 0..12 /\ t.day \in 0..31
  <2>1. MonDays(t.year, t.mon) \in 28..31
    BY MonthLength
  <2> QED
    BY <1>1, <2>1, SMT DEF DateOf
<1>3. \A S : \A y \in S, m \in 0..12, e \in 0..31 :
        [year |-> y, mon |-> m, day |-> e] \in [year : S, mon : 0..12, day : 0..31]
  OBVIOUS
<1>4. Time = [year : Y, mon : 0..12, day : 0..31]
  BY SMT DEF Time
<1> HIDE DEF Y
<1> QED
  BY <1>1, <1>2, <1>3, <1>4

LEMMA QuietDate ==
  ASSUME DateInv, UNCHANGED <<change, g_leap, restarts>>,
         info' = info \/ \E s : info' = Cleared(s)
  PROVE  DateInv'
<1>1. info' \in Leaps
  BY UnsetFits DEF DateInv, Cleared
<1> QED
  BY <1>1 DEF DateInv

LEMMA HearDate ==
  ASSUME IInv, DateInv, NEW s \in Sat, Hear(s) PROVE DateInv'
<1> DEFINE now == Now(s)
           next == NextOf(s)
           time == GetLeapTime(s, Week(s, change.day), DayOfWeek(s, change.day))
<1>1. Number(now) /\ Number(next) /\ {now, next} \subseteq {change.from, change.to}
  BY DEF IInv, WorldInv, Now, NextOf
<1>2. LeapProcess(s, Week(s, change.day), DayOfWeek(s, change.day), now, next)
  <2>1. InGps(s, InOwn(s, now)) = now /\ InGps(s, InOwn(s, next)) = next
    BY <1>1, NumberHeard
  <2> QED
    BY <2>1 DEF Hear
<1>3. UNCHANGED <<change, restarts>>
  BY DEF Hear, world
<1>4. now \in 0..255 /\ next \in 0..255
  BY <1>1 DEF Number
<1>5. CASE IsForecast(now, next)
  <2>1. /\ g_leap' = [now_leap |-> g_leap.now_leap, next_leap |-> next,
                      sign |-> SignOf(next), leap_time |-> time]
        /\ info' = g_leap'
    BY <1>2, <1>5 DEF LeapProcess, NowUntil
  <2>2. change.day \in Days
    BY <1>1, <1>5 DEF IsForecast, DateInv
  <2>3. DateOf(time, change.day)
    BY <2>2, DateTrue
  <2>4. time \in Time
    <3> HIDE DEF time
    <3> QED
      BY <2>3, DateFits
  <2> HIDE DEF now, next, time
  <2>5. g_leap.now_leap \in 0..255 /\ SignOf(next) \in {1, 2}
    BY DEF DateInv, Leaps, SignOf
  <2>6. g_leap' \in Leaps
    BY <1>4, <2>1, <2>4, <2>5 DEF Leaps
  <2> QED
    BY <1>3, <2>1, <2>2, <2>3, <2>6 DEF DateInv
<1>6. CASE ~IsForecast(now, next) /\ IsOver(now, next)
  <2>1. g_leap' = [g_leap EXCEPT !.now_leap = now, !.sign = 0] /\ info' = g_leap'
    BY <1>2, <1>6 DEF LeapProcess
  <2>2. g_leap \in Leaps
    BY DEF DateInv
  <2> HIDE DEF now
  <2>3. g_leap' \in Leaps /\ g_leap'.sign = 0
    <3>1. \A a \in 0..255, b \in 0..2 :
            [g_leap EXCEPT !.now_leap = a, !.sign = b] \in Leaps
      BY <2>2 DEF Leaps
    <3>2. PICK a, b, c, e : g_leap = [now_leap |-> a, next_leap |-> b,
                                      sign |-> c, leap_time |-> e]
      BY DEF IInv, UnitInv
    <3>3. g_leap'.sign = 0
      BY <2>1, <3>2
    <3>4. 0 \in 0..2
      OBVIOUS
    <3>5. g_leap' \in Leaps
      BY <1>4, <2>1, <3>1, <3>4, Zenon
    <3> QED
      BY <3>3, <3>5
  <2> QED
    BY <1>3, <2>1, <2>3 DEF DateInv
<1>7. CASE ~IsForecast(now, next) /\ ~IsOver(now, next)
  <2>1. g_leap' = g_leap /\ info' = Cleared(s)
    BY <1>2, <1>7 DEF LeapProcess
  <2> QED
    BY <1>3, <2>1, QuietDate
<1> QED
  BY <1>5, <1>6, <1>7

LEMMA NothingDate ==
  ASSUME IInv, DateInv, NEW s \in Sat, HearNothing(s) PROVE DateInv'
<1> DEFINE n == InGps(s, 0)
<1>1. LeapProcess(s, 0, 0, n, n) /\ UNCHANGED <<change, restarts>>
  BY DEF HearNothing, world
<1>2. n \in {0, 14}
  BY NothingHeard
<1> HIDE DEF n
<1>3. ~IsForecast(n, n) /\ ~IsOver(n, n)
  BY <1>2 DEF IsForecast, IsOver, IInv, ForecastTrue, WorldInv, Number
<1>4. g_leap' = g_leap /\ info' = Cleared(s)
  BY <1>1, <1>3 DEF LeapProcess
<1> QED
  BY <1>1, <1>4, QuietDate

LEMMA NextDate == IInv /\ DateInv /\ [Next]_vars => DateInv'
<1> SUFFICES ASSUME IInv, DateInv, [Next]_vars PROVE DateInv'
  OBVIOUS
<1>1. CASE Decide
  <2>1. g_leap.sign = 0
    BY <1>1 DEF Decide, IInv, ForecastInv, Unsettled
  <2>2. PICK n \in {utc - 1, utc + 1}, d \in Days :
          change' = [from |-> utc, to |-> n, day |-> d]
    BY <1>1 DEF Decide
  <2>3. change'.day = d
    BY <2>2
  <2>4. UNCHANGED <<g_leap, info, restarts>>
    BY <1>1 DEF Decide, unit
  <2> QED
    BY <2>1, <2>3, <2>4 DEF DateInv
<1>2. CASE Restart
  <2>1. UNCHANGED change /\ g_leap' = Unset /\ info' = Unset
    BY <1>2 DEF Restart, world
  <2>2. restarts' \in 0..MaxRestarts
    BY <1>2, LeapAssumption DEF Restart, DateInv
  <2>3. Unset.sign = 0
    BY DEF Unset
  <2> QED
    BY <2>1, <2>2, <2>3, UnsetFits DEF DateInv
<1>3. ASSUME NEW s \in Sat, HearNoise(s) PROVE DateInv'
  BY <1>3, QuietDate DEF HearNoise, world
<1>4. CASE Leap \/ UNCHANGED vars \/ \E s \in Sat : Announce(s) \/ Settle(s)
  BY <1>4, QuietDate DEF Leap, Announce, Settle, vars, unit, world
<1> QED
  BY <1>1, <1>2, <1>3, <1>4, HearDate, NothingDate DEF Next

LEMMA InitDate == Init => DateInv
<1> SUFFICES ASSUME Init PROVE DateInv
  OBVIOUS
<1>1. PICK n \in Starts : change = [from |-> n, to |-> n, day |-> 0]
  BY DEF Init
<1>2. g_leap = Unset /\ info = Unset /\ restarts = 0 /\ Unset.sign = 0
  BY DEF Init, Unset
<1> QED
  BY <1>1, <1>2, UnsetFits, LeapAssumption DEF DateInv

LEMMA Dated == Spec => [](IInv /\ DateInv)
<1>1. Init => IInv /\ DateInv
  BY InitInv, InitDate
<1>2. (IInv /\ DateInv) /\ [Next]_vars => (IInv /\ DateInv)'
  BY NextInv, NextDate
<1> QED
  BY <1>1, <1>2, PTL DEF Spec

\* The date that is forecast is that of the day of the change, for every day
\* that the three systems can name: ut4b0_get_leap_time's loop, from each of
\* their epochs, through every year, ends at the right date.
THEOREM DatesRight == Spec => []DateRight
<1>1. IInv /\ DateInv => DateRight
  BY DEF DateInv, DateRight, DateOf
<1> QED
  BY <1>1, Dated, PTL

\* Every number and date stays in what the code has for it.
THEOREM TypeCorrect == Spec => []TypeOK
<1>1. IInv /\ DateInv => TypeOK
  <2> SUFFICES ASSUME IInv, DateInv PROVE TypeOK
    OBVIOUS
  <2>1. change \in [from : Nat, to : Nat, day : Days \cup {0}]
    <3>1. \A f \in Nat, t \in Nat, d \in Days \cup {0} :
            [from |-> f, to |-> t, day |-> d]
              \in [from : Nat, to : Nat, day : Days \cup {0}]
      OBVIOUS
    <3>2. [from |-> change.from, to |-> change.to, day |-> change.day]
            \in [from : Nat, to : Nat, day : Days \cup {0}]
      BY <3>1 DEF IInv, WorldInv, Number, DateInv
    <3> QED
      BY <3>2 DEF IInv, WorldInv
  <2> QED
    BY <2>1 DEF TypeOK, IInv, WorldInv, UnitInv, DateInv
<1> QED
  BY <1>1, Dated, PTL
=============================================================================
