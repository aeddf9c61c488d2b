----------------------------- MODULE LwipTimers -----------------------------
(***************************************************************************)
(* The timers of lwIP in the tcpip thread: sys_timeouts_mbox_fetch         *)
(* (LWIP/src/core/timers.c) waits for a message no longer than the first   *)
(* timer has left and subtracts what sys_arch_mbox_fetch of the port says  *)
(* it has waited.  The port returns the time stamp of the message instead, *)
(* which is the cycle counter of the processor; nothing enables the unit   *)
(* the counter belongs to, so that it counts under a debugger and may      *)
(* stand still without one.                                                *)
(*                                                                         *)
(* Times are in some unit of which every interval is a multiple; handling  *)
(* a message takes none.                                                   *)
(***************************************************************************)
EXTENDS Naturals, Sequences, FiniteSets, SequencesExt

CONSTANTS Periodic,   \* the handlers that always set their timer again, some
          OnDemand,   \* others that do while somebody needs them (TCP)
          Interval,   \* of each handler, above 0
          MaxMsgs     \* bound: messages

Handler == Periodic \cup OnDemand

VARIABLES timeouts,   \* next_timeout: each entry's time follows the one before
          pc,         \* where sys_timeouts_mbox_fetch is
          left,       \* ticks until OSQPend gives up
          counting,   \* DWT_CYCCNT counts
          age,        \* history: the time since each timer was set
          msgs        \* bound: messages so far

vars == <<timeouts, pc, left, counting, age, msgs>>

Armed == {timeouts[i].h : i \in DOMAIN timeouts}

\* The time the first k entries have left.
Until(list, k) == FoldLeft(LAMBDA sum, t : sum + t.time, 0, SubSeq(list, 1, k))

\* sys_timeout: behind every entry that is due no later.
Insert(list, h) ==
  LET k    == Cardinality({i \in DOMAIN list : Until(list, i) <= Interval[h]})
      time == Interval[h] - Until(list, k)
      rest == [i \in k + 1..Len(list) |->
                IF i = k + 1 THEN [list[i] EXCEPT !.time = @ - time]
                             ELSE list[i]]
  IN  [i \in 1..Len(list) + 1 |->
        IF i <= k THEN list[i]
        ELSE IF i = k + 1 THEN [h |-> h, time |-> time] ELSE rest[i - 1]]

\* sys_timeouts_init.
Init == /\ timeouts = LET hs == CHOOSE s \in [1..Cardinality(Periodic) ->
                                              Periodic] : ToSet(s) = Periodic
                      IN  FoldLeft(Insert, <<>>, hs)
        /\ pc = "fetch" /\ left = 0
        /\ counting \in BOOLEAN
        /\ age = [h \in Handler |-> 0] /\ msgs = 0

-----------------------------------------------------------------------------
Fetch ==
  /\ pc = "fetch"
  /\ IF timeouts[1].time > 0 THEN pc' = "wait" /\ left' = timeouts[1].time
                             ELSE pc' = "expire" /\ UNCHANGED left
  /\ UNCHANGED <<timeouts, counting, age, msgs>>

\* Time passes.
Tick ==
  /\ pc = "wait" /\ left > 0
  /\ left' = left - 1
  /\ age' = [h \in Handler |-> IF h \in Armed THEN age[h] + 1 ELSE 0]
  /\ UNCHANGED <<timeouts, pc, counting, msgs>>

\* OS_ERR_TIMEOUT.
Timeout ==
  /\ pc = "wait" /\ left = 0
  /\ pc' = "expire"
  /\ UNCHANGED <<timeouts, left, counting, age, msgs>>

\* OSQPend: the time stamp of a message (OSQPost's OS_TS_GET).
TimeStamp == IF counting THEN 0..timeouts[1].time ELSE {0}

\* A message.  It may make a timer necessary (tcp_timer_needed).
Message ==
  /\ pc = "wait" /\ msgs < MaxMsgs
  /\ \E time_needed \in TimeStamp, start \in SUBSET (OnDemand \ Armed) :
       /\ Cardinality(start) <= 1
       /\ LET list == [timeouts EXCEPT ![1].time = @ - time_needed]
          IN  timeouts' = FoldLeft(Insert, list, SetToSeq(start))
       /\ age' = [h \in Handler |-> IF h \in start THEN 0 ELSE age[h]]
  /\ pc' = "fetch" /\ left' = 0 /\ msgs' = msgs + 1
  /\ UNCHANGED counting

\* The first timer expires; its handler sets it again.
Expire ==
  /\ pc = "expire"
  /\ LET h == timeouts[1].h IN
     /\ \/ timeouts' = Insert(Tail(timeouts), h)
        \/ h \in OnDemand /\ timeouts' = Tail(timeouts)
     /\ age' = [age EXCEPT ![h] = 0]
  /\ pc' = "fetch" /\ left' = 0
  /\ UNCHANGED <<counting, msgs>>

Next == Fetch \/ Tick \/ Timeout \/ Message \/ Expire

Spec == Init /\ [][Next]_vars

-----------------------------------------------------------------------------
\* "msecs time in milliseconds after that the timer should expire"
\* (timers.c:255): no timer is still waited for when its time has passed.
ExpiresInTime == \A h \in Armed : age[h] <= Interval[h]
=============================================================================
