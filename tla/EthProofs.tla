----------------------------- MODULE EthProofs -----------------------------
(***************************************************************************)
(* Theorems about EthDriver, for every size of the rings, the pools and    *)
(* the mailbox, every set of frames and any number of them.  The invariant *)
(* has one part for the way in to the ring, one for the buffers and one    *)
(* for the way out; an action disturbs one or two of them.                 *)
(***************************************************************************)
EXTENDS EthDriver, SequenceTheorems, TLAPS

Pcs == {"none", "pend", "test", "alloc", "release", "input", "post", "free"}

Ready == boot \in {"sem", "thread"}

\* Every signal the semaphore holds or is about to get is that of a frame; while
\* the interrupt is between its post and its clearing, the semaphore is posted.
RingInv ==
  /\ boot \in {"eth", "handler", "sem", "thread"}
  /\ ring \in Seq(Entry)
  /\ Len(ring) + (IF taken THEN 1 ELSE 0) <= RxBufs
  /\ taken \in BOOLEAN /\ flag \in BOOLEAN /\ masked \in BOOLEAN
  /\ isr \in {"out", "clear"}
  /\ pc \in Pcs /\ (taken <=> pc \in {"alloc", "release"})
  /\ pc = "none" <=> boot # "thread"
  /\ arrived \in 0..MaxIn
  /\ sem \in Nat /\ sem + (IF flag /\ isr = "out" THEN 1 ELSE 0) <= arrived
  /\ ~Ready => \A i \in DOMAIN ring : ring[i].early
  /\ isr = "clear" /\ Ready => sem > 0
  /\ NoMissedWakeup

\* One message is in the mailbox at most, and then the thread is where it comes
\* to after a post.
PoolInv ==
  /\ pc \in Pcs /\ p \in Nat
  /\ pool \in Nat /\ inpkts \in Nat /\ kept \in Nat
  /\ mbox \in Seq(Nat) /\ Len(mbox) <= 1 /\ (mbox # <<>> => pc = "test")
  /\ tcpip \in {"fetch", "input", "free"} /\ (tcpip # "fetch" => mbox # <<>>)
  /\ NoLeak

MacInv ==
  /\ link \in BOOLEAN /\ phy \in BOOLEAN /\ enabled \in BOOLEAN /\ up \in BOOLEAN
  /\ web \in {"test", "delay", "start"}

\* A queued or flushed frame was given before.
OutInv ==
  /\ tx \in Seq(1..MaxOut) /\ Len(tx) <= TxBufs
  /\ \A i \in 1..Len(tx) : tx[i] <= given
  /\ given \in 0..MaxOut /\ sent \in Seq(1..MaxOut) /\ lost \subseteq 1..given
  /\ overrun \in BOOLEAN
  /\ SentAsGiven

IInv == RingInv /\ PoolInv /\ MacInv /\ OutInv

-----------------------------------------------------------------------------
LEMMA RingFrame ==
  RingInv /\ UNCHANGED <<boot, rx, irq, taken, masked, pc>> => RingInv'
BY DEF RingInv, rx, irq, Ready, NoMissedWakeup, Owed, Woken, IsRxPktValid

LEMMA PoolFrame == PoolInv /\ UNCHANGED <<pc, p, lwip>> => PoolInv'
BY DEF PoolInv, lwip, NoLeak, Holds, Queued

LEMMA MacFrame == MacInv /\ UNCHANGED mac => MacInv'
BY DEF MacInv, mac

LEMMA OutFrame == OutInv /\ UNCHANGED out => OutInv'
BY DEF OutInv, out, SentAsGiven, Line

\* The ring without its first entry.
LEMMA RingTail ==
  ASSUME ring \in Seq(Entry), ring # <<>>
  PROVE  /\ Tail(ring) \in Seq(Entry) /\ Len(Tail(ring)) = Len(ring) - 1
         /\ (\A i \in DOMAIN ring : ring[i].early)
              => \A i \in DOMAIN Tail(ring) : Tail(ring)[i].early
         /\ ring[1] \in Entry
<1>1. /\ Tail(ring) \in Seq(Entry) /\ Len(Tail(ring)) = Len(ring) - 1
      /\ \A i \in 1..Len(Tail(ring)) : Tail(ring)[i] = ring[i + 1]
  BY HeadTailProperties
<1>2. Len(ring) \in Nat /\ Len(ring) > 0
  BY EmptySeq, LenProperties
<1>3. DOMAIN ring = 1..Len(ring) /\ DOMAIN Tail(ring) = 1..Len(Tail(ring))
  BY <1>1, LenProperties
<1> QED
  BY <1>1, <1>2, <1>3, ElementOfSeq

LEMMA InitInv == Init => IInv
<1> SUFFICES ASSUME Init PROVE IInv
  OBVIOUS
<1>1. RingInv
  <2>1. <<>> \in Seq(Entry) /\ Len(<<>>) = 0
    BY EmptySeq
  <2>2. NoMissedWakeup
    BY DEF Init, NoMissedWakeup, Owed, IsRxPktValid
  <2>3. /\ boot = "eth" /\ ring = <<>> /\ taken = FALSE
        /\ flag = FALSE /\ isr = "out" /\ masked = FALSE /\ sem = 0
        /\ pc = "none" /\ arrived = 0
    BY DEF Init
  <2>4. RxBufs \in Nat /\ MaxIn \in Nat
    BY EthAssumption
  <2>5. ring \in Seq(Entry) /\ masked \in BOOLEAN
        /\ flag \in BOOLEAN /\ taken \in BOOLEAN
    BY <2>1, <2>3, Zenon
  <2>6. Len(ring) + (IF taken THEN 1 ELSE 0) <= RxBufs
    BY <2>1, <2>3, <2>4
  <2>7. \A i \in DOMAIN ring : ring[i].early
    BY <2>3
  <2>8. arrived \in 0..MaxIn
        /\ sem + (IF flag /\ isr = "out" THEN 1 ELSE 0) <= arrived
    BY <2>3, <2>4
  <2> QED
    BY <2>2, <2>3, <2>5, <2>6, <2>7, <2>8 DEF RingInv, Ready, Pcs
<1>2. PoolInv
  BY EthAssumption DEF Init, PoolInv, NoLeak, Holds, Queued, Pcs
<1>3. OutInv
  <2>1. <<>> \in Seq(1..MaxOut) /\ Len(<<>>) = 0
    BY EmptySeq
  <2>2. <<>> \o <<>> = <<>>
    BY <2>1, ConcatEmptySeq
  <2>3. /\ tx = <<>> /\ given = 0 /\ sent = <<>> /\ lost = {}
        /\ overrun = FALSE
    BY DEF Init
  <2>4. TxBufs \in Nat /\ MaxOut \in Nat
    BY EthAssumption
  <2>5. tx \in Seq(1..MaxOut) /\ sent \in Seq(1..MaxOut) /\ overrun \in BOOLEAN
    BY <2>1, <2>3, Zenon
  <2>6. Len(tx) <= TxBufs /\ given \in 0..MaxOut /\ lost \subseteq 1..given
        /\ \A i \in 1..Len(tx) : tx[i] <= given
    BY <2>1, <2>3, <2>4
  <2>7. SentAsGiven
    <3>1. Line = <<>>
      BY <2>2, <2>3, Zenon DEF Line
    <3>2. DOMAIN Line = {} /\ (1..given) \ lost = {}
      BY <3>1, <2>3
    <3> QED
      BY <3>2 DEF SentAsGiven
  <2> QED
    BY <2>5, <2>6, <2>7, Zenon DEF OutInv
<1>4. MacInv
  BY DEF Init, MacInv
<1> QED
  BY <1>1, <1>2, <1>3, <1>4 DEF IInv

-----------------------------------------------------------------------------
\* The wire, and the interrupt.

\* What a frame adds to the ring.
LEMMA SegmentsAdded ==
  ASSUME RingInv, NEW f \in Frames
  PROVE  /\ Segments(f) \in Seq(Entry) /\ Len(Segments(f)) <= Room
         /\ Room \in Nat
         /\ \A i \in DOMAIN Segments(f) : Segments(f)[i].early = ~Ready
<1> DEFINE n == IF f.descs < Room THEN f.descs ELSE Room
<1>1. Room \in Nat
  BY EthAssumption, LenProperties DEF RingInv, Room
<1>2. f.descs \in Nat /\ f.pbufs \in Nat
  BY EthAssumption
<1>3. n \in Nat /\ n <= Room
  BY <1>1, <1>2
<1>4. Segments(f) = [i \in 1..n |-> [ok |-> i = f.descs, pbufs |-> f.pbufs,
                                     early |-> ~Ready]]
  BY DEF Segments, Ready
<1> HIDE DEF n
<1>5. Segments(f) \in [1..n -> Entry]
  BY <1>2, <1>4 DEF Entry
<1>6. Segments(f) \in Seq(Entry) /\ Len(Segments(f)) = n
  BY <1>3, <1>5, IsASeq, LenProperties
<1> QED
  BY <1>1, <1>3, <1>4, <1>6

LEMMA ReceiveInv == ASSUME NEW f \in Frames PROVE IInv /\ Receive(f) => IInv'
<1> SUFFICES ASSUME IInv, Receive(f) PROVE IInv'
  OBVIOUS
<1>0. /\ Segments(f) \in Seq(Entry) /\ Len(Segments(f)) <= Room
      /\ Room \in Nat
      /\ \A i \in DOMAIN Segments(f) : Segments(f)[i].early = ~Ready
  BY SegmentsAdded DEF IInv
<1>1. PoolInv' /\ MacInv' /\ OutInv'
  BY PoolFrame, MacFrame, OutFrame DEF IInv, Receive, input
<1>2. /\ ring' = ring \o Segments(f) /\ flag' = (flag \/ Room > 0)
      /\ arrived' = arrived + 1 /\ arrived < MaxIn
      /\ UNCHANGED <<boot, isr, sem, taken, masked, pc>>
  BY DEF Receive, irq, input
<1>3. /\ ring' \in Seq(Entry) /\ Len(ring') = Len(ring) + Len(Segments(f))
      /\ \A i \in 1..Len(ring) + Len(Segments(f)) :
           ring'[i] = IF i <= Len(ring) THEN ring[i]
                      ELSE Segments(f)[i - Len(ring)]
  BY <1>2, <1>0, ConcatProperties DEF IInv, RingInv
<1>4. /\ Len(ring) \in Nat /\ Len(Segments(f)) \in Nat
      /\ DOMAIN ring = 1..Len(ring) /\ DOMAIN ring' = 1..Len(ring')
      /\ DOMAIN Segments(f) = 1..Len(Segments(f))
  BY <1>3, <1>0, LenProperties DEF IInv, RingInv
<1>5. ~Ready' => \A i \in DOMAIN ring' : ring'[i].early
  <2>1. Ready' <=> Ready
    BY <1>2 DEF Ready
  <2> SUFFICES ASSUME ~Ready, NEW i \in 1..Len(ring) + Len(Segments(f))
               PROVE  ring'[i].early
    BY <2>1, <1>3, <1>4
  <2>2. CASE i <= Len(ring)
    BY <2>2, <1>3, <1>4 DEF IInv, RingInv
  <2>3. CASE ~(i <= Len(ring))
    <3>1. ring'[i] = Segments(f)[i - Len(ring)]
      BY <2>3, <1>3
    <3>2. i - Len(ring) \in DOMAIN Segments(f)
      BY <2>3, <1>4
    <3> QED
      BY <3>1, <3>2, <1>0
  <2> QED
    BY <2>2, <2>3
<1>6. Len(ring') + (IF taken' THEN 1 ELSE 0) <= RxBufs
  BY <1>2, <1>3, <1>4, <1>0, EthAssumption DEF IInv, RingInv, Room
<1>7. /\ arrived' \in 0..MaxIn
      /\ sem' + (IF flag' /\ isr' = "out" THEN 1 ELSE 0) <= arrived'
  BY <1>2, EthAssumption DEF IInv, RingInv
<1>8. NoMissedWakeup'
  <2>1. CASE Room = 0
    <3>1. ring' = ring
      <4>1. Len(Segments(f)) = 0
        BY <2>1, <1>0, <1>4
      <4>2. Segments(f) = <<>>
        BY <4>1, <1>0, EmptySeq
      <4> QED
        BY <4>2, <1>2, ConcatEmptySeq DEF IInv, RingInv
    <3> QED
      BY <3>1, <1>2 DEF IInv, RingInv, NoMissedWakeup, Owed, Woken, IsRxPktValid
  <2>2. CASE Room # 0
    <3>1. flag'
      <4>1. Room > 0
        BY <2>2, <1>0
      <4> QED
        BY <4>1, <1>2
    <3>2. CASE isr = "out"
      BY <3>1, <3>2, <1>2 DEF NoMissedWakeup, Woken
    <3>3. CASE isr = "clear"
      <4>1. CASE Ready
        BY <4>1, <3>3, <1>2 DEF IInv, RingInv, NoMissedWakeup, Woken
      <4>2. CASE ~Ready
        BY <4>2, <1>2, <1>5 DEF NoMissedWakeup, Owed, Ready
      <4> QED
        BY <4>1, <4>2
    <3> QED
      BY <3>2, <3>3 DEF IInv, RingInv
  <2> QED
    BY <2>1, <2>2
<1>9. RingInv'
  BY <1>2, <1>3, <1>5, <1>6, <1>7, <1>8 DEF IInv, RingInv, Ready
<1> QED
  BY <1>1, <1>9 DEF IInv

LEMMA TransmitInv == IInv /\ Transmit => IInv'
<1> SUFFICES ASSUME IInv, Transmit PROVE IInv'
  OBVIOUS
<1>1. RingInv' /\ PoolInv' /\ MacInv'
  BY RingFrame, PoolFrame, MacFrame DEF IInv, Transmit, input
<1>2. /\ sent' = Append(sent, Head(tx)) /\ tx' = Tail(tx) /\ tx # <<>>
      /\ UNCHANGED <<given, lost, overrun>>
      /\ tx \in Seq(1..MaxOut) /\ sent \in Seq(1..MaxOut)
  BY DEF Transmit, IInv, OutInv
<1>3. /\ Head(tx) \in 1..MaxOut /\ Tail(tx) \in Seq(1..MaxOut)
      /\ Len(Tail(tx)) = Len(tx) - 1
      /\ \A i \in 1..Len(Tail(tx)) : Tail(tx)[i] = tx[i + 1]
      /\ tx = <<Head(tx)>> \o Tail(tx)
  <2>1. /\ Head(tx) \in 1..MaxOut /\ Tail(tx) \in Seq(1..MaxOut)
        /\ Len(Tail(tx)) = Len(tx) - 1
        /\ \A i \in 1..Len(Tail(tx)) : Tail(tx)[i] = tx[i + 1]
    BY <1>2, HeadTailProperties
  <2>2. tx = <<Head(tx)>> \o Tail(tx)
    BY <1>2
  <2> QED
    BY <2>1, <2>2
<1>4. sent' \in Seq(1..MaxOut) /\ sent' = sent \o <<Head(tx)>>
  BY <1>2, <1>3, AppendProperties, AppendIsConcat
<1>5. Line' = Line
  <2>1. <<Head(tx)>> \in Seq(1..MaxOut)
    BY <1>3
  <2> QED
    BY <1>2, <1>3, <1>4, <2>1, ConcatAssociative DEF Line
<1>6. OutInv'
  <2>1. Len(tx) \in Nat /\ Len(tx') <= TxBufs
    BY <1>2, <1>3, EthAssumption, LenProperties DEF IInv, OutInv
  <2>2. SentAsGiven'
    BY <1>2, <1>5 DEF IInv, OutInv, SentAsGiven
  <2>3. \A i \in 1..Len(tx') : tx'[i] <= given'
    BY <1>2, <1>3, <2>1 DEF IInv, OutInv
  <2> QED
    BY <1>2, <1>3, <1>4, <2>1, <2>2, <2>3 DEF IInv, OutInv
<1> QED
  BY <1>1, <1>6 DEF IInv

-----------------------------------------------------------------------------
\* The link.

\* The frames on the line, one after the other.
LEMMA LineIs ==
  ASSUME sent \in Seq(1..MaxOut), tx \in Seq(1..MaxOut)
  PROVE  /\ Len(sent) \in Nat /\ Len(tx) \in Nat
         /\ DOMAIN Line = 1..(Len(sent) + Len(tx))
         /\ \A i \in 1..(Len(sent) + Len(tx)) :
              Line[i] = IF i <= Len(sent) THEN sent[i] ELSE tx[i - Len(sent)]
         /\ \A i \in 1..(Len(sent) + Len(tx)) : Line[i] \in 1..MaxOut
<1>1. Line \in Seq(1..MaxOut) /\ Len(Line) = Len(sent) + Len(tx)
      /\ \A i \in 1..(Len(sent) + Len(tx)) :
           Line[i] = IF i <= Len(sent) THEN sent[i] ELSE tx[i - Len(sent)]
  BY ConcatProperties DEF Line
<1>2. Len(sent) \in Nat /\ Len(tx) \in Nat /\ DOMAIN Line = 1..Len(Line)
  BY <1>1, LenProperties
<1> QED
  BY <1>1, <1>2, ElementOfSeq

\* A flush takes the first frames of the queue from the line.
LEMMA FlushInv ==
  ASSUME OutInv, Flush, UNCHANGED <<given, sent, overrun>>
  PROVE  OutInv'
<1>1. PICK k \in 0..Fifo : /\ k <= Len(tx)
                           /\ lost' = lost \cup {tx[i] : i \in 1..k}
                           /\ tx' = SubSeq(tx, k + 1, Len(tx))
  BY DEF Flush
<1>2. k \in Nat /\ given' = given /\ sent' = sent /\ overrun' = overrun
  BY DEF Fifo
<1> DEFINE n == Len(sent)
           m == Len(tx)
<1>3. /\ tx \in Seq(1..MaxOut) /\ sent \in Seq(1..MaxOut) /\ given \in 0..MaxOut
      /\ n \in Nat /\ m \in Nat /\ DOMAIN Line = 1..(n + m) /\ MaxOut \in Nat
  BY LineIs, EthAssumption DEF OutInv
<1>4. /\ tx' \in Seq(1..MaxOut) /\ Len(tx') = m - k
      /\ \A i \in 1..(m - k) : tx'[i] = tx[k + i]
  <2>1. \A i \in (k + 1)..m : tx[i] \in 1..MaxOut
    BY <1>2, <1>3, ElementOfSeq
  <2> QED
    BY <1>1, <1>2, <1>3, <2>1, SubSeqProperties
<1>5. Len(tx') <= TxBufs
  BY <1>2, <1>3, <1>4, EthAssumption DEF OutInv
<1>6. \A i \in 1..m : tx[i] \in 1..given
  BY <1>3, ElementOfSeq DEF OutInv
<1>7. \A i \in 1..Len(tx') : tx'[i] <= given'
  <2> SUFFICES ASSUME NEW i \in 1..(m - k) PROVE tx'[i] <= given
    BY <1>2, <1>4
  <2>1. k + i \in 1..m
    BY <1>1, <1>2, <1>3
  <2>2. tx'[i] = tx[k + i]
    BY <1>4
  <2>3. tx[k + i] \in 1..given
    BY <2>1, <1>6
  <2>4. \A x \in 1..given : x <= given
    BY <1>3
  <2> QED
    BY <2>2, <2>3, <2>4
<1>8. lost' \subseteq 1..given'
  <2>1. \A i \in 1..k : i \in 1..m
    BY <1>1, <1>2, <1>3
  <2>2. {tx[i] : i \in 1..k} \subseteq 1..given
    BY <2>1, <1>6
  <2>3. lost \subseteq 1..given
    BY DEF OutInv
  <2> QED
    BY <2>2, <2>3, <1>1, <1>2
<1>9. SentAsGiven'
  <2> SUFFICES ASSUME ~overrun
               PROVE  /\ \A i, j \in DOMAIN Line' : i < j => Line'[i] < Line'[j]
                      /\ {Line'[i] : i \in DOMAIN Line'} = (1..given) \ lost'
    BY DEF SentAsGiven
  <2> DEFINE at(i) == IF i <= n THEN i ELSE i + k
  <2>1. /\ \A i, j \in 1..(n + m) : i < j => Line[i] < Line[j]
        /\ {Line[i] : i \in 1..(n + m)} = (1..given) \ lost
    BY <1>3 DEF OutInv, SentAsGiven
  <2>2. /\ \A i \in 1..(n + m) :
             Line[i] = IF i <= n THEN sent[i] ELSE tx[i - n]
        /\ \A i \in 1..(n + m) : Line[i] \in Int
    BY <1>3, LineIs
  <2>3. /\ DOMAIN Line' = 1..(n + m - k)
        /\ \A i \in 1..(n + m - k) :
             Line'[i] = IF i <= n THEN sent[i] ELSE tx'[i - n]
    <3>1. Line' = sent \o tx'
      BY DEF Line
    <3>2. /\ sent \o tx' \in Seq(1..MaxOut)
          /\ Len(sent \o tx') = n + Len(tx')
          /\ \A i \in 1..(n + Len(tx')) :
               (sent \o tx')[i] = IF i <= n THEN sent[i] ELSE tx'[i - n]
      BY <1>3, <1>4, ConcatProperties
    <3>3. n + Len(tx') = n + m - k
      BY <1>2, <1>3, <1>4
    <3>4. DOMAIN (sent \o tx') = 1..Len(sent \o tx')
      BY <3>2, LenProperties
    <3> QED
      BY <3>1, <3>2, <3>3, <3>4
  <2>4. \A i \in 1..(n + m - k) : at(i) \in 1..(n + m) /\ Line'[i] = Line[at(i)]
    <3> TAKE i \in 1..(n + m - k)
    <3>1. CASE i <= n
      <4>1. at(i) = i /\ i \in 1..(n + m)
        BY <3>1, <1>1, <1>2, <1>3
      <4>2. Line'[i] = sent[i] /\ Line[i] = sent[i]
        BY <3>1, <4>1, <2>2, <2>3
      <4> QED
        BY <4>1, <4>2
    <3>2. CASE ~(i <= n)
      <4>1. i - n \in 1..(m - k) /\ i + k \in 1..(n + m) /\ ~(i + k <= n)
        BY <3>2, <1>1, <1>2, <1>3
      <4>2. Line'[i] = tx[k + (i - n)]
        BY <3>2, <4>1, <1>4, <2>3
      <4>3. Line[i + k] = tx[(i + k) - n]
        BY <4>1, <2>2
      <4>4. k + (i - n) = (i + k) - n
        BY <1>2, <1>3
      <4> QED
        BY <3>2, <4>1, <4>2, <4>3, <4>4
    <3> QED
      BY <3>1, <3>2
  <2>5. \A i \in 1..k : n + i \in 1..(n + m) /\ Line[n + i] = tx[i]
    <3> TAKE i \in 1..k
    <3>1. n + i \in 1..(n + m) /\ ~(n + i <= n) /\ (n + i) - n = i
      BY <1>1, <1>2, <1>3
    <3> QED
      BY <3>1, <2>2
  <2>6. \A i, j \in 1..(n + m) : Line[i] = Line[j] => i = j
    BY <1>3, <2>1, <2>2
  <2>7. \A i, j \in DOMAIN Line' : i < j => Line'[i] < Line'[j]
    <3> SUFFICES ASSUME NEW i \in 1..(n + m - k), NEW j \in 1..(n + m - k), i < j
                 PROVE  Line'[i] < Line'[j]
      BY <2>3
    <3>1. at(i) < at(j)
      BY <1>2, <1>3
    <3> HIDE DEF at
    <3> QED
      BY <3>1, <2>1, <2>4
  <2>8. {Line'[i] : i \in DOMAIN Line'} \subseteq (1..given) \ lost'
    <3> SUFFICES ASSUME NEW i \in 1..(n + m - k)
                 PROVE  Line'[i] \in 1..given /\ Line'[i] \notin lost'
      BY <2>3
    <3>1. Line[at(i)] \in 1..given /\ Line[at(i)] \notin lost
      <4> HIDE DEF at
      <4> QED
        BY <2>1, <2>4
    <3>2. ASSUME NEW j \in 1..k PROVE Line[at(i)] # tx[j]
      <4>1. at(i) # n + j
        BY <1>2, <1>3
      <4> HIDE DEF at
      <4> QED
        BY <4>1, <2>4, <2>5, <2>6
    <3> HIDE DEF at
    <3> QED
      BY <3>1, <3>2, <2>4, <1>1
  <2>9. ASSUME NEW x \in (1..given) \ lost'
        PROVE  x \in {Line'[i] : i \in DOMAIN Line'}
    <3>1. x \in (1..given) \ lost /\ \A i \in 1..k : x # tx[i]
      BY <1>1
    <3>2. PICK i \in 1..(n + m) : x = Line[i]
      BY <3>1, <2>1
    <3>3. ~(n < i /\ i <= n + k)
      <4> SUFFICES ASSUME n < i, i <= n + k PROVE FALSE
        OBVIOUS
      <4>1. i - n \in 1..k /\ n + (i - n) = i
        BY <1>2, <1>3
      <4> QED
        BY <4>1, <2>5, <3>1, <3>2
    <3>4. PICK j \in 1..(n + m - k) : at(j) = i
      <4>1. CASE i <= n
        <5>1. i \in 1..(n + m - k) /\ at(i) = i
          BY <4>1, <1>1, <1>2, <1>3
        <5> QED
          BY <5>1
      <4>2. CASE ~(i <= n)
        <5>1. i - k \in 1..(n + m - k) /\ at(i - k) = i
          BY <4>2, <3>3, <1>1, <1>2, <1>3
        <5> QED
          BY <5>1
      <4> QED
        BY <4>1, <4>2
    <3> HIDE DEF at
    <3> QED
      BY <3>2, <3>4, <2>3, <2>4
  <2> QED
    BY <2>7, <2>8, <2>9
<1> QED
  BY <1>3, <1>4, <1>5, <1>7, <1>8, <1>9 DEF OutInv

\* Neither interrupt nor web thread comes near the receive ring or the buffers.
LEMMA LinkAside ==
  ASSUME IInv, Link
  PROVE  RingInv' /\ PoolInv'
<1>1. UNCHANGED <<boot, rx, irq, input, lwip>>
  BY DEF Link, LinkDown, LinkUp, WebTest, WebPhyConfig, WebStart
<1> QED
  BY <1>1, RingFrame, PoolFrame DEF IInv, input

LEMMA LinkInv == IInv /\ Link => IInv'
<1> SUFFICES ASSUME IInv, Link PROVE IInv'
  OBVIOUS
<1>1. RingInv' /\ PoolInv'
  BY LinkAside
<1>2. MacInv'
  BY DEF IInv, MacInv, Link, LinkDown, LinkUp, WebTest, WebPhyConfig, WebStart,
     PhyConfig, Start
<1>3. OutInv'
  <2>1. UNCHANGED <<given, sent, overrun>> /\ (Flush \/ UNCHANGED <<tx, lost>>)
    BY DEF Link, LinkDown, LinkUp, WebTest, WebPhyConfig, WebStart, Start, out
  <2> QED
    BY <2>1, FlushInv, OutFrame DEF IInv, out
<1> QED
  BY <1>1, <1>2, <1>3 DEF IInv

-----------------------------------------------------------------------------
\* The interrupt, and the boot.
LEMMA IsrInv == IInv /\ Isr => IInv'
<1> SUFFICES ASSUME IInv, Isr PROVE IInv'
  OBVIOUS
<1>1. PoolInv' /\ MacInv' /\ OutInv'
  <2>1. UNCHANGED <<pc, p, lwip, mac, out>>
    BY DEF Isr, IsrPost, IsrClear, input
  <2> QED
    BY <2>1, PoolFrame, MacFrame, OutFrame DEF IInv
<1>2. CASE IsrPost
  <2>1. UNCHANGED <<boot, ring, arrived, flag, taken, masked, pc>>
    BY <1>2 DEF IsrPost, rx, input
  <2>2. Ready => sem' > 0
    BY <1>2 DEF IsrPost, Ready, IInv, RingInv
  <2>3. NoMissedWakeup'
    <3>1. CASE Ready
      BY <3>1, <2>2 DEF NoMissedWakeup, Woken
    <3>2. CASE ~Ready
      BY <3>2, <2>1 DEF IInv, RingInv, NoMissedWakeup, Owed
    <3> QED
      BY <3>1, <3>2
  <2> QED
    BY <1>1, <1>2, <2>1, <2>2, <2>3 DEF IInv, IsrPost, RingInv, Ready
<1>3. CASE IsrClear
  <2>1. UNCHANGED <<boot, ring, arrived, sem, taken, masked, pc>>
    BY <1>3 DEF IsrClear, input
  <2>2. NoMissedWakeup'
    <3>1. CASE Ready
      BY <3>1, <2>1, <1>3 DEF IsrClear, IInv, RingInv, NoMissedWakeup, Woken
    <3>2. CASE ~Ready
      BY <3>2, <2>1 DEF IInv, RingInv, NoMissedWakeup, Owed
    <3> QED
      BY <3>1, <3>2
  <2> QED
    BY <1>1, <1>3, <2>1, <2>2 DEF IInv, IsrClear, RingInv, Ready
<1> QED
  BY <1>2, <1>3 DEF Isr

LEMMA BootInv == IInv /\ Boot => IInv'
<1> SUFFICES ASSUME IInv, Boot PROVE IInv'
  OBVIOUS
<1>1. MacInv' /\ OutInv'
  BY MacFrame, OutFrame DEF IInv, Boot, BootHandler, BootSem, BootThread
<1>2. CASE BootHandler
  <2>1. PoolInv'
    BY <1>2, PoolFrame DEF IInv, BootHandler, input
  <2>2. RingInv'
    BY <1>2 DEF IInv, BootHandler, rx, irq, input, RingInv, Ready, NoMissedWakeup,
       Owed, Woken, IsRxPktValid
  <2> QED
    BY <1>1, <2>1, <2>2 DEF IInv
<1>3. CASE BootSem
  <2>1. PoolInv'
    BY <1>3, PoolFrame DEF IInv, BootSem, input
  <2>2. UNCHANGED <<ring, arrived, flag, isr, taken, masked, pc>>
        /\ boot' = "sem" /\ boot = "handler" /\ sem' = 0 /\ isr = "out"
    BY <1>3 DEF BootSem, rx, input
  <2>3. NoMissedWakeup'
    BY <2>2 DEF IInv, RingInv, Ready, NoMissedWakeup, Owed
  <2> QED
    BY <1>1, <2>1, <2>2, <2>3 DEF IInv, RingInv, Ready
<1>4. CASE BootThread
  <2>1. UNCHANGED <<ring, arrived, flag, isr, sem, taken, masked, p, pool,
                    inpkts, kept, mbox, tcpip>>
        /\ boot = "sem" /\ boot' = "thread" /\ pc' = "pend"
    BY <1>4 DEF BootThread, rx, irq, lwip
  <2>2. pc = "none" /\ mbox = <<>> /\ tcpip = "fetch"
    BY <2>1 DEF IInv, RingInv, PoolInv
  <2>3. NoMissedWakeup'
    <3>1. Owed' => Owed
      BY <2>1 DEF Owed, IsRxPktValid
    <3>2. Woken => Woken'
      BY <2>1, <2>2 DEF Woken
    <3> QED
      BY <3>1, <3>2 DEF IInv, RingInv, NoMissedWakeup
  <2>4. RingInv'
    BY <2>1, <2>2, <2>3 DEF IInv, RingInv, Ready, Pcs
  <2>5. PoolInv'
    BY <2>1, <2>2 DEF IInv, PoolInv, NoLeak, Holds, Queued, Pcs
  <2> QED
    BY <1>1, <2>4, <2>5 DEF IInv
<1> QED
  BY <1>2, <1>3, <1>4 DEF Boot

-----------------------------------------------------------------------------
\* "Ethernet input".  Between its wait and its test of the ring it is awake, so
\* that only its test can leave a frame behind.

\* What a step of the thread leaves alone of the ring keeps its invariant.
LEMMA RingStep ==
  ASSUME RingInv, pc # "none",
         UNCHANGED <<boot, ring, arrived, flag, isr, sem>>,
         masked' \in BOOLEAN, taken' \in BOOLEAN,
         taken' => taken,
         pc' \in Pcs \ {"none", "pend"},
         taken' <=> pc' \in {"alloc", "release"}
  PROVE  RingInv'
<1>1. NoMissedWakeup'
  BY DEF NoMissedWakeup, Woken
<1>2. Len(ring') + (IF taken' THEN 1 ELSE 0) <= RxBufs
  BY EthAssumption, LenProperties DEF RingInv
<1> QED
  BY <1>1, <1>2 DEF RingInv, Ready

LEMMA PendInv == IInv /\ Pend => IInv'
<1> SUFFICES ASSUME IInv, Pend PROVE IInv'
  OBVIOUS
<1>1. MacInv' /\ OutInv'
  BY MacFrame, OutFrame DEF IInv, Pend
<1>2. UNCHANGED <<boot, ring, arrived, flag, isr, taken, masked, p, pool,
                  inpkts, kept, mbox, tcpip>>
      /\ pc = "pend" /\ pc' = "test" /\ sem' = sem - 1 /\ sem > 0 /\ isr = "out"
  BY DEF Pend, ThreadRuns, rx, lwip
<1>3. NoMissedWakeup'
  BY <1>2 DEF NoMissedWakeup, Woken
<1>4. sem' \in Nat /\ sem' + (IF flag' /\ isr' = "out" THEN 1 ELSE 0) <= arrived'
  BY <1>2 DEF IInv, RingInv
<1>5. RingInv'
  BY <1>2, <1>3, <1>4 DEF IInv, RingInv, Ready, Pcs
<1>6. PoolInv'
  BY <1>2 DEF IInv, PoolInv, NoLeak, Holds, Queued, Pcs
<1> QED
  BY <1>1, <1>5, <1>6 DEF IInv

LEMMA TakeInv == IInv /\ Take => IInv'
<1> SUFFICES ASSUME IInv, Take PROVE IInv'
  OBVIOUS
<1>1. MacInv' /\ OutInv'
  BY MacFrame, OutFrame DEF IInv, Take
<1>2. UNCHANGED <<boot, arrived, flag, isr, sem, pool, inpkts, kept, mbox,
                  tcpip>>
      /\ pc = "test" /\ mbox = <<>> /\ tcpip = "fetch"
  BY DEF Take, ThreadRuns, TcpipWaits, irq, lwip
<1>3. CASE IsRxPktValid
  <2>1. /\ taken' = TRUE /\ p' = ring[1].pbufs /\ ring' = Tail(ring)
        /\ masked' = TRUE /\ pc' = "alloc"
    BY <1>3 DEF Take
  <2>2. /\ Tail(ring) \in Seq(Entry) /\ Len(Tail(ring)) = Len(ring) - 1
        /\ (\A i \in DOMAIN ring : ring[i].early)
              => \A i \in DOMAIN Tail(ring) : Tail(ring)[i].early
        /\ ring[1] \in Entry
    BY <1>3, RingTail DEF IsRxPktValid, IInv, RingInv
  <2>3. Len(ring) \in Nat /\ ~taken
    BY <1>2, LenProperties DEF IInv, RingInv
  <2>4. Len(ring') + (IF taken' THEN 1 ELSE 0) <= RxBufs
    BY <2>1, <2>2, <2>3 DEF IInv, RingInv
  <2>5. NoMissedWakeup'
    BY <2>1 DEF NoMissedWakeup, Woken
  <2>6. RingInv'
    BY <1>2, <2>1, <2>2, <2>4, <2>5 DEF IInv, RingInv, Ready, Pcs
  <2>7. p' \in Nat
    BY <2>1, <2>2 DEF Entry
  <2>8. PoolInv'
    BY <1>2, <2>1, <2>7 DEF IInv, PoolInv, NoLeak, Holds, Queued, Pcs
  <2> QED
    BY <1>1, <2>6, <2>8 DEF IInv
<1>4. CASE ~IsRxPktValid
  <2>1. pc' = "pend" /\ UNCHANGED <<taken, p, ring, masked>>
    BY <1>4 DEF Take
  <2>2. NoMissedWakeup'
    BY <1>4, <2>1 DEF NoMissedWakeup, Owed, IsRxPktValid
  <2>3. RingInv'
    BY <1>2, <2>1, <2>2 DEF IInv, RingInv, Ready, Pcs
  <2>4. PoolInv'
    BY <1>2, <2>1 DEF IInv, PoolInv, NoLeak, Holds, Queued, Pcs
  <2> QED
    BY <1>1, <2>3, <2>4 DEF IInv
<1> QED
  BY <1>3, <1>4

LEMMA AllocInv == IInv /\ Alloc => IInv'
<1> SUFFICES ASSUME IInv, Alloc PROVE IInv'
  OBVIOUS
<1>1. MacInv' /\ OutInv'
  BY MacFrame, OutFrame DEF IInv, Alloc
<1>2. UNCHANGED <<boot, ring, arrived, flag, isr, sem, taken, inpkts, kept,
                  mbox, tcpip>>
      /\ pc = "alloc" /\ pc' = "release" /\ masked' = FALSE
      /\ mbox = <<>> /\ tcpip = "fetch"
  BY DEF Alloc, ThreadRuns, TcpipWaits, rx, irq
<1>3. RingInv'
  BY <1>2, RingStep DEF IInv, RingInv, Pcs
<1>4. p' \in Nat /\ pool' \in Nat /\ pool' + p' = pool
  BY DEF Alloc, IInv, PoolInv
<1>5. Holds = 0 /\ Holds' = p' /\ Queued = 0 /\ Queued' = 0
  BY <1>2 DEF Holds, Queued
<1>6. NoLeak'
  <2>1. pool + 0 + 0 + kept = Pbufs /\ kept \in Nat
    BY <1>5 DEF IInv, PoolInv, NoLeak
  <2>2. pool' + Holds' + Queued' + kept' = Pbufs
    <3>1. kept' = kept /\ Holds' = p' /\ Queued' = 0
      BY <1>2, <1>5
    <3> QED
      BY <1>4, <2>1, <3>1
  <2>3. inpkts' = inpkts /\ mbox' = mbox
    BY <1>2
  <2> QED
    BY <1>2, <2>2, <2>3 DEF IInv, PoolInv, NoLeak
<1>7. PoolInv'
  BY <1>2, <1>4, <1>6 DEF IInv, PoolInv, Pcs
<1> QED
  BY <1>1, <1>3, <1>7 DEF IInv

LEMMA ReleaseInv == IInv /\ Release => IInv'
<1> SUFFICES ASSUME IInv, Release PROVE IInv'
  OBVIOUS
<1>1. MacInv' /\ OutInv'
  BY MacFrame, OutFrame DEF IInv, Release
<1>2. UNCHANGED <<boot, ring, arrived, flag, isr, sem, masked, p, pool,
                  inpkts, kept, mbox, tcpip>>
      /\ pc = "release" /\ pc' \in {"test", "input"} /\ taken' = FALSE
      /\ (pc' = "test" => p = 0)
      /\ mbox = <<>> /\ tcpip = "fetch"
  BY DEF Release, Again, ThreadRuns, TcpipWaits, rx, irq, lwip
<1>3. RingInv'
  BY <1>2, RingStep DEF IInv, RingInv, Pcs
<1>4. PoolInv'
  BY <1>2 DEF IInv, PoolInv, NoLeak, Holds, Queued, Pcs
<1> QED
  BY <1>1, <1>3, <1>4 DEF IInv

LEMMA InputInv == IInv /\ Input => IInv'
<1> SUFFICES ASSUME IInv, Input PROVE IInv'
  OBVIOUS
<1>1. MacInv' /\ OutInv'
  BY MacFrame, OutFrame DEF IInv, Input
<1>2. UNCHANGED <<boot, ring, arrived, flag, isr, sem, taken, masked, p,
                  pool, kept, mbox, tcpip>>
      /\ pc = "input" /\ mbox = <<>> /\ tcpip = "fetch"
      /\ \/ inpkts > 0 /\ inpkts' = inpkts - 1 /\ pc' = "post"
         \/ pc' = "free" /\ inpkts' = inpkts
  BY DEF Input, ThreadRuns, TcpipWaits, rx, irq
<1>3. RingInv'
  BY <1>2, RingStep DEF IInv, RingInv, Pcs
<1>4. PoolInv'
  BY <1>2 DEF IInv, PoolInv, NoLeak, Holds, Queued, Pcs
<1> QED
  BY <1>1, <1>3, <1>4 DEF IInv

LEMMA PostInv == IInv /\ Post => IInv'
<1> SUFFICES ASSUME IInv, Post PROVE IInv'
  OBVIOUS
<1>1. MacInv' /\ OutInv'
  BY MacFrame, OutFrame DEF IInv, Post
<1>2. UNCHANGED <<boot, ring, arrived, flag, isr, sem, taken, masked, pool,
                  inpkts, kept, tcpip>>
      /\ pc = "post" /\ pc' = "test" /\ p' = 0
      /\ mbox = <<>> /\ tcpip = "fetch" /\ mbox' = Append(mbox, p)
  BY DEF Post, Again, ThreadRuns, TcpipWaits, rx, irq
<1>3. RingInv'
  BY <1>2, RingStep DEF IInv, RingInv, Pcs
<1>4. /\ mbox' \in Seq(Nat) /\ Len(mbox') = 1 /\ mbox' # <<>> /\ mbox'[1] = p
      /\ Len(mbox) = 0
  BY <1>2, AppendProperties, EmptySeq DEF IInv, PoolInv
<1>5. PoolInv'
  BY <1>2, <1>4 DEF IInv, PoolInv, NoLeak, Holds, Queued, Pcs
<1> QED
  BY <1>1, <1>3, <1>5 DEF IInv

LEMMA PostRefusedInv == IInv /\ PostRefused => IInv'
<1> SUFFICES ASSUME IInv, PostRefused PROVE IInv'
  OBVIOUS
<1>1. MacInv' /\ OutInv'
  BY MacFrame, OutFrame DEF IInv, PostRefused
<1>2. UNCHANGED <<boot, ring, arrived, flag, isr, sem, taken, masked, p,
                  pool, kept, mbox, tcpip>>
      /\ pc = "post" /\ pc' = "free" /\ inpkts' = inpkts + 1
      /\ mbox = <<>> /\ tcpip = "fetch"
  BY DEF PostRefused, ThreadRuns, TcpipWaits, rx, irq
<1>3. RingInv'
  BY <1>2, RingStep DEF IInv, RingInv, Pcs
<1>4. PoolInv'
  BY <1>2 DEF IInv, PoolInv, NoLeak, Holds, Queued, Pcs
<1> QED
  BY <1>1, <1>3, <1>4 DEF IInv

LEMMA FreeInv == IInv /\ Free => IInv'
<1> SUFFICES ASSUME IInv, Free PROVE IInv'
  OBVIOUS
<1>1. MacInv' /\ OutInv'
  BY MacFrame, OutFrame DEF IInv, Free
<1>2. UNCHANGED <<boot, ring, arrived, flag, isr, sem, taken, masked,
                  inpkts, kept, mbox, tcpip>>
      /\ pc = "free" /\ pc' = "test" /\ pool' = pool + p /\ p' = 0
      /\ mbox = <<>> /\ tcpip = "fetch"
  BY DEF Free, Again, ThreadRuns, TcpipWaits, rx, irq
<1>3. RingInv'
  BY <1>2, RingStep DEF IInv, RingInv, Pcs
<1>4. PoolInv'
  BY <1>2 DEF IInv, PoolInv, NoLeak, Holds, Queued, Pcs
<1> QED
  BY <1>1, <1>3, <1>4 DEF IInv

-----------------------------------------------------------------------------
\* The tcpip thread, and the way out.
LEMMA TcpipFetchInv == IInv /\ TcpipFetch => IInv'
<1> SUFFICES ASSUME IInv, TcpipFetch PROVE IInv'
  OBVIOUS
<1>1. RingInv' /\ MacInv' /\ OutInv'
  BY RingFrame, MacFrame, OutFrame DEF IInv, TcpipFetch, input
<1>2. UNCHANGED <<pc, p, pool, inpkts, kept, mbox>>
      /\ tcpip = "fetch" /\ tcpip' = "input" /\ mbox # <<>>
  BY DEF TcpipFetch, input
<1>3. PoolInv'
  BY <1>2 DEF IInv, PoolInv, NoLeak, Holds, Queued
<1> QED
  BY <1>1, <1>3 DEF IInv

LEMMA TcpipInputInv == IInv /\ TcpipInput => IInv'
<1> SUFFICES ASSUME IInv, TcpipInput PROVE IInv'
  OBVIOUS
<1>1. RingInv' /\ MacInv' /\ OutInv'
  BY RingFrame, MacFrame, OutFrame DEF IInv, TcpipInput, input
<1>2. UNCHANGED <<pc, p, inpkts, mbox>> /\ tcpip = "input" /\ tcpip' = "free"
      /\ \/ pool' = pool + mbox[1] /\ kept' = kept
         \/ kept' = kept + mbox[1] /\ pool' = pool
  BY DEF TcpipInput, input
<1>3. mbox # <<>> /\ mbox[1] \in Nat
  <2>1. mbox # <<>> /\ mbox \in Seq(Nat)
    BY <1>2 DEF IInv, PoolInv
  <2>2. 1 \in 1..Len(mbox)
    BY <2>1, EmptySeq, LenProperties
  <2> QED
    BY <2>1, <2>2, ElementOfSeq
<1>4. PoolInv'
  BY <1>2, <1>3 DEF IInv, PoolInv, NoLeak, Holds, Queued
<1> QED
  BY <1>1, <1>4 DEF IInv

LEMMA TcpipFreeInv == IInv /\ TcpipFree => IInv'
<1> SUFFICES ASSUME IInv, TcpipFree PROVE IInv'
  OBVIOUS
<1>1. RingInv' /\ MacInv' /\ OutInv'
  BY RingFrame, MacFrame, OutFrame DEF IInv, TcpipFree, input
<1>2. UNCHANGED <<pc, p, pool, kept>> /\ tcpip = "free" /\ tcpip' = "fetch"
      /\ inpkts' = inpkts + 1 /\ mbox' = Tail(mbox)
  BY DEF TcpipFree, input
<1>3. /\ Len(mbox) = 1 /\ pc = "test"
      /\ Tail(mbox) \in Seq(Nat) /\ Len(Tail(mbox)) = 0 /\ Tail(mbox) = <<>>
  <2>1. mbox # <<>> /\ mbox \in Seq(Nat) /\ Len(mbox) <= 1
    BY <1>2 DEF IInv, PoolInv
  <2>2. Len(mbox) = 1
    BY <2>1, EmptySeq, LenProperties
  <2>3. Tail(mbox) \in Seq(Nat) /\ Len(Tail(mbox)) = 0
    BY <2>1, <2>2, HeadTailProperties
  <2>4. Tail(mbox) = <<>>
    BY <2>3, EmptySeq
  <2> QED
    BY <2>1, <2>2, <2>3, <2>4 DEF IInv, PoolInv
<1>4. PoolInv'
  BY <1>2, <1>3 DEF IInv, PoolInv, NoLeak, Holds, Queued
<1> QED
  BY <1>1, <1>4 DEF IInv

LEMMA TcpipKeptInv == IInv /\ TcpipKept => IInv'
<1> SUFFICES ASSUME IInv, TcpipKept PROVE IInv'
  OBVIOUS
<1>1. RingInv' /\ MacInv' /\ OutInv'
  BY RingFrame, MacFrame, OutFrame DEF IInv, TcpipKept, input
<1>2. UNCHANGED <<pc, p, inpkts, mbox, tcpip>>
      /\ pool' = pool + kept /\ kept' = 0
  BY DEF TcpipKept, input
<1>3. Queued' = Queued /\ Holds' = Holds /\ Holds \in Nat
  BY <1>2 DEF Queued, Holds, IInv, PoolInv
<1>4. Queued \in Nat
  <2>1. mbox # <<>> => mbox[1] \in Nat
    BY EmptySeq, LenProperties, ElementOfSeq DEF IInv, PoolInv
  <2> QED
    BY <2>1 DEF Queued
<1>5. PoolInv'
  BY <1>2, <1>3, <1>4 DEF IInv, PoolInv, NoLeak
<1> QED
  BY <1>1, <1>5 DEF IInv

\* As long as the ring is not full, the frame is put behind those before it.
LEMMA OutputInv == IInv /\ Output => IInv'
<1> SUFFICES ASSUME IInv, Output PROVE IInv'
  OBVIOUS
<1>1. RingInv' /\ PoolInv' /\ MacInv'
  BY RingFrame, PoolFrame, MacFrame DEF IInv, Output, input
<1> DEFINE f == given + 1
           n == Len(sent)
           m == Len(tx)
<1>2. /\ tx \in Seq(1..MaxOut) /\ given \in 0..MaxOut /\ MaxOut \in Nat
      /\ sent \in Seq(1..MaxOut) /\ m <= TxBufs /\ overrun \in BOOLEAN
      /\ lost \subseteq 1..given /\ n \in Nat /\ m \in Nat
      /\ TxBufs \in Nat \ {0} /\ \A i \in 1..m : tx[i] <= given
      /\ DOMAIN Line = 1..(n + m)
  BY EthAssumption, LineIs DEF IInv, OutInv
<1>3. f \in 1..MaxOut
  BY <1>2 DEF Output
<1>4. /\ given' = f /\ sent' = sent /\ lost' = lost
      /\ tx' = IF m < TxBufs THEN Append(tx, f) ELSE [tx EXCEPT ![1] = f]
      /\ overrun' = (overrun \/ m = TxBufs)
  <2>1. given' = f
    BY DEF Output
  <2> QED
    BY <2>1, Zenon DEF Output
<1>5. given' \in 0..MaxOut /\ lost' \subseteq 1..given'
  BY <1>2, <1>3, <1>4
<1>6. CASE m < TxBufs
  <2>1. /\ tx' \in Seq(1..MaxOut) /\ Len(tx') = m + 1
        /\ \A i \in 1..m : tx'[i] = tx[i]
        /\ tx'[m + 1] = f
    BY <1>2, <1>3, <1>4, <1>6, AppendProperties
  <2>2. overrun' = overrun
    <3>1. m # TxBufs
      BY <1>2, <1>6
    <3> QED
      BY <1>2, <1>4, <3>1, Zenon
  <2>3. \A i \in 1..Len(tx') : tx'[i] <= given'
    BY <1>2, <1>4, <2>1
  <2>4. SentAsGiven'
    <3> SUFFICES ASSUME ~overrun
                 PROVE  /\ \A i, j \in DOMAIN Line' : i < j => Line'[i] < Line'[j]
                        /\ {Line'[i] : i \in DOMAIN Line'} = (1..f) \ lost
      BY <1>4, <2>2 DEF SentAsGiven
    <3>1. /\ \A i, j \in 1..(n + m) : i < j => Line[i] < Line[j]
          /\ {Line[i] : i \in 1..(n + m)} = (1..given) \ lost
      BY <1>2 DEF IInv, OutInv, SentAsGiven
    <3>2. \A i \in 1..(n + m) :
            Line[i] = IF i <= n THEN sent[i] ELSE tx[i - n]
      BY <1>2, LineIs
    <3>3. /\ DOMAIN Line' = 1..(n + m + 1)
          /\ \A i \in 1..(n + m + 1) :
               Line'[i] = IF i <= n THEN sent[i] ELSE tx'[i - n]
      <4>1. Line' = sent \o tx'
        BY <1>4 DEF Line
      <4>2. /\ sent \o tx' \in Seq(1..MaxOut)
            /\ Len(sent \o tx') = n + Len(tx')
            /\ \A i \in 1..(n + Len(tx')) :
                 (sent \o tx')[i] = IF i <= n THEN sent[i] ELSE tx'[i - n]
        BY <1>2, <2>1, ConcatProperties
      <4>3. n + Len(tx') = n + m + 1
        BY <1>2, <2>1
      <4>4. DOMAIN (sent \o tx') = 1..Len(sent \o tx')
        BY <4>2, LenProperties
      <4> QED
        BY <4>1, <4>2, <4>3, <4>4
    <3>4. \A i \in 1..(n + m) : Line'[i] = Line[i]
      <4> TAKE i \in 1..(n + m)
      <4>1. i \in 1..(n + m + 1)
        BY <1>2
      <4>2. CASE i <= n
        BY <4>1, <4>2, <3>2, <3>3
      <4>3. CASE ~(i <= n)
        <5>1. i - n \in 1..m
          BY <4>3, <1>2
        <5> QED
          BY <4>1, <4>3, <5>1, <3>2, <3>3, <2>1
      <4> QED
        BY <4>2, <4>3
    <3>5. Line'[n + m + 1] = f
      <4>1. n + m + 1 \in 1..(n + m + 1) /\ ~(n + m + 1 <= n)
            /\ (n + m + 1) - n = m + 1
        BY <1>2
      <4> QED
        BY <4>1, <3>3, <2>1
    <3>6. \A i \in 1..(n + m) : Line[i] \in 1..given
      BY <3>1
    <3>7. \A i, j \in DOMAIN Line' : i < j => Line'[i] < Line'[j]
      <4> SUFFICES ASSUME NEW i \in 1..(n + m + 1), NEW j \in 1..(n + m + 1),
                          i < j
                   PROVE  Line'[i] < Line'[j]
        BY <3>3
      <4>1. i \in 1..(n + m)
        BY <1>2
      <4>2. CASE j = n + m + 1
        BY <4>1, <4>2, <3>4, <3>5, <3>6, <1>2
      <4>3. CASE j # n + m + 1
        <5>1. j \in 1..(n + m)
          <6>1. n \in Nat /\ m \in Nat /\ j \in 1..(n + m + 1)
            BY <1>2
          <6> HIDE DEF n, m
          <6> QED
            BY <6>1, <4>3
        <5> QED
          BY <4>1, <5>1, <3>1, <3>4
      <4> QED
        BY <4>2, <4>3
    <3>8. {Line'[i] : i \in DOMAIN Line'}
            = {Line[i] : i \in 1..(n + m)} \cup {f}
      <4>1. 1..(n + m + 1) = 1..(n + m) \cup {n + m + 1}
        BY <1>2
      <4> QED
        BY <4>1, <3>3, <3>4, <3>5
    <3>9. ((1..given) \ lost) \cup {f} = (1..f) \ lost
      BY <1>2
    <3> QED
      BY <3>1, <3>7, <3>8, <3>9
  <2>5. Len(tx') <= TxBufs
    BY <1>2, <1>6, <2>1
  <2>6. OutInv'
    BY <1>2, <1>4, <1>5, <2>1, <2>2, <2>3, <2>4, <2>5 DEF OutInv
  <2> QED
    BY <1>1, <2>6 DEF IInv
<1>7. CASE ~(m < TxBufs)
  <2>1. m = TxBufs /\ 1 \in 1..m
    BY <1>2, <1>7
  <2>2. /\ tx' \in Seq(1..MaxOut) /\ Len(tx') = m
        /\ \A i \in 1..m : tx'[i] = IF i = 1 THEN f ELSE tx[i]
    BY <1>2, <1>3, <1>4, <1>7, <2>1, ExceptSeq
  <2>3. overrun' = TRUE
    BY <1>4, <2>1, Zenon
  <2>4. Len(tx') <= TxBufs /\ \A i \in 1..Len(tx') : tx'[i] <= given'
    BY <1>2, <1>4, <2>1, <2>2
  <2>5. SentAsGiven'
    BY <2>3, Zenon DEF SentAsGiven
  <2>6. sent' \in Seq(1..MaxOut) /\ overrun' \in BOOLEAN
    BY <1>2, <1>4, <2>3, Zenon
  <2>7. OutInv'
    BY <1>5, <2>2, <2>4, <2>5, <2>6, Zenon DEF OutInv
  <2> QED
    BY <1>1, <2>7 DEF IInv
<1> QED
  BY <1>6, <1>7

LEMMA StutterInv == IInv /\ UNCHANGED vars => IInv'
BY RingFrame, PoolFrame, MacFrame, OutFrame DEF IInv, vars, input

LEMMA NextInv == IInv /\ [Next]_vars => IInv'
<1> SUFFICES ASSUME IInv, [Next]_vars PROVE IInv'
  OBVIOUS
<1>1. CASE Thread
  BY <1>1, PendInv, TakeInv, AllocInv, ReleaseInv, InputInv, PostInv,
     PostRefusedInv, FreeInv DEF Thread
<1>2. CASE TcpipThread
  BY <1>2, TcpipFetchInv, TcpipInputInv, TcpipFreeInv, TcpipKeptInv
  DEF TcpipThread
<1> QED
  BY <1>1, <1>2, ReceiveInv, TransmitInv, LinkInv, IsrInv, BootInv, OutputInv,
     StutterInv DEF Next

-----------------------------------------------------------------------------
\* The inductive invariant of the driver.
THEOREM Invariance == Spec => []IInv
BY InitInv, NextInv, PTL DEF Spec

\* Rings, pools and mailbox stay inside their sizes.
THEOREM TypeCorrect == Spec => []TypeOK
<1>1. IInv => TypeOK
  <2> SUFFICES ASSUME IInv PROVE TypeOK
    OBVIOUS
  <2>1. Queued \in Nat /\ Holds \in Nat /\ Len(mbox) \in Nat
    <3>1. mbox # <<>> => mbox[1] \in Nat
      BY EmptySeq, LenProperties, ElementOfSeq DEF IInv, PoolInv
    <3> QED
      BY <3>1, LenProperties DEF IInv, PoolInv, Queued, Holds
  <2>2. pool \in 0..Pbufs /\ kept \in 0..Pbufs /\ inpkts \in 0..InPkts
    BY <2>1, EthAssumption DEF IInv, PoolInv, NoLeak
  <2>3. Room \in 0..RxBufs
    BY EthAssumption, LenProperties DEF IInv, RingInv, Room
  <2>4. sem \in 0..MaxIn
    BY EthAssumption DEF IInv, RingInv
  <2>5. Len(mbox) <= MboxSize
    BY <2>1, EthAssumption DEF IInv, PoolInv
  <2> QED
    BY <2>2, <2>3, <2>4, <2>5 DEF IInv, RingInv, PoolInv, MacInv, OutInv, Pcs, TypeOK
<1> QED
  BY <1>1, Invariance, PTL

\* A good frame that came after the semaphore was created never waits with nobody
\* woken for it.
THEOREM WakeupNotMissed == Spec => []NoMissedWakeup
<1>1. IInv => NoMissedWakeup
  BY DEF IInv, RingInv
<1> QED
  BY <1>1, Invariance, PTL

\* Pbufs and messages are conserved.
THEOREM BuffersConserved == Spec => []NoLeak
<1>1. IInv => NoLeak
  BY DEF IInv, PoolInv
<1> QED
  BY <1>1, Invariance, PTL

\* The mailbox is empty and all messages but one are free when the thread posts.
THEOREM BacklogFree == Spec => []NoBacklog
<1>1. IInv => NoBacklog
  <2> SUFFICES ASSUME IInv, pc = "post" PROVE mbox = <<>> /\ inpkts = InPkts - 1
    BY DEF NoBacklog
  <2>1. mbox = <<>>
    BY DEF IInv, PoolInv
  <2>2. Len(mbox) = 0
    BY <2>1
  <2> QED
    BY <2>1, <2>2, EthAssumption DEF IInv, PoolInv, NoLeak
<1> QED
  BY <1>1, Invariance, PTL

\* Frames go out once and in the order they were given, and none is missing but
\* those a flush found in the FIFO, until the ring is found full.
THEOREM OutputFaithful == Spec => []SentAsGiven
<1>1. IInv => SentAsGiven
  BY DEF IInv, OutInv
<1> QED
  BY <1>1, Invariance, PTL
=============================================================================
