----------------------------- MODULE SpiProofs -----------------------------
(***************************************************************************)
(* Theorems about FpgaSpi, for every table, set of delays and of slaves,   *)
(* registers at power-on and any number of calls, and for every length of  *)
(* addresses and entries in the proportion of the code: what frames that   *)
(* cut into each other leave in the registers.                             *)
(***************************************************************************)
EXTENDS FpgaSpi, WellFoundedInduction, TLAPS

\* The calls of a task.
IsCall(t, c) ==
  \/ c = None
  \/ /\ t # "watchdog"
     /\ \E o \in Offsets : InRange(o) /\ c = Call("set", 0, o)
  \/ t # "watchdog" /\ c = Call("get", 0, 0)
  \/ t = "watchdog" /\ c = Call("feed", 0, 0)
  \/ /\ t = "debug"
     /\ \E i \in 0..TbLen, v \in Slaves \cup {0} : c = Call("ufs", i, v)
  \/ t = "debug" /\ c = Call("rtrv", 0, 0)

Ops == {"none", "set", "get", "feed", "ufs", "rtrv"}

TaskInv ==
  /\ DOMAIN call = Task /\ \A t \in Task : IsCall(t, call[t])
  /\ nth \in [Task -> Nat] /\ sent \in [Task -> Nat]
  /\ inside \in [Task -> BOOLEAN] /\ hurt \in [Task -> BOOLEAN]
  /\ mixed \in [Task -> BOOLEAN]
  /\ cs \in BOOLEAN /\ first \in Task /\ len \in Nat /\ (~cs => len = 0)
  /\ \A t \in Task : IF Busy(t) THEN nth[t] < Number(call[t])
                     ELSE nth[t] = 0 /\ ~inside[t] /\ ~mixed[t]
  /\ \A t \in Task : IF inside[t] THEN sent[t] <= Length(F(t))
                     ELSE sent[t] = 0 /\ ~hurt[t]

\* The bytes of a task and of those that can have cut into its frame.
SumFrom(t) == CASE t = "web" -> sent["web"]
                [] t = "watchdog" -> sent["watchdog"] + sent["web"]
                [] t = "debug" -> sent["debug"] + sent["watchdog"] + sent["web"]

\* Of two tasks inside a frame the lower one is hurt; one that is not hurt is
\* alone on the bus.  What the FPGA has received begins with the bytes of one
\* task inside its frame and goes on with those of the tasks that cut into it.
BusInv ==
  /\ \A t \in Task : \A u \in Above(t) : inside[t] /\ inside[u] => hurt[t]
  /\ \A t \in Task : inside[t] /\ ~hurt[t] =>
       cs /\ len = sent[t] /\ (len > 0 => first = t)
  /\ cs /\ len > 0 => inside[first] /\ sent[first] > 0 /\ len = SumFrom(first)
  /\ \A t \in Task : cs /\ len = 0 /\ inside[t] /\ sent[t] > 0 =>
                       \E u \in Above(t) : inside[u]

StoreInv ==
  /\ DOMAIN reg = Addr /\ \A a \in Addr : reg[a] \in Values(a)
  /\ acc \in [Task -> [0..3 -> Nat]]
  /\ \A t \in Task : \A n \in 0..3 : acc[t][n] \in Values(Delay(n))
  /\ \A t \in Task : ~Busy(t) => acc[t] = NoAcc
  /\ delaycom \in Int /\ table \in [0..TbLen -> Slaves \cup {0}]
  /\ dirty \subseteq 0..TbLen /\ apart \in BOOLEAN

IInv == TaskInv /\ BusInv /\ StoreInv

-----------------------------------------------------------------------------
\* The tasks are ordered by their priorities.
LEMMA Order ==
  /\ \A t \in Task : Above(t) \subseteq Task /\ t \notin Above(t)
  /\ \A t, u \in Task : t # u => t \in Above(u) \/ u \in Above(t)
  /\ \A t, u \in Task : t \in Above(u) => u \notin Above(t)
BY DEF Task, Above

\* The registers are different.
LEMMA Addrs ==
  /\ \A n \in 0..3 : Delay(n) \in Addr
  /\ Wdi \in Addr
  /\ \A i \in 0..TbLen : Slot(i) \in Addr
  /\ \A n, m : Delay(n) = Delay(m) => n = m
  /\ \A i, j : Slot(i) = Slot(j) => i = j
  /\ \A n, i : Delay(n) # Slot(i) /\ Delay(n) # Wdi /\ Slot(i) # Wdi
  /\ \A n : Delay(n)[1] = "delay" /\ Delay(n)[2] = n
  /\ \A i : Slot(i)[1] = "slave" /\ Slot(i)[2] = i
  /\ Wdi[1] = "wdi"
<1>1. /\ \A n : Delay(n)[1] = "delay" /\ Delay(n)[2] = n
      /\ \A i : Slot(i)[1] = "slave" /\ Slot(i)[2] = i
      /\ Wdi[1] = "wdi"
  BY DEF Delay, Slot, Wdi
<1>2. /\ \A n \in 0..3 : Delay(n) \in Addr
      /\ Wdi \in Addr
      /\ \A i \in 0..TbLen : Slot(i) \in Addr
  BY DEF Addr
<1>3. "delay" # "slave" /\ "delay" # "wdi" /\ "slave" # "wdi"
  OBVIOUS
<1> QED
  BY <1>1, <1>2, <1>3

\* The bytes of a delay.
LEMMA Digits ==
  ASSUME NEW o \in Int
  PROVE  /\ Coded(o) \in Nat
         /\ \A n \in 0..3 : Digit(o, n) \in Nat
<1>1. Coded(o) \in Nat
  BY DEF Coded, Abs
<1> DEFINE c == Coded(o)
<1>2. /\ (c \div 16777216) % 16 \in Nat /\ (c \div 65536) % 256 \in Nat
      /\ (c \div 256) % 256 \in Nat /\ c % 256 \in Nat
  <2> HIDE DEF c
  <2> QED
    BY <1>1 DEF c
<1>3. /\ Digit(o, 0) \in Nat /\ Digit(o, 1) \in Nat
      /\ Digit(o, 2) \in Nat /\ Digit(o, 3) \in Nat
  BY <1>2, SMT DEF Digit
<1>4. \A n \in 0..3 : n = 0 \/ n = 1 \/ n = 2 \/ n = 3
  BY SMT
<1> QED
  BY <1>1, <1>3, <1>4

\* The ranges of the registers.
LEMMA Ranges ==
  /\ \A n \in 0..3 : /\ Values(Delay(n)) \subseteq Nat /\ 0 \in Values(Delay(n))
                     /\ \A o \in Offsets : Digit(o, n) \in Values(Delay(n))
  /\ Values(Wdi) = {0, 1}
  /\ \A i : Values(Slot(i)) = Slaves \cup {0}
<1>1. \A n : Values(Delay(n)) = {Digit(o, n) : o \in Offsets} \cup {0}
  BY Addrs DEF Values
<1>2. \A i : Values(Slot(i)) = Slaves \cup {0}
  BY Addrs DEF Values
<1>3. Values(Wdi) = {0, 1}
  BY Addrs DEF Values
<1>4. \A o \in Offsets : o \in Int
  BY SpiAssumption
<1>5. \A n \in 0..3 : {Digit(o, n) : o \in Offsets} \subseteq Nat
  BY <1>4, Digits
<1> QED
  BY <1>1, <1>2, <1>3, <1>5

\* The delay whose bytes are those of a delay in range: it, rounded.
LEMMA Decoded ==
  ASSUME NEW o \in Int, InRange(o), NEW d,
         \A n \in 0..3 : d[n] = Digit(o, n)
  PROVE  DelayOf(d) = Rounded(o)
<1> DEFINE a == Abs(o) \div 8
           c == Coded(o)
<1>1. a \in Nat /\ a <= 125000
  BY SMT DEF InRange, Abs, GNSS_PPS_DLYCOM_HI
<1>2. c = IF o < 0 THEN a + 134217728 ELSE a
  BY <1>1 DEF Coded
<1>3. 0 \in 0..3 /\ 1 \in 0..3 /\ 2 \in 0..3 /\ 3 \in 0..3
  BY SMT
<1>4. /\ d[0] = (c \div 16777216) % 16 /\ d[1] = (c \div 65536) % 256
      /\ d[2] = (c \div 256) % 256 /\ d[3] = c % 256
  <2>1. /\ d[0] = Digit(o, 0) /\ d[1] = Digit(o, 1) /\ d[2] = Digit(o, 2)
        /\ d[3] = Digit(o, 3)
    BY <1>3
  <2> QED
    BY <2>1, SMT DEF Digit
<1>5. \A n \in 1..3 : d[n] = Digit(o, n) /\ n \in 0..3
  BY SMT
<1>6. Rounded(o) = IF o < 0 THEN -(8 * a) ELSE 8 * a
  BY DEF Rounded
<1> HIDE DEF a, c
<1>7. CASE o < 0
  <2>1. c = a + 134217728
    BY <1>2, <1>7
  <2>2. d[0] = 8
    BY <1>1, <1>4, <2>1, SMT
  <2>3. d[1] * 65536 + d[2] * 256 + d[3] = a
    BY <1>1, <1>4, <2>1, SMT
  <2>4. (d[0] \div 8) % 2 = 1 /\ d[0] % 8 = 0
    BY <2>2, SMT
  <2>5. DelayOf(d) = -(a * 8)
    <3>1. d[1] \in Nat /\ d[2] \in Nat /\ d[3] \in Nat
      BY <1>5, Digits, SMT
    <3>2. (d[0] % 8) * 16777216 + d[1] * 65536 + d[2] * 256 + d[3] = a
      BY <1>1, <2>3, <2>4, <3>1, SMT
    <3> QED
      BY <2>4, <3>2, SMT DEF DelayOf
  <2> QED
    BY <1>1, <1>6, <1>7, <2>5, SMT
<1>8. CASE ~(o < 0)
  <2>1. c = a
    BY <1>2, <1>8
  <2>2. d[0] = 0
    BY <1>1, <1>4, <2>1, SMT
  <2>3. d[1] * 65536 + d[2] * 256 + d[3] = a
    BY <1>1, <1>4, <2>1, SMT
  <2>4. (d[0] \div 8) % 2 = 0 /\ d[0] % 8 = 0
    BY <2>2, SMT
  <2>5. DelayOf(d) = a * 8
    <3>1. d[1] \in Nat /\ d[2] \in Nat /\ d[3] \in Nat
      BY <1>5, Digits, SMT
    <3>2. (d[0] % 8) * 16777216 + d[1] * 65536 + d[2] * 256 + d[3] = a
      BY <1>1, <2>3, <2>4, <3>1, SMT
    <3> QED
      BY <2>4, <3>2, SMT DEF DelayOf
  <2> QED
    BY <1>1, <1>6, <1>8, <2>5, SMT
<1> QED
  BY <1>7, <1>8

\* What the registers say is a multiple of 8.
LEMMA RoundedOnce ==
  ASSUME NEW d, \A n \in 0..3 : d[n] \in Nat
  PROVE  DelayOf(d) \in Int /\ Rounded(DelayOf(d)) = DelayOf(d)
<1>1. d[0] \in Nat /\ d[1] \in Nat /\ d[2] \in Nat /\ d[3] \in Nat
  BY SMT
<1> DEFINE m == (d[0] % 8) * 16777216 + d[1] * 65536 + d[2] * 256 + d[3]
<1>2. m \in Nat
  BY <1>1, SMT
<1>3. DelayOf(d) = -(m * 8) \/ DelayOf(d) = m * 8
  BY <1>1, SMT DEF DelayOf
<1> HIDE DEF m
<1>4. ASSUME NEW k \in Nat PROVE k * 8 \in Nat /\ (k * 8) \div 8 = k
  BY SMT
<1>5. CASE DelayOf(d) = m * 8
  <2>1. Abs(DelayOf(d)) = m * 8 /\ ~(DelayOf(d) < 0)
    BY <1>2, <1>5, SMT DEF Abs
  <2> QED
    BY <1>2, <1>4, <1>5, <2>1, SMT DEF Rounded
<1>6. CASE DelayOf(d) = -(m * 8) /\ m # 0
  <2>1. Abs(DelayOf(d)) = m * 8 /\ DelayOf(d) < 0
    BY <1>2, <1>6, SMT DEF Abs
  <2> QED
    BY <1>2, <1>4, <1>6, <2>1, SMT DEF Rounded
<1> QED
  BY <1>2, <1>3, <1>5, <1>6, SMT

-----------------------------------------------------------------------------
\* The frames of the calls.
LEMMA Fields ==
  /\ \A op, slot, val : LET c == Call(op, slot, val)
                        IN  c.op = op /\ c.slot = slot /\ c.val = val
  /\ None.op = "none"
  /\ \A a, v : /\ Write(a, v).addr = a /\ Write(a, v).data = v
               /\ Writes(Write(a, v)) /\ ~Long(Write(a, v))
               /\ MulWrite(a, v).addr = a /\ MulWrite(a, v).data = v
               /\ Writes(MulWrite(a, v)) /\ Long(MulWrite(a, v))
               /\ Read(a).addr = a /\ ~Writes(Read(a)) /\ ~Long(Read(a))
               /\ MulRead(a).addr = a /\ ~Writes(MulRead(a)) /\ Long(MulRead(a))
BY DEF Call, None, Write, MulWrite, Read, MulRead, Writes, Long

LEMMA Lengths ==
  \A f : /\ Header(f) \in Nat /\ Length(f) \in Nat
         /\ Long(f) => /\ Header(f) = AddrLen + 2
                       /\ Length(f) = AddrLen + 2 + DataLen
         /\ ~Long(f) => Length(f) = AddrLen + 2 /\ Header(f) = AddrLen + 1
BY SpiAssumption DEF Header, Length

LEMMA OpOf ==
  ASSUME NEW t \in Task, NEW c, IsCall(t, c)
  PROVE  /\ c.op \in Ops /\ (c.op = "none" <=> c = None)
         /\ c.op \in {"set", "get"} => t \in {"web", "debug"}
         /\ c.op \in {"ufs", "rtrv"} => t = "debug"
         /\ c.op = "set" => c.val \in Offsets /\ InRange(c.val)
         /\ c.op = "ufs" => c.slot \in 0..TbLen /\ c.val \in Slaves \cup {0}
         /\ Number(c) \in Nat
<1> USE Fields DEF Ops, Number, Task
<1>1. CASE c = None
  BY <1>1
<1>2. CASE /\ t # "watchdog"
           /\ \E o \in Offsets : InRange(o) /\ c = Call("set", 0, o)
  BY <1>2
<1>3. CASE t # "watchdog" /\ c = Call("get", 0, 0)
  BY <1>3
<1>4. CASE t = "watchdog" /\ c = Call("feed", 0, 0)
  BY <1>4
<1>5. CASE /\ t = "debug"
           /\ \E i \in 0..TbLen, v \in Slaves \cup {0} : c = Call("ufs", i, v)
  BY <1>5
<1>6. CASE t = "debug" /\ c = Call("rtrv", 0, 0)
  BY <1>6, SpiAssumption
<1> QED
  BY <1>1, <1>2, <1>3, <1>4, <1>5, <1>6 DEF IsCall

LEMMA FrameIs ==
  ASSUME NEW t \in Task, NEW c, IsCall(t, c), NEW n \in Nat, n < Number(c),
         NEW f, f = FrameOf(c, n)
  PROVE  /\ c.op # "none" /\ f.addr \in Addr
         /\ Writes(f) => f.data \in Values(f.addr)
         /\ Long(f) <=> c.op \in {"ufs", "rtrv"}
         /\ Writes(f) <=> c.op \in {"set", "feed", "ufs"}
         /\ c.op \in {"set", "get"} =>
              n \in 0..3 /\ f.addr = Delay(n) /\ Number(c) = 4
         /\ c.op = "set" => f.data = Digit(c.val, n)
         /\ c.op = "feed" => f.addr = Wdi
         /\ c.op = "ufs" => f.addr = Slot(c.slot) /\ f.data = c.val /\ Number(c) = 1
         /\ c.op = "rtrv" =>
              n \in 0..TbLen - 1 /\ f.addr = Slot(n) /\ Number(c) = TbLen
<1>1. c.op \in Ops
  BY OpOf
<1>2. CASE c.op = "none"
  <2>1. Number(c) = 0
    BY <1>2 DEF Number
  <2> QED
    BY <2>1
<1>3. CASE c.op = "set"
  <2>1. Number(c) = 4 /\ f = Write(Delay(n), Digit(c.val, n))
    BY <1>3 DEF Number, FrameOf
  <2>2. n \in 0..3
    BY <2>1
  <2>3. c.val \in Offsets
    BY <1>3, OpOf
  <2>4. /\ f.addr = Delay(n) /\ f.data = Digit(c.val, n) /\ Writes(f) /\ ~Long(f)
    BY <2>1, Fields
  <2>5. Delay(n) \in Addr /\ Digit(c.val, n) \in Values(Delay(n))
    BY <2>2, <2>3, Addrs, Ranges
  <2> QED
    BY <1>3, <2>1, <2>2, <2>4, <2>5
<1>4. CASE c.op = "get"
  <2>1. Number(c) = 4 /\ f = Read(Delay(n))
    BY <1>4 DEF Number, FrameOf
  <2>2. n \in 0..3
    BY <2>1
  <2>3. f.addr = Delay(n) /\ ~Writes(f) /\ ~Long(f) /\ Delay(n) \in Addr
    BY <2>1, <2>2, Fields, Addrs
  <2> QED
    BY <1>4, <2>1, <2>2, <2>3
<1>5. CASE c.op = "feed"
  <2>1. Number(c) = 2 /\ f = Write(Wdi, n)
    BY <1>5 DEF Number, FrameOf
  <2>2. n \in {0, 1}
    BY <2>1
  <2>3. f.addr = Wdi /\ f.data = n /\ Writes(f) /\ ~Long(f)
    BY <2>1, Fields
  <2> QED
    BY <1>5, <2>1, <2>2, <2>3, Addrs, Ranges
<1>6. CASE c.op = "ufs"
  <2>1. Number(c) = 1 /\ f = MulWrite(Slot(c.slot), c.val)
    BY <1>6 DEF Number, FrameOf
  <2>2. c.slot \in 0..TbLen /\ c.val \in Slaves \cup {0}
    BY <1>6, OpOf
  <2>3. f.addr = Slot(c.slot) /\ f.data = c.val /\ Writes(f) /\ Long(f)
    BY <2>1, Fields
  <2> QED
    BY <1>6, <2>1, <2>2, <2>3, Addrs, Ranges
<1>7. CASE c.op = "rtrv"
  <2>1. Number(c) = TbLen /\ f = MulRead(Slot(n))
    BY <1>7 DEF Number, FrameOf
  <2>2. n \in 0..TbLen - 1 /\ n \in 0..TbLen
    BY <2>1, SpiAssumption
  <2>3. f.addr = Slot(n) /\ ~Writes(f) /\ Long(f) /\ Slot(n) \in Addr
    BY <2>1, <2>2, Fields, Addrs
  <2> QED
    BY <1>7, <2>1, <2>2, <2>3
<1> QED
  BY <1>1, <1>2, <1>3, <1>4, <1>5, <1>6, <1>7 DEF Ops

\* A task inside a frame is in a call, and its frame is one of it.
LEMMA Inside ==
  ASSUME TaskInv, NEW t \in Task, inside[t] \/ Busy(t)
  PROVE  /\ Busy(t) /\ IsCall(t, call[t]) /\ nth[t] \in Nat
         /\ nth[t] < Number(call[t]) /\ Number(call[t]) \in Nat
         /\ F(t).addr \in Addr
         /\ Writes(F(t)) => F(t).data \in Values(F(t).addr)
         /\ Long(F(t)) => t = "debug"
         /\ Length(F(t)) \in Nat
         /\ ~Long(F(t)) => Length(F(t)) = AddrLen + 2
<1>1. /\ Busy(t) /\ IsCall(t, call[t]) /\ nth[t] \in Nat
      /\ nth[t] < Number(call[t])
  BY DEF TaskInv
<1>2. /\ F(t).addr \in Addr /\ (Writes(F(t)) => F(t).data \in Values(F(t).addr))
      /\ (Long(F(t)) <=> call[t].op \in {"ufs", "rtrv"})
  BY <1>1, FrameIs DEF F
<1>3. call[t].op \in {"ufs", "rtrv"} => t = "debug"
  BY <1>1, OpOf
<1> QED
  BY <1>1, <1>2, <1>3, OpOf, Lengths

\* A task that runs has none above it inside a frame, and those below it that are
\* inside one are hurt as soon as it is.
LEMMA Alone ==
  ASSUME TaskInv, BusInv, NEW t \in Task, Runs(t)
  PROVE  /\ \A u \in Above(t) : u \in Task /\ ~inside[u] /\ sent[u] = 0
         /\ \A u \in Task : u # t /\ inside[u] => t \in Above(u)
         /\ inside[t] => \A u \in Task : u # t /\ inside[u] => hurt[u]
<1>1. \A u \in Above(t) : u \in Task /\ ~Busy(u)
  BY Order DEF Runs
<1>2. \A u \in Above(t) : ~inside[u]
  BY <1>1 DEF TaskInv
<1>3. \A u \in Above(t) : sent[u] = 0
  BY <1>1, <1>2 DEF TaskInv
<1>4. \A u \in Task : u # t /\ inside[u] => t \in Above(u)
  BY <1>2, Order
<1> QED
  BY <1>1, <1>2, <1>3, <1>4 DEF BusInv

\* What a task that runs has added to the bytes of another or its own.
LEMMA SumOf ==
  ASSUME TaskInv, BusInv, NEW t \in Task, Runs(t), cs, len > 0,
         inside[t]
  PROVE  /\ first = t \/ t \in Above(first)
         /\ first = t => len = sent[t]
         /\ first # t => sent[first] > 0 /\ len >= sent[first] + sent[t]
         /\ first = "debug" => len = sent["debug"] + sent["watchdog"] + sent["web"]
         /\ first # "debug" /\ first # t => t = "web" /\ first = "watchdog"
<1>1. /\ inside[first] /\ sent[first] > 0 /\ len = SumFrom(first)
      /\ first \in Task /\ sent \in [Task -> Nat]
  BY DEF BusInv, TaskInv
<1>2. first = t \/ t \in Above(first)
  BY <1>1, Alone
<1>3. \A u \in Above(t) : sent[u] = 0
  BY Alone
<1> QED
  BY <1>1, <1>2, <1>3 DEF SumFrom, Task, Above

-----------------------------------------------------------------------------
LEMMA InitInv == Init => IInv
<1> SUFFICES ASSUME Init PROVE IInv
  OBVIOUS
<1> USE DEF Init
<1>1. "web" \in Task /\ \A t : None.op = "none"
  BY Fields DEF Task
<1>2. \A t \in Task : ~Busy(t) /\ IsCall(t, call[t])
  BY <1>1 DEF Busy, IsCall
<1>3. TaskInv
  BY <1>1, <1>2 DEF TaskInv
<1>4. BusInv
  <2>1. \A t \in Task : Above(t) \subseteq Task
    BY Order
  <2> QED
    BY <2>1 DEF BusInv
<1>5. StoreInv
  <2>1. DOMAIN reg = Addr /\ \A a \in Addr : reg[a] \in Values(a)
    BY SpiAssumption
  <2>2. \A n \in 0..3 : NoAcc[n] = 0 /\ 0 \in Values(Delay(n))
    BY Ranges DEF NoAcc
  <2>3. NoAcc \in [0..3 -> Nat]
    BY DEF NoAcc
  <2>4. delaycom \in Int
    BY SpiAssumption
  <2>5. /\ acc \in [Task -> [0..3 -> Nat]]
        /\ \A t \in Task : acc[t] = NoAcc
    BY <2>3
  <2>6. table \in [0..TbLen -> Slaves \cup {0}] /\ dirty \subseteq 0..TbLen
        /\ apart \in BOOLEAN
    OBVIOUS
  <2> QED
    BY <2>1, <2>2, <2>4, <2>5, <2>6 DEF StoreInv
<1> QED
  BY <1>3, <1>4, <1>5 DEF IInv

\* The frames of the tasks whose call and place are the same are the same.
LEMMA SameFrame ==
  ASSUME NEW t \in Task, call'[t] = call[t], nth'[t] = nth[t]
  PROVE  F(t)' = F(t) /\ (Busy(t)' <=> Busy(t)) /\ (InDelay(t)' <=> InDelay(t))
BY DEF F, Busy, InDelay

\* What the beginning of a call leaves alone.
LEMMA BeginIs ==
  ASSUME IInv, NEW t \in Task, NEW c, Begin(t, c)
  PROVE  /\ Runs(t) /\ ~Busy(t) /\ ~inside[t] /\ ~mixed[t] /\ nth[t] = 0
         /\ call' = [call EXCEPT ![t] = c] /\ call'[t] = c
         /\ \A u \in Task : u # t => call'[u] = call[u]
         /\ UNCHANGED <<cs, first, len, reg, nth, inside, sent, acc, hurt, apart,
                        dirty>>
         /\ mixed' \in [Task -> BOOLEAN]
         /\ \A u \in Task :
              mixed'[u] <=> mixed[u] \/ (c.op \in {"set", "get"} /\ InDelay(u))
<1>1. /\ Runs(t) /\ ~Busy(t) /\ call' = [call EXCEPT ![t] = c]
      /\ UNCHANGED <<cs, first, len, reg, nth, inside, sent, acc, hurt, apart,
                     dirty>>
  BY DEF Begin, wires
<1>2. mixed' = [u \in Task |-> mixed[u] \/ (c.op \in {"set", "get"} /\ InDelay(u))]
  BY DEF Begin
<1>3. mixed' \in [Task -> BOOLEAN]
      /\ \A u \in Task :
           mixed'[u] <=> mixed[u] \/ (c.op \in {"set", "get"} /\ InDelay(u))
  BY <1>2, Zenon DEF IInv, TaskInv
<1>4. DOMAIN call = Task /\ ~inside[t] /\ ~mixed[t] /\ nth[t] = 0
  BY <1>1 DEF IInv, TaskInv
<1>5. call'[t] = c /\ \A u \in Task : u # t => call'[u] = call[u]
  BY <1>1, <1>4
<1> QED
  BY <1>1, <1>3, <1>4, <1>5

LEMMA BeginInv ==
  ASSUME IInv, NEW t \in Task, NEW c, IsCall(t, c), c # None, 0 < Number(c),
         Begin(t, c), delaycom' \in Int, table' \in [0..TbLen -> Slaves \cup {0}]
  PROVE  IInv'
<1>1. TaskInv /\ BusInv /\ StoreInv
  BY DEF IInv
<1>2. /\ Runs(t) /\ ~Busy(t) /\ ~inside[t] /\ ~mixed[t] /\ nth[t] = 0
      /\ call' = [call EXCEPT ![t] = c] /\ call'[t] = c
      /\ \A u \in Task : u # t => call'[u] = call[u]
      /\ UNCHANGED <<cs, first, len, reg, nth, inside, sent, acc, hurt, apart,
                     dirty>>
      /\ mixed' \in [Task -> BOOLEAN]
      /\ \A u \in Task :
           mixed'[u] <=> mixed[u] \/ (c.op \in {"set", "get"} /\ InDelay(u))
  BY BeginIs
<1>3. c.op # "none"
  BY OpOf
<1>4. \A u \in Task : u # t => F(u)' = F(u) /\ (Busy(u)' <=> Busy(u))
  BY <1>2, SameFrame
<1>5. Busy(t)'
  BY <1>2, <1>3 DEF Busy
<1>6. \A u \in Task : ~Busy(u) => ~InDelay(u)
  BY DEF Busy, InDelay
<1>7. TaskInv'
  <2>1. DOMAIN call' = Task /\ \A u \in Task : IsCall(u, call'[u])
    BY <1>1, <1>2 DEF TaskInv
  <2>2. \A u \in Task : IF Busy(u)' THEN nth'[u] < Number(call'[u])
                        ELSE nth'[u] = 0 /\ ~inside'[u] /\ ~mixed'[u]
    BY <1>1, <1>2, <1>4, <1>5, <1>6 DEF TaskInv
  <2>3. \A u \in Task : IF inside'[u] THEN sent'[u] <= Length(F(u)')
                        ELSE sent'[u] = 0 /\ ~hurt'[u]
    BY <1>1, <1>2, <1>4 DEF TaskInv
  <2>4. \A u \in Task : Length(F(u)') = Length(F(u))'
    BY DEF Length, Header, Long
  <2> QED
    BY <1>1, <1>2, <2>1, <2>2, <2>3, <2>4 DEF TaskInv
<1>8. BusInv'
  BY <1>1, <1>2 DEF BusInv, SumFrom
<1>9. StoreInv'
  BY <1>1, <1>2, <1>4, <1>5 DEF StoreInv
<1> QED
  BY <1>7, <1>8, <1>9 DEF IInv

\* A set of numbers that is not empty has a least one.
LEMMA Least ==
  ASSUME NEW T, T \subseteq Nat, T # {}
  PROVE  \E x \in T : \A y \in T : x <= y
<1>1. PICK x \in T : \A y \in T : ~(<<y, x>> \in OpToRel(<, Nat))
  BY NatLessThanWellFounded, WFMin, Zenon
<1>2. ASSUME NEW y \in T, y < x PROVE <<y, x>> \in OpToRel(<, Nat)
  <2>1. y \in Nat /\ x \in Nat
    OBVIOUS
  <2> QED
    BY <1>2, <2>1, Zenon DEF OpToRel
<1>3. \A y \in T : ~(y < x)
  BY <1>1, <1>2
<1> QED
  BY <1>3

\* The loops over the table end at an entry or behind the table.
LEMMA FirstIs ==
  ASSUME NEW v
  PROVE  (CHOOSE i \in 0..TbLen :
            /\ i = TbLen \/ table[i] = v
            /\ \A j \in 0..i - 1 : ~(table[j] = v)) \in 0..TbLen
<1> DEFINE T == {i \in 0..TbLen : i = TbLen \/ table[i] = v}
<1>1. TbLen \in Nat /\ T \subseteq Nat /\ TbLen \in T
  BY SpiAssumption
<1>2. PICK x \in T : \A y \in T : x <= y
  BY <1>1, Least
<1>3. x \in 0..TbLen /\ (x = TbLen \/ table[x] = v)
  BY <1>2
<1>4. \A j \in 0..x - 1 : ~(table[j] = v)
  <2> SUFFICES ASSUME NEW j \in 0..x - 1, table[j] = v PROVE FALSE
    OBVIOUS
  <2>1. j \in 0..TbLen /\ j < x
    BY <1>1, <1>3
  <2>2. j \in T
    BY <2>1
  <2> QED
    BY <1>1, <1>2, <2>1, <2>2
<1>5. \E i \in 0..TbLen : /\ i = TbLen \/ table[i] = v
                          /\ \A j \in 0..i - 1 : ~(table[j] = v)
  BY <1>3, <1>4
<1> QED
  BY <1>5

LEMMA UfsAddIs ==
  ASSUME NEW ip, UfsAdd(ip)
  PROVE  \E i \in 0..TbLen : /\ table' = [table EXCEPT ![i] = ip]
                             /\ Begin("debug", Call("ufs", i, ip))
                             /\ UNCHANGED delaycom
<1> DEFINE i == CHOOSE i \in 0..TbLen : /\ i = TbLen \/ table[i] = 0
                                        /\ \A j \in 0..i - 1 : ~(table[j] = 0)
<1>1. i \in 0..TbLen
  BY FirstIs
<1>2. /\ table' = [table EXCEPT ![i] = ip]
      /\ Begin("debug", Call("ufs", i, ip))
      /\ UNCHANGED delaycom
  BY DEF UfsAdd, First
<1> HIDE DEF i
<1> QED
  BY <1>1, <1>2

LEMMA UfsDelIs ==
  ASSUME NEW ip, UfsDel(ip)
  PROVE  \E i \in 0..TbLen :
           /\ table' = IF i = TbLen THEN table ELSE [table EXCEPT ![i] = 0]
           /\ Begin("debug", Call("ufs", i, table'[i]))
           /\ UNCHANGED delaycom
<1> DEFINE i == CHOOSE i \in 0..TbLen : /\ i = TbLen \/ table[i] = ip
                                        /\ \A j \in 0..i - 1 : ~(table[j] = ip)
<1>1. i \in 0..TbLen
  BY FirstIs
<1>2. /\ table' = IF i = TbLen THEN table ELSE [table EXCEPT ![i] = 0]
      /\ Begin("debug", Call("ufs", i, table'[i]))
      /\ UNCHANGED delaycom
  BY DEF UfsDel, First
<1> HIDE DEF i
<1> QED
  BY <1>1, <1>2

\* A command on the slaves changes an entry and writes what is there then.
LEMMA UfsIs ==
  ASSUME StoreInv, NEW ip \in Slaves, UfsAdd(ip) \/ UfsDel(ip)
  PROVE  \E i \in 0..TbLen :
           /\ table' \in [0..TbLen -> Slaves \cup {0}]
           /\ \A j \in 0..TbLen : j # i => table'[j] = table[j]
           /\ Begin("debug", Call("ufs", i, table'[i]))
           /\ UNCHANGED delaycom
<1>1. table \in [0..TbLen -> Slaves \cup {0}]
  BY DEF StoreInv
<1>2. CASE UfsAdd(ip)
  <2>1. PICK i \in 0..TbLen : /\ table' = [table EXCEPT ![i] = ip]
                              /\ Begin("debug", Call("ufs", i, ip))
                              /\ UNCHANGED delaycom
    BY <1>2, UfsAddIs
  <2>2. /\ table' \in [0..TbLen -> Slaves \cup {0}] /\ table'[i] = ip
        /\ \A j \in 0..TbLen : j # i => table'[j] = table[j]
    BY <1>1, <2>1
  <2> QED
    BY <2>1, <2>2
<1>3. CASE UfsDel(ip)
  <2>1. PICK i \in 0..TbLen :
          /\ table' = IF i = TbLen THEN table ELSE [table EXCEPT ![i] = 0]
          /\ Begin("debug", Call("ufs", i, table'[i]))
          /\ UNCHANGED delaycom
    BY <1>3, UfsDelIs
  <2>2. /\ table' \in [0..TbLen -> Slaves \cup {0}]
        /\ \A j \in 0..TbLen : j # i => table'[j] = table[j]
    BY <1>1, <2>1
  <2> QED
    BY <2>1, <2>2
<1> QED
  BY <1>2, <1>3

\* The calls, one by one.
LEMMA CallsAre ==
  /\ \A t \in {"web", "debug"} : \A o \in Offsets :
       InRange(o) => /\ IsCall(t, Call("set", 0, o)) /\ Call("set", 0, o) # None
                     /\ 0 < Number(Call("set", 0, o)) /\ o \in Int
  /\ \A t \in {"web", "debug"} :
       /\ IsCall(t, Call("get", 0, 0)) /\ Call("get", 0, 0) # None
       /\ 0 < Number(Call("get", 0, 0)) /\ t \in Task
  /\ /\ IsCall("watchdog", Call("feed", 0, 0)) /\ Call("feed", 0, 0) # None
     /\ 0 < Number(Call("feed", 0, 0)) /\ "watchdog" \in Task
  /\ \A i \in 0..TbLen, v \in Slaves \cup {0} :
       /\ IsCall("debug", Call("ufs", i, v)) /\ Call("ufs", i, v) # None
       /\ 0 < Number(Call("ufs", i, v))
  /\ /\ IsCall("debug", Call("rtrv", 0, 0)) /\ Call("rtrv", 0, 0) # None
     /\ 0 < Number(Call("rtrv", 0, 0)) /\ "debug" \in Task
<1> USE DEF IsCall, Task
<1>1. \A op, slot, val : Call(op, slot, val).op = op /\ None.op = "none"
  BY Fields
<1>2. \A op, slot, val :
        /\ op \in {"set", "get"} => Number(Call(op, slot, val)) = 4
        /\ op = "feed" => Number(Call(op, slot, val)) = 2
        /\ op = "ufs" => Number(Call(op, slot, val)) = 1
        /\ op = "rtrv" => Number(Call(op, slot, val)) = TbLen
        /\ op # "none" => Call(op, slot, val) # None
  BY <1>1 DEF Number
<1>3. TbLen > 0 /\ Offsets \subseteq Int
  BY SpiAssumption
<1>4. \A t \in {"web", "debug"} : \A o \in Offsets :
        InRange(o) => /\ IsCall(t, Call("set", 0, o)) /\ Call("set", 0, o) # None
                      /\ 0 < Number(Call("set", 0, o)) /\ o \in Int
  BY <1>2, <1>3
<1>5. \A t \in {"web", "debug"} :
        /\ IsCall(t, Call("get", 0, 0)) /\ Call("get", 0, 0) # None
        /\ 0 < Number(Call("get", 0, 0)) /\ t \in Task
  BY <1>2
<1>6. /\ IsCall("watchdog", Call("feed", 0, 0)) /\ Call("feed", 0, 0) # None
      /\ 0 < Number(Call("feed", 0, 0)) /\ "watchdog" \in Task
  BY <1>2
<1>7. \A i \in 0..TbLen, v \in Slaves \cup {0} :
        /\ IsCall("debug", Call("ufs", i, v)) /\ Call("ufs", i, v) # None
        /\ 0 < Number(Call("ufs", i, v))
  BY <1>2
<1>8. /\ IsCall("debug", Call("rtrv", 0, 0)) /\ Call("rtrv", 0, 0) # None
      /\ 0 < Number(Call("rtrv", 0, 0)) /\ "debug" \in Task
  BY <1>2, <1>3
<1> QED
  BY <1>4, <1>5, <1>6, <1>7, <1>8

Refused == \E o \in Offsets : RefusedDelay(o)

Calls == \/ \E t \in {"web", "debug"} :
              GetDelay(t) \/ \E o \in Offsets : SetDelay(t, o)
         \/ Feed \/ UfsRtrv
         \/ \E ip \in Slaves : UfsAdd(ip) \/ UfsDel(ip)

\* Every call is the beginning of one, with its effect on the RAM.
LEMMA CallIs ==
  ASSUME StoreInv, Calls
  PROVE  \E t \in Task : \E c :
           /\ IsCall(t, c) /\ c # None /\ 0 < Number(c) /\ Begin(t, c)
           /\ delaycom' \in Int /\ table' \in [0..TbLen -> Slaves \cup {0}]
           /\ IF c.op = "set" THEN delaycom' = c.val ELSE delaycom' = delaycom
           /\ IF c.op = "ufs"
              THEN /\ c.slot \in 0..TbLen /\ table'[c.slot] = c.val
                   /\ \A j \in 0..TbLen : j # c.slot => table'[j] = table[j]
              ELSE table' = table
<1> DEFINE Goal(t, c) ==
             /\ IsCall(t, c) /\ c # None /\ 0 < Number(c) /\ Begin(t, c)
             /\ delaycom' \in Int /\ table' \in [0..TbLen -> Slaves \cup {0}]
             /\ IF c.op = "set" THEN delaycom' = c.val ELSE delaycom' = delaycom
             /\ IF c.op = "ufs"
                THEN /\ c.slot \in 0..TbLen /\ table'[c.slot] = c.val
                     /\ \A j \in 0..TbLen : j # c.slot => table'[j] = table[j]
                ELSE table' = table
<1>0. delaycom \in Int /\ table \in [0..TbLen -> Slaves \cup {0}]
  BY DEF StoreInv
<1>1. ASSUME NEW t \in {"web", "debug"}, GetDelay(t) PROVE \E u \in Task : \E c : Goal(u, c)
  <2>1. Goal(t, Call("get", 0, 0)) /\ t \in Task
    BY <1>0, <1>1, CallsAre, Fields DEF GetDelay, ram
  <2> QED
    BY <2>1
<1>2. ASSUME NEW t \in {"web", "debug"}, NEW o \in Offsets, SetDelay(t, o)
      PROVE  \E u \in Task : \E c : Goal(u, c)
  <2>1. Goal(t, Call("set", 0, o)) /\ t \in Task
    BY <1>0, <1>2, CallsAre, Fields DEF SetDelay
  <2> QED
    BY <2>1
<1>3. ASSUME Feed PROVE \E u \in Task : \E c : Goal(u, c)
  <2>1. Goal("watchdog", Call("feed", 0, 0)) /\ "watchdog" \in Task
    BY <1>0, <1>3, CallsAre, Fields DEF Feed, ram
  <2> QED
    BY <2>1
<1>4. ASSUME UfsRtrv PROVE \E u \in Task : \E c : Goal(u, c)
  <2>1. Goal("debug", Call("rtrv", 0, 0)) /\ "debug" \in Task
    BY <1>0, <1>4, CallsAre, Fields DEF UfsRtrv, ram
  <2> QED
    BY <2>1
<1>5. ASSUME NEW ip \in Slaves, UfsAdd(ip) \/ UfsDel(ip)
      PROVE  \E u \in Task : \E c : Goal(u, c)
  <2>1. PICK i \in 0..TbLen :
           /\ table' \in [0..TbLen -> Slaves \cup {0}]
           /\ \A j \in 0..TbLen : j # i => table'[j] = table[j]
           /\ Begin("debug", Call("ufs", i, table'[i]))
           /\ UNCHANGED delaycom
    BY <1>5, UfsIs
  <2>2. table'[i] \in Slaves \cup {0}
    BY <2>1
  <2> DEFINE c == Call("ufs", i, table'[i])
  <2>3. c.op = "ufs" /\ c.slot = i /\ c.val = table'[i]
    BY Fields
  <2>4. IsCall("debug", c) /\ c # None /\ 0 < Number(c)
    BY <2>2, CallsAre
  <2> HIDE DEF c
  <2>5. Begin("debug", c)
    BY <2>1 DEF c
  <2>6. Goal("debug", c) /\ "debug" \in Task
    BY <1>0, <2>1, <2>3, <2>4, <2>5 DEF Task
  <2> QED
    BY <2>6
<1> HIDE DEF Goal
<1>6. \E u \in Task : \E c : Goal(u, c)
  BY <1>1, <1>2, <1>3, <1>4, <1>5 DEF Calls
<1> QED
  BY <1>6 DEF Goal

LEMMA CallsInv == ASSUME IInv, Calls PROVE IInv'
<1>1. StoreInv
  BY DEF IInv
<1>2. PICK t, c :
         /\ t \in Task
         /\ IsCall(t, c) /\ c # None /\ 0 < Number(c) /\ Begin(t, c)
         /\ delaycom' \in Int /\ table' \in [0..TbLen -> Slaves \cup {0}]
  BY <1>1, CallIs
<1> QED
  BY <1>2, BeginInv

LEMMA RefusedInv == ASSUME IInv, Refused PROVE IInv'
<1>1. PICK o \in Offsets : RefusedDelay(o)
  BY DEF Refused
<1>2. /\ UNCHANGED <<cs, first, len, reg, call, nth, inside, sent, acc, table,
                     hurt, dirty>>
      /\ delaycom' = o /\ apart' = TRUE /\ o \in Int
  BY <1>1, SpiAssumption DEF RefusedDelay, wires, tasks
<1>3. mixed' = [u \in Task |-> mixed[u] \/ InDelay(u)]
  BY <1>1 DEF RefusedDelay
<1>4. mixed' \in [Task -> BOOLEAN]
      /\ \A u \in Task : mixed'[u] <=> mixed[u] \/ InDelay(u)
  BY <1>3, Zenon DEF IInv, TaskInv
<1>5. \A u \in Task : /\ F(u)' = F(u) /\ (Busy(u)' <=> Busy(u))
                      /\ Number(call'[u]) = Number(call[u])
  BY <1>2, SameFrame
<1>6. \A u \in Task : ~Busy(u) => ~InDelay(u)
  BY DEF Busy, InDelay
<1>7. \A u \in Task : Length(F(u)') = Length(F(u))'
  BY DEF Length, Header, Long
<1>8. TaskInv'
  BY <1>2, <1>4, <1>5, <1>6, <1>7 DEF IInv, TaskInv
<1>9. BusInv' /\ StoreInv'
  BY <1>2, <1>5 DEF IInv, BusInv, StoreInv, SumFrom
<1> QED
  BY <1>8, <1>9 DEF IInv

-----------------------------------------------------------------------------
\* The bytes.
LEMMA SelectIs ==
  ASSUME IInv, NEW t \in Task, Select(t)
  PROVE  /\ Runs(t) /\ Busy(t) /\ ~inside[t]
         /\ cs' = TRUE /\ len' = IF cs THEN len ELSE 0
         /\ inside'[t] /\ \A u \in Task : u # t => (inside'[u] <=> inside[u])
         /\ inside' \in [Task -> BOOLEAN] /\ hurt' \in [Task -> BOOLEAN]
         /\ hurt'[t] <=> \E v \in Task : inside[v]
         /\ \A u \in Task : u # t => (hurt'[u] <=> hurt[u] \/ inside[u])
         /\ UNCHANGED <<first, reg, call, nth, sent, acc, delaycom, table, mixed,
                        apart, dirty>>
<1>1. /\ Runs(t) /\ Busy(t) /\ ~inside[t]
      /\ cs' = TRUE /\ len' = IF cs THEN len ELSE 0
      /\ inside' = [inside EXCEPT ![t] = TRUE]
      /\ UNCHANGED <<first, reg, call, nth, sent, acc, delaycom, table, mixed,
                     apart, dirty>>
  BY DEF Select, CsLow, ram
<1>2. hurt' = [u \in Task |-> IF u = t THEN \E v \in Task : inside[v]
                              ELSE hurt[u] \/ inside[u]]
  BY DEF Select
<1>3. inside \in [Task -> BOOLEAN] /\ hurt \in [Task -> BOOLEAN]
  BY DEF IInv, TaskInv
<1>4. hurt'[t] <=> \E v \in Task : inside[v]
  BY <1>2, Zenon
<1>5. \A u \in Task : u # t => (hurt'[u] <=> hurt[u] \/ inside[u])
  BY <1>2, Zenon
<1>6. \A u \in Task : (IF u = t THEN \E v \in Task : inside[v]
                       ELSE hurt[u] \/ inside[u]) \in BOOLEAN
  BY <1>3
<1>7. hurt' \in [Task -> BOOLEAN]
  BY <1>2, <1>6, Zenon
<1> QED
  BY <1>1, <1>3, <1>4, <1>5, <1>7

LEMMA SelectInv == ASSUME IInv, NEW t \in Task, Select(t) PROVE IInv'
<1>1. TaskInv /\ BusInv /\ StoreInv
  BY DEF IInv
<1>2. /\ Runs(t) /\ Busy(t) /\ ~inside[t]
      /\ cs' = TRUE /\ len' = IF cs THEN len ELSE 0
      /\ inside'[t] /\ \A u \in Task : u # t => (inside'[u] <=> inside[u])
      /\ inside' \in [Task -> BOOLEAN] /\ hurt' \in [Task -> BOOLEAN]
      /\ hurt'[t] <=> \E v \in Task : inside[v]
      /\ \A u \in Task : u # t => (hurt'[u] <=> hurt[u] \/ inside[u])
      /\ UNCHANGED <<first, reg, call, nth, sent, acc, delaycom, table, mixed,
                     apart, dirty>>
  BY SelectIs
<1>3. \A u \in Task : /\ F(u)' = F(u) /\ (Busy(u)' <=> Busy(u))
                      /\ Number(call'[u]) = Number(call[u])
  BY <1>2, SameFrame
<1>4. /\ \A u \in Above(t) : u \in Task /\ ~inside[u] /\ sent[u] = 0
      /\ \A u \in Task : u # t /\ inside[u] => t \in Above(u)
  BY <1>1, <1>2, Alone
<1>5. \A u \in Task : Length(F(u)') = Length(F(u))'
  BY DEF Length, Header, Long
<1>6. sent[t] = 0 /\ \A u \in Task : Length(F(u)) \in Nat
  BY <1>1, <1>2, Lengths DEF TaskInv
<1>7. TaskInv'
  <2>1. \A u \in Task : IF inside'[u] THEN sent'[u] <= Length(F(u)')
                        ELSE sent'[u] = 0 /\ ~hurt'[u]
    BY <1>1, <1>2, <1>3, <1>6 DEF TaskInv
  <2>2. \A u \in Task : IF Busy(u)' THEN nth'[u] < Number(call'[u])
                        ELSE nth'[u] = 0 /\ ~inside'[u] /\ ~mixed'[u]
    BY <1>1, <1>2, <1>3 DEF TaskInv
  <2> QED
    BY <1>1, <1>2, <1>5, <2>1, <2>2 DEF TaskInv
<1>8. \A u \in Task : SumFrom(u)' = SumFrom(u)
  BY <1>2 DEF SumFrom
<1>9. BusInv'
  <2>1. ASSUME NEW v \in Task, NEW u \in Above(v), inside'[v], inside'[u]
        PROVE  hurt'[v]
    <3>1. u \in Task /\ u # v
      BY Order
    <3>2. CASE v = t
      BY <1>2, <1>4, <2>1, <3>1, <3>2
    <3>3. CASE v # t
      BY <1>2, <2>1, <3>3
    <3> QED
      BY <3>2, <3>3
  <2>2. ASSUME NEW v \in Task, inside'[v], ~hurt'[v]
        PROVE  cs' /\ len' = sent'[v] /\ (len' > 0 => first' = v)
    <3>1. v = t /\ \A u \in Task : ~inside[u]
      BY <1>2, <2>2
    <3>2. cs => ~(len > 0)
      BY <1>1, <3>1 DEF BusInv, TaskInv
    <3>3. len' = 0
      BY <1>1, <1>2, <3>2 DEF TaskInv
    <3> QED
      BY <1>2, <1>6, <3>1, <3>3
  <2>3. cs' /\ len' > 0 =>
          inside'[first'] /\ sent'[first'] > 0 /\ len' = SumFrom(first)'
    <3> SUFFICES ASSUME len' > 0
                 PROVE  inside'[first'] /\ sent'[first'] > 0 /\ len' = SumFrom(first)'
      OBVIOUS
    <3>1. cs /\ len > 0 /\ len' = len /\ first \in Task
      BY <1>1, <1>2 DEF TaskInv
    <3>2. inside[first] /\ sent[first] > 0 /\ len = SumFrom(first)
      BY <1>1, <3>1 DEF BusInv
    <3>3. SumFrom(first)' = SumFrom(first)
      BY <1>2 DEF SumFrom
    <3> QED
      BY <1>2, <3>1, <3>2, <3>3
  <2>4. \A v \in Task : cs' /\ len' = 0 /\ inside'[v] /\ sent'[v] > 0 =>
                          \E u \in Above(v) : inside'[u]
    <3> SUFFICES ASSUME NEW v \in Task, inside'[v], sent'[v] > 0
                 PROVE  \E u \in Above(v) : inside'[u]
      OBVIOUS
    <3>1. v # t
      BY <1>2, <1>6
    <3> QED
      BY <1>2, <1>4, <3>1
  <2> QED
    BY <2>1, <2>2, <2>3, <2>4 DEF BusInv
<1>10. StoreInv'
  BY <1>1, <1>2, <1>3 DEF StoreInv
<1> QED
  BY <1>7, <1>9, <1>10 DEF IInv

\* A byte, and what the last one of a query brings.
Brings(t) == sent[t] + 1 = Length(F(t)) /\ ~Writes(F(t))

LEMMA SendIs ==
  ASSUME IInv, NEW t \in Task, SendByte(t)
  PROVE  /\ Runs(t) /\ inside[t] /\ sent[t] < Length(F(t))
         /\ sent' \in [Task -> Nat] /\ sent'[t] = sent[t] + 1
         /\ \A u \in Task : u # t => sent'[u] = sent[u]
         /\ first' = IF cs /\ len = 0 THEN t ELSE first
         /\ len' = IF cs THEN len + 1 ELSE len
         /\ Brings(t) => \E v \in Answers(t) : Store(t, v)
         /\ ~Brings(t) => UNCHANGED <<acc, delaycom, table>>
         /\ UNCHANGED <<cs, reg, call, nth, inside, hurt, mixed, apart, dirty>>
<1>1. sent \in [Task -> Nat]
  BY DEF IInv, TaskInv
<1>2. sent' = [sent EXCEPT ![t] = sent[t] + 1]
  BY DEF SendByte
<1>3. sent'[t] = sent[t] + 1
  BY <1>1, <1>2
<1> QED
  BY <1>1, <1>2, <1>3 DEF SendByte, hist, ram, Brings

\* What it brings goes into the query's place for this frame.
LEMMA StoreIs ==
  ASSUME IInv, NEW t \in Task, inside[t], ~Writes(F(t)), NEW v, v \in Answers(t),
         Store(t, v)
  PROVE  LET n == nth[t] IN
         /\ v \in Values(F(t).addr) /\ delaycom' = delaycom
         /\ \/ /\ call[t].op = "get" /\ table' = table
               /\ n \in 0..3 /\ F(t).addr = Delay(n)
               /\ v \in Nat /\ acc' = [acc EXCEPT ![t][n] = v]
            \/ /\ call[t].op = "rtrv" /\ acc' = acc
               /\ n \in 0..TbLen - 1 /\ F(t).addr = Slot(n) /\ t = "debug"
               /\ v \in Slaves \cup {0} /\ table' = [table EXCEPT ![n] = v]
<1>1. TaskInv /\ StoreInv
  BY DEF IInv
<1>2. /\ IsCall(t, call[t]) /\ nth[t] \in Nat /\ nth[t] < Number(call[t])
      /\ F(t).addr \in Addr
  BY <1>1, Inside
<1>3. v \in Values(F(t).addr)
  BY <1>1, <1>2 DEF Answers, StoreInv
<1>4. call[t].op \in Ops /\ call[t].op # "none"
  BY <1>2, OpOf, FrameIs
<1>5. /\ call[t].op \in {"get", "rtrv"}
      /\ call[t].op = "get" => nth[t] \in 0..3 /\ F(t).addr = Delay(nth[t])
      /\ call[t].op = "rtrv" =>
           nth[t] \in 0..TbLen - 1 /\ F(t).addr = Slot(nth[t])
  BY <1>2, <1>4, FrameIs DEF F, Ops
<1>6. CASE call[t].op = "get"
  <2>1. acc' = [acc EXCEPT ![t][nth[t]] = v] /\ delaycom' = delaycom /\ table' = table
    BY <1>6 DEF Store, ram
  <2>2. v \in Nat
    BY <1>3, <1>5, <1>6, Ranges
  <2> QED
    BY <1>3, <1>5, <1>6, <2>1, <2>2
<1>7. CASE call[t].op = "rtrv"
  <2>1. table' = [table EXCEPT ![nth[t]] = v] /\ delaycom' = delaycom /\ acc' = acc
    BY <1>7 DEF Store
  <2>2. v \in Slaves \cup {0} /\ t = "debug"
    BY <1>2, <1>3, <1>5, <1>7, Ranges, OpOf
  <2> QED
    BY <1>3, <1>5, <1>7, <2>1, <2>2
<1> QED
  BY <1>5, <1>6, <1>7

LEMMA SendInv == ASSUME IInv, NEW t \in Task, SendByte(t) PROVE IInv'
<1>1. TaskInv /\ BusInv /\ StoreInv
  BY DEF IInv
<1>2. /\ Runs(t) /\ inside[t] /\ sent[t] < Length(F(t))
      /\ sent' \in [Task -> Nat] /\ sent'[t] = sent[t] + 1
      /\ \A u \in Task : u # t => sent'[u] = sent[u]
      /\ first' = IF cs /\ len = 0 THEN t ELSE first
      /\ len' = IF cs THEN len + 1 ELSE len
      /\ Brings(t) => \E v \in Answers(t) : Store(t, v)
      /\ ~Brings(t) => UNCHANGED <<acc, delaycom, table>>
      /\ UNCHANGED <<cs, reg, call, nth, inside, hurt, mixed, apart, dirty>>
  BY SendIs
<1>3. \A u \in Task : /\ F(u)' = F(u) /\ (Busy(u)' <=> Busy(u))
                      /\ Number(call'[u]) = Number(call[u])
  BY <1>2, SameFrame
<1>4. /\ \A u \in Above(t) : u \in Task /\ ~inside[u] /\ sent[u] = 0
      /\ \A u \in Task : u # t /\ inside[u] => t \in Above(u)
      /\ \A u \in Task : u # t /\ inside[u] => hurt[u]
  BY <1>1, <1>2, Alone
<1>5. \A u \in Task : Length(F(u)') = Length(F(u))' /\ Length(F(u)) \in Nat
  BY Lengths DEF Length, Header, Long
<1>6. sent[t] \in Nat /\ len \in Nat /\ first \in Task /\ cs \in BOOLEAN
      /\ sent \in [Task -> Nat] /\ (~cs => len = 0)
  BY <1>1 DEF TaskInv
<1>7. TaskInv'
  <2>1. \A u \in Task : IF inside'[u] THEN sent'[u] <= Length(F(u)')
                        ELSE sent'[u] = 0 /\ ~hurt'[u]
    <3>1. sent[t] + 1 <= Length(F(t))
      BY <1>2, <1>5, <1>6
    <3> QED
      BY <1>1, <1>2, <1>3, <3>1 DEF TaskInv
  <2>2. \A u \in Task : IF Busy(u)' THEN nth'[u] < Number(call'[u])
                        ELSE nth'[u] = 0 /\ ~inside'[u] /\ ~mixed'[u]
    BY <1>1, <1>2, <1>3 DEF TaskInv
  <2>3. len' \in Nat /\ first' \in Task /\ (~cs' => len' = 0)
    BY <1>2, <1>6
  <2> QED
    BY <1>1, <1>2, <1>5, <2>1, <2>2, <2>3 DEF TaskInv
<1>8. BusInv'
  <2>1. \A v \in Task : \A u \in Above(v) : inside'[v] /\ inside'[u] => hurt'[v]
    BY <1>1, <1>2 DEF BusInv
  <2>2. ASSUME NEW v \in Task, inside'[v], ~hurt'[v]
        PROVE  cs' /\ len' = sent'[v] /\ (len' > 0 => first' = v)
    <3>1. v = t
      BY <1>2, <1>4, <2>2
    <3>2. cs /\ len = sent[t] /\ (len > 0 => first = t)
      BY <1>1, <1>2, <2>2, <3>1 DEF BusInv
    <3> QED
      BY <1>2, <1>6, <3>1, <3>2
  <2>3. ASSUME cs
        PROVE  inside'[first'] /\ sent'[first'] > 0 /\ len' = SumFrom(first)'
    <3>1. CASE len = 0
      <4>1. first' = t /\ len' = 1
        BY <1>2, <2>3, <3>1
      <4>2. sent[t] = 0
        <5> SUFFICES ASSUME sent[t] > 0 PROVE FALSE
          BY <1>6
        <5> QED
          BY <1>1, <1>2, <1>4, <2>3, <3>1 DEF BusInv
      <4>3. \A u \in Above(t) : sent'[u] = 0
        BY <1>2, <1>4, Order
      <4>4. SumFrom(t)' = 1
        BY <1>2, <4>2, <4>3 DEF SumFrom, Above, Task
      <4>5. SumFrom(first)' = SumFrom(t)'
        BY <4>1 DEF SumFrom
      <4> QED
        BY <1>2, <4>1, <4>2, <4>4, <4>5
    <3>2. CASE len > 0
      <4>1. inside[first] /\ sent[first] > 0 /\ len = SumFrom(first)
        BY <1>1, <2>3, <3>2 DEF BusInv
      <4>2. first' = first /\ len' = len + 1 /\ (first = t \/ t \in Above(first))
        BY <1>2, <1>4, <1>6, <2>3, <3>2, <4>1
      <4>3. SumFrom(first)' = SumFrom(first) + 1
        <5>1. \A u \in Task : sent[u] \in Nat
          BY <1>6
        <5>2. CASE first = "web"
          <6>1. t = "web"
            BY <4>2, <5>2 DEF Above
          <6> QED
            BY <1>2, <4>2, <5>1, <5>2, <6>1 DEF SumFrom, Task
        <5>3. CASE first = "watchdog"
          <6>1. t \in {"web", "watchdog"}
            BY <4>2, <5>3 DEF Above
          <6> QED
            BY <1>2, <4>2, <5>1, <5>3, <6>1 DEF SumFrom, Task
        <5>4. CASE first = "debug"
          BY <1>2, <4>2, <5>1, <5>4 DEF SumFrom, Task
        <5> QED
          BY <1>6, <5>2, <5>3, <5>4 DEF Task
      <4>4. sent'[first] > 0
        BY <1>2, <1>6, <4>1
      <4> QED
        BY <1>2, <4>1, <4>2, <4>3, <4>4
    <3> QED
      BY <1>6, <3>1, <3>2
  <2>4. cs' => len' # 0
    BY <1>2, <1>6
  <2> QED
    BY <1>2, <2>1, <2>2, <2>3, <2>4 DEF BusInv
<1>9. StoreInv'
  <2>1. CASE ~Brings(t)
    BY <1>1, <1>2, <1>3, <2>1 DEF StoreInv
  <2>2. CASE Brings(t)
    <3>1. ~Writes(F(t)) /\ \E v \in Answers(t) : Store(t, v)
      BY <1>2, <2>2 DEF Brings
    <3>2. PICK v \in Answers(t) : Store(t, v)
      BY <3>1
    <3> DEFINE n == nth[t]
    <3>3. /\ v \in Values(F(t).addr) /\ delaycom' = delaycom
          /\ \/ /\ call[t].op = "get" /\ table' = table
                /\ n \in 0..3 /\ F(t).addr = Delay(n)
                /\ v \in Nat /\ acc' = [acc EXCEPT ![t][n] = v]
             \/ /\ call[t].op = "rtrv" /\ acc' = acc
                /\ n \in 0..TbLen - 1 /\ F(t).addr = Slot(n) /\ t = "debug"
                /\ v \in Slaves \cup {0} /\ table' = [table EXCEPT ![n] = v]
      BY <1>2, <3>1, <3>2, StoreIs
    <3> HIDE DEF n
    <3>4. CASE /\ call[t].op = "get" /\ table' = table
               /\ n \in 0..3 /\ F(t).addr = Delay(n)
               /\ v \in Nat /\ acc' = [acc EXCEPT ![t][n] = v]
      <4>1. acc \in [Task -> [0..3 -> Nat]]
        BY <1>1 DEF StoreInv
      <4>2. acc' \in [Task -> [0..3 -> Nat]]
        BY <3>4, <4>1
      <4>3. \A u \in Task : u # t => acc'[u] = acc[u]
        BY <3>4, <4>1
      <4>4. \A m \in 0..3 : acc'[t][m] = IF m = n THEN v ELSE acc[t][m]
        BY <3>4, <4>1
      <4>5. \A u \in Task : \A m \in 0..3 : acc'[u][m] \in Values(Delay(m))
        BY <1>1, <3>3, <3>4, <4>3, <4>4 DEF StoreInv
      <4>6. \A u \in Task : ~Busy(u)' => acc'[u] = NoAcc
        BY <1>1, <1>2, <1>3, <4>3, Inside DEF StoreInv
      <4> QED
        BY <1>1, <1>2, <3>3, <3>4, <4>2, <4>5, <4>6 DEF StoreInv
    <3>5. CASE /\ call[t].op = "rtrv" /\ acc' = acc
               /\ n \in 0..TbLen - 1 /\ F(t).addr = Slot(n) /\ t = "debug"
               /\ v \in Slaves \cup {0} /\ table' = [table EXCEPT ![n] = v]
      <4>1. table' \in [0..TbLen -> Slaves \cup {0}]
        BY <1>1, <3>5 DEF StoreInv
      <4> QED
        BY <1>1, <1>2, <1>3, <3>3, <3>5, <4>1 DEF StoreInv
    <3> QED
      BY <3>3, <3>4, <3>5
  <2> QED
    BY <2>1, <2>2
<1> QED
  BY <1>7, <1>8, <1>9 DEF IInv

-----------------------------------------------------------------------------
\* The frame of a task other than the shell is short.
LEMMA ShortOnes ==
  ASSUME TaskInv, NEW t \in Task, t # "debug"
  PROVE  sent[t] <= AddrLen + 2
<1>1. CASE inside[t]
  BY <1>1, Inside DEF TaskInv
<1>2. CASE ~inside[t]
  BY <1>2, SpiAssumption DEF TaskInv
<1> QED
  BY <1>1, <1>2

\* What is executed at the end of a frame: it, or, if it has cut into the frame
\* of an entry, perhaps that one with its data mixed; a frame that is not hurt is
\* executed.
Mixture(t, a) == /\ t # "debug" /\ inside["debug"] /\ hurt["debug"]
                 /\ Writes(F("debug")) /\ Long(F("debug"))
                 /\ a = F("debug").addr

LEMMA Executed ==
  ASSUME IInv, NEW t \in Task, Runs(t), inside[t], sent[t] = Length(F(t)), Execute
  PROVE  /\ DOMAIN reg' = Addr /\ \A a \in Addr : reg'[a] \in Values(a)
         /\ ~hurt[t] => reg' = IF Writes(F(t))
                               THEN [reg EXCEPT ![F(t).addr] = F(t).data] ELSE reg
         /\ \A a \in Addr : reg'[a] # reg[a] =>
              \/ a = F(t).addr /\ Writes(F(t)) /\ reg'[a] = F(t).data
              \/ Mixture(t, a)
<1> DEFINE f == F(first)
           kept == sent[first]
           to == IF kept >= Header(f) THEN {f.addr} ELSE Addr
           Whole == cs /\ len > 0 /\ Writes(f) /\ len = Length(f)
<1>1. TaskInv /\ BusInv /\ StoreInv
  BY DEF IInv
<1>2. /\ F(t).addr \in Addr /\ (Writes(F(t)) => F(t).data \in Values(F(t).addr))
      /\ Length(F(t)) \in Nat /\ Length(F(t)) >= AddrLen + 2
      /\ Length(F(t)) > 0 /\ Length(F(t)) >= Header(F(t))
  BY <1>1, Inside, Lengths, SpiAssumption
<1>3. ~hurt[t] => cs /\ len = sent[t] /\ first = t
  BY <1>1, <1>2 DEF BusInv
<1>4. IF Whole THEN \E a \in to : \E v \in IF kept = len THEN {f.data} ELSE Values(a) :
                      reg' = [reg EXCEPT ![a] = v]
      ELSE reg' = reg
  BY DEF Execute
<1>5. DOMAIN reg = Addr /\ \A a \in Addr : reg[a] \in Values(a)
  BY <1>1 DEF StoreInv
<1>6. CASE ~Whole
  <2>1. reg' = reg
    BY <1>4, <1>6
  <2>2. ~hurt[t] => ~Writes(F(t))
    BY <1>2, <1>3, <1>6
  <2> QED
    BY <1>5, <2>1, <2>2
<1>7. CASE Whole /\ first = t
  <2>1. len = sent[t]
    BY <1>1, <1>7, SumOf
  <2>2. kept = len /\ kept >= Header(f)
    BY <1>2, <1>7, <2>1
  <2>3. reg' = [reg EXCEPT ![F(t).addr] = F(t).data] /\ Writes(F(t))
    BY <1>4, <1>7, <2>2
  <2>4. \A a \in Addr : reg'[a] # reg[a] => a = F(t).addr /\ reg'[a] = F(t).data
    BY <1>5, <2>3
  <2>5. DOMAIN reg' = Addr /\ \A a \in Addr : reg'[a] \in Values(a)
    BY <1>2, <1>5, <2>3
  <2> QED
    BY <2>3, <2>4, <2>5
<1>8. CASE Whole /\ first # t
  <2>1. /\ first \in Task /\ t \in Above(first) /\ sent[first] > 0 /\ inside[first]
        /\ len >= sent[first] + sent[t]
        /\ first = "debug" => len = sent["debug"] + sent["watchdog"] + sent["web"]
    BY <1>1, <1>8, SumOf DEF BusInv, TaskInv
  <2>2. \A u \in Task : sent[u] \in Nat
    BY <1>1 DEF TaskInv
  <2>3. /\ Writes(f) => f.data \in Values(f.addr)
        /\ f.addr \in Addr /\ (Long(f) => first = "debug")
        /\ ~Long(f) => Length(f) = AddrLen + 2
    BY <1>1, <2>1, Inside
  <2>4. Long(f) /\ first = "debug"
    <3> SUFFICES ASSUME ~Long(f) PROVE FALSE
      BY <2>3
    <3>1. len = AddrLen + 2 /\ len >= sent[first] + sent[t]
      BY <1>8, <2>1, <2>3
    <3> HIDE DEF f
    <3> QED
      BY <1>2, <2>1, <2>2, <3>1, SpiAssumption
  <2>5. /\ len = AddrLen + 2 + DataLen /\ Header(f) = AddrLen + 2
        /\ sent["web"] <= AddrLen + 2 /\ sent["watchdog"] <= AddrLen + 2
        /\ sent["web"] \in Nat /\ sent["watchdog"] \in Nat
    BY <1>1, <1>8, <2>2, <2>4, Lengths, ShortOnes DEF Task
  <2>6. kept >= Header(f)
    BY <2>1, <2>2, <2>4, <2>5, SpiAssumption
  <2>7. PICK v : /\ reg' = [reg EXCEPT ![f.addr] = v]
                 /\ v \in IF kept = len THEN {f.data} ELSE Values(f.addr)
    BY <1>4, <1>8, <2>6
  <2>8. v \in Values(f.addr)
    BY <1>8, <2>3, <2>7
  <2>9. inside["debug"] /\ hurt["debug"] /\ t # "debug"
    BY <1>1, <1>8, <2>1, <2>4 DEF BusInv
  <2>10. hurt[t]
    BY <1>3, <1>8
  <2>11. \A a \in Addr : reg'[a] # reg[a] => Mixture(t, a)
    BY <1>5, <1>8, <2>3, <2>4, <2>7, <2>9 DEF Mixture
  <2>12. DOMAIN reg' = Addr /\ \A a \in Addr : reg'[a] \in Values(a)
    <3> HIDE DEF f
    <3> QED
      BY <1>5, <2>3, <2>7, <2>8
  <2> QED
    BY <2>10, <2>11, <2>12
<1> QED
  BY <1>6, <1>7, <1>8

Last(t) == nth[t] + 1 = Number(call[t])

LEMMA DeselectIs ==
  ASSUME IInv, NEW t \in Task, Deselect(t)
  PROVE  /\ Runs(t) /\ inside[t] /\ sent[t] = Length(F(t)) /\ Execute
         /\ cs' = FALSE /\ len' = 0
         /\ ~inside'[t] /\ sent'[t] = 0 /\ ~hurt'[t]
         /\ mixed'[t] <=> ~Last(t) /\ (mixed[t] \/ hurt[t])
         /\ nth'[t] = IF Last(t) THEN 0 ELSE nth[t] + 1
         /\ call'[t] = IF Last(t) THEN None ELSE call[t]
         /\ acc'[t] = IF Last(t) THEN NoAcc ELSE acc[t]
         /\ \A u \in Task : u # t =>
              /\ call'[u] = call[u] /\ nth'[u] = nth[u] /\ sent'[u] = sent[u]
              /\ acc'[u] = acc[u] /\ (inside'[u] <=> inside[u])
              /\ (hurt'[u] <=> hurt[u]) /\ (mixed'[u] <=> mixed[u])
         /\ nth' \in [Task -> Nat] /\ sent' \in [Task -> Nat]
         /\ inside' \in [Task -> BOOLEAN] /\ hurt' \in [Task -> BOOLEAN]
         /\ mixed' \in [Task -> BOOLEAN] /\ DOMAIN call' = Task
         /\ acc' \in [Task -> [0..3 -> Nat]]
         /\ delaycom' = IF Last(t) /\ call[t].op = "get" THEN DelayOf(acc[t])
                        ELSE delaycom
         /\ apart' = IF Last(t) /\ InDelay(t) THEN mixed[t] \/ hurt[t] ELSE apart
         /\ dirty' = IF ~Long(F(t)) THEN dirty
                     ELSE IF hurt[t] THEN dirty \cup {F(t).addr[2]}
                     ELSE dirty \ {F(t).addr[2]}
         /\ UNCHANGED <<first, table>>
<1>1. /\ nth \in [Task -> Nat] /\ sent \in [Task -> Nat] /\ DOMAIN call = Task
      /\ inside \in [Task -> BOOLEAN] /\ hurt \in [Task -> BOOLEAN]
      /\ mixed \in [Task -> BOOLEAN] /\ acc \in [Task -> [0..3 -> Nat]]
  BY DEF IInv, TaskInv, StoreInv
<1>2. /\ Runs(t) /\ inside[t] /\ sent[t] = Length(F(t)) /\ Execute
      /\ cs' = FALSE /\ len' = IF cs' THEN len ELSE 0
      /\ inside' = [inside EXCEPT ![t] = FALSE] /\ sent' = [sent EXCEPT ![t] = 0]
      /\ nth' = [nth EXCEPT ![t] = IF Last(t) THEN 0 ELSE nth[t] + 1]
      /\ call' = [call EXCEPT ![t] = IF Last(t) THEN None ELSE call[t]]
      /\ acc' = [acc EXCEPT ![t] = IF Last(t) THEN NoAcc ELSE acc[t]]
      /\ hurt' = [hurt EXCEPT ![t] = FALSE]
      /\ mixed' = [mixed EXCEPT ![t] = ~Last(t) /\ (mixed[t] \/ hurt[t])]
      /\ delaycom' = IF Last(t) /\ call[t].op = "get" THEN DelayOf(acc[t])
                     ELSE delaycom
      /\ apart' = IF Last(t) /\ InDelay(t) THEN mixed[t] \/ hurt[t] ELSE apart
      /\ dirty' = IF ~Long(F(t)) THEN dirty
                  ELSE IF hurt[t] THEN dirty \cup {F(t).addr[2]}
                  ELSE dirty \ {F(t).addr[2]}
      /\ UNCHANGED <<first, table>>
  BY DEF Deselect, Last, CsHigh
<1>3. nth[t] + 1 \in Nat /\ NoAcc \in [0..3 -> Nat] /\ acc[t] \in [0..3 -> Nat]
  BY <1>1 DEF NoAcc
<1>4. nth' \in [Task -> Nat] /\ sent' \in [Task -> Nat]
  BY <1>1, <1>2, <1>3
<1>5. acc' \in [Task -> [0..3 -> Nat]]
  BY <1>1, <1>2, <1>3
<1>6. /\ inside' \in [Task -> BOOLEAN] /\ hurt' \in [Task -> BOOLEAN]
      /\ mixed' \in [Task -> BOOLEAN]
  <2>1. (~Last(t) /\ (mixed[t] \/ hurt[t])) \in BOOLEAN
    OBVIOUS
  <2> HIDE DEF Last
  <2> QED
    BY <1>1, <1>2, <2>1, Zenon
<1>7. ~inside'[t] /\ ~hurt'[t] /\ (mixed'[t] <=> ~Last(t) /\ (mixed[t] \/ hurt[t]))
  BY <1>1, <1>2, Zenon
<1>8. \A u \in Task : u # t => /\ (inside'[u] <=> inside[u])
                               /\ (hurt'[u] <=> hurt[u]) /\ (mixed'[u] <=> mixed[u])
  BY <1>1, <1>2, Zenon
<1> QED
  BY <1>1, <1>2, <1>4, <1>5, <1>6, <1>7, <1>8

LEMMA DeselectInv == ASSUME IInv, NEW t \in Task, Deselect(t) PROVE IInv'
<1>1. TaskInv /\ BusInv /\ StoreInv
  BY DEF IInv
<1>2. /\ Runs(t) /\ inside[t] /\ sent[t] = Length(F(t)) /\ Execute
      /\ cs' = FALSE /\ len' = 0
      /\ ~inside'[t] /\ sent'[t] = 0 /\ ~hurt'[t]
      /\ mixed'[t] <=> ~Last(t) /\ (mixed[t] \/ hurt[t])
      /\ nth'[t] = IF Last(t) THEN 0 ELSE nth[t] + 1
      /\ call'[t] = IF Last(t) THEN None ELSE call[t]
      /\ acc'[t] = IF Last(t) THEN NoAcc ELSE acc[t]
      /\ \A u \in Task : u # t =>
           /\ call'[u] = call[u] /\ nth'[u] = nth[u] /\ sent'[u] = sent[u]
           /\ acc'[u] = acc[u] /\ (inside'[u] <=> inside[u])
           /\ (hurt'[u] <=> hurt[u]) /\ (mixed'[u] <=> mixed[u])
      /\ nth' \in [Task -> Nat] /\ sent' \in [Task -> Nat]
      /\ inside' \in [Task -> BOOLEAN] /\ hurt' \in [Task -> BOOLEAN]
      /\ mixed' \in [Task -> BOOLEAN] /\ DOMAIN call' = Task
      /\ acc' \in [Task -> [0..3 -> Nat]]
      /\ delaycom' = IF Last(t) /\ call[t].op = "get" THEN DelayOf(acc[t])
                     ELSE delaycom
      /\ apart' = IF Last(t) /\ InDelay(t) THEN mixed[t] \/ hurt[t] ELSE apart
      /\ dirty' = IF ~Long(F(t)) THEN dirty
                  ELSE IF hurt[t] THEN dirty \cup {F(t).addr[2]}
                  ELSE dirty \ {F(t).addr[2]}
      /\ UNCHANGED <<first, table>>
  BY DeselectIs
<1>3. /\ Busy(t) /\ IsCall(t, call[t]) /\ nth[t] \in Nat /\ nth[t] < Number(call[t])
      /\ Number(call[t]) \in Nat
  BY <1>1, <1>2, Inside
<1>4. \A u \in Task : u # t => /\ F(u)' = F(u) /\ (Busy(u)' <=> Busy(u))
                               /\ Number(call'[u]) = Number(call[u])
  BY <1>2, SameFrame
<1>5. Busy(t)' <=> ~Last(t)
  BY <1>2, <1>3, Fields DEF Busy
<1>6. \A u \in Task : Length(F(u)') = Length(F(u))'
  BY DEF Length, Header, Long
<1>7. TaskInv'
  <2>1. \A u \in Task : IF inside'[u] THEN sent'[u] <= Length(F(u)')
                        ELSE sent'[u] = 0 /\ ~hurt'[u]
    BY <1>1, <1>2, <1>4 DEF TaskInv
  <2>2. \A u \in Task : IF Busy(u)' THEN nth'[u] < Number(call'[u])
                        ELSE nth'[u] = 0 /\ ~inside'[u] /\ ~mixed'[u]
    <3>1. IF Busy(t)' THEN nth'[t] < Number(call'[t])
          ELSE nth'[t] = 0 /\ ~inside'[t] /\ ~mixed'[t]
      <4>1. CASE Last(t)
        BY <1>2, <1>5, <4>1
      <4>2. CASE ~Last(t)
        <5>1. nth[t] + 1 < Number(call[t])
          BY <1>3, <4>2 DEF Last
        <5> QED
          BY <1>2, <1>5, <4>2, <5>1
      <4> QED
        BY <4>1, <4>2
    <3> QED
      BY <1>1, <1>2, <1>4, <3>1 DEF TaskInv
  <2>3. \A u \in Task : IsCall(u, call'[u])
    <3>1. IsCall(t, None)
      BY DEF IsCall
    <3> QED
      BY <1>1, <1>2, <3>1 DEF TaskInv
  <2> QED
    BY <1>1, <1>2, <1>6, <2>1, <2>2, <2>3 DEF TaskInv
<1>8. BusInv'
  <2>1. \A v \in Task : \A u \in Above(v) : inside'[v] /\ inside'[u] => hurt'[v]
    <3>1. \A v \in Task : Above(v) \subseteq Task
      BY Order
    <3> QED
      BY <1>1, <1>2, <3>1 DEF BusInv
  <2>2. \A v \in Task : inside'[v] => hurt'[v]
    <3>1. \A u \in Task : u # t /\ inside[u] => hurt[u]
      BY <1>1, <1>2, Alone
    <3> QED
      BY <1>2, <3>1
  <2> QED
    BY <1>2, <2>1, <2>2 DEF BusInv
<1>9. StoreInv'
  <2>1. DOMAIN reg' = Addr /\ \A a \in Addr : reg'[a] \in Values(a)
    BY <1>2, Executed
  <2>2. NoAcc \in [0..3 -> Nat] /\ \A n \in 0..3 : NoAcc[n] \in Values(Delay(n))
    BY Ranges DEF NoAcc
  <2>3. \A u \in Task : \A n \in 0..3 : acc'[u][n] \in Values(Delay(n))
    <3>1. \A u \in Task : \A n \in 0..3 : acc[u][n] \in Values(Delay(n))
      BY <1>1 DEF StoreInv
    <3>2. ASSUME NEW u \in Task, u # t, NEW n \in 0..3
          PROVE  acc'[u][n] \in Values(Delay(n))
      <4>1. acc'[u] = acc[u]
        BY <1>2, <3>2
      <4> QED
        BY <3>1, <4>1
    <3>3. ASSUME NEW n \in 0..3 PROVE acc'[t][n] \in Values(Delay(n))
      <4>1. acc'[t] = NoAcc \/ acc'[t] = acc[t]
        BY <1>2
      <4> QED
        BY <2>2, <3>1, <4>1
    <3> QED
      BY <3>2, <3>3
  <2>4. \A u \in Task : ~Busy(u)' => acc'[u] = NoAcc
    BY <1>1, <1>2, <1>4, <1>5 DEF StoreInv
  <2>5. delaycom' \in Int
    <3>1. \A n \in 0..3 : acc[t][n] \in Nat
      BY <1>1 DEF StoreInv
    <3>2. DelayOf(acc[t]) \in Int
      BY <3>1, RoundedOnce
    <3> QED
      BY <1>1, <1>2, <3>2 DEF StoreInv
  <2>6. dirty' \subseteq 0..TbLen
    <3>1. Long(F(t)) => F(t).addr[2] \in 0..TbLen
      <4> SUFFICES ASSUME Long(F(t)) PROVE F(t).addr[2] \in 0..TbLen
        OBVIOUS
      <4>1. call[t].op \in {"ufs", "rtrv"}
        BY <1>3, FrameIs DEF F
      <4>2. CASE call[t].op = "ufs"
        BY <1>3, <4>2, FrameIs, OpOf, Addrs DEF F
      <4>3. CASE call[t].op = "rtrv"
        <5>1. nth[t] \in 0..TbLen - 1 /\ F(t).addr = Slot(nth[t])
          BY <1>3, <4>3, FrameIs DEF F
        <5> QED
          BY <5>1, Addrs, SpiAssumption
      <4> QED
        BY <4>1, <4>2, <4>3
    <3> QED
      BY <1>1, <1>2, <3>1 DEF StoreInv
  <2>7. apart' \in BOOLEAN
    <3>1. (mixed[t] \/ hurt[t]) \in BOOLEAN
      OBVIOUS
    <3> QED
      BY <1>1, <1>2, <3>1 DEF StoreInv
  <2> QED
    BY <1>1, <1>2, <2>1, <2>3, <2>4, <2>5, <2>6, <2>7 DEF StoreInv
<1> QED
  BY <1>7, <1>8, <1>9 DEF IInv

LEMMA StutterInv == IInv /\ UNCHANGED vars => IInv'
<1> SUFFICES ASSUME IInv, UNCHANGED vars PROVE IInv'
  OBVIOUS
<1>1. UNCHANGED <<cs, first, len, reg, call, nth, inside, sent, acc, delaycom, table,
                  hurt, mixed, apart, dirty>>
  BY DEF vars, wires, tasks, ram, hist
<1>2. \A u \in Task : F(u)' = F(u) /\ (Busy(u)' <=> Busy(u))
  BY <1>1, SameFrame
<1>3. \A u \in Task : Length(F(u)') = Length(F(u))'
  BY DEF Length, Header, Long
<1>4. TaskInv'
  BY <1>1, <1>2, <1>3 DEF IInv, TaskInv
<1>5. BusInv' /\ StoreInv'
  BY <1>1, <1>2 DEF IInv, BusInv, StoreInv, SumFrom
<1> QED
  BY <1>4, <1>5 DEF IInv

LEMMA Steps ==
  Next <=> \/ Calls \/ Refused
           \/ \E t \in Task : Select(t) \/ SendByte(t) \/ Deselect(t)
BY DEF Next, Calls, Refused

LEMMA NextInv == IInv /\ [Next]_vars => IInv'
<1> SUFFICES ASSUME IInv, [Next]_vars PROVE IInv'
  OBVIOUS
<1>1. ASSUME NEW t \in Task, Select(t) \/ SendByte(t) \/ Deselect(t) PROVE IInv'
  BY <1>1, SelectInv, SendInv, DeselectInv
<1> QED
  BY <1>1, Steps, CallsInv, RefusedInv, StutterInv

THEOREM Invariance == Spec => []IInv
<1>1. Init => IInv
  BY InitInv
<1>2. IInv /\ [Next]_vars => IInv'
  BY NextInv
<1> QED
  BY <1>1, <1>2, PTL DEF Spec

\* What travels on the bus are frames of calls, their registers in range, and
\* nothing is received of a frame that is over.
THEOREM TypeCorrect == Spec => []TypeOK
<1>1. IInv => TypeOK
  <2> SUFFICES ASSUME IInv PROVE TypeOK
    OBVIOUS
  <2>1. TaskInv /\ BusInv /\ StoreInv
    BY DEF IInv
  <2>2. sent["web"] \in Nat /\ sent["watchdog"] \in Nat /\ sent["debug"] \in Nat
    BY <2>1 DEF TaskInv, Task
  <2>3. len <= sent["web"] + sent["watchdog"] + sent["debug"]
    <3>1. CASE cs /\ len > 0
      BY <2>1, <2>2, <3>1 DEF BusInv, SumFrom, TaskInv, Task
    <3>2. CASE ~(cs /\ len > 0)
      BY <2>1, <2>2, <3>2 DEF TaskInv
    <3> QED
      BY <3>1, <3>2
  <2>4. ASSUME NEW t \in Task
        PROVE  /\ call[t].op \in {"none", "set", "get", "feed", "ufs", "rtrv"}
               /\ IF Busy(t) THEN nth[t] \in 0..Number(call[t]) - 1
                  ELSE nth[t] = 0 /\ ~inside[t] /\ ~mixed[t] /\ acc[t] = NoAcc
               /\ IF inside[t] THEN sent[t] \in 0..Length(F(t))
                  ELSE sent[t] = 0 /\ ~hurt[t]
               /\ \A n \in 0..3 : acc[t][n] \in Values(Delay(n))
    <3>1. IsCall(t, call[t]) /\ nth[t] \in Nat /\ sent[t] \in Nat
      BY <2>1 DEF TaskInv
    <3>2. call[t].op \in Ops /\ Number(call[t]) \in Nat /\ Length(F(t)) \in Nat
      BY <3>1, OpOf, Lengths
    <3>3. IF Busy(t) THEN nth[t] \in 0..Number(call[t]) - 1
          ELSE nth[t] = 0 /\ ~inside[t] /\ ~mixed[t] /\ acc[t] = NoAcc
      BY <2>1, <3>1, <3>2 DEF TaskInv, StoreInv
    <3>4. IF inside[t] THEN sent[t] \in 0..Length(F(t)) ELSE sent[t] = 0 /\ ~hurt[t]
      BY <2>1, <3>1, <3>2 DEF TaskInv
    <3> QED
      BY <2>1, <3>2, <3>3, <3>4 DEF StoreInv, Ops
  <2> QED
    BY <2>1, <2>3, <2>4 DEF TypeOK, TaskInv, StoreInv
<1> QED
  BY <1>1, Invariance, PTL

-----------------------------------------------------------------------------
\* Nothing but the end of a frame changes a register or takes a task out of one.
LEMMA OnlyDeselect ==
  ASSUME IInv, [Next]_vars
  PROVE  \/ \E t \in Task : Deselect(t)
         \/ reg' = reg /\ \A t \in Task : inside[t] => inside'[t]
<1>1. ASSUME Calls PROVE reg' = reg /\ inside' = inside
  <2>1. PICK t, c : t \in Task /\ Begin(t, c)
    BY <1>1, CallIs DEF IInv
  <2> QED
    BY <2>1, BeginIs
<1>2. ASSUME Refused PROVE reg' = reg /\ inside' = inside
  BY <1>2 DEF Refused, RefusedDelay, wires, tasks
<1>3. ASSUME NEW t \in Task, Select(t)
      PROVE  reg' = reg /\ \A u \in Task : inside[u] => inside'[u]
  BY <1>3, SelectIs
<1>4. ASSUME NEW t \in Task, SendByte(t) PROVE reg' = reg /\ inside' = inside
  BY <1>4, SendIs
<1>5. ASSUME UNCHANGED vars PROVE reg' = reg /\ inside' = inside
  BY <1>5 DEF vars, wires, tasks
<1> QED
  BY <1>1, <1>2, <1>3, <1>4, <1>5, Steps

\* Frames that cut into each other write nothing astray: a register gets the data
\* of a frame for it, or the frame of an entry that was cut gives a mixture; a
\* frame that is not cut is executed.
THEOREM NothingAstray == Spec => NoStrayWrite
<1> DEFINE Cause(t, a) == /\ inside[t] /\ Writes(F(t)) /\ F(t).addr = a
                          /\ reg'[a] = F(t).data \/ (Long(F(t)) /\ hurt[t])
           Step == /\ \A a \in Addr : reg'[a] # reg[a] =>
                                        \E t \in Task : Cause(t, a)
                   /\ \A t \in Task :
                        inside[t] /\ ~inside'[t] /\ Writes(F(t)) /\ ~hurt[t]
                          => reg'[F(t).addr] = F(t).data
<1>1. IInv /\ [Next]_vars => Step
  <2> SUFFICES ASSUME IInv, [Next]_vars PROVE Step
    OBVIOUS
  <2>1. CASE reg' = reg /\ \A t \in Task : inside[t] => inside'[t]
    BY <2>1
  <2>2. ASSUME NEW t \in Task, Deselect(t) PROVE Step
    <3>1. /\ Runs(t) /\ inside[t] /\ sent[t] = Length(F(t)) /\ Execute
          /\ \A u \in Task : u # t => (inside'[u] <=> inside[u])
      BY <2>2, DeselectIs
    <3>2. /\ ~hurt[t] => reg' = IF Writes(F(t))
                                THEN [reg EXCEPT ![F(t).addr] = F(t).data] ELSE reg
          /\ \A a \in Addr : reg'[a] # reg[a] =>
               \/ a = F(t).addr /\ Writes(F(t)) /\ reg'[a] = F(t).data
               \/ Mixture(t, a)
      BY <3>1, Executed
    <3>3. ASSUME NEW a \in Addr, reg'[a] # reg[a] PROVE \E u \in Task : Cause(u, a)
      <4>1. CASE a = F(t).addr /\ Writes(F(t)) /\ reg'[a] = F(t).data
        BY <3>1, <4>1
      <4>2. CASE Mixture(t, a)
        <5>1. Cause("debug", a) /\ "debug" \in Task
          BY <4>2 DEF Mixture, Task
        <5> QED
          BY <5>1
      <4> QED
        BY <3>2, <3>3, <4>1, <4>2
    <3>4. F(t).addr \in Addr /\ DOMAIN reg = Addr
      BY <3>1, Inside DEF IInv, StoreInv
    <3>5. ASSUME NEW u \in Task, inside[u], ~inside'[u], Writes(F(u)), ~hurt[u]
          PROVE  reg'[F(u).addr] = F(u).data
      <4>1. u = t
        BY <3>1, <3>5
      <4> QED
        BY <3>2, <3>4, <3>5, <4>1
    <3> QED
      BY <3>3, <3>5
  <2> QED
    BY <2>1, <2>2, OnlyDeselect
<1>2. Spec => [][Step]_vars
  BY <1>1, Invariance, PTL DEF Spec
<1> QED
  BY <1>2 DEF NoStrayWrite

-----------------------------------------------------------------------------
\* What the frame of a task in a call is.
LEMMA Kinds ==
  ASSUME TaskInv, NEW t \in Task, Busy(t)
  PROVE  /\ call[t].op \in {"set", "get", "feed", "ufs", "rtrv"}
         /\ Long(F(t)) <=> call[t].op \in {"ufs", "rtrv"}
         /\ Writes(F(t)) <=> call[t].op \in {"set", "feed", "ufs"}
         /\ call[t].op \in {"set", "get"} =>
              /\ nth[t] \in 0..3 /\ F(t).addr = Delay(nth[t])
              /\ Number(call[t]) = 4 /\ t \in {"web", "debug"}
         /\ call[t].op = "set" =>
              /\ F(t).data = Digit(call[t].val, nth[t])
              /\ call[t].val \in Offsets /\ InRange(call[t].val)
         /\ call[t].op = "feed" => F(t).addr = Wdi
         /\ call[t].op = "ufs" =>
              /\ F(t).addr = Slot(call[t].slot) /\ F(t).data = call[t].val
              /\ call[t].slot \in 0..TbLen /\ Number(call[t]) = 1 /\ t = "debug"
              /\ nth[t] = 0
         /\ call[t].op = "rtrv" =>
              /\ nth[t] \in 0..TbLen - 1 /\ F(t).addr = Slot(nth[t])
              /\ Number(call[t]) = TbLen /\ t = "debug"
<1>1. IsCall(t, call[t]) /\ nth[t] \in Nat /\ nth[t] < Number(call[t])
  BY Inside
<1>2. call[t].op \in Ops /\ call[t].op # "none"
  BY <1>1, OpOf, FrameIs
<1>3. F(t) = FrameOf(call[t], nth[t])
  BY DEF F
<1>4. /\ call[t].op \in {"set", "get"} => t \in {"web", "debug"}
      /\ call[t].op \in {"ufs", "rtrv"} => t = "debug"
      /\ call[t].op = "set" => call[t].val \in Offsets /\ InRange(call[t].val)
      /\ call[t].op = "ufs" => call[t].slot \in 0..TbLen
  BY <1>1, OpOf
<1>5. /\ Long(F(t)) <=> call[t].op \in {"ufs", "rtrv"}
      /\ Writes(F(t)) <=> call[t].op \in {"set", "feed", "ufs"}
      /\ call[t].op \in {"set", "get"} =>
           nth[t] \in 0..3 /\ F(t).addr = Delay(nth[t]) /\ Number(call[t]) = 4
      /\ call[t].op = "set" => F(t).data = Digit(call[t].val, nth[t])
      /\ call[t].op = "feed" => F(t).addr = Wdi
      /\ call[t].op = "ufs" => /\ F(t).addr = Slot(call[t].slot)
                               /\ F(t).data = call[t].val /\ Number(call[t]) = 1
      /\ call[t].op = "rtrv" =>
           /\ nth[t] \in 0..TbLen - 1 /\ F(t).addr = Slot(nth[t])
           /\ Number(call[t]) = TbLen
  BY <1>1, <1>3, FrameIs
<1>6. call[t].op = "ufs" => nth[t] = 0
  BY <1>1, <1>5
<1> QED
  BY <1>2, <1>4, <1>5, <1>6 DEF Ops

\* The entries: each agrees unless a frame for it was cut or is on its way; what
\* is on its way is what the table holds, and what has been read whole is what the
\* register holds.
OnItsWay(i) == \/ call["debug"].op = "ufs" /\ call["debug"].slot = i
               \/ call["debug"].op = "rtrv" /\ nth["debug"] = i

Fetched == /\ call["debug"].op = "rtrv" /\ inside["debug"] /\ ~hurt["debug"]
           /\ sent["debug"] = Length(F("debug"))

SlaveInv ==
  /\ \A i \in 0..TbLen - 1 :
       i \in dirty \/ table[i] = reg[Slot(i)] \/ OnItsWay(i)
  /\ call["debug"].op = "ufs" => table[call["debug"].slot] = call["debug"].val
  /\ Fetched => table[nth["debug"]] = reg[Slot(nth["debug"])]

LEMMA SlavesStart == Init => SlaveInv
<1>1. None.op = "none" /\ "debug" \in Task
  BY Fields DEF Task
<1>2. ASSUME Init PROVE SlaveInv
  <2>1. call["debug"].op = "none" /\ \A i \in 0..TbLen - 1 : i \in dirty
    BY <1>1, <1>2, SpiAssumption DEF Init
  <2> QED
    BY <2>1 DEF SlaveInv, Fetched
<1> QED
  BY <1>2

LEMMA SlavesCalls == ASSUME IInv, SlaveInv, Calls PROVE SlaveInv'
<1>1. TaskInv /\ StoreInv /\ "debug" \in Task
  BY DEF IInv, Task
<1>2. PICK t, c :
         /\ t \in Task
         /\ IsCall(t, c) /\ c # None /\ 0 < Number(c) /\ Begin(t, c)
         /\ IF c.op = "ufs"
            THEN /\ c.slot \in 0..TbLen /\ table'[c.slot] = c.val
                 /\ \A j \in 0..TbLen : j # c.slot => table'[j] = table[j]
            ELSE table' = table
  BY <1>1, CallIs
<1>3. /\ ~Busy(t) /\ ~inside[t] /\ call'[t] = c
      /\ \A u \in Task : u # t => call'[u] = call[u]
      /\ UNCHANGED <<reg, nth, inside, sent, hurt, dirty>>
  BY <1>2, BeginIs
<1>4. \A i \in 0..TbLen - 1 : i \in 0..TbLen
  BY SpiAssumption
<1>5. CASE t = "debug"
  <2>1. \A i : ~OnItsWay(i)
    BY <1>3, <1>5 DEF OnItsWay, Busy
  <2>2. ~Fetched'
    BY <1>3, <1>5 DEF Fetched
  <2>3. call'["debug"].op = "ufs" =>
          table'[call'["debug"].slot] = call'["debug"].val
    BY <1>2, <1>3, <1>5
  <2>4. \A i \in 0..TbLen - 1 :
          i \in dirty' \/ table'[i] = reg'[Slot(i)] \/ OnItsWay(i)'
    <3>1. \A i \in 0..TbLen - 1 : table'[i] = table[i] \/ OnItsWay(i)'
      BY <1>2, <1>3, <1>4, <1>5 DEF OnItsWay
    <3> QED
      BY <1>3, <2>1, <3>1 DEF SlaveInv
  <2> QED
    BY <2>2, <2>3, <2>4 DEF SlaveInv
<1>6. CASE t # "debug"
  <2>1. table' = table /\ call'["debug"] = call["debug"]
    BY <1>1, <1>2, <1>3, <1>6, OpOf
  <2>2. \A i : OnItsWay(i)' <=> OnItsWay(i)
    BY <1>3, <2>1 DEF OnItsWay
  <2>3. Fetched' => Fetched
    <3>1. F("debug")' = F("debug")
      BY <1>1, <1>3, <2>1, SameFrame
    <3>2. Length(F("debug")') = Length(F("debug"))'
      BY DEF Length, Header, Long
    <3> QED
      BY <1>3, <2>1, <3>1, <3>2 DEF Fetched
  <2> QED
    BY <1>3, <2>1, <2>2, <2>3 DEF SlaveInv
<1> QED
  BY <1>5, <1>6

LEMMA SlavesSelect == ASSUME IInv, SlaveInv, NEW t \in Task, Select(t) PROVE SlaveInv'
<1>1. TaskInv /\ "debug" \in Task
  BY DEF IInv, Task
<1>2. /\ ~inside[t] /\ Busy(t)
      /\ \A u \in Task : u # t => (inside'[u] <=> inside[u])
      /\ \A u \in Task : u # t => (hurt'[u] <=> hurt[u] \/ inside[u])
      /\ UNCHANGED <<reg, call, nth, sent, table, dirty>>
  BY SelectIs
<1>3. ~Fetched'
  <2>1. CASE t # "debug"
    BY <1>1, <1>2, <2>1 DEF Fetched
  <2>2. CASE t = "debug"
    <3>1. sent["debug"] = 0
      BY <1>1, <1>2, <2>2 DEF TaskInv
    <3>2. F("debug")' = F("debug")
      BY <1>1, <1>2, SameFrame
    <3>3. Length(F("debug")') = Length(F("debug"))' /\ Length(F("debug")) > 0
      BY Lengths, SpiAssumption DEF Length, Header, Long
    <3> QED
      BY <1>2, <3>1, <3>2, <3>3 DEF Fetched
  <2> QED
    BY <2>1, <2>2
<1> QED
  BY <1>2, <1>3 DEF SlaveInv, OnItsWay

LEMMA SlavesSend == ASSUME IInv, SlaveInv, NEW t \in Task, SendByte(t) PROVE SlaveInv'
<1>1. TaskInv /\ BusInv /\ StoreInv /\ "debug" \in Task
  BY DEF IInv, Task
<1>2. /\ inside[t] /\ sent[t] < Length(F(t))
      /\ sent'[t] = sent[t] + 1
      /\ \A u \in Task : u # t => sent'[u] = sent[u]
      /\ Brings(t) => \E v \in Answers(t) : Store(t, v)
      /\ ~Brings(t) => UNCHANGED <<acc, delaycom, table>>
      /\ UNCHANGED <<reg, call, nth, inside, hurt, dirty>>
  BY SendIs
<1>3. /\ F("debug")' = F("debug")
      /\ Length(F("debug")') = Length(F("debug"))'
  BY <1>1, <1>2, SameFrame DEF Length, Header, Long
<1>4. \A i : OnItsWay(i)' <=> OnItsWay(i)
  BY <1>2 DEF OnItsWay
<1>5. CASE call[t].op # "rtrv"
  <2>1. table' = table
    <3>1. CASE Brings(t)
      <4>1. PICK v \in Answers(t) : Store(t, v)
        BY <1>2, <3>1
      <4>2. ~Writes(F(t))
        BY <3>1 DEF Brings
      <4> QED
        BY <1>2, <1>5, <4>1, <4>2, StoreIs
    <3> QED
      BY <1>2, <3>1
  <2>2. Fetched' => Fetched
    BY <1>1, <1>2, <1>3, <1>5 DEF Fetched
  <2> QED
    BY <1>2, <1>4, <2>1, <2>2 DEF SlaveInv
<1>6. CASE call[t].op = "rtrv"
  <2>1. /\ t = "debug" /\ nth[t] \in 0..TbLen - 1 /\ F(t).addr = Slot(nth[t])
        /\ ~Writes(F(t)) /\ Length(F(t)) \in Nat /\ Length(F(t)) > 1
        /\ sent[t] \in Nat
    BY <1>1, <1>2, <1>6, Inside, Kinds, Lengths, SpiAssumption DEF TaskInv
  <2>2. CASE ~Brings(t)
    <3>1. ~Fetched'
      BY <1>2, <1>3, <2>1, <2>2 DEF Fetched, Brings
    <3> QED
      BY <1>2, <1>4, <2>2, <3>1 DEF SlaveInv
  <2>3. CASE Brings(t)
    <3>1. PICK v \in Answers(t) : Store(t, v)
      BY <1>2, <2>3
    <3>2. table' = [table EXCEPT ![nth[t]] = v]
      BY <1>2, <1>6, <2>1, <3>1, StoreIs
    <3>3. table \in [0..TbLen -> Slaves \cup {0}]
      BY <1>1 DEF StoreInv
    <3>4. \A i \in 0..TbLen - 1 : i # nth[t] => table'[i] = table[i]
      BY <3>2, <3>3
    <3>5. table'[nth[t]] = v
      BY <2>1, <3>2, <3>3, SpiAssumption
    <3>6. ~hurt[t] => v = reg[Slot(nth[t])]
      <4> SUFFICES ASSUME ~hurt[t] PROVE v = reg[Slot(nth[t])]
        OBVIOUS
      <4>1. sent[t] > 0
        BY <1>2, <2>1, <2>3 DEF Brings
      <4>2. cs /\ len = sent[t] /\ first = t
        BY <1>1, <1>2, <4>1 DEF BusInv
      <4> QED
        BY <2>1, <3>1, <4>2 DEF Answers
    <3>7. OnItsWay(nth[t])
      BY <1>6, <2>1 DEF OnItsWay
    <3>8. \A i \in 0..TbLen - 1 :
            i \in dirty' \/ table'[i] = reg'[Slot(i)] \/ OnItsWay(i)'
      BY <1>2, <1>4, <3>4, <3>7 DEF SlaveInv
    <3>9. Fetched' => table'[nth'["debug"]] = reg'[Slot(nth'["debug"])]
      BY <1>2, <2>1, <3>5, <3>6 DEF Fetched
    <3> QED
      BY <1>2, <1>6, <2>1, <3>8, <3>9 DEF SlaveInv
  <2> QED
    BY <2>2, <2>3
<1> QED
  BY <1>5, <1>6

LEMMA SlavesDeselect ==
  ASSUME IInv, SlaveInv, NEW t \in Task, Deselect(t) PROVE SlaveInv'
<1>1. TaskInv /\ BusInv /\ StoreInv /\ "debug" \in Task
  BY DEF IInv, Task
<1>2. /\ Runs(t) /\ inside[t] /\ sent[t] = Length(F(t)) /\ Execute
      /\ ~inside'[t] /\ ~hurt'[t]
      /\ call'[t] = IF Last(t) THEN None ELSE call[t]
      /\ \A u \in Task : u # t =>
           /\ call'[u] = call[u] /\ nth'[u] = nth[u] /\ sent'[u] = sent[u]
           /\ (inside'[u] <=> inside[u]) /\ (hurt'[u] <=> hurt[u])
      /\ dirty' = IF ~Long(F(t)) THEN dirty
                  ELSE IF hurt[t] THEN dirty \cup {F(t).addr[2]}
                  ELSE dirty \ {F(t).addr[2]}
      /\ table' = table
  BY DeselectIs
<1>3. /\ ~hurt[t] => reg' = IF Writes(F(t))
                            THEN [reg EXCEPT ![F(t).addr] = F(t).data] ELSE reg
      /\ \A a \in Addr : reg'[a] # reg[a] =>
           \/ a = F(t).addr /\ Writes(F(t)) /\ reg'[a] = F(t).data
           \/ Mixture(t, a)
  BY <1>2, Executed
<1>4. Busy(t) /\ nth[t] \in Nat /\ DOMAIN reg = Addr
  BY <1>1, <1>2, Inside DEF StoreInv
<1>5. /\ \A i \in 0..TbLen - 1 : i \in 0..TbLen /\ Slot(i) \in Addr
      /\ \A i \in 0..TbLen : Slot(i) \in Addr
  BY Addrs, SpiAssumption
<1>6. CASE t # "debug"
  <2>1. call["debug"] = call'["debug"] /\ nth'["debug"] = nth["debug"]
    BY <1>1, <1>2, <1>6
  <2>2. /\ ~Long(F(t)) /\ \A i : F(t).addr # Slot(i)
    BY <1>1, <1>4, <1>6, Kinds, Addrs
  <2>3. dirty' = dirty
    BY <1>2, <2>2
  <2>4. ASSUME NEW i \in 0..TbLen, reg'[Slot(i)] # reg[Slot(i)]
        PROVE  call["debug"].op = "ufs" /\ call["debug"].slot = i
    <3>1. Mixture(t, Slot(i))
      BY <1>3, <1>5, <2>2, <2>4
    <3>2. /\ inside["debug"] /\ Writes(F("debug")) /\ Long(F("debug"))
          /\ Slot(i) = F("debug").addr
      BY <3>1 DEF Mixture
    <3>3. Busy("debug")
      BY <1>1, <3>2, Inside
    <3>4. call["debug"].op = "ufs" /\ F("debug").addr = Slot(call["debug"].slot)
      BY <1>1, <3>2, <3>3, Kinds
    <3> QED
      BY <3>2, <3>4, Addrs
  <2>5. \A i : OnItsWay(i)' <=> OnItsWay(i)
    BY <2>1 DEF OnItsWay
  <2>6. \A i \in 0..TbLen - 1 :
          i \in dirty' \/ table'[i] = reg'[Slot(i)] \/ OnItsWay(i)'
    <3> SUFFICES ASSUME NEW i \in 0..TbLen - 1
                 PROVE  i \in dirty' \/ table'[i] = reg'[Slot(i)] \/ OnItsWay(i)'
      OBVIOUS
    <3>1. CASE OnItsWay(i)
      BY <2>5, <3>1
    <3>2. CASE ~OnItsWay(i)
      <4>1. reg'[Slot(i)] = reg[Slot(i)]
        BY <1>5, <2>4, <3>2 DEF OnItsWay
      <4> QED
        BY <1>2, <2>3, <3>2, <4>1 DEF SlaveInv
    <3> QED
      BY <3>1, <3>2
  <2>7. Fetched' => table'[nth'["debug"]] = reg'[Slot(nth'["debug"])]
    <3> SUFFICES ASSUME Fetched'
                 PROVE  table'[nth'["debug"]] = reg'[Slot(nth'["debug"])]
      OBVIOUS
    <3>1. F("debug")' = F("debug") /\ Length(F("debug")') = Length(F("debug"))'
      BY <1>1, <2>1, SameFrame DEF Length, Header, Long
    <3>2. Fetched
      BY <1>1, <1>2, <1>6, <2>1, <3>1 DEF Fetched
    <3>3. call["debug"].op = "rtrv" /\ nth["debug"] \in 0..TbLen - 1
      BY <1>1, <3>2, Kinds DEF Fetched, Busy
    <3>4. reg'[Slot(nth["debug"])] = reg[Slot(nth["debug"])]
      BY <1>5, <2>4, <3>3
    <3> QED
      BY <1>2, <2>1, <3>2, <3>4 DEF SlaveInv
  <2> QED
    BY <1>2, <2>1, <2>6, <2>7 DEF SlaveInv
<1>7. CASE t = "debug"
  <2>1. ~Fetched'
    BY <1>2, <1>7 DEF Fetched
  <2>2. /\ \A a : ~Mixture(t, a)
        /\ \A a \in Addr : reg'[a] # reg[a] => a = F(t).addr /\ Writes(F(t))
    BY <1>3, <1>7 DEF Mixture
  <2>3. CASE call[t].op \notin {"ufs", "rtrv"}
    <3>1. ~Long(F(t)) /\ \A i : F(t).addr # Slot(i)
      BY <1>1, <1>4, <2>3, Kinds, Addrs
    <3>2. dirty' = dirty /\ \A i \in 0..TbLen - 1 : reg'[Slot(i)] = reg[Slot(i)]
      BY <1>2, <1>5, <2>2, <3>1
    <3>3. call'["debug"].op # "ufs" /\ \A i : ~OnItsWay(i)
      BY <1>2, <1>7, <2>3, Fields DEF OnItsWay
    <3> QED
      BY <1>2, <2>1, <3>2, <3>3 DEF SlaveInv
  <2>4. CASE call[t].op = "ufs"
    <3> DEFINE s == call[t].slot
    <3>1. /\ Long(F(t)) /\ Writes(F(t)) /\ F(t).addr = Slot(s) /\ s \in 0..TbLen
          /\ F(t).data = call[t].val /\ nth[t] = 0 /\ Number(call[t]) = 1
      BY <1>1, <1>4, <2>4, Kinds
    <3>2. call'["debug"] = None
      BY <1>2, <1>7, <3>1 DEF Last
    <3>3. call'["debug"].op = "none"
      BY <3>2, Fields
    <3>4. F(t).addr[2] = s
      BY <3>1, Addrs
    <3>5. \A i \in 0..TbLen - 1 : i # s => reg'[Slot(i)] = reg[Slot(i)] /\ ~OnItsWay(i)
      BY <1>5, <1>7, <2>2, <2>4, <3>1, Addrs DEF OnItsWay
    <3>6. ~hurt[t] => reg'[Slot(s)] = table[s]
      BY <1>3, <1>4, <1>5, <1>7, <2>4, <3>1 DEF SlaveInv
    <3> HIDE DEF s
    <3>7. dirty' = IF hurt[t] THEN dirty \cup {s} ELSE dirty \ {s}
      BY <1>2, <3>1, <3>4
    <3>8. \A i \in 0..TbLen - 1 : i \in dirty' \/ table'[i] = reg'[Slot(i)]
      BY <1>2, <3>5, <3>6, <3>7 DEF SlaveInv
    <3> QED
      BY <2>1, <3>3, <3>8 DEF SlaveInv
  <2>5. CASE call[t].op = "rtrv"
    <3> DEFINE s == nth[t]
    <3>1. /\ Long(F(t)) /\ ~Writes(F(t)) /\ F(t).addr = Slot(s)
          /\ s \in 0..TbLen - 1
      BY <1>1, <1>4, <2>5, Kinds
    <3>2. \A i \in 0..TbLen - 1 : reg'[Slot(i)] = reg[Slot(i)]
      BY <1>5, <2>2, <3>1
    <3>3. call'["debug"].op # "ufs"
      BY <1>2, <1>7, <2>5, Fields
    <3>4. F(t).addr[2] = s
      BY <3>1, Addrs
    <3>5. \A i \in 0..TbLen - 1 : i # s => ~OnItsWay(i)
      BY <1>7, <2>5 DEF OnItsWay
    <3>6. ~hurt[t] => reg[Slot(s)] = table[s]
      BY <1>2, <1>7, <2>5 DEF SlaveInv, Fetched
    <3> HIDE DEF s
    <3>7. dirty' = IF hurt[t] THEN dirty \cup {s} ELSE dirty \ {s}
      BY <1>2, <3>1, <3>4
    <3>8. \A i \in 0..TbLen - 1 : i \in dirty' \/ table'[i] = reg'[Slot(i)]
      BY <1>2, <3>2, <3>5, <3>6, <3>7 DEF SlaveInv
    <3> QED
      BY <2>1, <3>3, <3>8 DEF SlaveInv
  <2> QED
    BY <2>3, <2>4, <2>5
<1> QED
  BY <1>6, <1>7

LEMMA SlavesNext == IInv /\ SlaveInv /\ [Next]_vars => SlaveInv'
<1> SUFFICES ASSUME IInv, SlaveInv, [Next]_vars PROVE SlaveInv'
  OBVIOUS
<1>1. ASSUME NEW t \in Task, Select(t) \/ SendByte(t) \/ Deselect(t)
      PROVE  SlaveInv'
  BY <1>1, SlavesSelect, SlavesSend, SlavesDeselect
<1>2. ASSUME Refused PROVE SlaveInv'
  <2>1. UNCHANGED <<reg, call, nth, inside, sent, table, hurt, dirty>>
    BY <1>2 DEF Refused, RefusedDelay, wires, tasks
  <2>2. F("debug")' = F("debug") /\ Length(F("debug")') = Length(F("debug"))'
    BY <2>1 DEF F, Length, Header, Long
  <2> QED
    BY <2>1, <2>2 DEF SlaveInv, OnItsWay, Fetched
<1>3. ASSUME UNCHANGED vars PROVE SlaveInv'
  <2>1. UNCHANGED <<reg, call, nth, inside, sent, table, hurt, dirty>>
    BY <1>3 DEF vars, wires, tasks, ram, hist
  <2>2. F("debug")' = F("debug") /\ Length(F("debug")') = Length(F("debug"))'
    BY <2>1 DEF F, Length, Header, Long
  <2> QED
    BY <2>1, <2>2 DEF SlaveInv, OnItsWay, Fetched
<1> QED
  BY <1>1, <1>2, <1>3, Steps, SlavesCalls

\* The slaves of the table are those of the FPGA whenever no command on them is on
\* its way, except the entries whose last frame was cut or that had none.
THEOREM SlavesMatch == Spec => []SlavesAgree
<1>1. Init => SlaveInv
  BY SlavesStart
<1>2. IInv /\ SlaveInv /\ [Next]_vars => SlaveInv'
  BY SlavesNext
<1>3. SlaveInv => SlavesAgree
  <2> SUFFICES ASSUME SlaveInv, ~Busy("debug"), NEW i \in 0..TbLen - 1, i \notin dirty
               PROVE  table[i] = reg[Slot(i)]
    BY DEF SlavesAgree
  <2>1. ~OnItsWay(i)
    BY DEF Busy, OnItsWay
  <2> QED
    BY <2>1 DEF SlaveInv
<1> QED
  BY <1>1, <1>2, <1>3, Invariance, PTL DEF Spec

-----------------------------------------------------------------------------
\* The delay: what a call that nothing has disturbed has written or read so far is
\* in the registers; of two calls on it, the lower is disturbed.
Got(t, n) == \/ n < nth[t]
             \/ /\ n = nth[t] /\ inside[t] /\ ~hurt[t] /\ sent[t] = Length(F(t))

DelayInv ==
  /\ \A t \in Task : call[t].op = "set" /\ ~mixed[t] =>
       /\ delaycom = call[t].val
       /\ \A n \in 0..3 : n < nth[t] => reg[Delay(n)] = Digit(call[t].val, n)
  /\ \A t \in Task : call[t].op = "get" /\ ~mixed[t] =>
       \A n \in 0..3 : Got(t, n) => acc[t][n] = reg[Delay(n)]
  /\ InDelay("web") /\ InDelay("debug") => mixed["debug"]
  /\ DelayAgrees

LEMMA DelayStart == Init => DelayInv
<1> SUFFICES ASSUME Init PROVE DelayInv
  OBVIOUS
<1>1. None.op = "none" /\ "web" \in Task
  BY Fields DEF Task
<1>2. \A t \in Task : call[t].op = "none"
  BY <1>1 DEF Init
<1>3. apart /\ ~InDelay("web")
  BY <1>1, <1>2 DEF Init, InDelay
<1> QED
  BY <1>2, <1>3 DEF DelayInv, DelayAgrees

\* While a call on the delay runs, another one is disturbed.
LEMMA OneDelay ==
  ASSUME TaskInv, DelayInv, NEW t \in Task, Runs(t), InDelay(t),
         NEW u \in Task, u # t, InDelay(u)
  PROVE  mixed[u]
<1>1. Busy(t) /\ Busy(u)
  BY DEF Busy, InDelay
<1>2. t \in {"web", "debug"} /\ u \in {"web", "debug"}
  BY <1>1, Kinds DEF InDelay
<1>3. t # "debug"
  BY <1>1, <1>2 DEF Runs, Above
<1> QED
  BY <1>2, <1>3 DEF DelayInv

LEMMA DelayCalls == ASSUME IInv, DelayInv, Calls PROVE DelayInv'
<1>1. TaskInv /\ StoreInv
  BY DEF IInv
<1>2. PICK t, c :
         /\ t \in Task
         /\ IsCall(t, c) /\ c # None /\ 0 < Number(c) /\ Begin(t, c)
         /\ IF c.op = "set" THEN delaycom' = c.val ELSE delaycom' = delaycom
  BY <1>1, CallIs
<1>3. /\ Runs(t) /\ ~Busy(t) /\ ~inside[t] /\ ~mixed[t] /\ nth[t] = 0
      /\ call'[t] = c /\ \A u \in Task : u # t => call'[u] = call[u]
      /\ UNCHANGED <<reg, nth, inside, sent, acc, hurt, apart>>
      /\ \A u \in Task :
           mixed'[u] <=> mixed[u] \/ (c.op \in {"set", "get"} /\ InDelay(u))
  BY <1>2, BeginIs
<1>4. ~InDelay(t) /\ ~mixed'[t]
  BY <1>2, <1>3 DEF Busy, InDelay
<1>5. \A u \in Task : u # t => (InDelay(u)' <=> InDelay(u)) /\ F(u)' = F(u)
  BY <1>3, SameFrame
<1>6. InDelay(t)' <=> c.op \in {"set", "get"}
  BY <1>3 DEF InDelay
<1>7. \A u \in Task : Length(F(u)') = Length(F(u))'
  BY DEF Length, Header, Long
<1>8. ASSUME NEW u \in Task, call'[u].op = "set", ~mixed'[u]
      PROVE  /\ delaycom' = call'[u].val
             /\ \A n \in 0..3 : n < nth'[u] => reg'[Delay(n)] = Digit(call'[u].val, n)
  <2>1. CASE u = t
    BY <1>2, <1>3, <1>8, <2>1
  <2>2. CASE u # t
    <3>1. call[u].op = "set" /\ InDelay(u)
      BY <1>3, <1>8, <2>2 DEF InDelay
    <3>2. ~mixed[u] /\ c.op # "set"
      BY <1>3, <1>8, <3>1
    <3> QED
      BY <1>2, <1>3, <2>2, <3>1, <3>2 DEF DelayInv
  <2> QED
    BY <2>1, <2>2
<1>9. ASSUME NEW u \in Task, call'[u].op = "get", ~mixed'[u], NEW n \in 0..3, Got(u, n)'
      PROVE  acc'[u][n] = reg'[Delay(n)]
  <2>1. CASE u = t
    BY <1>3, <1>9, <2>1 DEF Got
  <2>2. CASE u # t
    <3>1. call[u].op = "get" /\ ~mixed[u]
      BY <1>3, <1>9, <2>2
    <3>2. Got(u, n)
      BY <1>3, <1>5, <1>7, <1>9, <2>2 DEF Got
    <3> QED
      BY <1>3, <3>1, <3>2 DEF DelayInv
  <2> QED
    BY <2>1, <2>2
<1>10. InDelay("web")' /\ InDelay("debug")' => mixed'["debug"]
  <2>1. "web" \in Task /\ "debug" \in Task
    BY DEF Task
  <2>2. CASE t = "debug"
    <3>1. ~Busy("web")
      BY <1>3, <2>2 DEF Runs, Above
    <3> QED
      BY <1>5, <2>1, <2>2, <3>1 DEF Busy, InDelay
  <2>3. CASE t # "debug"
    BY <1>3, <1>5, <1>6, <2>1, <2>3 DEF DelayInv
  <2> QED
    BY <2>2, <2>3
<1>11. DelayAgrees'
  <2> SUFFICES ASSUME \A u \in Task : ~InDelay(u)', ~apart'
               PROVE  (DelayOf([n \in 0..3 |-> reg[Delay(n)]]) = Rounded(delaycom))'
    BY DEF DelayAgrees
  <2>1. c.op # "set" /\ \A u \in Task : ~InDelay(u)
    BY <1>2, <1>4, <1>5, <1>6
  <2>2. DelayOf([n \in 0..3 |-> reg[Delay(n)]]) = Rounded(delaycom)
    BY <1>3, <2>1 DEF DelayInv, DelayAgrees
  <2>3. delaycom' = delaycom /\ reg' = reg
    BY <1>2, <1>3, <2>1
  <2> QED
    BY <2>2, <2>3
<1> QED
  BY <1>8, <1>9, <1>10, <1>11 DEF DelayInv

LEMMA DelayRefused == ASSUME IInv, DelayInv, Refused PROVE DelayInv'
<1>1. /\ UNCHANGED <<reg, call, nth, inside, sent, acc, hurt>> /\ apart' = TRUE
  BY DEF Refused, RefusedDelay, wires, tasks
<1>2. mixed' = [u \in Task |-> mixed[u] \/ InDelay(u)]
  BY DEF Refused, RefusedDelay
<1>3. \A u \in Task : mixed'[u] <=> mixed[u] \/ InDelay(u)
  BY <1>2, Zenon
<1>4. \A u \in Task : (InDelay(u)' <=> InDelay(u)) /\ (~mixed'[u] => ~InDelay(u))
  BY <1>1, <1>3 DEF InDelay
<1>5. ASSUME NEW u \in Task, ~mixed'[u] PROVE call'[u].op \notin {"set", "get"}
  BY <1>1, <1>4, <1>5 DEF InDelay
<1>6. "web" \in Task /\ "debug" \in Task
  BY DEF Task
<1>7. DelayAgrees'
  BY <1>1 DEF DelayAgrees
<1>8. InDelay("web")' /\ InDelay("debug")' => mixed'["debug"]
  BY <1>4, <1>6
<1> QED
  BY <1>5, <1>7, <1>8 DEF DelayInv

LEMMA DelaySelect == ASSUME IInv, DelayInv, NEW t \in Task, Select(t) PROVE DelayInv'
<1>1. TaskInv
  BY DEF IInv
<1>2. /\ Busy(t) /\ ~inside[t]
      /\ \A u \in Task : u # t => (inside'[u] <=> inside[u])
      /\ \A u \in Task : u # t => (hurt'[u] <=> hurt[u] \/ inside[u])
      /\ UNCHANGED <<reg, call, nth, sent, acc, delaycom, mixed, apart>>
  BY SelectIs
<1>3. \A u \in Task : F(u)' = F(u) /\ Length(F(u)') = Length(F(u))'
                      /\ (InDelay(u)' <=> InDelay(u))
  BY <1>2, SameFrame DEF Length, Header, Long
<1>4. sent[t] = 0 /\ Length(F(t)) > 0
  BY <1>1, <1>2, Lengths, SpiAssumption DEF TaskInv
<1>5. ASSUME NEW u \in Task, NEW n, Got(u, n)' PROVE Got(u, n)
  <2>1. CASE u = t
    BY <1>2, <1>3, <1>4, <1>5, <2>1 DEF Got
  <2>2. CASE u # t
    BY <1>2, <1>3, <1>5, <2>2 DEF Got
  <2> QED
    BY <2>1, <2>2
<1>6. "web" \in Task /\ "debug" \in Task
  BY DEF Task
<1>7. DelayAgrees'
  BY <1>2, <1>3 DEF DelayInv, DelayAgrees
<1> QED
  BY <1>2, <1>3, <1>5, <1>6, <1>7 DEF DelayInv

LEMMA DelaySend == ASSUME IInv, DelayInv, NEW t \in Task, SendByte(t) PROVE DelayInv'
<1>1. TaskInv /\ BusInv /\ StoreInv
  BY DEF IInv
<1>2. /\ inside[t] /\ sent[t] < Length(F(t))
      /\ sent'[t] = sent[t] + 1
      /\ \A u \in Task : u # t => sent'[u] = sent[u]
      /\ Brings(t) => \E v \in Answers(t) : Store(t, v)
      /\ ~Brings(t) => UNCHANGED <<acc, delaycom, table>>
      /\ UNCHANGED <<reg, call, nth, inside, hurt, mixed, apart>>
  BY SendIs
<1>3. \A u \in Task : F(u)' = F(u) /\ Length(F(u)') = Length(F(u))'
                      /\ (InDelay(u)' <=> InDelay(u))
  BY <1>2, SameFrame DEF Length, Header, Long
<1>4. delaycom' = delaycom
  <2>1. CASE Brings(t)
    <3>1. PICK v \in Answers(t) : Store(t, v)
      BY <1>2, <2>1
    <3> QED
      BY <1>2, <2>1, <3>1, StoreIs DEF Brings
  <2> QED
    BY <1>2, <2>1
<1>5. ASSUME NEW u \in Task, call[u].op = "get", NEW n \in 0..3, Got(u, n)'
      PROVE  \/ Got(u, n) /\ acc'[u][n] = acc[u][n]
             \/ acc'[u][n] = reg[Delay(n)]
  <2>1. CASE ~Brings(t)
    <3>1. Got(u, n) \/ (u = t /\ n = nth[t] /\ sent[t] + 1 = Length(F(t)))
      BY <1>2, <1>3, <1>5 DEF Got
    <3>2. ~Writes(F(u))
      <4>1. Busy(u)
        BY <1>5 DEF Busy
      <4> QED
        BY <1>1, <1>5, <4>1, Kinds
    <3> QED
      BY <1>2, <2>1, <3>1, <3>2 DEF Brings
  <2>2. CASE Brings(t) /\ call[t].op = "rtrv"
    <3>1. PICK v \in Answers(t) : Store(t, v)
      BY <1>2, <2>2
    <3>2. acc' = acc /\ u # t
      BY <1>2, <1>5, <2>2, <3>1, StoreIs DEF Brings
    <3>3. Got(u, n)
      BY <1>2, <1>3, <1>5, <3>2 DEF Got
    <3> QED
      BY <3>2, <3>3
  <2>3. CASE Brings(t) /\ call[t].op # "rtrv"
    <3>1. PICK v \in Answers(t) : Store(t, v)
      BY <1>2, <2>3
    <3>2. /\ nth[t] \in 0..3 /\ F(t).addr = Delay(nth[t])
          /\ acc' = [acc EXCEPT ![t][nth[t]] = v]
      BY <1>2, <2>3, <3>1, StoreIs DEF Brings
    <3>3. acc \in [Task -> [0..3 -> Nat]]
      BY <1>1 DEF StoreInv
    <3>4. CASE u # t
      <4>1. acc'[u] = acc[u] /\ Got(u, n)
        BY <1>2, <1>3, <1>5, <3>2, <3>3, <3>4 DEF Got
      <4> QED
        BY <4>1
    <3>5. CASE u = t /\ n # nth[t]
      <4>1. acc'[u][n] = acc[u][n]
        BY <1>5, <3>2, <3>3, <3>5
      <4>2. Got(u, n)
        BY <1>2, <1>5, <3>5 DEF Got
      <4> QED
        BY <4>1, <4>2
    <3>6. CASE u = t /\ n = nth[t]
      <4>1. acc'[u][n] = v
        BY <3>2, <3>3, <3>6
      <4>2. ~hurt[t] /\ sent[t] \in Nat /\ sent[t] > 0
        <5>1. ~hurt[t]
          <6>1. nth[t] \in Nat
            BY <1>1 DEF TaskInv
          <6> QED
            BY <1>2, <1>5, <3>6, <6>1 DEF Got
        <5>2. sent[t] \in Nat /\ Length(F(t)) > 1
          BY <1>1, Lengths, SpiAssumption DEF TaskInv
        <5> QED
          BY <2>3, <5>1, <5>2 DEF Brings
      <4>3. cs /\ len = sent[t] /\ first = t
        BY <1>1, <1>2, <4>2 DEF BusInv
      <4>4. v = reg[Delay(n)]
        BY <3>1, <3>2, <3>6, <4>3 DEF Answers
      <4> QED
        BY <4>1, <4>4
    <3> QED
      BY <3>4, <3>5, <3>6
  <2> QED
    BY <2>1, <2>2, <2>3
<1>6. ASSUME NEW u \in Task, call'[u].op = "get", ~mixed'[u], NEW n \in 0..3, Got(u, n)'
      PROVE  acc'[u][n] = reg'[Delay(n)]
  <2>1. call[u].op = "get" /\ ~mixed[u] /\ reg' = reg
    BY <1>2, <1>6
  <2> QED
    BY <1>5, <1>6, <2>1 DEF DelayInv
<1>7. "web" \in Task /\ "debug" \in Task
  BY DEF Task
<1>8. DelayAgrees'
  BY <1>2, <1>3, <1>4 DEF DelayInv, DelayAgrees
<1> QED
  BY <1>2, <1>3, <1>4, <1>6, <1>7, <1>8 DEF DelayInv

\* The end of a frame changes a register of the delay only if the frame is one of a
\* command on it.
LEMMA DelayRegs ==
  ASSUME IInv, NEW t \in Task, Deselect(t)
  PROVE  /\ \A n \in 0..3 : reg'[Delay(n)] # reg[Delay(n)] =>
                              call[t].op = "set" /\ n = nth[t]
         /\ call[t].op = "set" /\ ~hurt[t] =>
              reg'[Delay(nth[t])] = Digit(call[t].val, nth[t])
<1>1. TaskInv /\ StoreInv
  BY DEF IInv
<1>2. Runs(t) /\ inside[t] /\ sent[t] = Length(F(t)) /\ Execute
  BY DeselectIs
<1>3. /\ ~hurt[t] => reg' = IF Writes(F(t))
                            THEN [reg EXCEPT ![F(t).addr] = F(t).data] ELSE reg
      /\ \A a \in Addr : reg'[a] # reg[a] =>
           \/ a = F(t).addr /\ Writes(F(t)) /\ reg'[a] = F(t).data
           \/ Mixture(t, a)
  BY <1>2, Executed
<1>4. Busy(t) /\ DOMAIN reg = Addr /\ \A n \in 0..3 : Delay(n) \in Addr
  BY <1>1, <1>2, Inside, Addrs DEF StoreInv
<1>5. ASSUME NEW n \in 0..3, reg'[Delay(n)] # reg[Delay(n)]
      PROVE  call[t].op = "set" /\ n = nth[t]
  <2>1. ~Mixture(t, Delay(n))
    <3> SUFFICES ASSUME Mixture(t, Delay(n)) PROVE FALSE
      OBVIOUS
    <3>1. /\ inside["debug"] /\ Writes(F("debug")) /\ Long(F("debug"))
          /\ F("debug").addr = Delay(n) /\ "debug" \in Task
      BY DEF Mixture, Task
    <3>2. Busy("debug")
      BY <1>1, <3>1, Inside
    <3>3. F("debug").addr = Slot(call["debug"].slot)
      BY <1>1, <3>1, <3>2, Kinds
    <3> QED
      BY <3>1, <3>3, Addrs
  <2>2. Delay(n) = F(t).addr /\ Writes(F(t))
    BY <1>3, <1>4, <1>5, <2>1
  <2>3. call[t].op \in {"set", "feed", "ufs"}
    BY <1>1, <1>4, <2>2, Kinds
  <2>4. call[t].op = "set"
    BY <1>1, <1>4, <2>2, <2>3, Kinds, Addrs
  <2> QED
    BY <1>1, <1>4, <2>2, <2>4, Kinds, Addrs
<1>6. ASSUME call[t].op = "set", ~hurt[t]
      PROVE  reg'[Delay(nth[t])] = Digit(call[t].val, nth[t])
  <2>1. /\ Writes(F(t)) /\ nth[t] \in 0..3 /\ F(t).addr = Delay(nth[t])
        /\ F(t).data = Digit(call[t].val, nth[t])
    BY <1>1, <1>4, <1>6, Kinds
  <2> QED
    BY <1>3, <1>4, <1>6, <2>1
<1> QED
  BY <1>5, <1>6

\* The delay the registers say.
Said == DelayOf([n \in 0..3 |-> reg[Delay(n)]])

LEMMA SaidIs ==
  ASSUME NEW d, d \in [0..3 -> Nat], \A n \in 0..3 : d[n] = reg'[Delay(n)]
  PROVE  Said' = DelayOf(d)
<1>1. d = [n \in 0..3 |-> reg'[Delay(n)]]
  OBVIOUS
<1> QED
  BY <1>1 DEF Said, DelayOf

LEMMA DelayDeselect ==
  ASSUME IInv, DelayInv, NEW t \in Task, Deselect(t) PROVE DelayInv'
<1>1. TaskInv /\ BusInv /\ StoreInv
  BY DEF IInv
<1>2. /\ Runs(t) /\ inside[t] /\ sent[t] = Length(F(t)) /\ ~inside'[t]
      /\ mixed'[t] <=> ~Last(t) /\ (mixed[t] \/ hurt[t])
      /\ nth'[t] = IF Last(t) THEN 0 ELSE nth[t] + 1
      /\ call'[t] = IF Last(t) THEN None ELSE call[t]
      /\ acc'[t] = IF Last(t) THEN NoAcc ELSE acc[t]
      /\ \A u \in Task : u # t =>
           /\ call'[u] = call[u] /\ nth'[u] = nth[u] /\ sent'[u] = sent[u]
           /\ acc'[u] = acc[u] /\ (inside'[u] <=> inside[u])
           /\ (hurt'[u] <=> hurt[u]) /\ (mixed'[u] <=> mixed[u])
      /\ delaycom' = IF Last(t) /\ call[t].op = "get" THEN DelayOf(acc[t])
                     ELSE delaycom
      /\ apart' = IF Last(t) /\ InDelay(t) THEN mixed[t] \/ hurt[t] ELSE apart
  BY DeselectIs
<1>3. Busy(t) /\ nth[t] \in Nat /\ nth[t] < Number(call[t]) /\ None.op = "none"
  BY <1>1, <1>2, Inside, Fields
<1>4. /\ \A n \in 0..3 : reg'[Delay(n)] # reg[Delay(n)] =>
                           call[t].op = "set" /\ n = nth[t]
      /\ call[t].op = "set" /\ ~hurt[t] =>
           reg'[Delay(nth[t])] = Digit(call[t].val, nth[t])
  BY DelayRegs
<1>5. \A u \in Task : u # t =>
        F(u)' = F(u) /\ Length(F(u)') = Length(F(u))' /\ (InDelay(u)' <=> InDelay(u))
  BY <1>2, SameFrame DEF Length, Header, Long
<1>6. Last(t) => ~InDelay(t)'
  BY <1>2, <1>3 DEF InDelay
<1>7. \A n \in 0..3 : n \in Nat /\ n <= 3
  BY SMT
<1>8. ASSUME NEW u \in Task, u # t, call[u].op \in {"set", "get"}, ~mixed[u]
      PROVE  delaycom' = delaycom /\ \A n \in 0..3 : reg'[Delay(n)] = reg[Delay(n)]
  <2>1. ~InDelay(t)
    BY <1>1, <1>2, <1>8, OneDelay DEF InDelay
  <2> QED
    BY <1>2, <1>4, <2>1 DEF InDelay
<1>9. ASSUME NEW u \in Task, call'[u].op = "set", ~mixed'[u]
      PROVE  /\ delaycom' = call'[u].val
             /\ \A n \in 0..3 : n < nth'[u] => reg'[Delay(n)] = Digit(call'[u].val, n)
  <2>1. CASE u = t
    <3>1. /\ ~Last(t) /\ ~mixed[t] /\ ~hurt[t] /\ call'[t] = call[t]
          /\ nth'[t] = nth[t] + 1 /\ call[t].op = "set"
      BY <1>2, <1>3, <1>9, <2>1
    <3>2. /\ delaycom = call[t].val
          /\ \A n \in 0..3 : n < nth[t] => reg[Delay(n)] = Digit(call[t].val, n)
      BY <3>1 DEF DelayInv
    <3>3. \A n \in 0..3 : n < nth[t] + 1 => reg'[Delay(n)] = Digit(call[t].val, n)
      <4> SUFFICES ASSUME NEW n \in 0..3, n < nth[t] + 1
                   PROVE  reg'[Delay(n)] = Digit(call[t].val, n)
        OBVIOUS
      <4>1. n = nth[t] \/ (n < nth[t] /\ n # nth[t])
        BY <1>3, <1>7
      <4> QED
        BY <1>4, <3>1, <3>2, <4>1
    <3> QED
      BY <1>2, <2>1, <3>1, <3>2, <3>3
  <2>2. CASE u # t
    BY <1>2, <1>8, <1>9, <2>2 DEF DelayInv
  <2> QED
    BY <2>1, <2>2
<1>10. ASSUME NEW u \in Task, call'[u].op = "get", ~mixed'[u], NEW n \in 0..3,
              Got(u, n)'
       PROVE  acc'[u][n] = reg'[Delay(n)]
  <2>1. CASE u = t
    <3>1. /\ ~Last(t) /\ ~mixed[t] /\ ~hurt[t] /\ call'[t] = call[t]
          /\ nth'[t] = nth[t] + 1 /\ call[t].op = "get" /\ acc'[t] = acc[t]
      BY <1>2, <1>3, <1>10, <2>1
    <3>2. n < nth[t] + 1
      BY <1>2, <1>10, <2>1, <3>1 DEF Got
    <3>3. Got(t, n)
      BY <1>2, <1>3, <1>7, <3>1, <3>2 DEF Got
    <3> QED
      BY <1>4, <2>1, <3>1, <3>3 DEF DelayInv
  <2>2. CASE u # t
    <3>1. call[u].op = "get" /\ ~mixed[u]
      BY <1>2, <1>10, <2>2
    <3>2. Got(u, n)
      BY <1>2, <1>5, <1>10, <2>2 DEF Got
    <3>3. acc[u][n] = reg[Delay(n)]
      BY <3>1, <3>2 DEF DelayInv
    <3> QED
      BY <1>2, <1>8, <2>2, <3>1, <3>3
  <2> QED
    BY <2>1, <2>2
<1>11. InDelay("web")' /\ InDelay("debug")' => mixed'["debug"]
  <2> SUFFICES ASSUME InDelay("web")', InDelay("debug")' PROVE mixed'["debug"]
    OBVIOUS
  <2>1. "web" \in Task /\ "debug" \in Task
    BY DEF Task
  <2>2. CASE t = "debug"
    <3>1. ~Busy("web") /\ ~InDelay("web")
      BY <1>2, <2>2 DEF Runs, Above, Busy, InDelay
    <3> QED
      BY <1>5, <2>1, <2>2, <3>1
  <2>3. CASE t # "debug"
    <3>1. InDelay("debug") /\ (mixed'["debug"] <=> mixed["debug"])
      BY <1>2, <1>5, <2>1, <2>3
    <3>2. InDelay("web")
      <4>1. CASE t = "web"
        BY <1>2, <1>3, <4>1 DEF InDelay
      <4>2. CASE t # "web"
        BY <1>5, <2>1, <4>2
      <4> QED
        BY <4>1, <4>2
    <3> QED
      BY <3>1, <3>2 DEF DelayInv
  <2> QED
    BY <2>2, <2>3
<1>12. DelayAgrees'
  <2> SUFFICES ASSUME \A u \in Task : ~InDelay(u)', ~apart'
               PROVE  Said' = Rounded(delaycom)'
    BY DEF DelayAgrees, Said
  <2>1. \A u \in Task : u # t => ~InDelay(u)
    BY <1>5
  <2>2. CASE ~InDelay(t)
    <3>1. \A n \in 0..3 : reg'[Delay(n)] = reg[Delay(n)]
      BY <1>4, <2>2 DEF InDelay
    <3>2. delaycom' = delaycom /\ ~apart
      BY <1>2, <2>2 DEF InDelay
    <3>3. Said' = Said
      <4>1. [n \in 0..3 |-> reg'[Delay(n)]] = [n \in 0..3 |-> reg[Delay(n)]]
        BY <3>1
      <4> QED
        BY <4>1 DEF Said, DelayOf
    <3>4. Said = Rounded(delaycom)
      BY <2>1, <2>2, <3>2 DEF DelayInv, DelayAgrees, Said
    <3>5. Rounded(delaycom)' = Rounded(delaycom)
      BY <3>2 DEF Rounded, Abs
    <3> QED
      BY <3>3, <3>4, <3>5
  <2>3. CASE InDelay(t)
    <3>1. Last(t)
      <4>1. ~Last(t) => InDelay(t)'
        BY <1>2, <2>3 DEF InDelay
      <4> QED
        BY <4>1
    <3>2. ~mixed[t] /\ ~hurt[t]
      BY <1>2, <2>3, <3>1
    <3>3. Number(call[t]) = 4
      BY <1>1, <1>3, <2>3, Kinds DEF InDelay
    <3>4. nth[t] = 3
      BY <1>3, <3>1, <3>3 DEF Last
    <3>5. CASE call[t].op = "set"
      <4> DEFINE d == [n \in 0..3 |-> reg'[Delay(n)]]
                 o == call[t].val
      <4>1. o \in Int /\ InRange(o)
        BY <1>1, <1>3, <3>5, Kinds, SpiAssumption
      <4>2. /\ delaycom = o
            /\ \A n \in 0..3 : n < nth[t] => reg[Delay(n)] = Digit(o, n)
        BY <3>2, <3>5 DEF DelayInv
      <4>3. \A n \in 0..3 : reg'[Delay(n)] = Digit(o, n)
        <5> SUFFICES ASSUME NEW n \in 0..3 PROVE reg'[Delay(n)] = Digit(o, n)
          OBVIOUS
        <5>1. CASE n = nth[t]
          BY <1>4, <3>2, <3>5, <5>1
        <5>2. CASE n # nth[t]
          <6>1. n < nth[t]
            BY <1>7, <3>4, <5>2
          <6> QED
            BY <1>4, <4>2, <5>2, <6>1
        <5> QED
          BY <5>1, <5>2
      <4>4. delaycom' = o
        BY <1>2, <3>5, <4>2
      <4>5. Rounded(delaycom)' = Rounded(o)
        BY <4>4 DEF Rounded, Abs
      <4>6. Said' = DelayOf(d)
        BY DEF Said, DelayOf
      <4>7. DelayOf(d) = Rounded(o)
        <5>1. \A n \in 0..3 : d[n] = Digit(o, n)
          BY <4>3
        <5> HIDE DEF d, o
        <5> QED
          BY <4>1, <5>1, Decoded
      <4> QED
        BY <4>5, <4>6, <4>7
    <3>6. CASE call[t].op = "get"
      <4>1. \A n \in 0..3 : Got(t, n)
        BY <1>2, <1>7, <3>2, <3>4 DEF Got
      <4>2. \A n \in 0..3 : acc[t][n] = reg'[Delay(n)]
        BY <1>4, <3>2, <3>6, <4>1 DEF DelayInv
      <4>3. acc[t] \in [0..3 -> Nat]
        BY <1>1 DEF StoreInv
      <4>4. Said' = DelayOf(acc[t])
        BY <4>2, <4>3, SaidIs
      <4>5. delaycom' = DelayOf(acc[t])
        BY <1>2, <3>1, <3>6
      <4>6. Rounded(DelayOf(acc[t])) = DelayOf(acc[t])
        BY <4>3, RoundedOnce
      <4>7. Rounded(delaycom)' = Rounded(DelayOf(acc[t]))
        BY <4>5 DEF Rounded, Abs
      <4> QED
        BY <4>4, <4>6, <4>7
    <3> QED
      BY <2>3, <3>5, <3>6 DEF InDelay
  <2> QED
    BY <2>2, <2>3
<1> QED
  BY <1>9, <1>10, <1>11, <1>12 DEF DelayInv

LEMMA DelayNext == IInv /\ DelayInv /\ [Next]_vars => DelayInv'
<1> SUFFICES ASSUME IInv, DelayInv, [Next]_vars PROVE DelayInv'
  OBVIOUS
<1>1. ASSUME NEW t \in Task, Select(t) \/ SendByte(t) \/ Deselect(t)
      PROVE  DelayInv'
  BY <1>1, DelaySelect, DelaySend, DelayDeselect
<1>2. ASSUME UNCHANGED vars PROVE DelayInv'
  <2>1. UNCHANGED <<reg, call, nth, inside, sent, acc, delaycom, hurt, mixed, apart>>
    BY <1>2 DEF vars, wires, tasks, ram, hist
  <2>2. \A u \in Task : F(u)' = F(u) /\ Length(F(u)') = Length(F(u))'
                        /\ (InDelay(u)' <=> InDelay(u))
    BY <2>1, SameFrame DEF Length, Header, Long
  <2>3. DelayAgrees'
    BY <2>1, <2>2 DEF DelayInv, DelayAgrees
  <2>4. "web" \in Task /\ "debug" \in Task
    BY DEF Task
  <2> QED
    BY <2>1, <2>2, <2>3, <2>4 DEF DelayInv, Got
<1> QED
  BY <1>1, <1>2, Steps, DelayCalls, DelayRefused

\* The parameter is what the FPGA delays by, up to 8 ns, whenever no call on it is
\* on its way, from the first such call that goes through whole until one is cut,
\* overtaken by another, or refused after the form has stored it.
THEOREM DelayMatches == Spec => []DelayAgrees
<1>1. Init => DelayInv
  BY DelayStart
<1>2. IInv /\ DelayInv /\ [Next]_vars => DelayInv'
  BY DelayNext
<1>3. DelayInv => DelayAgrees
  BY DEF DelayInv
<1> QED
  BY <1>1, <1>2, <1>3, Invariance, PTL DEF Spec
=============================================================================
