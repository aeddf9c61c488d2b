------------------------------ MODULE FpgaSpi ------------------------------
(***************************************************************************)
(* The registers of the FPGA behind one SPI bus (BSP/src/bsp_spi.c), which *)
(* tasks of several priorities use with no lock.  A frame is the chip      *)
(* select (CS) low, a command, an address, the data, and CS high; that of  *)
(* several data bytes has their number in between.  A task of higher       *)
(* priority that begins a frame inside another appends its bytes to it and *)
(* ends it with its own CS high; the rest of the other is then sent with   *)
(* CS high.                                                                *)
(*                                                                         *)
(* Above the frames: the delay of the GNSS input, kept in g_sParameters    *)
(* and in four registers (APP/Gnss/gnss_handler.c), the table of PTP       *)
(* slaves, kept in RAM and in the FPGA (APP/Output/out_ptp.c), and the     *)
(* watchdog task, which cuts into the debug shell's frames as the web      *)
(* server cuts into both.                                                  *)
(***************************************************************************)
EXTENDS Integers

CONSTANTS AddrLen,   \* bytes of an address (4 in the code)
          DataLen,   \* sizeof(tPtpSlaveArpTable) (12)
          Offsets,   \* the delays, in ns, that are commanded
          Slaves,    \* the slaves' addresses
          TbLen,     \* PTP_SLAVE_IP_TB_LEN
          Saved,     \* the delays flash may hold
          MaxCalls   \* bound: calls of each task

Task == {"web", "watchdog", "debug"}

Above(t) == CASE t = "web" -> {} [] t = "watchdog" -> {"web"}
              [] t = "debug" -> {"web", "watchdog"}

\* The registers: four of the delay, the watchdog's input, and an entry for
\* each slave (the code can write one more).
Delay(n) == <<"delay", n>>
Wdi      == <<"wdi", 0>>
Slot(i)  == <<"slave", i>>
Addr == {Delay(n) : n \in 0..3} \cup {Wdi} \cup {Slot(i) : i \in 0..TbLen}

Abs(n) == IF n < 0 THEN -n ELSE n

GNSS_PPS_DLYCOM_HI  == 1000000
DLYCOM_MAX_THRESHOLD == 50000000
InRange(o) == Abs(o) <= GNSS_PPS_DLYCOM_HI
OnForm(o)  == Abs(o) <= DLYCOM_MAX_THRESHOLD

\* The delay in units of 8 ns, bit 27 its sign, from the highest byte; and back.
Coded(o) == Abs(o) \div 8 + (IF o < 0 THEN 134217728 ELSE 0)
Digit(o, n) == CASE n = 0 -> (Coded(o) \div 16777216) % 16
                 [] n = 1 -> (Coded(o) \div 65536) % 256
                 [] n = 2 -> (Coded(o) \div 256) % 256
                 [] n = 3 -> Coded(o) % 256

DelayOf(d) ==
  LET m == (d[0] % 8) * 16777216 + d[1] * 65536 + d[2] * 256 + d[3]
  IN  IF (d[0] \div 8) % 2 = 1 THEN -(m * 8) ELSE m * 8

\* What a register may hold, and what may be read when a frame is cut (bound:
\* of all bytes, those of some delay).
Values(a) == CASE a[1] = "delay" -> {Digit(o, a[2]) : o \in Offsets} \cup {0}
               [] a[1] = "wdi"   -> {0, 1}
               [] a[1] = "slave" -> Slaves \cup {0}

CONSTANT PowerOn     \* the registers when the program starts: the FPGA's own,
                     \* or what an earlier run has left in them

ASSUME SpiAssumption ==
  /\ AddrLen \in Nat \ {0} /\ DataLen \in Nat
  /\ DataLen >= 2 * (AddrLen + 2)
  /\ Offsets \subseteq Int /\ Saved \subseteq Int /\ Slaves \subseteq Nat \ {0}
  /\ TbLen \in Nat \ {0} /\ MaxCalls \in [Task -> Nat]
  /\ \A r \in PowerOn : DOMAIN r = Addr /\ \A a \in Addr : r[a] \in Values(a)

VARIABLES cs,        \* the FPGA is selected
          first,     \* whose byte it has received first since then,
          len,       \*   and how many bytes in all
          reg,       \* its registers
          call,      \* what each task is executing
          nth,       \* the frame of that call it has come to,
          inside,    \*   whether it has begun it,
          sent,      \*   and how many of its bytes are sent
          acc,       \* what a query has read
          delaycom,  \* g_sParameters.GnssParameters.delaycom
          table,     \* ptp_slave_arp_table and what is behind it
          hurt,      \* history: the frame has cut another or was cut,
          mixed,     \*   the call had such a frame or met another delay call;
          apart,     \*   no whole call on the delay since the last other one,
          dirty,     \*   the entries of which that holds;
          calls      \* bound: calls left

wires == <<cs, first, len, reg>>
tasks == <<call, nth, inside, sent, acc>>
ram   == <<delaycom, table>>
hist  == <<hurt, mixed, apart, dirty, calls>>
vars  == <<wires, tasks, ram, hist>>

-----------------------------------------------------------------------------
\* Frames, and the frames of a call.
Write(a, v)    == [cmd |-> "FPGA_WRITE_BYTE", addr |-> a, data |-> v]
Read(a)        == [cmd |-> "FPGA_READ_BYTE", addr |-> a, data |-> 0]
MulWrite(a, v) == [cmd |-> "FPGA_WRITE_MULBYTE", addr |-> a, data |-> v]
MulRead(a)     == [cmd |-> "FPGA_READ_MULBYTE", addr |-> a, data |-> 0]

Writes(f) == f.cmd \in {"FPGA_WRITE_BYTE", "FPGA_WRITE_MULBYTE"}
Long(f)   == f.cmd \in {"FPGA_WRITE_MULBYTE", "FPGA_READ_MULBYTE"}

\* Command and address, the size of a long frame; then the data.
Header(f) == IF Long(f) THEN AddrLen + 2 ELSE AddrLen + 1
Length(f) == Header(f) + (IF Long(f) THEN DataLen ELSE 1)

Call(op, slot, val) == [op |-> op, slot |-> slot, val |-> val]
None == Call("none", 0, 0)

Number(c) == CASE c.op \in {"set", "get"} -> 4 [] c.op = "feed" -> 2
               [] c.op = "ufs" -> 1 [] c.op = "rtrv" -> TbLen [] c.op = "none" -> 0

FrameOf(c, n) == CASE c.op = "set"  -> Write(Delay(n), Digit(c.val, n))
                   [] c.op = "get"  -> Read(Delay(n))
                   [] c.op = "feed" -> Write(Wdi, n)
                   [] c.op = "ufs"  -> MulWrite(Slot(c.slot), c.val)
                   [] c.op = "rtrv" -> MulRead(Slot(n))

F(t) == FrameOf(call[t], nth[t])

Busy(t) == call[t].op # "none"

\* No task of higher priority is executing.
Runs(t) == \A u \in Above(t) : ~Busy(u)

InDelay(t) == call[t].op \in {"set", "get"}

NoAcc == [n \in 0..3 |-> 0]

\* ConfigInit has loaded the parameters; nothing writes them to the FPGA.
Init == /\ cs = FALSE /\ first = "web" /\ len = 0 /\ reg \in PowerOn
        /\ call = [t \in Task |-> None] /\ nth = [t \in Task |-> 0]
        /\ inside = [t \in Task |-> FALSE] /\ sent = [t \in Task |-> 0]
        /\ acc = [t \in Task |-> NoAcc]
        /\ delaycom \in Saved /\ table = [i \in 0..TbLen |-> 0]
        /\ hurt = [t \in Task |-> FALSE] /\ mixed = [t \in Task |-> FALSE]
        /\ apart = TRUE /\ dirty = 0..TbLen
        /\ calls = MaxCalls

\* A task's call begins: of the tasks it preempts, those that are in a delay
\* call as well are mixed with it.
Begin(t, c) ==
  /\ Runs(t) /\ ~Busy(t) /\ calls[t] > 0
  /\ calls' = [calls EXCEPT ![t] = @ - 1]
  /\ call' = [call EXCEPT ![t] = c]
  /\ mixed' = [u \in Task |-> mixed[u] \/ (c.op \in {"set", "get"} /\ InDelay(u))]
  /\ UNCHANGED <<wires, nth, inside, sent, acc, hurt, apart, dirty>>

-----------------------------------------------------------------------------
\* Mutant: the registers are written before the parameter is stored, by which
\* time it may be another.
SetDelayLate(t, o) ==
  /\ InRange(o) /\ (t = "web" => OnForm(o))
  /\ Begin(t, Call("set", 0, delaycom))
  /\ delaycom' = o /\ UNCHANGED table

\* gnss_set_gps_pps_offset: the parameter is stored first (from the form, twice).
SetDelay(t, o) ==
  /\ InRange(o) /\ (t = "web" => OnForm(o))
  /\ Begin(t, Call("set", 0, o))
  /\ delaycom' = o /\ UNCHANGED table

\* The form takes more than the command, and has stored it when the command
\* refuses it.
RefusedDelay(o) ==
  /\ OnForm(o) /\ ~InRange(o)
  /\ Runs("web") /\ ~Busy("web") /\ calls["web"] > 0
  /\ calls' = [calls EXCEPT !["web"] = @ - 1]
  /\ delaycom' = o /\ apart' = TRUE
  /\ mixed' = [u \in Task |-> mixed[u] \/ InDelay(u)]
  /\ UNCHANGED <<wires, tasks, table, hurt, dirty>>

\* gnss_get_gps_pps_offset; what it has read is stored at its end (Deselect).
GetDelay(t) == Begin(t, Call("get", 0, 0)) /\ UNCHANGED ram

\* watchdog_task, every 500 ms.
Feed == Begin("watchdog", Call("feed", 0, 0)) /\ UNCHANGED ram

\* The loops over the table end behind it.
First(P(_)) ==
  CHOOSE i \in 0..TbLen : /\ i = TbLen \/ P(table[i])
                          /\ \A j \in 0..i - 1 : ~P(table[j])

\* ptp_ufs_add.
UfsAdd(ip) ==
  LET i == First(LAMBDA e : e = 0)
  IN  /\ table' = [table EXCEPT ![i] = ip]
      /\ Begin("debug", Call("ufs", i, ip))
      /\ UNCHANGED delaycom

\* Mutant: the entry is cleared in RAM only.
UfsDelRam(ip) ==
  LET i == First(LAMBDA e : e = ip)
  IN  /\ table' = IF i = TbLen THEN table ELSE [table EXCEPT ![i] = 0]
      /\ Begin("debug", Call("ufs", i, table[i]))
      /\ UNCHANGED delaycom

\* ptp_ufs_del: what is behind the table is written when there is no such
\* slave.
UfsDel(ip) ==
  LET i == First(LAMBDA e : e = ip)
  IN  /\ table' = IF i = TbLen THEN table ELSE [table EXCEPT ![i] = 0]
      /\ Begin("debug", Call("ufs", i, table'[i]))
      /\ UNCHANGED delaycom

\* ptp_ufs_rtrv: every entry is read over the one in RAM.
UfsRtrv == Begin("debug", Call("rtrv", 0, 0)) /\ UNCHANGED ram

-----------------------------------------------------------------------------
\* Mutant: CS is not driven low.
CsNotDriven == cs

CsLow == TRUE

\* SPI_FPGA_CS_LOW.  The frames it preempts are cut.
Select(t) ==
  /\ Runs(t) /\ Busy(t) /\ ~inside[t]
  /\ cs' = CsLow /\ len' = IF cs THEN len ELSE 0
  /\ inside' = [inside EXCEPT ![t] = TRUE]
  /\ hurt' = [u \in Task |-> IF u = t THEN \E v \in Task : inside[v]
                             ELSE hurt[u] \/ inside[u]]
  /\ UNCHANGED <<first, reg, call, nth, sent, acc, ram, mixed, apart, dirty,
                 calls>>

\* What a read gives: the register's content when the FPGA has received this
\* frame and nothing else, anything otherwise.
Answers(t) == IF cs /\ first = t /\ len = sent[t] THEN {reg[F(t).addr]}
              ELSE Values(F(t).addr)

\* The last byte of a query's frame.
Store(t, v) ==
  LET n == nth[t]
  IN  CASE call[t].op = "get"  -> /\ acc' = [acc EXCEPT ![t][n] = v]
                                  /\ UNCHANGED ram
        [] call[t].op = "rtrv" -> /\ table' = [table EXCEPT ![n] = v]
                                  /\ UNCHANGED <<acc, delaycom>>

\* SPI_FPGA_SendByte: the FPGA takes it only when it is selected.
SendByte(t) ==
  /\ Runs(t) /\ inside[t] /\ sent[t] < Length(F(t))
  /\ sent' = [sent EXCEPT ![t] = @ + 1]
  /\ first' = IF cs /\ len = 0 THEN t ELSE first
  /\ len' = IF cs THEN len + 1 ELSE len
  /\ IF sent'[t] = Length(F(t)) /\ ~Writes(F(t))
     THEN \E v \in Answers(t) : Store(t, v) ELSE UNCHANGED <<acc, ram>>
  /\ UNCHANGED <<cs, reg, call, nth, inside, hist>>

\* The FPGA at the end of a selection: it executes what is as long as a frame of
\* its command, and nothing else.  Of a mixture the data is another frame's,
\* and, when the address was cut, the register as well.
Execute ==
  LET f    == F(first)
      kept == sent[first]
      to   == IF kept >= Header(f) THEN {f.addr} ELSE Addr
  IN  IF cs /\ len > 0 /\ Writes(f) /\ len = Length(f)
      THEN \E a \in to : \E v \in IF kept = len THEN {f.data} ELSE Values(a) :
             reg' = [reg EXCEPT ![a] = v]
      ELSE reg' = reg

\* Mutant: the FPGA stays selected after the last byte.
CsStaysLow == cs

CsHigh == FALSE

\* SPI_FPGA_CS_HIGH; a call ends with its last frame.
Deselect(t) ==
  LET last  == nth[t] + 1 = Number(call[t])
      bad   == mixed[t] \/ hurt[t]
      entry == {F(t).addr[2]}
  IN
  /\ Runs(t) /\ inside[t] /\ sent[t] = Length(F(t))
  /\ Execute
  /\ cs' = CsHigh /\ len' = IF cs' THEN len ELSE 0
  /\ inside' = [inside EXCEPT ![t] = FALSE] /\ sent' = [sent EXCEPT ![t] = 0]
  /\ nth' = [nth EXCEPT ![t] = IF last THEN 0 ELSE @ + 1]
  /\ call' = [call EXCEPT ![t] = IF last THEN None ELSE @]
  /\ acc' = [acc EXCEPT ![t] = IF last THEN NoAcc ELSE @]
  /\ delaycom' = IF last /\ call[t].op = "get" THEN DelayOf(acc[t]) ELSE delaycom
  /\ hurt' = [hurt EXCEPT ![t] = FALSE]
  /\ mixed' = [mixed EXCEPT ![t] = ~last /\ bad]
  /\ apart' = IF last /\ InDelay(t) THEN bad ELSE apart
  /\ dirty' = IF ~Long(F(t)) THEN dirty
              ELSE IF hurt[t] THEN dirty \cup entry ELSE dirty \ entry
  /\ UNCHANGED <<first, table, calls>>

Next ==
  \/ \E t \in {"web", "debug"} :
       GetDelay(t) \/ \E o \in Offsets : SetDelay(t, o)
  \/ \E o \in Offsets : RefusedDelay(o)
  \/ Feed
  \/ \E ip \in Slaves : UfsAdd(ip) \/ UfsDel(ip)
  \/ UfsRtrv
  \/ \E t \in Task : Select(t) \/ SendByte(t) \/ Deselect(t)

Spec == Init /\ [][Next]_vars

-----------------------------------------------------------------------------
\* Type invariant: a task's bytes are those of a frame of its call, and of what
\* the FPGA has received none is of a frame that is over.
TypeOK ==
  /\ cs \in BOOLEAN /\ first \in Task /\ apart \in BOOLEAN
  /\ DOMAIN reg = Addr /\ \A a \in Addr : reg[a] \in Values(a)
  /\ len \in Nat /\ len <= sent["web"] + sent["watchdog"] + sent["debug"]
  /\ (~cs => len = 0)
  /\ \A t \in Task :
       /\ call[t].op \in {"none", "set", "get", "feed", "ufs", "rtrv"}
       /\ IF Busy(t) THEN nth[t] \in 0..Number(call[t]) - 1
          ELSE nth[t] = 0 /\ ~inside[t] /\ ~mixed[t] /\ acc[t] = NoAcc
       /\ IF inside[t] THEN sent[t] \in 0..Length(F(t))
          ELSE sent[t] = 0 /\ ~hurt[t]
       /\ \A n \in 0..3 : acc[t][n] \in Values(Delay(n))
  /\ delaycom \in Int /\ table \in [0..TbLen -> Slaves \cup {0}]
  /\ dirty \subseteq 0..TbLen

\* A register changes only to the data of a frame for it that is on its way
\* (bsp_spi.c answers OK for it), or, if that is the frame of an entry which
\* another has cut, to a mixture; and a frame that neither cut another nor was
\* cut does write what it says.
NoStrayWrite ==
  [][/\ \A a \in Addr : reg'[a] # reg[a] =>
          \E t \in Task : /\ inside[t] /\ Writes(F(t)) /\ F(t).addr = a
                          /\ reg'[a] = F(t).data \/ (Long(F(t)) /\ hurt[t])
     /\ \A t \in Task : inside[t] /\ ~inside'[t] /\ Writes(F(t)) /\ ~hurt[t]
                          => reg'[F(t).addr] = F(t).data]_vars

\* Once a call on the delay has gone through whole, the parameter is what the
\* FPGA delays by, up to 8 ns, whenever no such call is on its way: until one is
\* cut, overtaken by another, or refused after the form has stored it.
Rounded(o) == LET m == 8 * (Abs(o) \div 8) IN IF o < 0 THEN -m ELSE m

DelayAgrees ==
  (\A t \in Task : ~InDelay(t)) /\ ~apart
     => DelayOf([n \in 0..3 |-> reg[Delay(n)]]) = Rounded(delaycom)

\* Once a command on an entry has gone through whole, the slave of the table is
\* that of the FPGA when no command is on its way, until a frame for it is cut.
SlavesAgree ==
  ~Busy("debug") => \A i \in 0..TbLen - 1 :
                      i \notin dirty => table[i] = reg[Slot(i)]
=============================================================================
