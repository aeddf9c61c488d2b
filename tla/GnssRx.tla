------------------------------- MODULE GnssRx -------------------------------
(***************************************************************************)
(* The sentences of the satellite receiver on their way to the parsers:    *)
(* the DMA fills one buffer, the idle line interrupt (BSP/src/bsp_usart.c) *)
(* ends it with NUL, queues its address - always the same - and lets the   *)
(* DMA begin again at its start; the gnss task (APP/Gnss/gnss_task.c,      *)
(* ut4b0_receiver.c) takes it apart in place with strtok, while the DMA    *)
(* and, for strtok's one place, the web server in the tcpip thread get in  *)
(* between.                                                                *)
(*                                                                         *)
(* A sentence is three cells: head ($ or #, and what it says), star ("*",  *)
(* checksum, \r) and nl (\n).  A checksum is right for its own head only.  *)
(* A star whose * has become NUL is "cut", a head with a NUL in it "torn". *)
(* A library call is one step.                                             *)
(***************************************************************************)
EXTENDS Naturals, Sequences, FiniteSets, FiniteSetsExt

CONSTANTS Size,     \* GNSS_USART_BUF_MAX_SIZE
          Pool,     \* messages the kernel has left for the queue
          MaxSent   \* bound: sentences

ASSUME RxAssumption == Size \in Nat \ {0} /\ Pool \in Nat \ {0} /\ MaxSent \in Nat

VARIABLES buf,       \* g_gnss_usart_rx_buf
          dma,       \* cells the DMA has written since it was enabled
          src,       \* the next cell of the receiver
          line,      \* something came since the line was idle
          posts,     \* messages in g_gnss_msgq
          pc,        \* where the gnss task is
          p,         \* the parser's p,
          msg, star, \*   p_msg, and the * cut off it,
          good,      \*   and the sentence that was verified
          place,     \* whose string strtok is in
          parsed,    \* history: the sentences parsed, as verified and as read
          fresh,     \*   this burst began with a head and the task at rest,
          whole,     \*   and these are its sentences so far;
          due,       \*   those of the last burst that nothing disturbed;
          overlong,  \*   a burst left less than two cells,
          nothing,   \*   strtok was given an empty string,
          raced,     \*   the echo ran over anything but such a quiet burst,
          beyond     \*   and the task read behind the buffer

uart == <<buf, dma, src, line>>
task == <<pc, p, msg, star, good>>
hist == <<parsed, fresh, whole, due, overlong, nothing, raced, beyond>>
vars == <<uart, posts, task, place, hist>>

Nul == [s |-> 0, k |-> "nul"]
Cell == {Nul} \cup [s : 1..MaxSent, k : {"head", "star", "nl", "cut", "torn"}]

Init == /\ buf = [i \in 0..Size - 1 |-> Nul]
        /\ dma = 0 /\ src = [s |-> 1, k |-> "head"] /\ line = FALSE
        /\ posts = 0
        /\ pc = "init" /\ p = 0 /\ msg = 0 /\ star = 0 /\ good = 0
        /\ place = "gnss"
        /\ parsed = <<>> /\ fresh = FALSE /\ whole = <<>> /\ due = <<>>
        /\ overlong = FALSE /\ nothing = FALSE /\ raced = FALSE /\ beyond = FALSE

Resting == pc = "pend" /\ posts = 0

-----------------------------------------------------------------------------
\* A byte comes; the DMA stops at the end of the buffer.
Receive ==
  /\ src.s <= MaxSent
  /\ src' = CASE src.k = "head" -> [src EXCEPT !.k = "star"]
              [] src.k = "star" -> [src EXCEPT !.k = "nl"]
              [] src.k = "nl"   -> [s |-> src.s + 1, k |-> "head"]
  /\ line' = TRUE
  /\ IF dma < Size THEN buf' = [buf EXCEPT ![dma] = src] /\ dma' = dma + 1
                   ELSE UNCHANGED <<buf, dma>>
  /\ fresh' = IF line THEN fresh ELSE Resting /\ src.k = "head"
  /\ whole' = LET w == IF line THEN whole ELSE <<>>
              IN  IF src.k = "nl" THEN Append(w, src.s) ELSE w
  /\ due' = IF Resting THEN due ELSE <<>>
  /\ overlong' = (overlong \/ dma' + 1 >= Size)
  /\ UNCHANGED <<posts, task, place, parsed, nothing, raced, beyond>>

\* Mutant: a post always finds a message.
PoolIgnored == TRUE

HasMessage == posts < Pool

\* GNSS_USART_IRQHandler on the idle line; the post's error is ignored.
Idle ==
  /\ line
  /\ line' = FALSE /\ dma' = 0
  /\ IF dma >= Size
     THEN due' = <<>> /\ UNCHANGED <<buf, posts>>
     ELSE /\ buf' = [i \in DOMAIN buf |-> IF i = dma THEN Nul ELSE buf[i]]
          /\ posts' = IF HasMessage THEN posts + 1 ELSE posts
          /\ due' = IF fresh /\ Resting /\ src.k = "head" THEN whole ELSE <<>>
  /\ UNCHANGED <<src, task, place, parsed, fresh, whole, overlong,
                 nothing, raced, beyond>>

\* A web page or a form: user_cmd_parser calls strtok in the tcpip thread.
Web ==
  /\ pc # "init" /\ place' = "web"
  /\ due' = IF pc = "verify" THEN <<>> ELSE due
  /\ UNCHANGED <<uart, posts, task, parsed, fresh, whole, overlong, nothing,
                 raced, beyond>>

-----------------------------------------------------------------------------
\* gnss_init takes more than 10 s.
InitEnds ==
  /\ pc = "init" /\ pc' = "pend"
  /\ UNCHANGED <<uart, posts, p, msg, star, good, place, hist>>

\* The echo of $SATEPRINT may be on or off.
Pend ==
  /\ pc = "pend" /\ posts > 0
  /\ posts' = posts - 1
  /\ pc' \in {"echo", "walk"} /\ p' = 0
  /\ UNCHANGED <<uart, msg, star, good, place, hist>>

\* What is behind the buffer is not known to hold anything.
At(i) == IF i < Size THEN buf[i] ELSE Nul

LineEnd(i) == Min({j \in i..Size + 1 : j >= Size \/ buf[j].k = "nl"})

\* gnss_stmt_echo looks for NUL where a line begins, and in the line for \n only;
\* behind the buffer it may find an end or none.
Echo ==
  LET over == LineEnd(p) >= Size IN
  /\ pc = "echo"
  /\ raced' = (raced \/ due = <<>>)
  /\ \/ /\ At(p).k \in {"nul", "cut"}
        /\ beyond' = (beyond \/ p >= Size) /\ pc' = "walk" /\ p' = 0
     \/ /\ At(p).k \notin {"nul", "cut"}
        /\ beyond' = (beyond \/ over)
        /\ IF over THEN pc' \in {"walk", "lost"} /\ p' = 0
                   ELSE p' = LineEnd(p) + 1 /\ UNCHANGED pc
  /\ UNCHANGED <<uart, posts, msg, star, good, place, parsed, fresh, whole, due,
                 overlong, nothing>>

\* The first cell from i on of one of these kinds, or where the string ends.
Find(i, kinds) ==
  Min({j \in i..Size :
         j = Size \/ buf[j].k \in kinds \cup {"nul", "cut", "torn"}})

\* Mutant: p stays.
Stays(i) == i

\* Mutant: p skips the NUL and what is behind it.
Leaps(i) == i + 2

\* p++
Forth(i) == i + 1

\* The loop of ut4b0_receiver_msg_parser.
Walk ==
  /\ pc = "walk"
  /\ beyond' = (beyond \/ p >= Size)
  /\ \/ At(p).k \in {"nul", "cut"} /\ pc' = "pend" /\ UNCHANGED p
     \/ At(p).k = "head" /\ pc' = "scan" /\ UNCHANGED p
     \/ At(p).k \in {"star", "nl", "torn"} /\ p' = Forth(p) /\ UNCHANGED pc
  /\ UNCHANGED <<uart, posts, msg, star, good, place, parsed, fresh, whole, due,
                 overlong, nothing, raced>>

\* strtok(p, "\n") looks for a string behind the \n that have come there.  A NUL
\* that the interrupt has put there by now makes it return NULL, and strlen of
\* that is anything.
Scan ==
  LET i == Find(p, {"head", "star"})
      j == Find(i, {"nl"})
  IN
  /\ pc = "scan"
  /\ beyond' = (beyond \/ j = Size)
  /\ IF At(i).k \in {"nul", "cut"}
     THEN /\ nothing' = TRUE /\ pc' = "walk"
          /\ p' \in p + 1..Size
          /\ UNCHANGED <<buf, msg, place>>
     ELSE /\ msg' = i /\ place' = "gnss" /\ pc' = "skip"
          /\ buf' = IF At(j).k = "nl" THEN [buf EXCEPT ![j] = Nul] ELSE buf
          /\ UNCHANGED <<p, nothing>>
  /\ UNCHANGED <<dma, src, line, posts, star, good, parsed, fresh, whole, due,
                 overlong, raced>>

\* p += strlen(p_msg)
Skip ==
  LET j == Find(msg, {}) IN
  /\ pc = "skip"
  /\ p' = IF p + j - msg < Size THEN p + j - msg ELSE Size
  /\ pc' = "check"
  /\ beyond' = (beyond \/ j = Size)
  /\ UNCHANGED <<uart, posts, msg, star, good, place, parsed, fresh, whole, due,
                 overlong, nothing, raced>>

\* strchr for * and \r
Check ==
  LET j == Find(msg, {"star"}) IN
  /\ pc = "check"
  /\ beyond' = (beyond \/ j = Size)
  /\ IF At(j).k = "star" THEN pc' = "match" /\ UNCHANGED p
                         ELSE pc' = "walk" /\ p' = Forth(p)
  /\ UNCHANGED <<uart, posts, msg, star, good, place, parsed, fresh, whole, due,
                 overlong, nothing, raced>>

\* ut4b0_check_cmdhandler: strncmp with the known heads
Match ==
  /\ pc = "match"
  /\ pc' = IF At(msg).k = "head" THEN "cut" ELSE "tear"
  /\ UNCHANGED <<uart, posts, p, msg, star, good, place, hist>>

\* Mutant: the sentence is left as it is.
CutIn(j) == buf

\* strtok puts NUL in the place of *.
CutOff(j) == [buf EXCEPT ![j].k = "cut"]

\* strtok(pdata, "*") passes over a * in the first place; if there is none any
\* more, strtok(NULL, "\r") finds nothing.
Cut ==
  LET j == Find(IF At(msg).k = "star" THEN msg + 1 ELSE msg, {"star"}) IN
  /\ pc = "cut"
  /\ beyond' = (beyond \/ j = Size)
  /\ place' = "gnss"
  /\ IF At(j).k = "star"
     THEN star' = j /\ pc' = "verify" /\ buf' = CutOff(j) /\ UNCHANGED p
     ELSE pc' = "walk" /\ p' = Forth(p) /\ UNCHANGED <<buf, star>>
  /\ UNCHANGED <<dma, src, line, posts, msg, good, parsed, fresh, whole, due,
                 overlong, nothing, raced>>

\* The sentence is not known: strtok(pdata, ",").
Tear ==
  LET h == Find(msg, {"head"}) IN
  /\ pc = "tear"
  /\ beyond' = (beyond \/ h = Size)
  /\ buf' = IF At(h).k = "head" THEN [buf EXCEPT ![h].k = "torn"] ELSE buf
  /\ place' = "gnss" /\ pc' = "walk" /\ p' = Forth(p)
  /\ UNCHANGED <<dma, src, line, posts, msg, star, good, parsed, fresh, whole,
                 due, overlong, nothing, raced>>

\* strtok(NULL, "\r") cuts the checksum off, or whatever is there by now, unless
\* the web server's string is the one it is in; ut4b0_checkcode_compare.
Verify ==
  LET j == Find(star, {"star"})
      code == place = "gnss" /\ buf[star].k = "cut" IN
  /\ pc = "verify"
  /\ buf' = IF place = "gnss" /\ ~code /\ At(j).k = "star"
            THEN [buf EXCEPT ![j].k = "cut"] ELSE buf
  /\ IF /\ code /\ buf[msg] = [s |-> buf[star].s, k |-> "head"]
        /\ Find(msg, {}) = star
     THEN pc' = "parse" /\ good' = buf[star].s /\ UNCHANGED p
     ELSE pc' = "walk" /\ p' = Forth(p) /\ UNCHANGED good
  /\ UNCHANGED <<dma, src, line, posts, msg, star, place, hist>>

\* Mutant: * is put back for the echo.
PutBack == [buf EXCEPT ![star].k = IF @ = "cut" THEN "star" ELSE @]

LeftCut == buf

\* parse_func reads the sentence again, and looks for its commas and semicolon
\* until it finds them: in what was written over it, perhaps never.
Parse ==
  LET read == {buf[msg].s, buf[star].s} IN
  /\ pc = "parse"
  /\ parsed' = Append(parsed, [s |-> good, read |-> read])
  /\ pc' \in IF read = {good} THEN {"walk"} ELSE {"walk", "lost"}
  /\ p' = Forth(p) /\ good' = 0
  /\ buf' = LeftCut
  /\ UNCHANGED <<dma, src, line, posts, msg, star, place, fresh, whole, due,
                 overlong, nothing, raced, beyond>>

Task == \/ InitEnds \/ Pend \/ Echo \/ Walk \/ Scan \/ Skip \/ Check
        \/ Match \/ Cut \/ Tear \/ Verify \/ Parse

Next == Receive \/ Idle \/ Web \/ Task

Spec == Init /\ [][Next]_vars

\* The gnss task runs; nothing is asked of the receiver.
FairSpec == Spec /\ WF_vars(Task)

-----------------------------------------------------------------------------
\* Type invariant.
TypeOK ==
  /\ buf \in [0..Size - 1 -> Cell] /\ dma \in 0..Size
  /\ src \in [s : 1..MaxSent + 1, k : {"head", "star", "nl"}]
  /\ line \in BOOLEAN /\ posts \in 0..Pool
  /\ pc \in {"init", "pend", "echo", "walk", "scan", "skip", "check",
             "match", "cut", "tear", "verify", "parse", "lost"}
  /\ p \in 0..Size + 1 /\ msg \in 0..Size - 1 /\ star \in 0..Size - 1
  /\ good \in 0..MaxSent /\ place \in {"gnss", "web"}
  /\ parsed \in Seq([s : 1..MaxSent, read : SUBSET (0..MaxSent)])
  /\ whole \in Seq(1..MaxSent) /\ due \in Seq(1..MaxSent)
  /\ {fresh, overlong, nothing, raced, beyond} \subseteq BOOLEAN

\* Several messages name the same buffer, and what an earlier burst left in it
\* is walked over again; still no sentence is parsed twice.
ParsedOnce == \A i, j \in DOMAIN parsed : parsed[i].s = parsed[j].s => i = j

\* Of a burst that fits, came whole while the task waited, and that nothing
\* follows before the task waits again, every sentence is parsed, in order,
\* as it was verified.
QuietBurstParsed ==
  Resting => /\ Len(due) <= Len(parsed)
             /\ \A i \in DOMAIN due :
                  parsed[Len(parsed) - Len(due) + i]
                    = [s |-> due[i], read |-> {due[i]}]

\* The task finds an end in the buffer, wherever the DMA is, unless a burst has
\* left no room for two NULs (the parser passes over the first when a sentence
\* is cut short), or the interrupt has put its NUL where the task stands, or the
\* echo got anything but whole sentences that nothing touched.
StaysInBuffer == ~overlong /\ ~nothing /\ ~raced => ~beyond

\* Every message that is queued is dealt with, unless a loop without a bound ran
\* over text that is no sentence any more.
Drains == posts > 0 ~> Resting \/ pc = "lost"
=============================================================================
