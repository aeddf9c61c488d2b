----------------------------- MODULE RxProofs -----------------------------
(***************************************************************************)
(* Theorems about GnssRx, for every size of the buffer and of the pool and *)
(* any number of sentences: what the gnss task makes of a buffer that the  *)
(* DMA goes on writing.                                                    *)
(***************************************************************************)
EXTENDS GnssRx, SequenceTheorems, WellFoundedInduction, TLAPS

Kind == {"head", "star", "nl", "cut", "torn", "nul"}
Ends == {"nul", "cut", "torn"}

-----------------------------------------------------------------------------
\* Cells.
LEMMA CellType ==
  /\ Nul \in Cell /\ Nul.k = "nul" /\ Nul.s = 0
  /\ \A c \in Cell : /\ c.s \in 0..MaxSent /\ c.k \in Kind
                     /\ c = [s |-> c.s, k |-> c.k]
                     /\ c.k # "nul" => c.s \in 1..MaxSent
                     /\ c.k # "nul" => [s |-> c.s, k |-> "cut"] \in Cell
                     /\ c.k # "nul" => [s |-> c.s, k |-> "torn"] \in Cell
                     /\ c.k = "nul" => c = Nul
BY RxAssumption DEF Cell, Nul, Kind

LEMMA MinNat ==
  ASSUME NEW T, T \subseteq Nat, T # {}
  PROVE  Min(T) \in T /\ \A y \in T : Min(T) <= y
<1>1. PICK x \in T : \A y \in T : ~ (<<y, x>> \in OpToRel(<, Nat))
  BY NatLessThanWellFounded, WFMin, Zenon
<1>2. \A y \in T : ~ (y < x)
  <2>1. ASSUME NEW y \in T, y < x PROVE <<y, x>> \in OpToRel(<, Nat)
    <3>1. y \in Nat /\ x \in Nat
      OBVIOUS
    <3>2. QED
      BY <2>1, <3>1, Zenon DEF OpToRel
  <2>2. QED
    BY <1>1, <2>1
<1>3. QED
  <2>1. \E z \in T : \A y \in T : z <= y
    BY <1>2
  <2>2. QED
    BY <2>1 DEF Min

\* Find is the first cell that it may stop at.
LEMMA FindIs ==
  ASSUME NEW i \in 0..Size, NEW kinds
  PROVE  /\ Find(i, kinds) \in i..Size
         /\ Find(i, kinds) = Size \/ buf[Find(i, kinds)].k \in kinds \cup Ends
         /\ \A m \in i..Size : m < Find(i, kinds) =>
              buf[m].k \notin kinds \cup Ends
<1> DEFINE T == {j \in i..Size :
                   \/ j = Size
                   \/ buf[j].k \in kinds \cup {"nul", "cut", "torn"}}
<1>1. T \subseteq Nat /\ Size \in T
  BY RxAssumption
<1>2. Min(T) \in T /\ \A y \in T : Min(T) <= y
  BY <1>1, MinNat
<1>3. Find(i, kinds) = Min(T)
  BY DEF Find
<1> HIDE DEF T
<1>4. \A m \in i..Size : m < Min(T) => m \notin T
  <2>1. \A m \in i..Size : m \in Nat
    BY RxAssumption
  <2>2. Min(T) \in Nat
    BY <1>1, <1>2
  <2>3. QED
    BY <1>2, <2>1, <2>2
<1>5. QED
  BY <1>2, <1>3, <1>4, RxAssumption DEF T, Ends

\* LineEnd is the first \n, or behind the buffer.
LEMMA LineEndIs ==
  ASSUME NEW i \in 0..Size + 1
  PROVE  /\ LineEnd(i) \in i..Size + 1
         /\ LineEnd(i) >= Size \/ buf[LineEnd(i)].k = "nl"
         /\ \A m \in i..Size + 1 : m < LineEnd(i) => m < Size /\ buf[m].k # "nl"
<1> DEFINE T == {j \in i..Size + 1 : j >= Size \/ buf[j].k = "nl"}
<1>1. T \subseteq Nat /\ Size + 1 \in T
  BY RxAssumption
<1>2. Min(T) \in T /\ \A y \in T : Min(T) <= y
  BY <1>1, MinNat
<1>3. LineEnd(i) = Min(T)
  BY DEF LineEnd
<1> HIDE DEF T
<1>4. \A m \in i..Size + 1 : m < Min(T) => m \notin T
  <2>1. \A m \in i..Size + 1 : m \in Nat
    BY RxAssumption
  <2>2. Min(T) \in Nat
    BY <1>1, <1>2
  <2>3. QED
    BY <1>2, <2>1, <2>2
<1>5. QED
  BY <1>2, <1>3, <1>4, RxAssumption DEF T

LEMMA AtIs ==
  ASSUME buf \in [0..Size - 1 -> Cell], NEW i \in Nat
  PROVE  /\ At(i) \in Cell
         /\ At(i).k # "nul" => i \in 0..Size - 1 /\ At(i) = buf[i]
         /\ i < Size => At(i) = buf[i]
         /\ i >= Size => At(i) = Nul
BY CellType, RxAssumption DEF At

\* A cell that strtok writes stays a cell.
LEMMA Rewritten ==
  ASSUME buf \in [0..Size - 1 -> Cell], NEW j \in 0..Size - 1,
         buf[j].k # "nul", NEW kind \in {"cut", "torn"}
  PROVE  /\ [buf EXCEPT ![j].k = kind]
              = [i \in 0..Size - 1 |->
                   IF i = j THEN [s |-> buf[j].s, k |-> kind] ELSE buf[i]]
         /\ [buf EXCEPT ![j].k = kind] \in [0..Size - 1 -> Cell]
<1>1. buf[j] \in Cell /\ buf[j] = [s |-> buf[j].s, k |-> buf[j].k]
  BY CellType
<1>2. [buf[j] EXCEPT !.k = kind] = [s |-> buf[j].s, k |-> kind]
  BY <1>1
<1>3. [buf EXCEPT ![j].k = kind]
        = [i \in 0..Size - 1 |->
             IF i = j THEN [s |-> buf[j].s, k |-> kind] ELSE buf[i]]
  BY <1>2
<1>4. [s |-> buf[j].s, k |-> kind] \in Cell
  BY <1>1, CellType
<1>5. QED
  BY <1>3, <1>4

-----------------------------------------------------------------------------
\* Where the parser's p can be.
PInv ==
  /\ pc = "scan" => p < Size
  /\ pc \in {"skip", "check", "match", "cut", "tear", "verify", "parse"} => p <= Size
  /\ pc = "parse" => good # 0

TypeInv == TypeOK /\ PInv

LEMMA InBuffer ==
  ASSUME TypeInv
  PROVE  /\ buf \in [0..Size - 1 -> Cell] /\ dma \in 0..Size
         /\ p \in 0..Size + 1 /\ msg \in 0..Size /\ star \in 0..Size
<1>1. /\ buf \in [0..Size - 1 -> Cell] /\ dma \in 0..Size /\ p \in 0..Size + 1
      /\ msg \in 0..Size - 1 /\ star \in 0..Size - 1
  BY DEF TypeInv, TypeOK
<1>2. QED
  BY <1>1, RxAssumption

LEMMA Before ==
  ASSUME TypeInv, pc \in {"check", "cut", "tear", "verify", "parse"}
  PROVE  p + 1 \in 0..Size + 1
<1>1. p \in 0..Size + 1 /\ p <= Size
  BY DEF TypeInv, TypeOK, PInv
<1>2. QED
  BY <1>1, RxAssumption

LEMMA TypeInit == Init => TypeInv
<1> SUFFICES ASSUME Init PROVE TypeInv
  OBVIOUS
<1>1. /\ buf \in [0..Size - 1 -> Cell] /\ dma \in 0..Size /\ posts \in 0..Pool
      /\ src \in [s : 1..MaxSent + 1, k : {"head", "star", "nl"}]
  BY CellType, RxAssumption DEF Init
<1>2. /\ p \in 0..Size + 1 /\ msg \in 0..Size - 1 /\ star \in 0..Size - 1
      /\ good \in 0..MaxSent
  BY RxAssumption DEF Init
<1>3. /\ parsed \in Seq([s : 1..MaxSent, read : SUBSET (0..MaxSent)])
      /\ whole \in Seq(1..MaxSent) /\ due \in Seq(1..MaxSent)
  BY DEF Init
<1>4. /\ {fresh, overlong, nothing, raced, beyond} \subseteq BOOLEAN
      /\ line \in BOOLEAN /\ pc = "init" /\ place \in {"gnss", "web"}
  BY DEF Init
<1>5. QED
  BY <1>1, <1>2, <1>3, <1>4 DEF TypeInv, TypeOK, PInv

\* A byte, and the one after it.
LEMMA Steps ==
  ASSUME TypeInv, Receive
  PROVE  /\ src \in Cell /\ src.s \in 1..MaxSent
         /\ src.k \in {"head", "star", "nl"} /\ src.k # "nul"
         /\ src = [s |-> src.s, k |-> src.k]
         /\ src.k = "head" => src' = [s |-> src.s, k |-> "star"]
         /\ src.k = "star" => src' = [s |-> src.s, k |-> "nl"]
         /\ src.k = "nl" => src' = [s |-> src.s + 1, k |-> "head"]
         /\ src' \in [s : 1..MaxSent + 1, k : {"head", "star", "nl"}]
<1>1. src \in [s : 1..MaxSent + 1, k : {"head", "star", "nl"}] /\ src.s <= MaxSent
  BY DEF TypeInv, TypeOK, Receive
<1>2. src.s \in 1..MaxSent /\ src.k \in {"head", "star", "nl"}
      /\ src = [s |-> src.s, k |-> src.k]
  BY <1>1, RxAssumption
<1>3. src \in Cell
  BY <1>2 DEF Cell
<1>4. src' = CASE src.k = "head" -> [src EXCEPT !.k = "star"]
              [] src.k = "star" -> [src EXCEPT !.k = "nl"]
              [] src.k = "nl"   -> [s |-> src.s + 1, k |-> "head"]
  BY DEF Receive
<1>5. /\ [src EXCEPT !.k = "star"] = [s |-> src.s, k |-> "star"]
      /\ [src EXCEPT !.k = "nl"] = [s |-> src.s, k |-> "nl"]
  BY <1>2
<1>6. /\ src.k = "head" => src' = [s |-> src.s, k |-> "star"]
      /\ src.k = "star" => src' = [s |-> src.s, k |-> "nl"]
      /\ src.k = "nl" => src' = [s |-> src.s + 1, k |-> "head"]
  BY <1>2, <1>4, <1>5
<1>7. src' \in [s : 1..MaxSent + 1, k : {"head", "star", "nl"}]
  BY <1>2, <1>6, RxAssumption
<1>8. QED
  BY <1>2, <1>3, <1>6, <1>7

LEMMA Nothing == <<>> \in Seq(1..MaxSent)
OBVIOUS

LEMMA TypeReceive ==
  ASSUME TypeInv, Receive
  PROVE  TypeInv'
<1> USE DEF TypeInv, TypeOK
<1>1. src.s \in 1..MaxSent /\ src \in Cell
  BY Steps
<1>2. src' \in [s : 1..MaxSent + 1, k : {"head", "star", "nl"}]
  BY <1>1, Steps
<1>3. buf' \in [0..Size - 1 -> Cell] /\ dma' \in 0..Size
  <2>1. \/ dma < Size /\ buf' = [buf EXCEPT ![dma] = src] /\ dma' = dma + 1
        \/ UNCHANGED <<buf, dma>>
    BY DEF Receive
  <2>2. CASE dma < Size /\ buf' = [buf EXCEPT ![dma] = src] /\ dma' = dma + 1
    <3>1. dma \in 0..Size - 1
      BY <2>2, RxAssumption
    <3>2. QED
      BY <1>1, <2>2, <3>1, RxAssumption
  <2>3. QED
    BY <2>1, <2>2
<1>4. whole' \in Seq(1..MaxSent)
  <2> DEFINE w == IF line THEN whole ELSE <<>>
  <2>2. w \in Seq(1..MaxSent)
    BY Nothing
  <2>3. Append(w, src.s) \in Seq(1..MaxSent)
    BY <1>1, <2>2, AppendProperties
  <2>4. whole' = IF src.k = "nl" THEN Append(w, src.s) ELSE w
    BY DEF Receive
  <2> HIDE DEF w
  <2>5. QED
    BY <2>2, <2>3, <2>4
<1>5. due' \in Seq(1..MaxSent)
  BY Nothing DEF Receive
<1>6. fresh' \in BOOLEAN /\ overlong' \in BOOLEAN
  BY DEF Receive, Resting
<1>7. QED
  BY <1>2, <1>3, <1>4, <1>5, <1>6 DEF Receive, task, PInv, hist

LEMMA TypeIdle ==
  ASSUME TypeInv, Idle
  PROVE  TypeInv'
<1>0. /\ buf \in [0..Size - 1 -> Cell] /\ posts \in 0..Pool
      /\ whole \in Seq(1..MaxSent) /\ due \in Seq(1..MaxSent)
  BY DEF TypeInv, TypeOK
<1>1. buf' \in [0..Size - 1 -> Cell]
  BY <1>0, CellType DEF Idle
<1>2. posts' \in 0..Pool
  BY <1>0, RxAssumption DEF Idle, HasMessage
<1>3. due' \in Seq(1..MaxSent)
  BY <1>0, Nothing DEF Idle
<1>4. /\ dma' = 0 /\ line' = FALSE
      /\ UNCHANGED <<src, task, place, parsed, fresh, whole, overlong, nothing,
                     raced, beyond>>
  BY DEF Idle
<1>5. UNCHANGED <<src, pc, p, msg, star, good, place, parsed, fresh, whole, overlong,
                  nothing, raced, beyond>>
  BY <1>4 DEF task
<1>6. dma' \in 0..Size /\ line' \in BOOLEAN
  <2>1. dma' = 0 /\ line' = FALSE
    BY <1>4
  <2>2. 0 \in 0..Size
    BY RxAssumption
  <2>3. QED
    BY <2>1, <2>2, Zenon
<1>7. PInv' /\ pc' \in {"init", "pend", "echo", "walk", "scan", "skip", "check",
                        "match", "cut", "tear", "verify", "parse", "lost"}
  BY <1>5 DEF TypeInv, TypeOK, PInv
<1>8. QED
  BY <1>1, <1>2, <1>3, <1>5, <1>6, <1>7 DEF TypeInv, TypeOK

LEMMA TypeWeb ==
  ASSUME TypeInv, Web
  PROVE  TypeInv'
<1>1. due' \in Seq(1..MaxSent)
  BY Nothing DEF Web, TypeInv, TypeOK
<1>2. QED
  BY <1>1 DEF Web, TypeInv, TypeOK, uart, task, PInv

LEMMA TypeTask ==
  ASSUME TypeInv, Task
  PROVE  TypeInv'
<1> USE DEF TypeInv, TypeOK
<1>1. CASE InitEnds
  BY <1>1 DEF InitEnds, uart, hist, PInv
<1>2. CASE Pend
  <2>1. p' \in 0..Size + 1 /\ posts' \in 0..Pool
    BY <1>2, RxAssumption DEF Pend
  <2>2. /\ pc' \in {"echo", "walk"}
        /\ UNCHANGED <<buf, dma, src, line, msg, star, good, place, parsed, fresh, whole,
                       due, overlong, nothing, raced, beyond>>
    BY <1>2 DEF Pend, uart, hist
  <2>3. PInv'
    BY <2>2 DEF PInv
  <2>4. pc' \in {"init", "pend", "echo", "walk", "scan", "skip", "check", "match",
                "cut", "tear", "verify", "parse", "lost"}
    BY <2>2
  <2>5. {fresh', overlong', nothing', raced', beyond'} \subseteq BOOLEAN
    BY <2>2
  <2>6. QED
    BY <2>1, <2>2, <2>3, <2>4, <2>5, SMTT(30)
<1>3. CASE Walk
  <2>1. beyond' \in BOOLEAN
    BY <1>3 DEF Walk
  <2>2. p' \in 0..Size + 1 /\ (pc' = "scan" => p' < Size)
    <3>1. p \in 0..Size + 1
      OBVIOUS
    <3>2. At(p).k \in {"head", "star", "nl", "torn"} => p < Size
      BY <3>1, RxAssumption DEF At, Nul
    <3>3. \/ p' = p /\ (pc' = "scan" => At(p).k = "head")
          \/ p' = p + 1 /\ pc' = "walk" /\ At(p).k \in {"star", "nl", "torn"}
      BY <1>3, Zenon DEF Walk, Forth
    <3>4. CASE p' = p
      <4>1. pc' = "scan" => p < Size
        BY <3>2, <3>3, <1>3 DEF Walk
      <4>2. QED
        BY <3>1, <3>4, <4>1
    <3>5. CASE p' = p + 1 /\ pc' = "walk" /\ p < Size
      BY <3>1, <3>5, RxAssumption
    <3>6. QED
      BY <3>2, <3>3, <3>4, <3>5
  <2>3. QED
    BY <1>3, <2>1, <2>2 DEF Walk, uart, hist, PInv
<1>4. CASE Scan
  <2> DEFINE i == Find(p, {"head", "star"})
             j == Find(i, {"nl"})
  <2>1. i \in p..Size /\ i \in 0..Size /\ i \in Nat
    <3>1. p \in 0..Size
      BY <1>4, RxAssumption DEF Scan, PInv
    <3>2. i \in p..Size
      BY <3>1, FindIs
    <3>3. QED
      BY <3>1, <3>2
  <2> HIDE DEF i
  <2>2. j \in i..Size /\ j \in Nat
    <3>1. j \in i..Size
      BY <2>1, FindIs
    <3>2. QED
      BY <2>1, <3>1
  <2> HIDE DEF j
  <2>3. beyond' \in BOOLEAN
    BY <1>4 DEF Scan
  <2>4. CASE At(i).k \in {"nul", "cut"}
    <3>1. /\ nothing' = TRUE /\ pc' = "walk" /\ p' \in p + 1..Size
          /\ UNCHANGED <<buf, msg, place>>
      BY <1>4, <2>4 DEF Scan, i
    <3>2. QED
      BY <1>4, <2>3, <3>1, RxAssumption DEF Scan, PInv
  <2>5. CASE At(i).k \notin {"nul", "cut"}
    <3>1. /\ msg' = i /\ place' = "gnss" /\ pc' = "skip"
          /\ buf' = IF At(j).k = "nl" THEN [buf EXCEPT ![j] = Nul] ELSE buf
          /\ UNCHANGED <<p, nothing>>
      BY <1>4, <2>5 DEF Scan, i, j
    <3>2. i \in 0..Size - 1
      BY <2>1, <2>5, AtIs, CellType
    <3>3. buf' \in [0..Size - 1 -> Cell]
      BY <3>1, CellType
    <3>4. QED
      BY <1>4, <2>3, <3>1, <3>2, <3>3, RxAssumption DEF Scan, PInv
  <2>6. QED
    BY <2>4, <2>5
<1>5. CASE Skip
  <2> DEFINE j == Find(msg, {})
  <2>1. j \in msg..Size
    <3>1. msg \in 0..Size
      BY InBuffer
    <3>2. QED
      BY <3>1, FindIs
  <2>2. p' \in 0..Size
    BY <1>5, <2>1, RxAssumption DEF Skip, PInv
  <2>3. beyond' \in BOOLEAN
    BY <1>5 DEF Skip
  <2>4. QED
    BY <1>5, <2>2, <2>3, RxAssumption DEF Skip, uart, PInv
<1>6. CASE Cut
  <2> DEFINE i == IF At(msg).k = "star" THEN msg + 1 ELSE msg
             j == Find(i, {"star"})
  <2>1. j \in Nat
    <3>1. i \in 0..Size
      BY RxAssumption
    <3> HIDE DEF i
    <3>2. QED
      BY <3>1, FindIs, RxAssumption
  <2> HIDE DEF j
  <2>2. beyond' \in BOOLEAN
    BY <1>6 DEF Cut
  <2>3. CASE At(j).k = "star"
    <3>1. j \in 0..Size - 1 /\ buf[j].k # "nul"
      BY <2>1, <2>3, AtIs
    <3>2. /\ star' = j /\ pc' = "verify" /\ buf' = CutOff(j) /\ UNCHANGED p
      BY <1>6, <2>3 DEF Cut, j
    <3>3. buf' \in [0..Size - 1 -> Cell]
      BY <3>1, <3>2, Rewritten DEF CutOff
    <3>4. QED
      BY <1>6, <2>2, <3>1, <3>2, <3>3 DEF Cut, PInv
  <2>4. CASE At(j).k # "star"
    <3>1. pc' = "walk" /\ p' = Forth(p) /\ UNCHANGED <<buf, star>>
      BY <1>6, <2>4 DEF Cut, j
    <3>2. QED
      BY <1>6, <2>2, <3>1, RxAssumption DEF Cut, PInv, Forth
  <2>5. QED
    BY <2>3, <2>4
<1>10. CASE Check
  <2>1. beyond' \in BOOLEAN
    BY <1>10 DEF Check
  <2>2. \/ pc' = "match" /\ UNCHANGED p
        \/ pc' = "walk" /\ p' = Forth(p)
    BY <1>10 DEF Check
  <2>3. QED
    BY <1>10, <2>1, <2>2, RxAssumption DEF Check, uart, PInv, Forth
<1>11. CASE Match
  BY <1>11 DEF Match, uart, hist, PInv
<1>12. CASE Tear
  <2> DEFINE h == Find(msg, {"head"})
  <2>1. h \in Nat
    BY InBuffer, FindIs, RxAssumption
  <2> HIDE DEF h
  <2>2. beyond' \in BOOLEAN
    BY <1>12 DEF Tear
  <2>3. At(h).k = "head" => h \in 0..Size - 1 /\ buf[h].k # "nul"
    BY <2>1, AtIs
  <2>4. buf' = IF At(h).k = "head" THEN [buf EXCEPT ![h].k = "torn"] ELSE buf
    BY <1>12 DEF Tear, h
  <2>5. buf' \in [0..Size - 1 -> Cell]
    BY <2>3, <2>4, Rewritten
  <2>6. /\ pc' = "walk" /\ place' = "gnss" /\ p' = p + 1
        /\ UNCHANGED <<dma, src, line, posts, msg, star, good, parsed, fresh, whole, due,
                       overlong, nothing, raced>>
    BY <1>12 DEF Tear, Forth
  <2>7. p' \in 0..Size + 1
    BY <1>12, <2>6, Before DEF Tear
  <2>8. PInv'
    BY <2>6 DEF PInv
  <2>9. QED
    BY <2>2, <2>5, <2>6, <2>7, <2>8
<1>13. CASE Echo
  <2>1. LineEnd(p) \in p..Size + 1
    BY LineEndIs
  <2>2. beyond' \in BOOLEAN /\ raced' \in BOOLEAN
    BY <1>13 DEF Echo
  <2>3. p' \in 0..Size + 1 /\ pc' \in {"walk", "echo", "lost"}
    BY <1>13, <2>1, RxAssumption DEF Echo
  <2>4. QED
    BY <1>13, <2>2, <2>3 DEF Echo, uart, PInv
<1>7. CASE Verify
  <2> DEFINE j == Find(star, {"star"})
             code == place = "gnss" /\ buf[star].k = "cut"
  <2>1. j \in Nat
    BY InBuffer, FindIs, RxAssumption
  <2> HIDE DEF j, code
  <2>2. buf' \in [0..Size - 1 -> Cell]
    <3>1. At(j).k = "star" => j \in 0..Size - 1 /\ buf[j].k # "nul"
      BY <2>1, AtIs
    <3>2. buf' = IF place = "gnss" /\ ~code /\ At(j).k = "star"
                 THEN [buf EXCEPT ![j].k = "cut"] ELSE buf
      BY <1>7 DEF Verify, j, code
    <3>3. QED
      BY <3>1, <3>2, Rewritten
  <2>3. \/ code /\ pc' = "parse" /\ good' = buf[star].s /\ UNCHANGED p
        \/ pc' = "walk" /\ p' = Forth(p) /\ UNCHANGED good
    BY <1>7 DEF Verify, code
  <2>4. code => buf[star].s \in 1..MaxSent
    BY CellType DEF code
  <2>5. p <= Size
    BY <1>7 DEF Verify, PInv
  <2>9. p + 1 \in 0..Size + 1
    BY <2>5, RxAssumption
  <2>8. /\ pc' \in {"walk", "parse"} /\ p' \in 0..Size + 1 /\ good' \in 0..MaxSent
        /\ pc' = "parse" => p' <= Size /\ good' # 0
    <3>1. CASE code /\ pc' = "parse" /\ good' = buf[star].s /\ UNCHANGED p
      BY <2>4, <2>5, <3>1
    <3>2. CASE pc' = "walk" /\ p' = Forth(p) /\ UNCHANGED good
      BY <2>9, <3>2 DEF Forth
    <3>3. QED
      BY <2>3, <3>1, <3>2
  <2>6. UNCHANGED <<dma, src, line, posts, msg, star, place, hist>>
    BY <1>7 DEF Verify
  <2>7. QED
    BY <2>2, <2>6, <2>8 DEF hist, PInv
<1>8. CASE Parse
  <2>1. buf[msg].s \in 0..MaxSent /\ buf[star].s \in 0..MaxSent
    BY CellType
  <2>2. [s |-> good, read |-> {buf[msg].s, buf[star].s}]
          \in [s : 1..MaxSent, read : SUBSET (0..MaxSent)]
    BY <1>8, <2>1, RxAssumption DEF Parse, PInv
  <2>3. parsed' \in Seq([s : 1..MaxSent, read : SUBSET (0..MaxSent)])
    BY <1>8, <2>2, AppendProperties DEF Parse
  <2>4. pc' \in {"walk", "lost"}
    BY <1>8 DEF Parse
  <2>5. QED
    BY <1>8, <2>3, <2>4, RxAssumption DEF Parse, LeftCut, PInv, Forth
<1>9. QED
  BY <1>1, <1>2, <1>3, <1>4, <1>5, <1>6, <1>7, <1>8, <1>10, <1>11, <1>12, <1>13
     DEF Task

-----------------------------------------------------------------------------
\* A star is received once and cut once: that of a sentence that was parsed, or
\* is about to be, is not in the buffer and will not come any more.
Sent(s) == s < src.s \/ (s = src.s /\ src.k = "nl")
Star(i, s) == buf[i].k = "star" /\ buf[i].s = s
Gone(s) == Sent(s) /\ \A i \in 0..Size - 1 : ~ Star(i, s)
Parsed(s) == \E n \in 1..Len(parsed) : parsed[n].s = s

OnceInv ==
  /\ \A i \in 0..Size - 1 : buf[i].k = "star" => Sent(buf[i].s)
  /\ \A s \in Nat : \A i, j \in 0..Size - 1 : Star(i, s) /\ Star(j, s) => i = j
  /\ \A n \in 1..Len(parsed) : Gone(parsed[n].s)
  /\ \A m, n \in 1..Len(parsed) : parsed[m].s = parsed[n].s => m = n
  /\ pc = "verify" /\ buf[star].k = "cut" =>
       Gone(buf[star].s) /\ ~ Parsed(buf[star].s)
  /\ pc = "parse" => Gone(good) /\ ~ Parsed(good)

LEMMA ParsedSeq ==
  ASSUME TypeOK
  PROVE  /\ parsed \in Seq([s : 1..MaxSent, read : SUBSET (0..MaxSent)])
         /\ Len(parsed) \in Nat /\ DOMAIN parsed = 1..Len(parsed)
         /\ \A n \in 1..Len(parsed) : parsed[n].s \in 1..MaxSent
<1>1. parsed \in Seq([s : 1..MaxSent, read : SUBSET (0..MaxSent)])
  BY DEF TypeOK
<1>2. /\ Len(parsed) \in Nat /\ DOMAIN parsed = 1..Len(parsed)
      /\ \A n \in 1..Len(parsed) :
           parsed[n] \in [s : 1..MaxSent, read : SUBSET (0..MaxSent)]
  BY <1>1, LenProperties, ElementOfSeq
<1>3. QED
  BY <1>1, <1>2

\* A step of the code writes no star.
LEMMA OnceErase ==
  ASSUME TypeInv, TypeInv', OnceInv, UNCHANGED <<src, parsed>>,
         \A i \in 0..Size - 1 : buf'[i] = buf[i] \/ buf'[i].k # "star",
         pc' = "verify" =>
           /\ pc = "verify" /\ star' = star
           /\ buf'[star] = buf[star] \/ buf'[star].k # "cut",
         pc' = "parse" =>
           \/ pc = "parse" /\ good' = good
           \/ pc = "verify" /\ buf[star].k = "cut" /\ good' = buf[star].s
  PROVE  OnceInv'
<1>1. \A s : Sent(s)' = Sent(s) /\ Parsed(s)' = Parsed(s)
  BY DEF Sent, Parsed
<1>2. \A s : \A i \in 0..Size - 1 : Star(i, s)' => Star(i, s)
  BY DEF Star
<1>3. \A s : Gone(s) => Gone(s)'
  BY <1>1, <1>2 DEF Gone
<1>4. (\A i \in 0..Size - 1 : buf[i].k = "star" => Sent(buf[i].s))'
  BY <1>1 DEF OnceInv
<1>5. (\A s \in Nat : \A i, j \in 0..Size - 1 : Star(i, s) /\ Star(j, s) => i = j)'
  BY <1>2 DEF OnceInv
<1>6. (\A n \in 1..Len(parsed) : Gone(parsed[n].s))'
  BY <1>3 DEF OnceInv
<1>7. (\A m, n \in 1..Len(parsed) : parsed[m].s = parsed[n].s => m = n)'
  BY DEF OnceInv
<1>8. (pc = "verify" /\ buf[star].k = "cut" =>
         Gone(buf[star].s) /\ ~ Parsed(buf[star].s))'
  BY <1>1, <1>3 DEF OnceInv
<1>9. (pc = "parse" => Gone(good) /\ ~ Parsed(good))'
  BY <1>1, <1>3 DEF OnceInv
<1>10. QED
  BY <1>4, <1>5, <1>6, <1>7, <1>8, <1>9 DEF OnceInv

LEMMA OnceReceive ==
  ASSUME TypeInv, OnceInv, Receive
  PROVE  OnceInv'
<1> USE RxAssumption
<1>1. /\ \A i \in 0..Size - 1 : buf[i] \in Cell /\ buf[i].s \in 0..MaxSent
      /\ \A n \in 1..Len(parsed) : parsed[n].s \in 1..MaxSent
      /\ good \in 0..MaxSent /\ star \in 0..Size - 1
  BY CellType, ParsedSeq DEF TypeInv, TypeOK
<1>2. \A s \in Nat : Sent(s) => Sent(s)'
  BY Steps DEF Sent
<1>3. \A s : src.k = "star" /\ src.s = s => ~ Sent(s) /\ Sent(s)'
  BY Steps DEF Sent
<1>4. \A i \in 0..Size - 1 : buf'[i] = buf[i] \/ (i = dma /\ buf'[i] = src)
  BY DEF Receive, TypeInv, TypeOK
<1>5. UNCHANGED <<parsed, pc, star, good>>
  BY DEF Receive, task
<1>6. \A s \in Nat : Gone(s) => Gone(s)'
  BY <1>2, <1>3, <1>4 DEF Gone, Star
<1>7. \A s : Parsed(s)' = Parsed(s)
  BY <1>5 DEF Parsed
<1>8. (\A i \in 0..Size - 1 : buf[i].k = "star" => Sent(buf[i].s))'
  BY <1>1, <1>2, <1>3, <1>4 DEF OnceInv
<1>9. (\A s \in Nat : \A i, j \in 0..Size - 1 : Star(i, s) /\ Star(j, s) => i = j)'
  <2> SUFFICES ASSUME NEW s \in Nat, NEW i \in 0..Size - 1, NEW j \in 0..Size - 1,
                      Star(i, s)', Star(j, s)'
               PROVE  i = j
    OBVIOUS
  <2>1. CASE Star(i, s) /\ Star(j, s)
    BY <2>1 DEF OnceInv
  <2>2. CASE i = dma /\ buf'[i] = src
    <3>1. ~ Sent(s)
      BY <2>2, <1>3 DEF Star
    <3>2. ~ Star(j, s)
      BY <3>1 DEF OnceInv, Star
    <3>3. QED
      BY <1>4, <2>2, <3>2 DEF Star
  <2>3. CASE j = dma /\ buf'[j] = src
    <3>1. ~ Sent(s)
      BY <2>3, <1>3 DEF Star
    <3>2. ~ Star(i, s)
      BY <3>1 DEF OnceInv, Star
    <3>3. QED
      BY <1>4, <2>3, <3>2 DEF Star
  <2>4. QED
    BY <1>4, <2>1, <2>2, <2>3 DEF Star
<1>10. (\A n \in 1..Len(parsed) : Gone(parsed[n].s))'
  BY <1>1, <1>5, <1>6 DEF OnceInv
<1>11. (\A m, n \in 1..Len(parsed) : parsed[m].s = parsed[n].s => m = n)'
  BY <1>5 DEF OnceInv
<1>12. (pc = "verify" /\ buf[star].k = "cut" =>
         Gone(buf[star].s) /\ ~ Parsed(buf[star].s))'
  <2>1. buf'[star] = buf[star] \/ buf'[star].k # "cut"
    BY <1>1, <1>4, Steps
  <2>2. PICK s \in Nat : s = buf[star].s
    BY <1>1
  <2>3. pc = "verify" /\ buf[star].k = "cut" => Gone(s)' /\ ~ Parsed(s)'
    BY <1>6, <1>7, <2>2 DEF OnceInv
  <2>4. QED
    BY <1>5, <2>1, <2>2, <2>3 DEF Gone, Parsed, Sent, Star
<1>13. (pc = "parse" => Gone(good) /\ ~ Parsed(good))'
  BY <1>1, <1>5, <1>6, <1>7 DEF OnceInv
<1>14. QED
  BY <1>8, <1>9, <1>10, <1>11, <1>12, <1>13 DEF OnceInv

\* Only the walk's second strtok cuts a star that may be verified.
LEMMA OnceCut ==
  ASSUME TypeInv, TypeInv', OnceInv, Cut
  PROVE  OnceInv'
<1> DEFINE i0 == IF At(msg).k = "star" THEN msg + 1 ELSE msg
           j == Find(i0, {"star"})
<1>0. buf \in [0..Size - 1 -> Cell] /\ msg \in 0..Size
  BY InBuffer
<1>1. j \in Nat
  <2>1. i0 \in 0..Size
    BY RxAssumption DEF TypeInv, TypeOK
  <2> HIDE DEF i0
  <2>2. QED
    BY <2>1, FindIs, RxAssumption
<1> HIDE DEF j
<1>2. UNCHANGED <<src, parsed, good>> /\ pc = "cut"
  BY DEF Cut
<1>3. CASE At(j).k = "star" /\ star' = j /\ pc' = "verify" /\ buf' = CutOff(j)
  <2>0. /\ j \in 0..Size - 1 /\ buf[j].k = "star" /\ buf[j].k # "nul"
        /\ buf[j].s \in Nat
    <3>1. j \in 0..Size - 1 /\ buf[j].k = "star"
      BY <1>0, <1>1, <1>3, AtIs
    <3>2. buf[j] \in Cell
      BY <1>0, <3>1
    <3>3. buf[j].s \in 0..MaxSent
      BY <3>2, CellType
    <3>4. buf[j].k # "nul" /\ buf[j].s \in Nat
      BY <3>1, <3>3, RxAssumption
    <3>5. QED
      BY <3>1, <3>4
  <2>1. PICK s \in Nat : s = buf[j].s
    BY <2>0
  <2>2. \A i \in 0..Size - 1 :
          IF i = j THEN buf'[i] = [s |-> s, k |-> "cut"] ELSE buf'[i] = buf[i]
    BY <1>0, <1>3, <2>0, <2>1, Rewritten DEF CutOff
  <2>3. /\ \A t : Sent(t)' = Sent(t) /\ Parsed(t)' = Parsed(t)
        /\ \A t : \A i \in 0..Size - 1 : Star(i, t)' => Star(i, t) /\ i # j
    BY <1>2, <2>2 DEF Sent, Parsed, Star
  <2>4. \A t : Gone(t) => Gone(t)'
    BY <2>3 DEF Gone
  <2>5. Sent(s) /\ ~ Parsed(s)
    BY <2>0, <2>1 DEF OnceInv, Parsed, Gone, Star
  <2>6. Gone(s)'
    <3>1. \A i \in 0..Size - 1 : ~ Star(i, s)'
      BY <2>0, <2>1, <2>3 DEF OnceInv, Star
    <3>2. QED
      BY <2>3, <2>5, <3>1 DEF Gone
  <2>7. (\A i \in 0..Size - 1 : buf[i].k = "star" => Sent(buf[i].s))'
    BY <2>2, <2>3 DEF OnceInv
  <2>8. (\A t \in Nat : \A i, m \in 0..Size - 1 :
           Star(i, t) /\ Star(m, t) => i = m)'
    BY <2>3 DEF OnceInv
  <2>9. (\A n \in 1..Len(parsed) : Gone(parsed[n].s))'
    BY <1>2, <2>4 DEF OnceInv
  <2>10. (\A m, n \in 1..Len(parsed) : parsed[m].s = parsed[n].s => m = n)'
    BY <1>2 DEF OnceInv
  <2>11. (Gone(buf[star].s) /\ ~ Parsed(buf[star].s))'
    <3>1. star' = j /\ buf'[star'].s = s
      BY <1>3, <2>0, <2>2
    <3>2. ~ Parsed(s)'
      BY <2>3, <2>5
    <3>3. QED
      BY <2>6, <3>1, <3>2 DEF Gone, Parsed, Sent, Star
  <2>12. QED
    BY <1>3, <2>7, <2>8, <2>9, <2>10, <2>11 DEF OnceInv
<1>4. CASE pc' = "walk" /\ UNCHANGED <<buf, star>>
  BY <1>2, <1>4, OnceErase
<1>5. QED
  BY <1>3, <1>4 DEF Cut, j

LEMMA OnceTear ==
  ASSUME TypeInv, TypeInv', OnceInv, Tear
  PROVE  OnceInv'
<1> DEFINE h == Find(msg, {"head"})
<1>0. buf \in [0..Size - 1 -> Cell] /\ msg \in 0..Size
  BY InBuffer
<1>1. h \in Nat
  BY <1>0, FindIs, RxAssumption
<1> HIDE DEF h
<1>2. UNCHANGED <<src, parsed>> /\ pc = "tear" /\ pc' = "walk"
      /\ buf' = IF At(h).k = "head" THEN [buf EXCEPT ![h].k = "torn"] ELSE buf
  BY DEF Tear, h
<1>3. At(h).k = "head" => h \in 0..Size - 1 /\ buf[h].k # "nul"
  BY <1>0, <1>1, AtIs
<1>4. \A i \in 0..Size - 1 : buf'[i] = buf[i] \/ buf'[i].k # "star"
  BY <1>0, <1>2, <1>3, Rewritten
<1>5. QED
  BY <1>2, <1>4, OnceErase

LEMMA OnceVerify ==
  ASSUME TypeInv, TypeInv', OnceInv, Verify
  PROVE  OnceInv'
<1> DEFINE j == Find(star, {"star"})
           code == place = "gnss" /\ buf[star].k = "cut"
<1>0. buf \in [0..Size - 1 -> Cell] /\ star \in 0..Size
  BY InBuffer
<1>1. j \in Nat
  BY <1>0, FindIs, RxAssumption
<1> HIDE DEF j
<1>2. At(j).k = "star" => j \in 0..Size - 1 /\ buf[j].k # "nul"
  BY <1>0, <1>1, AtIs
<1>3. buf' = IF place = "gnss" /\ ~code /\ At(j).k = "star"
             THEN [buf EXCEPT ![j].k = "cut"] ELSE buf
  BY DEF Verify, j
<1>4. \A i \in 0..Size - 1 : buf'[i] = buf[i] \/ buf'[i].k # "star"
  BY <1>0, <1>2, <1>3, Rewritten
<1>5. /\ pc = "verify" /\ pc' \in {"walk", "parse"}
      /\ pc' = "parse" => code /\ good' = buf[star].s
      /\ UNCHANGED <<src, parsed>>
  BY DEF Verify, hist
<1>6. QED
  BY <1>4, <1>5, OnceErase

LEMMA OnceParse ==
  ASSUME TypeInv, TypeInv', OnceInv, Parse
  PROVE  OnceInv'
<1> DEFINE new == [s |-> good, read |-> {buf[msg].s, buf[star].s}]
<1>1. parsed' = Append(parsed, new) /\ pc = "parse" /\ pc' \in {"walk", "lost"}
      /\ UNCHANGED <<buf, src, star>>
  BY DEF Parse, LeftCut
<1>2. new.s = good
  OBVIOUS
<1> HIDE DEF new
<1>3. /\ Len(parsed) \in Nat /\ Len(parsed') = Len(parsed) + 1
      /\ \A n \in 1..Len(parsed) : parsed'[n] = parsed[n]
      /\ parsed'[Len(parsed) + 1] = new
  <2>1. /\ parsed \in Seq([s : 1..MaxSent, read : SUBSET (0..MaxSent)])
        /\ new \in [s : 1..MaxSent, read : SUBSET (0..MaxSent)]
    <3>1. good \in 1..MaxSent
      BY <1>1, RxAssumption DEF TypeInv, TypeOK, PInv
    <3>2. buf[msg] \in Cell /\ buf[star] \in Cell
      BY DEF TypeInv, TypeOK
    <3>3. buf[msg].s \in 0..MaxSent /\ buf[star].s \in 0..MaxSent
      BY <3>2, CellType
    <3>4. new \in [s : 1..MaxSent, read : SUBSET (0..MaxSent)]
      BY <3>1, <3>3 DEF new
    <3>5. QED
      BY <3>4 DEF TypeInv, TypeOK
  <2>2. QED
    BY <1>1, <2>1, AppendProperties, LenProperties
<1>4. \A s : Sent(s)' = Sent(s) /\ Gone(s)' = Gone(s)
  BY <1>1 DEF Sent, Gone, Star
<1>5. Gone(good) /\ \A n \in 1..Len(parsed) : parsed[n].s # good
  BY <1>1 DEF OnceInv, Parsed
<1>6. \A n \in 1..Len(parsed') : n \in 1..Len(parsed) \/ n = Len(parsed) + 1
  BY <1>3
<1>7. (\A n \in 1..Len(parsed) : Gone(parsed[n].s))'
  BY <1>2, <1>3, <1>4, <1>5, <1>6 DEF OnceInv
<1>8. (\A m, n \in 1..Len(parsed) : parsed[m].s = parsed[n].s => m = n)'
  BY <1>2, <1>3, <1>5, <1>6 DEF OnceInv
<1>9. (\A i \in 0..Size - 1 : buf[i].k = "star" => Sent(buf[i].s))'
  BY <1>1, <1>4 DEF OnceInv
<1>10. (\A s \in Nat : \A i, j \in 0..Size - 1 : Star(i, s) /\ Star(j, s) => i = j)'
  BY <1>1 DEF OnceInv, Star
<1>11. QED
  BY <1>1, <1>7, <1>8, <1>9, <1>10 DEF OnceInv

LEMMA OnceRest ==
  ASSUME TypeInv, TypeInv', OnceInv,
         \/ Idle \/ Web \/ InitEnds \/ Pend \/ Echo \/ Walk \/ Scan \/ Skip \/ Check
         \/ Match \/ UNCHANGED vars
  PROVE  OnceInv'
<1> USE DEF TypeInv, TypeOK
<1>1. CASE Idle
  <2>1. \A i \in 0..Size - 1 : buf'[i] = buf[i] \/ buf'[i] = Nul
    BY <1>1 DEF Idle
  <2>2. \A i \in 0..Size - 1 : buf'[i] = buf[i] \/ buf'[i].k \notin {"star", "cut"}
    BY <2>1, CellType
  <2>3. UNCHANGED <<src, parsed, pc, star, good>> /\ star \in 0..Size - 1
    BY <1>1 DEF Idle, task
  <2>4. QED
    BY <2>2, <2>3, OnceErase
<1>2. CASE Web
  BY <1>2, OnceErase DEF Web, uart, task
<1>3. CASE InitEnds \/ Pend \/ Walk
  BY <1>3, OnceErase DEF InitEnds, Pend, Walk, uart, hist
<1>4. CASE Scan
  <2>1. \A i \in 0..Size - 1 : buf'[i] = buf[i] \/ buf'[i] = Nul
    BY <1>4 DEF Scan
  <2>2. \A i \in 0..Size - 1 : buf'[i] = buf[i] \/ buf'[i].k # "star"
    BY <2>1, CellType
  <2>3. pc' \in {"walk", "skip"} /\ UNCHANGED <<src, parsed>>
    BY <1>4 DEF Scan
  <2>4. QED
    BY <2>2, <2>3, OnceErase
<1>5. CASE Skip \/ Check \/ Match
  <2>1. pc' \in {"check", "walk", "match", "cut", "tear"} /\ UNCHANGED <<uart, parsed>>
    BY <1>5 DEF Skip, Check, Match, hist
  <2>2. QED
    BY <2>1, OnceErase DEF uart
<1>7. CASE Echo
  <2>1. pc' \in {"echo", "walk", "lost"} /\ UNCHANGED <<uart, parsed>>
    BY <1>7 DEF Echo
  <2>2. QED
    BY <2>1, OnceErase DEF uart
<1>6. CASE UNCHANGED vars
  BY <1>6, OnceErase DEF vars, uart, task, hist
<1>8. QED
  BY <1>1, <1>2, <1>3, <1>4, <1>5, <1>6, <1>7

-----------------------------------------------------------------------------
\* As long as every burst leaves two cells, these are NUL, and no string that
\* the task is in goes further than the first of them.
EndInv ==
  /\ ~ overlong => /\ dma = 0 \/ dma + 2 <= Size
                   /\ \A i \in 0..Size - 1 : i + 2 >= Size => buf[i].k = "nul"
  /\ ~ overlong /\ ~ nothing /\ ~ raced =>
       /\ ~ beyond
       /\ pc = "walk" => p < Size
       /\ pc = "scan" => p + 2 < Size
       /\ pc = "skip" => p <= msg /\ msg + 2 < Size
       /\ pc \in {"check", "match", "cut", "tear"} => p + 1 < Size /\ msg + 2 < Size
       /\ pc \in {"verify", "parse"} => p + 1 < Size

LEMMA EndInit == Init => EndInv
BY CellType, RxAssumption DEF Init, EndInv

LEMMA FindShort ==
  ASSUME TypeOK, EndInv, ~ overlong, NEW i \in Nat, i + 2 <= Size, NEW kinds
  PROVE  Find(i, kinds) \in i..Size - 2
<1>1. i \in 0..Size /\ Size - 2 \in i..Size /\ Size - 2 \in 0..Size - 1
  BY RxAssumption
<1>2. buf[Size - 2].k = "nul"
  BY <1>1, RxAssumption DEF EndInv
<1>3. ~ (Size - 2 < Find(i, kinds))
  BY <1>1, <1>2, FindIs DEF Ends
<1>4. Find(i, kinds) \in i..Size
  BY <1>1, FindIs
<1>5. QED
  BY <1>1, <1>3, <1>4, RxAssumption

\* A step of the code leaves NUL where it is.
LEMMA EndsKept ==
  ASSUME TypeInv, EndInv, Next \/ UNCHANGED vars
  PROVE  ~ overlong' => /\ ~ overlong
                        /\ dma' = 0 \/ dma' + 2 <= Size
                        /\ \A i \in 0..Size - 1 : i + 2 >= Size => buf'[i].k = "nul"
<1> SUFFICES ASSUME ~ overlong'
             PROVE  /\ ~ overlong
                    /\ dma' = 0 \/ dma' + 2 <= Size
                    /\ \A i \in 0..Size - 1 : i + 2 >= Size => buf'[i].k = "nul"
  OBVIOUS
<1>0. /\ buf \in [0..Size - 1 -> Cell] /\ dma \in 0..Size
      /\ star \in 0..Size /\ p \in 0..Size + 1 /\ msg \in 0..Size
  BY InBuffer
<1>1. CASE Receive
  <2>1. overlong' = (overlong \/ dma' + 1 >= Size)
    BY <1>1 DEF Receive
  <2>2. ~ overlong /\ ~ (dma' + 1 >= Size)
    BY <2>1
  <2>3. CASE dma < Size
    <3>1. buf' = [buf EXCEPT ![dma] = src] /\ dma' = dma + 1
      BY <1>1, <2>3 DEF Receive
    <3>2. \A i \in 0..Size - 1 : i + 2 >= Size => i # dma
      BY <1>0, <2>2, <3>1, RxAssumption
    <3>3. QED
      BY <1>0, <2>2, <3>1, <3>2, RxAssumption DEF EndInv
  <2>4. CASE ~ (dma < Size)
    <3>1. dma' = dma
      BY <1>1, <2>4 DEF Receive
    <3>2. QED
      BY <1>0, <2>2, <2>4, <3>1, RxAssumption
  <2>5. QED
    BY <2>3, <2>4
<1>2. CASE Idle
  <2>1. UNCHANGED overlong /\ dma' = 0
    BY <1>2 DEF Idle
  <2>2. \A i \in 0..Size - 1 : buf'[i] = buf[i] \/ buf'[i] = Nul
    BY <1>0, <1>2 DEF Idle
  <2>3. QED
    BY <2>1, <2>2, CellType DEF EndInv
<1>3. CASE Task \/ Web \/ UNCHANGED vars
  <2>1. UNCHANGED <<overlong, dma>>
    BY <1>3 DEF Task, InitEnds, Pend, Echo, Walk, Scan, Skip, Check, Match, Cut, Tear,
                Verify, Parse, Web, vars, uart, hist
  <2>2. CASE UNCHANGED buf
    BY <2>1, <2>2 DEF EndInv
  <2>3. CASE Scan
    <3>1. \A i \in 0..Size - 1 : buf'[i] = buf[i] \/ buf'[i] = Nul
      BY <1>0, <2>3 DEF Scan
    <3>2. QED
      BY <2>1, <3>1, CellType DEF EndInv
  <2>4. CASE Cut \/ Tear
    <3> DEFINE j == Find(IF At(msg).k = "star" THEN msg + 1 ELSE msg, {"star"})
               h == Find(msg, {"head"})
    <3>0. (IF At(msg).k = "star" THEN msg + 1 ELSE msg) \in 0..Size
      BY RxAssumption DEF TypeInv, TypeOK
    <3>1. j \in Nat /\ h \in Nat
      BY <1>0, <3>0, FindIs, RxAssumption
    <3> HIDE DEF j, h
    <3>2. \/ buf' = buf
          \/ At(j).k = "star" /\ buf' = [buf EXCEPT ![j].k = "cut"]
          \/ At(h).k = "head" /\ buf' = [buf EXCEPT ![h].k = "torn"]
      BY <2>4 DEF Cut, Tear, CutOff, j, h
    <3>3. /\ At(j).k = "star" => j \in 0..Size - 1 /\ buf[j].k # "nul"
          /\ At(h).k = "head" => h \in 0..Size - 1 /\ buf[h].k # "nul"
      BY <1>0, <3>1, AtIs
    <3>4. \A i \in 0..Size - 1 : buf[i].k = "nul" => buf'[i] = buf[i]
      BY <1>0, <3>2, <3>3, Rewritten
    <3>5. QED
      BY <2>1, <3>4 DEF EndInv
  <2>5. CASE Verify
    <3> DEFINE j == Find(star, {"star"})
    <3>1. j \in Nat
      BY <1>0, FindIs, RxAssumption
    <3> HIDE DEF j
    <3>2. \/ buf' = buf
          \/ At(j).k = "star" /\ buf' = [buf EXCEPT ![j].k = "cut"]
      BY <2>5 DEF Verify, j
    <3>3. At(j).k = "star" => j \in 0..Size - 1 /\ buf[j].k # "nul"
      BY <1>0, <3>1, AtIs
    <3>4. \A i \in 0..Size - 1 : buf[i].k = "nul" => buf'[i] = buf[i]
      BY <1>0, <3>2, <3>3, Rewritten
    <3>5. QED
      BY <2>1, <3>4 DEF EndInv
  <2>6. QED
    BY <1>3, <2>2, <2>3, <2>4, <2>5
       DEF Task, InitEnds, Pend, Echo, Walk, Skip, Check, Match, Parse, LeftCut, Web,
           vars, uart
<1>4. QED
  BY <1>1, <1>2, <1>3 DEF Next

-----------------------------------------------------------------------------
\* Where the sentences of w lie in the buffer, from the (k+1)st on; one that
\* strtok has ended; and one whose star is cut off.
Head0(i, s) == buf[3 * i] = [s |-> s, k |-> "head"]
Star1(i, s) == buf[3 * i + 1] = [s |-> s, k |-> "star"]
Laid(w, k) ==
  \A i \in k..Len(w) - 1 : /\ Head0(i, w[i + 1]) /\ Star1(i, w[i + 1])
                           /\ buf[3 * i + 2] = [s |-> w[i + 1], k |-> "nl"]
Ended(k) == /\ Head0(k, due[k + 1]) /\ Star1(k, due[k + 1])
            /\ buf[3 * k + 2] = Nul
Split(k) == /\ Head0(k, due[k + 1])
            /\ buf[3 * k + 1] = [s |-> due[k + 1], k |-> "cut"]

\* A burst that came while the task waits, as far as it has come.
BurstInv ==
  /\ ~ line => dma = 0
  /\ line /\ fresh => Resting
  /\ line /\ fresh /\ dma < Size =>
       /\ dma = 3 * Len(whole) + (CASE src.k = "head" -> 0 [] src.k = "star" -> 1
                                    [] src.k = "nl" -> 2)
       /\ Laid(whole, 0)
       /\ src.k # "head" => Head0(Len(whole), src.s)
       /\ src.k = "nl" => Star1(Len(whole), src.s)

\* The task has parsed k sentences of such a burst.
Done(k) ==
  /\ k <= Len(parsed)
  /\ \A i \in 1..k : parsed[Len(parsed) - k + i] = [s |-> due[i], read |-> {due[i]}]

AtStage(k) ==
  \/ pc = "pend" /\ posts = 1 /\ k = 0 /\ Laid(due, 0)
  \/ /\ pc = "echo" /\ posts = 0 /\ k = 0 /\ Laid(due, 0)
     /\ \E m \in 0..Len(due) : p = 3 * m
  \/ pc = "walk" /\ posts = 0 /\ p = 3 * k /\ Laid(due, k)
  \/ /\ posts = 0 /\ k < Len(due)
     /\ \/ pc = "scan" /\ p = 3 * k /\ Laid(due, k)
        \/ /\ Laid(due, k + 1) /\ msg = 3 * k
           /\ \/ pc = "skip" /\ p = 3 * k /\ Ended(k)
              \/ pc \in {"check", "match", "cut"} /\ p = 3 * k + 2 /\ Ended(k)
              \/ /\ p = 3 * k + 2 /\ star = 3 * k + 1 /\ Split(k)
                 /\ \/ pc = "verify" /\ place = "gnss"
                    \/ pc = "parse" /\ good = due[k + 1]

Fits == 3 * Len(due) < Size /\ buf[3 * Len(due)] = Nul

DueInv ==
  due # <<>> =>
    IF Resting THEN Done(Len(due))
    ELSE /\ ~ line /\ Fits
         /\ \E k \in 0..Len(due) : Done(k) /\ AtStage(k)

QuietInv == BurstInv /\ DueInv

LEMMA QuietInit == Init => QuietInv
BY DEF Init, QuietInv, BurstInv, DueInv

LEMMA LenDue ==
  ASSUME TypeOK
  PROVE  /\ Len(due) \in Nat /\ Len(whole) \in Nat
         /\ \A i \in 1..Len(due) : due[i] \in 1..MaxSent
         /\ \A i \in 1..Len(whole) : whole[i] \in 1..MaxSent
         /\ due # <<>> <=> Len(due) # 0
BY LenProperties, ElementOfSeq, EmptySeq DEF TypeOK

LEMMA BurstReceive ==
  ASSUME TypeInv, QuietInv, Receive
  PROVE  BurstInv'
<1>0. /\ buf \in [0..Size - 1 -> Cell] /\ dma \in 0..Size /\ Len(whole) \in Nat
      /\ whole \in Seq(1..MaxSent)
  BY LenDue DEF TypeInv, TypeOK
<1>1. line' = TRUE
  BY DEF Receive
<1>2. Resting' = Resting
  BY DEF Receive, Resting, task
<1>3. fresh' => Resting
  BY DEF Receive, QuietInv, BurstInv
<1> DEFINE Cells == 
             /\ dma = 3 * Len(whole) + (CASE src.k = "head" -> 0
                                          [] src.k = "star" -> 1
                                          [] src.k = "nl" -> 2)
             /\ Laid(whole, 0)
             /\ src.k # "head" => Head0(Len(whole), src.s)
             /\ src.k = "nl" => Star1(Len(whole), src.s)
<1>4. ASSUME fresh', dma' < Size
      PROVE  Cells'
  <2>1. dma < Size
    BY <1>0, <1>4, RxAssumption DEF Receive
  <2>2. buf' = [buf EXCEPT ![dma] = src] /\ dma' = dma + 1
    BY <2>1 DEF Receive
  <2>3. PICK w \in Seq(1..MaxSent) : w = IF line THEN whole ELSE <<>>
    BY <1>0, Nothing
  <2>4. whole' = IF src.k = "nl" THEN Append(w, src.s) ELSE w
    BY <2>3 DEF Receive
  <2>5. /\ dma = 3 * Len(w) + (CASE src.k = "head" -> 0 [] src.k = "star" -> 1
                                 [] src.k = "nl" -> 2)
        /\ Laid(w, 0)
        /\ src.k # "head" => Head0(Len(w), src.s)
        /\ src.k = "nl" => Star1(Len(w), src.s)
    <3>1. CASE line
      <4>1. fresh
        BY <1>4, <3>1 DEF Receive
      <4>2. QED
        BY <2>1, <2>3, <3>1, <4>1 DEF QuietInv, BurstInv
    <3>2. CASE ~ line
      <4>1. dma = 0 /\ src.k = "head" /\ w = <<>> /\ Len(w) = 0
        BY <1>4, <2>3, <3>2, EmptySeq DEF Receive, QuietInv, BurstInv
      <4>2. QED
        BY <4>1 DEF Laid
    <3>3. QED
      BY <3>1, <3>2
  <2>6. /\ \A m \in 0..Size - 1 : m # dma => buf'[m] = buf[m]
        /\ buf'[dma] = src
    BY <1>0, <2>1, <2>2, RxAssumption
  <2>7. PICK n \in Nat : n = Len(w)
    BY LenProperties
  <2>8. /\ src.k = "head" => dma = 3 * n /\ dma' = 3 * n + 1
        /\ src.k = "star" => dma = 3 * n + 1 /\ dma' = 3 * n + 2
        /\ src.k = "nl" => dma = 3 * n + 2 /\ dma' = 3 * (n + 1)
        /\ 3 * n <= dma
    BY <2>2, <2>5, <2>7, Steps
  <2>9. \A i \in 0..n - 1 : /\ 3 * i \in 0..Size - 1 /\ 3 * i # dma
                            /\ 3 * i + 1 \in 0..Size - 1 /\ 3 * i + 1 # dma
                            /\ 3 * i + 2 \in 0..Size - 1 /\ 3 * i + 2 # dma
    BY <1>0, <2>1, <2>7, <2>8, RxAssumption
  <2>10. Laid(w, 0)'
    <3>1. \A i \in 0..n - 1 : /\ buf'[3 * i] = buf[3 * i]
                              /\ buf'[3 * i + 1] = buf[3 * i + 1]
                              /\ buf'[3 * i + 2] = buf[3 * i + 2]
      BY <2>6, <2>9
    <3>2. QED
      BY <2>5, <2>7, <3>1 DEF Laid, Head0, Star1
  <2>11. CASE src.k = "head"
    <3>1. /\ whole' = w /\ src' = [s |-> src.s, k |-> "star"]
          /\ buf'[3 * n] = [s |-> src.s, k |-> "head"]
      BY <2>4, <2>6, <2>8, <2>11, Steps
    <3>2. QED
      BY <2>7, <2>8, <2>10, <2>11, <3>1 DEF Head0, Laid, Star1
  <2>12. CASE src.k = "star"
    <3>1. /\ whole' = w /\ src' = [s |-> src.s, k |-> "nl"]
          /\ buf'[3 * n + 1] = [s |-> src.s, k |-> "star"]
      BY <2>4, <2>6, <2>8, <2>12, Steps
    <3>2. buf'[3 * n] = [s |-> src.s, k |-> "head"]
      <4>1. 3 * n \in 0..Size - 1 /\ 3 * n # dma
        BY <1>0, <2>1, <2>7, <2>8, <2>12, RxAssumption
      <4>2. QED
        BY <2>5, <2>6, <2>7, <2>12, <4>1 DEF Head0
    <3>3. QED
      BY <2>7, <2>8, <2>10, <2>12, <3>1, <3>2 DEF Head0, Laid, Star1
  <2>13. CASE src.k = "nl"
    <3>1. /\ whole' = Append(w, src.s) /\ src'.k = "head"
          /\ buf'[3 * n + 2] = [s |-> src.s, k |-> "nl"]
      BY <2>4, <2>6, <2>8, <2>13, Steps
    <3>2. /\ buf'[3 * n] = [s |-> src.s, k |-> "head"]
          /\ buf'[3 * n + 1] = [s |-> src.s, k |-> "star"]
      <4>1. /\ 3 * n \in 0..Size - 1 /\ 3 * n # dma
            /\ 3 * n + 1 \in 0..Size - 1 /\ 3 * n + 1 # dma
        BY <1>0, <2>1, <2>7, <2>8, <2>13, RxAssumption
      <4>2. QED
        BY <2>5, <2>6, <2>7, <2>13, <4>1 DEF Head0, Star1
    <3>3. /\ Len(whole') = n + 1 /\ whole'[n + 1] = src.s
          /\ \A i \in 0..n - 1 : whole'[i + 1] = w[i + 1]
      <4>1. src.s \in 1..MaxSent
        BY Steps
      <4>2. /\ Len(whole') = n + 1 /\ whole'[n + 1] = src.s
            /\ \A i \in 1..n : whole'[i] = w[i]
        BY <2>3, <2>7, <3>1, <4>1, AppendProperties
      <4>3. \A i \in 0..n - 1 : i + 1 \in 1..n
        BY <2>7
      <4>4. QED
        BY <4>2, <4>3
    <3>4. Laid(whole, 0)'
      <4>1. \A i \in 0..Len(whole') - 1 : i = n \/ i \in 0..n - 1
        BY <2>7, <3>3
      <4>2. \A i \in 0..n - 1 :
              /\ buf'[3 * i] = [s |-> whole'[i + 1], k |-> "head"]
              /\ buf'[3 * i + 1] = [s |-> whole'[i + 1], k |-> "star"]
              /\ buf'[3 * i + 2] = [s |-> whole'[i + 1], k |-> "nl"]
        BY <2>7, <2>10, <3>3 DEF Laid, Head0, Star1
      <4>3. QED
        BY <2>7, <3>1, <3>2, <3>3, <4>1, <4>2 DEF Laid, Head0, Star1
    <3>5. QED
      BY <2>8, <2>13, <3>1, <3>3, <3>4
  <2>14. QED
    BY <2>11, <2>12, <2>13, Steps
<1>5. QED
  BY <1>1, <1>2, <1>3, <1>4 DEF BurstInv

\* The other steps write nothing into a burst that comes.
LEMMA BurstRest ==
  ASSUME TypeInv, QuietInv, Idle \/ Web \/ Task \/ UNCHANGED vars
  PROVE  BurstInv'
<1>1. CASE Idle
  BY <1>1 DEF Idle, BurstInv
<1>2. CASE Web \/ UNCHANGED vars
  <2>1. UNCHANGED <<uart, posts, pc, fresh, whole>>
    BY <1>2 DEF Web, vars, task, hist
  <2>2. QED
    BY <2>1 DEF QuietInv, BurstInv, Resting, uart, Laid, Head0, Star1
<1>3. CASE Task
  <2>1. ~ Resting
    BY <1>3 DEF Task, InitEnds, Pend, Echo, Walk, Scan, Skip, Check, Match, Cut, Tear,
                Verify, Parse, Resting
  <2>2. UNCHANGED <<dma, line, fresh>>
    BY <1>3 DEF Task, InitEnds, Pend, Echo, Walk, Scan, Skip, Check, Match, Cut, Tear,
                Verify, Parse, uart, hist
  <2>3. (~ line => dma = 0) /\ ~ (line /\ fresh)
    BY <2>1 DEF QuietInv, BurstInv
  <2>4. (~ line' => dma' = 0) /\ ~ (line' /\ fresh')
    BY <2>2, <2>3
  <2>5. /\ line' /\ fresh' => Resting'
        /\ ~ (line' /\ fresh' /\ dma' < Size)
    BY <2>4
  <2>6. QED
    BY <2>4, <2>5 DEF BurstInv
<1>4. QED
  BY <1>1, <1>2, <1>3

-----------------------------------------------------------------------------
\* The task takes such a burst apart.  First what the DMA, the interrupt and
\* the web server leave of it.
LEMMA DueReceive ==
  ASSUME TypeInv, QuietInv, Receive
  PROVE  DueInv'
<1>1. Resting' = Resting /\ UNCHANGED parsed
  BY DEF Receive, Resting, task
<1>2. CASE Resting
  <2>1. due' = due
    BY <1>2 DEF Receive
  <2>2. QED
    BY <1>1, <1>2, <2>1 DEF QuietInv, DueInv, Done
<1>3. CASE ~ Resting
  BY <1>3 DEF Receive, DueInv
<1>4. QED
  BY <1>2, <1>3

LEMMA DueIdle ==
  ASSUME TypeInv, QuietInv, Idle
  PROVE  DueInv'
<1>1. CASE due' = <<>>
  BY <1>1 DEF DueInv
<1>2. CASE due' # <<>>
  <2>1. /\ dma < Size /\ line /\ fresh /\ Resting /\ src.k = "head" /\ due' = whole
        /\ buf' = [i \in DOMAIN buf |-> IF i = dma THEN Nul ELSE buf[i]]
        /\ posts' = IF HasMessage THEN posts + 1 ELSE posts
    <3>1. ~ (dma >= Size)
      BY <1>2 DEF Idle
    <3>2. /\ buf' = [i \in DOMAIN buf |-> IF i = dma THEN Nul ELSE buf[i]]
          /\ posts' = IF HasMessage THEN posts + 1 ELSE posts
          /\ due' = IF fresh /\ Resting /\ src.k = "head" THEN whole ELSE <<>>
      BY <3>1 DEF Idle
    <3>3. fresh /\ Resting /\ src.k = "head" /\ due' = whole
      BY <1>2, <3>2
    <3>4. dma < Size
      BY <3>1, RxAssumption DEF TypeInv, TypeOK
    <3>5. line
      BY DEF Idle
    <3>6. QED
      BY <3>2, <3>3, <3>4, <3>5
  <2>2. posts' = 1 /\ pc' = "pend" /\ UNCHANGED parsed /\ ~ line'
    BY <2>1, RxAssumption DEF Idle, Resting, HasMessage, task
  <2>3. /\ buf \in [0..Size - 1 -> Cell] /\ dma \in 0..Size
        /\ whole \in Seq(1..MaxSent)
    BY DEF TypeInv, TypeOK
  <2>4. PICK w \in Seq(1..MaxSent) : w = whole
    BY <2>3
  <2>5. PICK n \in Nat : n = Len(w)
    BY LenProperties
  <2>6. dma = 3 * n /\ Laid(w, 0)
    BY <2>1, <2>4, <2>5 DEF QuietInv, BurstInv
  <2>7. /\ \A i \in 0..Size - 1 : i # dma => buf'[i] = buf[i]
        /\ buf'[3 * n] = Nul
    BY <2>1, <2>3, <2>6, RxAssumption
  <2>8. \A i \in 0..n - 1 : /\ 3 * i \in 0..Size - 1 /\ 3 * i # dma
                            /\ 3 * i + 1 \in 0..Size - 1 /\ 3 * i + 1 # dma
                            /\ 3 * i + 2 \in 0..Size - 1 /\ 3 * i + 2 # dma
    BY <2>1, <2>3, <2>5, <2>6, RxAssumption
  <2>9. Laid(w, 0)'
    <3>1. \A i \in 0..n - 1 : /\ buf'[3 * i] = buf[3 * i]
                              /\ buf'[3 * i + 1] = buf[3 * i + 1]
                              /\ buf'[3 * i + 2] = buf[3 * i + 2]
      BY <2>7, <2>8
    <3>2. QED
      BY <2>5, <2>6, <3>1 DEF Laid, Head0, Star1
  <2>10. Fits'
    BY <2>1, <2>4, <2>5, <2>6, <2>7 DEF Fits
  <2>11. Done(0)'
    BY <2>2, ParsedSeq DEF Done, TypeInv
  <2>12. AtStage(0)'
    BY <2>1, <2>2, <2>4, <2>9 DEF AtStage, Laid, Head0, Star1
  <2>13. ~ Resting'
    BY <2>2 DEF Resting
  <2>14. 0 \in 0..Len(due')
    BY <2>1, <2>4, <2>5
  <2>15. QED
    BY <2>2, <2>10, <2>11, <2>12, <2>13, <2>14 DEF DueInv
<1>3. QED
  BY <1>1, <1>2

LEMMA DueWeb ==
  ASSUME TypeInv, QuietInv, Web
  PROVE  DueInv'
<1>1. CASE pc = "verify"
  BY <1>1 DEF Web, DueInv
<1>2. CASE pc # "verify"
  <2>1. UNCHANGED <<uart, posts, pc, p, msg, star, good, parsed, due>>
    BY <1>2 DEF Web, task
  <2>2. \A k : Done(k)' = Done(k)
    BY <2>1 DEF Done
  <2>3. \A k : AtStage(k) => AtStage(k)'
    BY <1>2, <2>1 DEF AtStage, Laid, Head0, Star1, Ended, Split, uart
  <2>4. QED
    BY <2>1, <2>2, <2>3 DEF QuietInv, DueInv, Resting, Fits, uart
<1>3. QED
  BY <1>1, <1>2

\* The cells of the (k+1)st sentence are in the buffer, and before its end.
LEMMA Cells ==
  ASSUME NEW k \in Nat, NEW n \in Nat, k < n, 3 * n < Size
  PROVE  /\ 3 * k \in 0..Size - 1 /\ 3 * k + 1 \in 0..Size - 1
         /\ 3 * k + 2 \in 0..Size - 1 /\ 3 * k + 3 \in 0..Size - 1
         /\ 3 * k + 3 <= 3 * n
         /\ \A i \in k + 1..n - 1 :
              /\ 3 * i \in 3 * k + 3..Size - 1 /\ 3 * i + 1 \in 3 * k + 3..Size - 1
              /\ 3 * i + 2 \in 3 * k + 3..Size - 1
BY RxAssumption

\* What a step writes before the next sentence leaves the rest as it is.
LEMMA LaidKept ==
  ASSUME NEW k \in Nat, NEW w \in Seq(1..MaxSent), k < Len(w), 3 * Len(w) < Size,
         Laid(w, k + 1), buf[3 * Len(w)] = Nul,
         \A m \in 3 * k + 3..Size - 1 : buf'[m] = buf[m]
  PROVE  Laid(w, k + 1)' /\ buf'[3 * Len(w)] = Nul
<1>1. PICK n \in Nat : n = Len(w)
  BY LenProperties
<1>2. \A i \in k + 1..n - 1 : /\ buf'[3 * i] = buf[3 * i]
                              /\ buf'[3 * i + 1] = buf[3 * i + 1]
                              /\ buf'[3 * i + 2] = buf[3 * i + 2]
  BY <1>1, Cells
<1>3. 3 * n \in 3 * k + 3..Size - 1
  BY <1>1, Cells, RxAssumption
<1>4. QED
  BY <1>1, <1>2, <1>3 DEF Laid, Head0, Star1

\* Where strtok, strlen and strchr stop.
LEMMA FindHere ==
  ASSUME NEW i \in 0..Size - 1, NEW kinds, NEW d \in 0..2, i + d \in 0..Size - 1,
         buf[i + d].k \in kinds \cup Ends,
         d >= 1 => buf[i].k \notin kinds \cup Ends,
         d = 2 => buf[i + 1].k \notin kinds \cup Ends
  PROVE  Find(i, kinds) = i + d
<1>1. i \in 0..Size /\ i + d \in i..Size
  BY RxAssumption
<1>2. PICK f \in i..Size : f = Find(i, kinds)
  BY <1>1, FindIs
<1>3. f = Size \/ buf[f].k \in kinds \cup Ends
  BY <1>1, <1>2, FindIs
<1>4. ~ (i + d < f)
  BY <1>1, <1>2, FindIs
<1>5. f <= i + d /\ f # Size
  BY <1>1, <1>2, <1>4, RxAssumption
<1>6. PICK e \in 0..2 : f = i + e /\ e <= d
  <2>1. f - i \in 0..2 /\ f - i <= d /\ f = i + (f - i)
    BY <1>1, <1>2, <1>5, RxAssumption
  <2>2. QED
    BY <2>1
<1>7. ~ (e < d)
  <2>1. ~ (e = 0 /\ d >= 1)
    BY <1>3, <1>5, <1>6
  <2>2. ~ (e = 1 /\ d = 2)
    BY <1>3, <1>5, <1>6
  <2>3. QED
    BY <2>1, <2>2
<1>8. QED
  BY <1>2, <1>6, <1>7

\* A quiet burst of which k sentences are done.
Going(k) ==
  /\ ~ line /\ Fits /\ k \in 0..Len(due) /\ Done(k) /\ AtStage(k)

LEMMA GoesOn ==
  ASSUME NEW k, Going(k)'
  PROVE  DueInv'
<1>1. ~ Resting'
  BY DEF Going, AtStage, Resting
<1>2. QED
  BY <1>1 DEF Going, DueInv

\* The echo of such a burst goes from sentence to sentence, to the NUL.
LEMMA EchoWhole ==
  ASSUME TypeInv, NEW k \in Nat, Going(k), Echo
  PROVE  /\ k = 0 /\ beyond' = beyond
         /\ \/ pc' = "walk" /\ p' = 0
            \/ pc' = "echo" /\ \E m \in 0..Len(due) : p' = 3 * m
<1>0. /\ buf \in [0..Size - 1 -> Cell] /\ beyond \in BOOLEAN
      /\ p \in 0..Size + 1
  BY DEF TypeInv, TypeOK
<1>1. k = 0 /\ Laid(due, 0) /\ Fits /\ \E m \in 0..Len(due) : p = 3 * m
  BY DEF Going, AtStage, Echo
<1>2. PICK n \in Nat : n = Len(due)
  BY LenDue DEF TypeInv
<1>3. PICK m \in 0..n : p = 3 * m
  BY <1>1, <1>2
<1>4. CASE m = n
  <2>1. p \in 0..Size - 1 /\ buf[p] = Nul
    BY <1>1, <1>2, <1>3, <1>4, RxAssumption DEF Fits
  <2>2. At(p).k = "nul" /\ ~ (p >= Size)
    BY <1>0, <2>1, AtIs, CellType, RxAssumption
  <2>3. beyond' = (beyond \/ p >= Size) /\ pc' = "walk" /\ p' = 0
    BY <2>2 DEF Echo
  <2>4. beyond' = beyond
    BY <1>0, <2>2, <2>3, Zenon
  <2>5. QED
    BY <1>1, <2>3, <2>4
<1>5. CASE m < n
  <2>1. /\ 3 * m \in 0..Size - 1 /\ 3 * m + 1 \in 0..Size - 1
        /\ 3 * m + 2 \in 0..Size - 1
    BY <1>1, <1>2, <1>3, <1>5, Cells DEF Fits
  <2>2. /\ buf[p].k = "head" /\ buf[p + 1].k = "star" /\ buf[p + 2].k = "nl"
    <3>1. m \in 0..Len(due) - 1
      BY <1>2, <1>5
    <3>2. /\ buf[3 * m].k = "head" /\ buf[3 * m + 1].k = "star"
          /\ buf[3 * m + 2].k = "nl"
      <4>1. /\ buf[3 * m] = [s |-> due[m + 1], k |-> "head"]
            /\ buf[3 * m + 1] = [s |-> due[m + 1], k |-> "star"]
            /\ buf[3 * m + 2] = [s |-> due[m + 1], k |-> "nl"]
        BY <1>1, <3>1 DEF Laid, Head0, Star1
      <4>2. QED
        BY <4>1
    <3>3. QED
      BY <1>3, <3>2
  <2>3. LineEnd(p) = p + 2
    <3>1. PICK f \in p..Size + 1 : f = LineEnd(p)
      BY <1>0, LineEndIs
    <3>2. f >= Size \/ buf[f].k = "nl"
      BY <1>0, <3>1, LineEndIs
    <3>3. ~ (p + 2 < f)
      <4>1. p + 2 \in p..Size + 1 /\ p \in Nat
        BY <1>3, <2>1, RxAssumption
      <4>2. p + 2 < f => buf[p + 2].k # "nl"
        BY <1>0, <3>1, <4>1, LineEndIs
      <4>3. QED
        BY <2>2, <4>2
    <3>4. f = p \/ f = p + 1 \/ f = p + 2
      BY <1>3, <2>1, <3>1, <3>3, RxAssumption
    <3>5. f < Size
      BY <1>3, <2>1, <3>4, RxAssumption
    <3>6. QED
      BY <1>3, <2>2, <3>1, <3>2, <3>4, <3>5, RxAssumption
  <2>4. ~ (LineEnd(p) >= Size) /\ At(p).k = "head"
    BY <1>0, <1>3, <2>1, <2>2, <2>3, AtIs, RxAssumption
  <2>5. /\ beyond' = (beyond \/ LineEnd(p) >= Size)
        /\ p' = LineEnd(p) + 1 /\ pc' = "echo"
    BY <2>4 DEF Echo
  <2>6. beyond' = beyond
    BY <1>0, <2>4, <2>5, Zenon
  <2>7. m + 1 \in 0..Len(due) /\ p' = 3 * (m + 1)
    BY <1>2, <1>3, <1>5, <2>3, <2>5
  <2>8. QED
    BY <1>1, <2>5, <2>6, <2>7
<1>6. QED
  BY <1>2, <1>3, <1>4, <1>5

LEMMA EchoStage ==
  ASSUME TypeInv, NEW k \in Nat, Going(k), Echo
  PROVE  DueInv'
<1>1. /\ posts = 0 /\ Laid(due, 0) /\ ~ line /\ Fits /\ k = 0 /\ Done(0)
      /\ 0 \in 0..Len(due)
  BY EchoWhole DEF Going, AtStage, Echo
<1>2. UNCHANGED <<buf, line, posts, parsed, due>>
  BY DEF Echo, uart
<1>3. Done(0)' /\ Fits' /\ Laid(due, 0)'
  BY <1>1, <1>2 DEF Done, Fits, Laid, Head0, Star1
<1>4. \/ pc' = "walk" /\ p' = 0
      \/ pc' = "echo" /\ \E m \in 0..Len(due) : p' = 3 * m
  BY EchoWhole
<1>5. AtStage(0)'
  BY <1>1, <1>2, <1>3, <1>4 DEF AtStage
<1>6. Going(0)'
  BY <1>1, <1>2, <1>3, <1>5 DEF Going
<1>7. QED
  BY <1>6, GoesOn

LEMMA WalkStage ==
  ASSUME TypeInv, NEW k \in Nat, Going(k), Walk
  PROVE  DueInv'
<1>0. buf \in [0..Size - 1 -> Cell] /\ Len(due) \in Nat
  BY LenDue DEF TypeInv, TypeOK
<1>1. /\ posts = 0 /\ p = 3 * k /\ Laid(due, k) /\ ~ line /\ Fits /\ k <= Len(due)
      /\ Done(k)
  BY <1>0 DEF Going, AtStage, Walk
<1>2. UNCHANGED <<buf, line, posts, parsed, due>>
  BY DEF Walk, uart
<1>3. Done(k)' /\ Fits' /\ Laid(due, k)'
  BY <1>1, <1>2 DEF Done, Fits, Laid, Head0, Star1
<1>4. CASE k < Len(due)
  <2>1. buf[3 * k].k = "head" /\ 3 * k \in 0..Size - 1
    <3>1. k \in k..Len(due) - 1
      BY <1>0, <1>4
    <3>2. Head0(k, due[k + 1])
      BY <1>1, <3>1 DEF Laid
    <3>3. 3 * k \in 0..Size - 1
      BY <1>0, <1>1, <1>4, Cells DEF Fits
    <3>4. QED
      BY <3>2, <3>3 DEF Head0
  <2>2. At(p).k = "head"
    <3>1. p \in Nat /\ p < Size /\ buf[p].k = "head"
      BY <1>1, <2>1, RxAssumption
    <3>2. At(p) = buf[p]
      BY <1>0, <3>1, AtIs
    <3>3. QED
      BY <3>1, <3>2
  <2>3. pc' = "scan" /\ p' = p
    BY <2>2 DEF Walk
  <2>4. Going(k)'
    BY <1>0, <1>1, <1>2, <1>3, <1>4, <2>3 DEF Going, AtStage
  <2>5. QED
    BY <2>4, GoesOn
<1>5. CASE k = Len(due)
  <2>1. p \in 0..Size - 1 /\ buf[p] = Nul
    BY <1>0, <1>1, <1>5, RxAssumption DEF Fits
  <2>2. At(p).k = "nul"
    BY <1>0, <2>1, AtIs, CellType
  <2>3. pc' = "pend"
    BY <2>2 DEF Walk
  <2>4. QED
    BY <1>1, <1>2, <1>3, <1>5, <2>3 DEF DueInv, Resting
<1>6. QED
  BY <1>0, <1>1, <1>4, <1>5

LEMMA ScanStage ==
  ASSUME TypeInv, NEW k \in Nat, Going(k), Scan
  PROVE  DueInv'
<1>0. buf \in [0..Size - 1 -> Cell] /\ Len(due) \in Nat /\ due \in Seq(1..MaxSent)
  BY LenDue DEF TypeInv, TypeOK
<1>1. /\ posts = 0 /\ p = 3 * k /\ Laid(due, k) /\ ~ line /\ Fits /\ k < Len(due)
      /\ Done(k)
  BY DEF Going, AtStage, Scan
<1>2. PICK w \in Seq(1..MaxSent) : w = due
  BY <1>0
<1>3. /\ 3 * k \in 0..Size - 1 /\ 3 * k + 1 \in 0..Size - 1
      /\ 3 * k + 2 \in 0..Size - 1
  BY <1>0, <1>1, Cells DEF Fits
<1>4. /\ buf[3 * k] = [s |-> w[k + 1], k |-> "head"]
      /\ buf[3 * k + 1] = [s |-> w[k + 1], k |-> "star"]
      /\ buf[3 * k + 2] = [s |-> w[k + 1], k |-> "nl"]
  <2>1. k \in k..Len(w) - 1
    BY <1>0, <1>1, <1>2
  <2>2. QED
    BY <1>1, <1>2, <2>1 DEF Laid, Head0, Star1
<1>5. Find(p, {"head", "star"}) = p
  <2>0. p \in 0..Size - 1 /\ p + 0 = p /\ 0 \in 0..2 /\ ~ (0 >= 1) /\ 0 # 2
    BY <1>1, <1>3
  <2>1. /\ p \in 0..Size - 1 /\ p + 0 \in 0..Size - 1 /\ 0 \in 0..2
        /\ buf[p + 0].k = "head" /\ ~ (0 >= 1) /\ 0 # 2
    BY <1>1, <1>4, <2>0
  <2>3. Find(p, {"head", "star"}) = p + 0
    BY <2>1, FindHere
  <2>2. QED
    BY <1>1, <2>3
<1>6. Find(p, {"nl"}) = p + 2
  <2>1. /\ p \in 0..Size - 1 /\ p + 2 \in 0..Size - 1 /\ 2 \in 0..2
        /\ buf[p + 2].k = "nl" /\ buf[p].k = "head" /\ buf[p + 1].k = "star"
    BY <1>1, <1>3, <1>4
  <2>2. QED
    BY <2>1, FindHere DEF Ends
<1>7. At(p) = buf[p] /\ At(p + 2) = buf[p + 2]
  BY <1>1, <1>3, RxAssumption DEF At
<1>8. /\ msg' = p /\ pc' = "skip" /\ p' = p
      /\ buf' = [buf EXCEPT ![p + 2] = Nul]
      /\ UNCHANGED <<line, posts, parsed, due>>
  BY <1>1, <1>4, <1>5, <1>6, <1>7 DEF Scan
<1>9. \A m \in 0..Size - 1 :
        IF m = 3 * k + 2 THEN buf'[m] = Nul ELSE buf'[m] = buf[m]
  BY <1>0, <1>1, <1>8
<1>10. /\ buf'[3 * k] = buf[3 * k] /\ buf'[3 * k + 1] = buf[3 * k + 1]
       /\ buf'[3 * k + 2] = Nul
       /\ \A m \in 3 * k + 3..Size - 1 : buf'[m] = buf[m]
  BY <1>3, <1>9
<1>11. Laid(w, k + 1) /\ k < Len(w) /\ 3 * Len(w) < Size /\ buf[3 * Len(w)] = Nul
  <2>1. \A i \in k + 1..Len(w) - 1 : i \in k..Len(w) - 1
    BY <1>0, <1>2
  <2>2. QED
    BY <1>1, <1>2, <2>1 DEF Laid, Fits
<1>12. Laid(w, k + 1)' /\ buf'[3 * Len(w)] = Nul
  BY <1>10, <1>11, LaidKept
<1>13. Done(k)'
  BY <1>1, <1>8 DEF Done
<1>14. Ended(k)'
  BY <1>2, <1>4, <1>8, <1>10 DEF Ended, Head0, Star1
<1>15. Fits' /\ Laid(due, k + 1)'
  BY <1>2, <1>8, <1>11, <1>12 DEF Fits, Laid, Head0, Star1
<1>16. Going(k)'
  BY <1>0, <1>1, <1>8, <1>13, <1>14, <1>15 DEF Going, AtStage
<1>17. QED
  BY <1>16, GoesOn

LEMMA SkipStage ==
  ASSUME TypeInv, NEW k \in Nat, Going(k), Skip
  PROVE  DueInv'
<1>0. buf \in [0..Size - 1 -> Cell] /\ Len(due) \in Nat
  BY LenDue DEF TypeInv, TypeOK
<1>1. /\ posts = 0 /\ k < Len(due) /\ p = 3 * k /\ msg = 3 * k /\ Laid(due, k + 1)
      /\ Ended(k) /\ ~ line /\ Fits /\ Done(k)
  BY DEF Going, AtStage, Skip
<1>2. /\ 3 * k \in 0..Size - 1 /\ 3 * k + 1 \in 0..Size - 1
      /\ 3 * k + 2 \in 0..Size - 1
  BY <1>0, <1>1, Cells DEF Fits
<1>3. Find(msg, {}) = msg + 2
  <2>1. /\ msg \in 0..Size - 1 /\ msg + 2 \in 0..Size - 1 /\ 2 \in 0..2
    BY <1>1, <1>2
  <2>2. /\ buf[msg].k = "head" /\ buf[msg + 1].k = "star" /\ buf[msg + 2] = Nul
    BY <1>1 DEF Ended, Head0, Star1
  <2>3. /\ buf[msg + 2].k \in {} \cup Ends /\ buf[msg].k \notin {} \cup Ends
        /\ buf[msg + 1].k \notin {} \cup Ends
    BY <2>2, CellType DEF Ends
  <2>4. QED
    BY <2>1, <2>3, FindHere
<1>4. /\ pc' = "check" /\ p' = 3 * k + 2
      /\ UNCHANGED <<buf, line, posts, msg, parsed, due>>
  BY <1>1, <1>2, <1>3 DEF Skip, uart
<1>5. Going(k)'
  BY <1>0, <1>1, <1>4
     DEF Going, AtStage, Done, Fits, Laid, Ended, Head0, Star1
<1>6. QED
  BY <1>5, GoesOn

\* strchr and strncmp find what they look for.
LEMMA CheckStage ==
  ASSUME TypeInv, NEW k \in Nat, Going(k), Check \/ Match
  PROVE  DueInv'
<1>0. buf \in [0..Size - 1 -> Cell] /\ Len(due) \in Nat
  BY LenDue DEF TypeInv, TypeOK
<1>1. /\ posts = 0 /\ k < Len(due) /\ p = 3 * k + 2 /\ msg = 3 * k
      /\ Laid(due, k + 1)
      /\ Ended(k) /\ ~ line /\ Fits /\ Done(k)
  BY DEF Going, AtStage, Check, Match
<1>3. /\ 3 * k \in 0..Size - 1 /\ 3 * k + 1 \in 0..Size - 1
      /\ 3 * k + 2 \in 0..Size - 1
  BY <1>0, <1>1, Cells DEF Fits
<1>4. buf[msg].k = "head" /\ buf[msg + 1].k = "star"
  BY <1>1 DEF Ended, Head0, Star1
<1>5. Find(msg, {"star"}) = msg + 1
  <2>1. /\ msg \in 0..Size - 1 /\ msg + 1 \in 0..Size - 1 /\ 1 \in 0..2
    BY <1>1, <1>3
  <2>2. QED
    BY <1>4, <2>1, FindHere DEF Ends
<1>6. At(msg).k = "head" /\ At(msg + 1).k = "star"
  BY <1>1, <1>3, <1>4, RxAssumption DEF At
<1>7. /\ pc' \in {"match", "cut"}
      /\ UNCHANGED <<buf, line, posts, p, msg, parsed, due>>
  BY <1>5, <1>6 DEF Check, Match, uart, hist
<1>8. Going(k)'
  BY <1>0, <1>1, <1>7
     DEF Going, AtStage, Done, Fits, Laid, Ended, Head0, Star1
<1>9. QED
  BY <1>8, GoesOn

LEMMA CutStage ==
  ASSUME TypeInv, NEW k \in Nat, Going(k), Cut
  PROVE  DueInv'
<1>0. buf \in [0..Size - 1 -> Cell] /\ Len(due) \in Nat /\ due \in Seq(1..MaxSent)
  BY LenDue DEF TypeInv, TypeOK
<1>1. /\ posts = 0 /\ k < Len(due) /\ p = 3 * k + 2 /\ msg = 3 * k
      /\ Laid(due, k + 1)
      /\ Ended(k) /\ ~ line /\ Fits /\ Done(k)
  BY DEF Going, AtStage, Cut
<1>2. PICK w \in Seq(1..MaxSent) : w = due
  BY <1>0
<1>3. /\ 3 * k \in 0..Size - 1 /\ 3 * k + 1 \in 0..Size - 1
      /\ 3 * k + 2 \in 0..Size - 1
  BY <1>0, <1>1, Cells DEF Fits
<1>4. /\ buf[3 * k] = [s |-> w[k + 1], k |-> "head"]
      /\ buf[3 * k + 1] = [s |-> w[k + 1], k |-> "star"]
  BY <1>1, <1>2 DEF Ended, Head0, Star1
<1>5. Find(msg, {"star"}) = msg + 1
  <2>1. /\ msg \in 0..Size - 1 /\ msg + 1 \in 0..Size - 1 /\ 1 \in 0..2 /\ 1 # 2
        /\ buf[msg + 1].k \in {"star"} \cup Ends
        /\ buf[msg].k \notin {"star"} \cup Ends
    BY <1>1, <1>3, <1>4 DEF Ends
  <2>2. QED
    BY <2>1, FindHere
<1>6. At(msg).k = "head" /\ At(msg + 1).k = "star"
  BY <1>1, <1>3, <1>4, RxAssumption DEF At
<1>7. /\ star' = 3 * k + 1 /\ place' = "gnss" /\ pc' = "verify"
      /\ buf' = [buf EXCEPT ![3 * k + 1].k = "cut"]
      /\ UNCHANGED <<p, msg, line, posts, parsed, due>>
  <2>1. (IF At(msg).k = "star" THEN msg + 1 ELSE msg) = msg
    BY <1>6
  <2>2. Find(IF At(msg).k = "star" THEN msg + 1 ELSE msg, {"star"}) = msg + 1
    BY <1>5, <2>1
  <2>3. /\ star' = msg + 1 /\ place' = "gnss" /\ pc' = "verify"
        /\ buf' = [buf EXCEPT ![msg + 1].k = "cut"]
        /\ UNCHANGED <<p, msg, line, posts, parsed, due>>
    BY <1>6, <2>2 DEF Cut, CutOff
  <2>4. QED
    BY <1>1, <2>3
<1>8. \A m \in 0..Size - 1 :
        IF m = 3 * k + 1 THEN buf'[m] = [s |-> w[k + 1], k |-> "cut"]
                         ELSE buf'[m] = buf[m]
  <2>1. 3 * k + 1 \in 0..Size - 1 /\ buf[3 * k + 1].k # "nul"
        /\ buf[3 * k + 1].s = w[k + 1]
    BY <1>3, <1>4
  <2>2. buf' = [i \in 0..Size - 1 |->
                 IF i = 3 * k + 1 THEN [s |-> buf[3 * k + 1].s, k |-> "cut"]
                                  ELSE buf[i]]
    BY <1>0, <1>7, <2>1, Rewritten
  <2>3. QED
    BY <2>1, <2>2
<1>9. /\ buf'[3 * k] = buf[3 * k]
      /\ buf'[3 * k + 1] = [s |-> w[k + 1], k |-> "cut"]
      /\ \A m \in 3 * k + 3..Size - 1 : buf'[m] = buf[m]
  BY <1>3, <1>8
<1>10. Laid(w, k + 1)' /\ buf'[3 * Len(w)] = Nul
  BY <1>1, <1>2, <1>9, LaidKept DEF Fits
<1>11. Done(k)'
  BY <1>1, <1>7 DEF Done
<1>12. Split(k)'
  BY <1>2, <1>4, <1>7, <1>9 DEF Split, Head0
<1>13. Fits' /\ Laid(due, k + 1)'
  BY <1>1, <1>2, <1>7, <1>10 DEF Fits, Laid, Head0, Star1
<1>14. Going(k)'
  BY <1>0, <1>1, <1>7, <1>11, <1>12, <1>13 DEF Going, AtStage
<1>15. QED
  BY <1>14, GoesOn

LEMMA VerifyStage ==
  ASSUME TypeInv, NEW k \in Nat, Going(k), Verify
  PROVE  DueInv'
<1>0. buf \in [0..Size - 1 -> Cell] /\ Len(due) \in Nat
  BY LenDue DEF TypeInv, TypeOK
<1>1. /\ posts = 0 /\ k < Len(due) /\ p = 3 * k + 2 /\ msg = 3 * k
      /\ star = 3 * k + 1
      /\ Laid(due, k + 1) /\ Split(k) /\ place = "gnss" /\ ~ line /\ Fits /\ Done(k)
  BY DEF Going, AtStage, Verify
<1>2. /\ 3 * k \in 0..Size - 1 /\ 3 * k + 1 \in 0..Size - 1
      /\ 3 * k + 2 \in 0..Size - 1
  BY <1>0, <1>1, Cells DEF Fits
<1>3. /\ buf[msg] = [s |-> due[k + 1], k |-> "head"]
      /\ buf[star] = [s |-> due[k + 1], k |-> "cut"]
  BY <1>1 DEF Split, Head0
<1>4. Find(msg, {}) = star
  BY <1>1, <1>2, <1>3, FindHere DEF Ends
<1>5. /\ buf[star].k = "cut" /\ buf[star].s = due[k + 1]
      /\ buf[msg] = [s |-> buf[star].s, k |-> "head"]
  BY <1>3
<1>6. /\ pc' = "parse" /\ good' = due[k + 1] /\ p' = p /\ buf' = buf
      /\ UNCHANGED <<line, posts, msg, star, parsed, due>>
  BY <1>1, <1>4, <1>5 DEF Verify, hist
<1>7. Going(k)'
  BY <1>0, <1>1, <1>6 DEF Going, AtStage, Done, Fits, Laid, Split, Head0, Star1
<1>8. QED
  BY <1>7, GoesOn

LEMMA ParseStage ==
  ASSUME TypeInv, NEW k \in Nat, Going(k), Parse
  PROVE  DueInv'
<1>0. /\ buf \in [0..Size - 1 -> Cell] /\ Len(due) \in Nat
      /\ k < Len(due) => due[k + 1] \in 1..MaxSent
  BY LenDue DEF TypeInv, TypeOK
<1>1. /\ posts = 0 /\ k < Len(due) /\ p = 3 * k + 2 /\ msg = 3 * k
      /\ star = 3 * k + 1
      /\ Laid(due, k + 1) /\ Split(k) /\ good = due[k + 1]
      /\ ~ line /\ Fits /\ Done(k)
  BY DEF Going, AtStage, Parse
<1>2. buf[msg].s = due[k + 1] /\ buf[star].s = due[k + 1]
  BY <1>1 DEF Split, Head0
<1>3. /\ pc' = "walk" /\ p' = 3 * (k + 1) /\ buf' = buf
      /\ parsed' = Append(parsed, [s |-> due[k + 1], read |-> {due[k + 1]}])
      /\ UNCHANGED <<line, posts, due>>
  <2>1. {buf[msg].s, buf[star].s} = {due[k + 1]}
    BY <1>2
  <2>2. parsed' = Append(parsed, [s |-> good, read |-> {buf[msg].s, buf[star].s}])
    BY DEF Parse
  <2>3. pc' = "walk" /\ p' = p + 1 /\ buf' = buf /\ UNCHANGED <<line, posts, due>>
    BY <1>1, <2>1 DEF Parse, LeftCut, Forth
  <2>4. parsed' = Append(parsed, [s |-> due[k + 1], read |-> {due[k + 1]}])
    BY <1>1, <2>1, <2>2
  <2>5. p' = 3 * (k + 1)
    BY <1>1, <2>3
  <2>6. QED
    BY <2>3, <2>4, <2>5
<1>4. PICK x \in [s : 1..MaxSent, read : SUBSET (0..MaxSent)] :
        x = [s |-> due[k + 1], read |-> {due[k + 1]}]
  <2>1. PICK s \in 1..MaxSent : s = due[k + 1]
    BY <1>0, <1>1
  <2>2. {s} \in SUBSET (0..MaxSent)
    BY RxAssumption
  <2>3. [s |-> s, read |-> {s}] \in [s : 1..MaxSent, read : SUBSET (0..MaxSent)]
    BY <2>2
  <2>4. QED
    BY <2>1, <2>3
<1>5. PICK l \in Nat : l = Len(parsed)
  BY ParsedSeq DEF TypeInv
<1>6. /\ Len(parsed') = l + 1 /\ parsed'[l + 1] = x
      /\ \A i \in 1..l : parsed'[i] = parsed[i]
  BY <1>3, <1>4, <1>5, ParsedSeq, AppendProperties DEF TypeInv
<1>7. /\ k <= l
      /\ \A i \in 1..k : parsed[l - k + i] = [s |-> due[i], read |-> {due[i]}]
  BY <1>1, <1>5 DEF Done
<1>8. \A i \in 1..k + 1 :
        parsed'[l + 1 - (k + 1) + i] = [s |-> due[i], read |-> {due[i]}]
  <2> SUFFICES ASSUME NEW i \in 1..k + 1
               PROVE  parsed'[l + 1 - (k + 1) + i]
                        = [s |-> due[i], read |-> {due[i]}]
    OBVIOUS
  <2>1. l + 1 - (k + 1) + i = l - k + i
    OBVIOUS
  <2>2. CASE i = k + 1
    <3>1. l - k + i = l + 1
      BY <2>2
    <3>2. QED
      BY <1>4, <1>6, <2>1, <2>2, <3>1
  <2>3. CASE i \in 1..k
    <3>1. l - k + i \in 1..l
      BY <1>7, <2>3
    <3>2. QED
      BY <1>6, <1>7, <2>1, <2>3, <3>1
  <2>4. QED
    BY <2>2, <2>3
<1>9. Done(k + 1)'
  <2>1. k + 1 <= Len(parsed')
    BY <1>6, <1>7
  <2>2. \A i \in 1..k + 1 :
          parsed'[Len(parsed') - (k + 1) + i] = [s |-> due'[i], read |-> {due'[i]}]
    <3>1. Len(parsed') = l + 1 /\ due' = due
      BY <1>3, <1>6
    <3>2. QED
      BY <1>8, <3>1
  <2>3. QED
    BY <2>1, <2>2 DEF Done
<1>10. Going(k + 1)'
  BY <1>0, <1>1, <1>3, <1>9 DEF Going, AtStage, Fits, Laid, Head0, Star1
<1>11. QED
  BY <1>10, GoesOn

LEMMA DueTask ==
  ASSUME TypeInv, QuietInv, Task
  PROVE  DueInv'
<1>1. ~ Resting
  BY DEF Task, InitEnds, Pend, Echo, Walk, Scan, Skip, Check, Match, Cut, Tear, Verify,
         Parse, Resting
<1>2. due' = due
  BY DEF Task, InitEnds, Pend, Echo, Walk, Scan, Skip, Check, Match, Cut, Tear, Verify,
         Parse, hist
<1>3. CASE due = <<>>
  BY <1>2, <1>3 DEF DueInv
<1>4. CASE due # <<>>
  <2>1. PICK k \in 0..Len(due) : ~ line /\ Fits /\ Done(k) /\ AtStage(k)
    BY <1>1, <1>4 DEF QuietInv, DueInv
  <2>2. k \in Nat /\ Going(k)
    BY <2>1 DEF Going
  <2>3. CASE InitEnds
    BY <2>1, <2>3 DEF InitEnds, AtStage
  <2>4. CASE Pend
    <3>1. /\ k = 0 /\ Laid(due, 0) /\ posts' = 0 /\ pc' \in {"echo", "walk"}
          /\ p' = 0 /\ UNCHANGED <<buf, line, parsed, due>>
      BY <2>1, <2>4 DEF Pend, AtStage, uart, hist
    <3>2. Going(k)'
      <4>1. 0 \in 0..Len(due') /\ p' = 3 * 0
        BY <2>1, <3>1
      <4>2. Laid(due, 0)' /\ Done(k)' /\ Fits'
        BY <2>1, <3>1 DEF Done, Fits, Laid, Head0, Star1
      <4>3. AtStage(k)'
        BY <3>1, <4>1, <4>2 DEF AtStage
      <4>4. QED
        BY <2>1, <3>1, <4>2, <4>3 DEF Going
    <3>3. QED
      BY <3>2, GoesOn
  <2>5. CASE Walk
    BY <2>2, <2>5, WalkStage
  <2>6. CASE Scan
    BY <2>2, <2>6, ScanStage
  <2>7. CASE Skip
    BY <2>2, <2>7, SkipStage
  <2>8. CASE Cut
    BY <2>2, <2>8, CutStage
  <2>9. CASE Verify
    BY <2>2, <2>9, VerifyStage
  <2>10. CASE Parse
    BY <2>2, <2>10, ParseStage
  <2>11. CASE Echo
    BY <2>2, <2>11, EchoStage
  <2>12. CASE Check \/ Match
    BY <2>2, <2>12, CheckStage
  <2>13. CASE Tear
    BY <2>1, <2>13 DEF Tear, AtStage
  <2>14. QED
    BY <2>3, <2>4, <2>5, <2>6, <2>7, <2>8, <2>9, <2>10, <2>11, <2>12, <2>13 DEF Task
<1>5. QED
  BY <1>3, <1>4

LEMMA QuietNext ==
  ASSUME TypeInv, QuietInv, Next \/ UNCHANGED vars
  PROVE  QuietInv'
<1>1. CASE Receive
  BY <1>1, BurstReceive, DueReceive DEF QuietInv
<1>2. CASE Idle
  BY <1>2, BurstRest, DueIdle DEF QuietInv
<1>3. CASE Web
  BY <1>3, BurstRest, DueWeb DEF QuietInv
<1>4. CASE Task
  BY <1>4, BurstRest, DueTask DEF QuietInv
<1>5. CASE UNCHANGED vars
  <2>0. UNCHANGED <<buf, line, posts, pc, p, msg, star, good, place, parsed, due>>
    BY <1>5 DEF vars, uart, task, hist
  <2>1. DueInv'
    <3>1. Resting' = Resting /\ Fits' = Fits /\ due' = due /\ line' = line
      BY <2>0 DEF Resting, Fits
    <3>2. \A k : Done(k)' = Done(k)
      BY <2>0 DEF Done
    <3>3. \A k : AtStage(k) => AtStage(k)'
      BY <2>0 DEF AtStage, Laid, Head0, Star1, Ended, Split
    <3>4. QED
      BY <3>1, <3>2, <3>3 DEF QuietInv, DueInv
  <2>2. QED
    BY <1>5, <2>1, BurstRest DEF QuietInv
<1>6. QED
  BY <1>1, <1>2, <1>3, <1>4, <1>5 DEF Next

LEMMA EndNext ==
  ASSUME TypeInv, EndInv, QuietInv, Next \/ UNCHANGED vars
  PROVE  EndInv'
<1>0. /\ buf \in [0..Size - 1 -> Cell] /\ dma \in 0..Size
      /\ star \in 0..Size /\ p \in 0..Size + 1 /\ msg \in 0..Size
      /\ TypeOK
  BY InBuffer DEF TypeInv
<1> DEFINE Short == /\ ~ beyond
                    /\ pc = "walk" => p < Size
                    /\ pc = "scan" => p + 2 < Size
                    /\ pc = "skip" => p <= msg /\ msg + 2 < Size
                    /\ pc \in {"check", "match", "cut", "tear"} =>
                         p + 1 < Size /\ msg + 2 < Size
                    /\ pc \in {"verify", "parse"} => p + 1 < Size
<1> SUFFICES ASSUME ~ overlong', ~ nothing', ~ raced'
             PROVE  Short'
  BY EndsKept DEF EndInv
<1>1. ~ overlong
  BY EndsKept
<1>2. CASE Receive \/ Idle \/ Web \/ UNCHANGED vars
  <2>1. UNCHANGED <<task, nothing, raced, beyond>>
    BY <1>2 DEF Receive, Idle, Web, vars, hist
  <2>2. QED
    BY <1>1, <2>1 DEF EndInv, task
<1>3. CASE InitEnds
  BY <1>1, <1>3 DEF InitEnds, EndInv, hist
<1>4. CASE Pend
  BY <1>1, <1>4, RxAssumption DEF Pend, EndInv, hist
<1>5. CASE Walk
  <2>1. p < Size /\ ~ beyond /\ p \in Nat
    BY <1>0, <1>1, <1>5 DEF Walk, EndInv
  <2>2. ~ beyond'
    <3>1. beyond' = (beyond \/ p >= Size) /\ ~ (p >= Size)
      BY <1>5, <2>1, RxAssumption DEF Walk
    <3>2. QED
      BY <2>1, <3>1, Zenon
  <2>3. p + 2 >= Size => At(p).k = "nul"
    BY <1>0, <1>1, <2>1, AtIs, RxAssumption DEF EndInv
  <2>4. QED
    BY <1>0, <1>5, <2>1, <2>2, <2>3, RxAssumption DEF Walk, Forth
<1>6. CASE Scan
  <2> DEFINE i == Find(p, {"head", "star"})
             j == Find(i, {"nl"})
  <2>1. p + 2 < Size /\ ~ beyond /\ p \in Nat
    BY <1>0, <1>1, <1>6 DEF Scan, EndInv
  <2>2. i \in p..Size - 2
    BY <1>0, <1>1, <2>1, FindShort, RxAssumption
  <2> HIDE DEF i
  <2>3. j \in i..Size - 2
    BY <1>0, <1>1, <2>1, <2>2, FindShort, RxAssumption
  <2> HIDE DEF j
  <2>4. At(i).k \notin {"nul", "cut"} /\ msg' = i /\ pc' = "skip" /\ UNCHANGED p
        /\ beyond' = (beyond \/ j = Size)
    BY <1>6 DEF Scan, i, j
  <2>5. i + 2 < Size
    <3>1. i = Size - 2 => At(i).k = "nul"
      BY <1>0, <1>1, <2>1, <2>2, AtIs, RxAssumption DEF EndInv
    <3>2. QED
      BY <2>1, <2>2, <2>4, <3>1, RxAssumption
  <2>6. j # Size
    BY <2>1, <2>2, <2>3, RxAssumption
  <2>7. ~ beyond'
    BY <2>1, <2>4, <2>6, Zenon
  <2>8. QED
    BY <2>1, <2>2, <2>4, <2>5, <2>7, RxAssumption
<1>7. CASE Skip
  <2> DEFINE j == Find(msg, {})
  <2>1. p <= msg /\ msg + 2 < Size /\ ~ beyond /\ p \in Nat /\ msg \in Nat
    BY <1>0, <1>1, <1>7 DEF Skip, EndInv
  <2>2. j \in msg..Size - 2
    BY <1>0, <1>1, <2>1, FindShort, RxAssumption
  <2>3. /\ p' = IF p + j - msg < Size THEN p + j - msg ELSE Size
        /\ pc' = "check" /\ beyond' = (beyond \/ j = Size) /\ msg' = msg
    BY <1>7 DEF Skip
  <2> HIDE DEF j
  <2>4. p + j - msg <= j
    BY <2>1, <2>2, RxAssumption
  <2>5. j # Size /\ p' = p + j - msg /\ p' <= j
    BY <2>1, <2>2, <2>3, <2>4, RxAssumption
  <2>6. ~ beyond'
    BY <2>1, <2>3, <2>5, Zenon
  <2>7. QED
    BY <2>1, <2>2, <2>3, <2>5, <2>6, RxAssumption
<1>8. CASE Check \/ Cut \/ Tear
  <2> DEFINE i == IF At(msg).k = "star" THEN msg + 1 ELSE msg
             j == Find(msg, {"star"})
             c == Find(i, {"star"})
             h == Find(msg, {"head"})
  <2>1. p + 1 < Size /\ msg + 2 < Size /\ ~ beyond /\ p \in Nat /\ msg \in Nat
    BY <1>0, <1>1, <1>8 DEF Check, Cut, Tear, EndInv
  <2>2. j \in msg..Size - 2 /\ h \in msg..Size - 2
    BY <1>0, <1>1, <2>1, FindShort, RxAssumption
  <2>3. c \in msg..Size - 2
    <3>1. i \in Nat /\ i + 2 <= Size /\ msg <= i
      BY <2>1, RxAssumption
    <3> HIDE DEF i
    <3>2. c \in i..Size - 2
      BY <1>0, <1>1, <3>1, FindShort
    <3>3. QED
      BY <2>1, <3>1, <3>2, RxAssumption
  <2>4. \/ beyond' = (beyond \/ j = Size)
        \/ beyond' = (beyond \/ c = Size)
        \/ beyond' = (beyond \/ h = Size)
    BY <1>8 DEF Check, Cut, Tear
  <2>5. /\ msg' = msg
        /\ \/ pc' \in {"match", "verify"} /\ p' = p
           \/ pc' = "walk" /\ p' = p + 1
    BY <1>8 DEF Check, Cut, Tear, Forth
  <2> HIDE DEF j, c, h
  <2>6. j # Size /\ c # Size /\ h # Size
    BY <2>1, <2>2, <2>3, RxAssumption
  <2>7. ~ beyond'
    BY <2>1, <2>4, <2>6, Zenon
  <2>8. QED
    BY <2>1, <2>5, <2>7, RxAssumption
<1>11. CASE Match
  <2>1. p + 1 < Size /\ msg + 2 < Size /\ ~ beyond
    BY <1>1, <1>11 DEF Match, EndInv, hist
  <2>2. UNCHANGED <<p, msg, beyond>> /\ pc' \in {"cut", "tear"}
    BY <1>11 DEF Match, hist
  <2>3. QED
    BY <2>1, <2>2
<1>12. CASE Echo
  <2>1. ~ beyond /\ due # <<>> /\ raced' = (raced \/ due = <<>>)
    BY <1>1, <1>12 DEF Echo, EndInv
  <2>2. PICK k \in Nat : Going(k)
    <3>1. ~ Resting
      BY <1>12 DEF Echo, Resting
    <3>2. Len(due) \in Nat
      BY <1>0, LenDue
    <3>3. QED
      BY <2>1, <3>1, <3>2 DEF QuietInv, DueInv, Going
  <2>3. beyond' = beyond /\ ((pc' = "walk" /\ p' = 0) \/ pc' = "echo")
    BY <1>12, <2>2, EchoWhole
  <2>4. QED
    BY <2>1, <2>3, RxAssumption
<1>9. CASE Verify \/ Parse
  <2>1. p + 1 < Size /\ ~ beyond /\ p \in Nat
    BY <1>0, <1>1, <1>9 DEF Verify, Parse, EndInv, hist
  <2>2. /\ beyond' = beyond
        /\ \/ pc' = "parse" /\ p' = p
           \/ pc' \in {"walk", "lost"} /\ p' = p + 1
    BY <1>9 DEF Verify, Parse, Forth, hist
  <2>3. QED
    BY <2>1, <2>2, RxAssumption
<1>10. QED
  BY <1>2, <1>3, <1>4, <1>5, <1>6, <1>7, <1>8, <1>9, <1>11, <1>12 DEF Next, Task

-----------------------------------------------------------------------------
IInv == TypeInv /\ OnceInv /\ EndInv /\ QuietInv

\* The invariant is inductive.
THEOREM Invariance == Spec => []IInv
<1>1. Init => IInv
  <2>1. Init => OnceInv
    <3>1. ASSUME Init PROVE OnceInv
      <4>1. /\ \A i \in 0..Size - 1 : buf[i].k # "star"
            /\ Len(parsed) = 0 /\ pc = "init"
        BY <3>1, CellType DEF Init
      <4>2. QED
        BY <4>1 DEF OnceInv, Star
    <3>2. QED
      BY <3>1
  <2>2. QED
    BY <2>1, TypeInit, EndInit, QuietInit DEF IInv
<1>2. IInv /\ [Next]_vars => IInv'
  <2> SUFFICES ASSUME IInv, [Next]_vars
               PROVE  IInv'
    OBVIOUS
  <2>1. TypeInv'
    <3>1. CASE UNCHANGED vars
      BY <3>1 DEF IInv, TypeInv, TypeOK, PInv, vars, uart, task, hist
    <3>2. QED
      BY <3>1, TypeReceive, TypeIdle, TypeWeb, TypeTask DEF IInv, Next
  <2>2. OnceInv'
    BY <2>1, OnceReceive, OnceCut, OnceTear, OnceVerify, OnceParse, OnceRest
       DEF IInv, Next, Task
  <2>3. EndInv'
    BY EndNext DEF IInv
  <2>4. QuietInv'
    BY QuietNext DEF IInv
  <2>5. QED
    BY <2>1, <2>2, <2>3, <2>4 DEF IInv
<1>3. QED
  BY <1>1, <1>2, PTL DEF Spec

\* Type correctness: the parser's pointers and the queue stay inside their sizes,
\* at every interleaving of DMA, interrupt and task.
THEOREM TypeCorrect == Spec => []TypeOK
<1>1. IInv => TypeOK
  BY DEF IInv, TypeInv
<1>2. QED
  BY <1>1, Invariance, PTL

\* No sentence is parsed twice, though the queue holds the same buffer several
\* times and the task walks over what it has already parsed.
THEOREM OnceOnly == Spec => []ParsedOnce
<1>1. IInv => ParsedOnce
  BY ParsedSeq DEF IInv, OnceInv, ParsedOnce, TypeInv
<1>2. QED
  BY <1>1, Invariance, PTL

\* A burst that fits and that nothing disturbs is parsed as it was sent.
THEOREM QuietParsed == Spec => []QuietBurstParsed
<1>1. IInv => QuietBurstParsed
  <2> SUFFICES ASSUME IInv, Resting
               PROVE  /\ Len(due) <= Len(parsed)
                      /\ \A i \in DOMAIN due :
                           parsed[Len(parsed) - Len(due) + i]
                             = [s |-> due[i], read |-> {due[i]}]
    BY DEF QuietBurstParsed
  <2>1. Len(due) \in Nat /\ DOMAIN due = 1..Len(due) /\ Len(parsed) \in Nat
    BY LenDue, ParsedSeq, LenProperties DEF IInv, TypeInv, TypeOK
  <2>2. CASE due = <<>>
    BY <2>1, <2>2
  <2>3. CASE due # <<>>
    BY <2>1, <2>3 DEF IInv, QuietInv, DueInv, Done
  <2>4. QED
    BY <2>2, <2>3
<1>2. QED
  BY <1>1, Invariance, PTL

\* Echo and parser stay in their buffer, wherever the DMA is, as long as bursts
\* leave two cells, the interrupt's NUL does not come under the parser, and the
\* echo is given whole sentences that nothing touches.
THEOREM BufferKept == Spec => []StaysInBuffer
<1>1. IInv => StaysInBuffer
  BY DEF IInv, EndInv, StaysInBuffer
<1>2. QED
  BY <1>1, Invariance, PTL
=============================================================================
