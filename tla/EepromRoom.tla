----------------------------- MODULE EepromRoom -----------------------------
(***************************************************************************)
(* On a page with room for one copy of every variable per power loss and   *)
(* one more, EE_PageTransfer and EE_Init never meet PAGE_FULL, so that     *)
(* they always end in the known good state.                                *)
(***************************************************************************)
EXTENDS EepromProofs

Room == NSlots >= (MaxCrash + 1) * NVars

\* Slots that interrupted copies can have used up by now.
Spent == crashes * NVars

Half == IF half THEN 1 ELSE 0

\* No copy has used more than it copies, and no page is left RECEIVE.
RoomInv ==
  /\ pc \in {"idle", "write", "ret"} => \A p \in Page : hdr[p] # "receive"
  /\ pc = "xferMark" => hdr[dst] = "erased"
  /\ pc = "xferNew" /\ half = FALSE => used[dst] = 0
  /\ pc = "off" => \A p \in Page : hdr[p] = "receive" /\ hdr[Other(p)] = "valid"
                                   => used[p] <= Spent
  /\ pc = "xferCopy" =>
       used[dst] <= (IF req.v < cur THEN cur - 1 ELSE cur) + Half
  /\ pc = "xferErase" /\ half = FALSE => used[dst] <= NVars
  /\ pc = "recCopy" => used[dst] <= Spent + (cur - 1) + Half
  /\ pc = "recValid" => used[dst] <= Spent + NVars

-----------------------------------------------------------------------------
USE SizeAssumption, TokenAssumption

USE DEF TypeOK, PcInv, PageInv, IInv, Page, Header, PcSet, HalfPcs, Var,
        NoVals, Full, Blank, Other, Src, WritePage, ReadPage, Read, Receiving,
        Settled, Moving, Copied, AllCopied, Copies, flash, RoomInv, Half

\* What is spent leaves room for one more copy, and grows by one copy with
\* each power loss.
LEMMA SpentBounds ==
  ASSUME Room, TypeOK
  PROVE  /\ Spent \in Nat
         /\ Spent + NVars <= NSlots
         /\ crashes < MaxCrash => (crashes + 1) * NVars = Spent + NVars
<1>1. crashes \in Nat /\ NVars \in Nat /\ MaxCrash \in Nat /\ crashes <= MaxCrash
  OBVIOUS
<1>2. crashes * NVars \in Nat
  BY <1>1
<1>3. (crashes + 1) * NVars = crashes * NVars + NVars
  BY <1>1
<1>4. (crashes + 1) * NVars <= (MaxCrash + 1) * NVars
  BY <1>1
<1>5. crashes * NVars + NVars <= NSlots
  <2>1. (MaxCrash + 1) * NVars <= NSlots /\ NSlots \in Nat
    BY DEF Room
  <2>2. (MaxCrash + 1) * NVars \in Nat /\ (crashes + 1) * NVars \in Nat
    BY <1>1
  <2>3. ASSUME NEW a \in Nat, NEW b \in Nat, NEW c \in Nat, a <= b, b <= c
        PROVE  a <= c
    BY <2>3
  <2>4. (crashes + 1) * NVars <= NSlots
    BY <1>4, <2>1, <2>2, <2>3, Zenon
  <2> QED
    BY <1>3, <2>4
<1> QED
  BY <1>2, <1>3, <1>5 DEF Spent

\* PAGE_FULL never comes in a copy.
LEMMA NeverFull ==
  ASSUME Room, IInv, RoomInv
  PROVE  ~TransferFull /\ ~RecoverFull
<1>1. ASSUME TransferFull PROVE FALSE
  <2>1. CASE pc = "xferNew"
    BY <1>1, <2>1 DEF TransferFull
  <2>2. CASE pc = "xferCopy" /\ Copies(req.v)
    <3>1. WritePage = dst /\ half = FALSE /\ used[dst] = NSlots
      BY <1>1, <2>2 DEF TransferFull
    <3>2. req.v \in 1..NVars /\ cur \in 1..NVars /\ cur # req.v
      BY <2>2 DEF Request
    <3>3. used[dst] <= NVars - 1
      BY <2>2, <3>1, <3>2
    <3>4. Spent + NVars <= NSlots /\ Spent \in Nat
      BY SpentBounds
    <3> QED
      BY <3>1, <3>3, <3>4
  <2> QED
    BY <1>1, <2>1, <2>2 DEF TransferFull
<1>2. ASSUME RecoverFull PROVE FALSE
  <2>1. WritePage = dst /\ half = FALSE /\ used[dst] = NSlots /\ cur \in 1..NVars
        /\ pc = "recCopy"
    BY <1>2 DEF RecoverFull
  <2>2. Spent + NVars <= NSlots /\ Spent \in Nat
    BY SpentBounds
  <2> QED
    BY <2>1, <2>2
<1> QED
  BY <1>1, <1>2

LEMMA InitRoom == Init => RoomInv
  BY DEF Init

\* Steps of a copy loop: one slot for each variable passed.
LEMMA CopyRoom ==
  ASSUME Room, IInv, IInv', RoomInv, TransferCopy \/ RecoverCopy
  PROVE  RoomInv'
<1>1. /\ pc \in {"xferCopy", "recCopy"}
      /\ UNCHANGED <<pc, dst, req, crashes>>
      /\ \/ half = FALSE /\ CopySkip(first[dst])
         \/ CopyData(first[dst])
         \/ CopyAddress
  BY DEF TransferCopy, RecoverCopy
<1>2. /\ dst \in Page /\ used[dst] \in Nat /\ cur \in 1..(NVars + 1)
      /\ req.v \in 1..NVars /\ Spent \in Nat /\ Spent' = Spent
      /\ pc = "xferCopy" => first[dst] = req.v
  BY <1>1, SpentBounds DEF Request, Spent
<1>3. CASE half = FALSE /\ CopySkip(first[dst])
  BY <1>1, <1>2, <1>3 DEF CopySkip
<1>4. CASE CopyData(first[dst])
  <2>1. /\ half = FALSE /\ half' = TRUE /\ cur' = cur
        /\ used' = [used EXCEPT ![dst] = @ + 1]
    BY <1>1, <1>4, CopyPages DEF CopyData, ProgramData
  <2>2. used'[dst'] = used[dst] + 1
    BY <1>1, <1>2, <2>1
  <2> QED
    BY <1>1, <1>2, <2>1, <2>2
<1>5. CASE CopyAddress
  <2>1. /\ half = TRUE /\ half' = FALSE /\ cur' = cur + 1 /\ used' = used
    BY <1>1, <1>5 DEF CopyAddress, ProgramAddress
  <2>2. cur # first[dst]
    BY <1>1, <2>1
  <2> QED
    BY <1>1, <1>2, <2>1, <2>2
<1> QED
  BY <1>1, <1>3, <1>4, <1>5

\* Steps that change no flash.
LEMMA ControlRoom ==
  ASSUME Room, IInv, IInv', RoomInv,
         WriteCall \/ WriteReturn \/ TransferBegin \/ TransferCopied
           \/ BootErase \/ BootRecover \/ BootFormat \/ RecoverCopied
  PROVE  RoomInv'
<1>1. CASE WriteCall
  BY <1>1 DEF WriteCall
<1>2. CASE WriteReturn
  BY <1>2 DEF WriteReturn
<1>3. CASE TransferBegin
  BY <1>3 DEF TransferBegin
<1>4. CASE TransferCopied
  <2>1. req.v \in 1..NVars
    BY DEF Request
  <2> QED
    BY <1>4, <2>1 DEF TransferCopied
<1>5. CASE BootErase
  BY <1>5 DEF BootErase, Boot
<1>6. CASE BootRecover
  <2>1. Spent' = Spent /\ Spent \in Nat
    BY <1>6, SpentBounds DEF BootRecover, Boot, Spent
  <2> QED
    BY <1>6, <2>1 DEF BootRecover, Boot
<1>7. CASE BootFormat
  BY <1>7 DEF BootFormat
<1>8. CASE RecoverCopied
  <2>1. Spent' = Spent /\ Spent \in Nat
    BY <1>8, SpentBounds DEF RecoverCopied, Spent
  <2> QED
    BY <1>8, <2>1 DEF RecoverCopied
<1> QED
  BY <1>1, <1>2, <1>3, <1>4, <1>5, <1>6, <1>7, <1>8

\* Steps that program a slot outside the copy loops.
LEMMA SlotRoom ==
  ASSUME Room, IInv, IInv', RoomInv,
         WriteData \/ WriteAddress \/ TransferNewData \/ TransferNewAddress
  PROVE  RoomInv'
<1>1. CASE WriteData
  BY <1>1 DEF WriteData, ProgramData
<1>2. CASE WriteAddress
  BY <1>2 DEF WriteAddress, ProgramAddress
<1>3. CASE TransferNewData
  BY <1>3 DEF TransferNewData, ProgramData
<1>4. CASE TransferNewAddress
  <2>1. /\ pc = "xferNew" /\ half = TRUE /\ half' = FALSE
        /\ used' = used /\ cur' = 1 /\ req' = req /\ dst' = dst
        /\ pc' = "xferCopy"
    BY <1>4 DEF TransferNewAddress, ProgramAddress
  <2>2. req.v \in 1..NVars
    BY DEF Request
  <2> QED
    BY <2>1, <2>2
<1> QED
  BY <1>1, <1>2, <1>3, <1>4

\* Steps that program a page status.
LEMMA MarkRoom ==
  ASSUME Room, IInv, IInv', RoomInv,
         TransferMark \/ TransferValid \/ InitValid \/ RecoverValid
           \/ FormatValid0
  PROVE  RoomInv'
<1>1. CASE TransferMark
  BY <1>1 DEF TransferMark, Mark
<1>2. CASE TransferValid
  BY <1>2 DEF TransferValid, Mark
<1>3. CASE InitValid
  BY <1>3 DEF InitValid, Mark
<1>4. CASE RecoverValid
  BY <1>4 DEF RecoverValid, Mark
<1>5. CASE FormatValid0
  BY <1>5 DEF FormatValid0, Mark
<1> QED
  BY <1>1, <1>2, <1>3, <1>4, <1>5

\* Steps of an erase.
LEMMA EraseRoom ==
  ASSUME Room, IInv, IInv', RoomInv,
         TransferErase \/ InitErase \/ RecoverErase \/ FormatErase0
           \/ FormatErase1
  PROVE  RoomInv'
<1>1. CASE TransferErase
  BY <1>1 DEF TransferErase, Erase, EraseBegin, EraseEnd
<1>2. CASE InitErase
  BY <1>2 DEF InitErase, Erase, EraseBegin, EraseEnd
<1>3. CASE RecoverErase
  BY <1>3 DEF RecoverErase, Erase, EraseBegin, EraseEnd
<1>4. CASE FormatErase0
  BY <1>4 DEF FormatErase0, Erase, EraseBegin, EraseEnd
<1>5. CASE FormatErase1
  BY <1>5 DEF FormatErase1, Erase, EraseBegin, EraseEnd
<1> QED
  BY <1>1, <1>2, <1>3, <1>4, <1>5

\* A power loss: whatever the copy used is one copy more than was spent.
LEMMA CrashRoom ==
  ASSUME Room, IInv, IInv', RoomInv, Crash
  PROVE  RoomInv'
<1>1. /\ pc' = "off" /\ hdr' = hdr /\ used' = used
      /\ Spent' = Spent + NVars /\ Spent \in Nat
  <2>1. crashes < MaxCrash /\ crashes' = crashes + 1
    BY DEF Crash, PowerLoss
  <2> QED
    BY <2>1, SpentBounds DEF Crash, PowerLoss, Spent
<1> SUFFICES ASSUME NEW p \in Page, hdr[p] = "receive", hdr[Other(p)] = "valid"
             PROVE  used[p] <= Spent + NVars
  BY <1>1
<1>2. used[p] \in Nat /\ req.v \in 1..NVars /\ cur \in 1..(NVars + 1)
  BY DEF Request
<1>3. CASE pc = "xferCopy"
  <2>1. p = dst
    BY <1>3
  <2>2. half => cur \in 1..NVars /\ cur # req.v
    BY <1>3
  <2> QED
    BY <1>1, <1>2, <1>3, <2>1, <2>2
<1>4. CASE pc = "recCopy"
  <2>1. p = dst
    BY <1>4
  <2>2. half => cur \in 1..NVars
    BY <1>4
  <2> QED
    BY <1>1, <1>2, <1>4, <2>1, <2>2
<1>5. CASE pc \in {"xferNew", "xferErase", "recValid"}
  BY <1>1, <1>2, <1>5
<1>6. CASE pc \notin {"xferCopy", "recCopy", "xferNew", "xferErase", "recValid"}
  BY <1>1, <1>2, <1>6 DEF Crash, PowerLoss
<1> QED
  BY <1>3, <1>4, <1>5, <1>6

LEMMA NextRoom ==
  ASSUME Room, IInv, IInv', RoomInv, [Next]_vars
  PROVE  RoomInv'
<1>1. CASE Next
  BY <1>1, ControlRoom, SlotRoom, MarkRoom, EraseRoom, CopyRoom, CrashRoom,
     NeverFull
  DEF Next, Step, WriteStep, TransferStep, InitStep
<1>2. CASE UNCHANGED vars
  BY <1>2 DEF vars, Spent
<1> QED
  BY <1>1, <1>2

-----------------------------------------------------------------------------
HIDE DEF TypeOK, PcInv, PageInv, IInv, RoomInv

\* EE_Init and EE_WriteVariable always leave the pages in the known good state
\* of eeprom.c:99, when the page has room for the copies that are interrupted.
THEOREM KnownGood ==
  ASSUME Room
  PROVE  Spec => []KnownGoodState
<1>1. Init => RoomInv
  BY InitRoom
<1>2. IInv /\ IInv' /\ RoomInv /\ [Next]_vars => RoomInv'
  BY NextRoom
<1>3. IInv /\ RoomInv => KnownGoodState
  BY DEF KnownGoodState, IInv, TypeOK, PcInv, RoomInv
<1> QED
  BY <1>1, <1>2, <1>3, Invariance, PTL DEF Spec
=============================================================================
