---------------------------- MODULE EepromProofs ----------------------------
(***************************************************************************)
(* Theorems about Eeprom, for every number of variables, slots and power   *)
(* losses.                                                                 *)
(***************************************************************************)
EXTENDS Eeprom, TLAPS

Src == Other(dst)

\* A page with nothing on it, whatever its status says.
Blank(p) == used[p] = 0 /\ first[p] = None /\ val[p] = NoVals

\* Operations made of two flash operations.
HalfPcs == {"write", "xferNew", "xferCopy", "xferErase", "recCopy", "recErase",
            "initErase", "fmtErase0", "fmtErase1"}

\* The status half-words of a device at rest; a page left RECEIVE is full.
Settled == \E p \in Page :
             /\ hdr[p] = "valid"
             /\ \/ hdr[Other(p)] = "erased" /\ Blank(Other(p))
                \/ hdr[Other(p)] = "receive" /\ Full(Other(p))

\* The old page still VALID, the new one RECEIVE.
Moving == hdr[Src] = "valid" /\ hdr[dst] = "receive"

\* The variables before the loop index are on the new page.
Copied == \A v \in Var : v < cur /\ v # first[dst] => val[dst][v] = val[Src][v]

AllCopied == \A v \in Var : v # first[dst] => val[dst][v] = val[Src][v]

\* What holds where control is.
PcInv ==
  /\ half => pc \in HalfPcs
  /\ pc = "off" => hdr[0] # hdr[1] \/ hdr[0] = "erased"
  /\ pc \in {"idle", "write", "ret"} => Settled
  /\ pc = "write" /\ half => ~Receiving /\ used[WritePage] # 0
  /\ pc \in {"xferMark", "xferNew"} => hdr[Src] = "valid"
  /\ pc = "xferMark" => \/ hdr[dst] = "erased" /\ Blank(dst)
                        \/ hdr[dst] = "receive" /\ Full(dst)
  /\ pc = "xferNew" => /\ hdr[dst] = "receive"
                       /\ ~half => Blank(dst) \/ Full(dst)
                       /\ half => used[dst] = 1 /\ first[dst] = Torn
  /\ pc \in {"xferCopy", "recCopy"} => Moving /\ Copied
  /\ pc = "xferCopy" => first[dst] = req.v
  /\ pc \in {"xferCopy", "recCopy"} /\ half =>
       /\ Copies(first[dst])
       /\ used[dst] # 0 /\ (used[dst] = 1 => first[dst] = Torn)
  /\ pc = "xferErase" => IF half THEN hdr[Src] = "erased" /\ hdr[dst] = "receive"
                                 ELSE Moving /\ AllCopied
  /\ pc \in {"xferValid", "initValid"} =>
       hdr[Src] = "erased" /\ hdr[dst] = "receive" /\ Blank(Src)
  /\ pc = "recValid" => Moving /\ AllCopied
  /\ pc = "recErase" => /\ hdr[dst] = "valid"
                        /\ hdr[Src] = IF half THEN "erased" ELSE "valid"
  /\ pc = "initErase" => hdr[Src] = "erased" /\ hdr[dst] \in {"valid", "receive"}
  /\ pc \in {"fmtErase0", "fmtValid0"} => hdr[0] = "erased" /\ hdr[1] = "erased"
  /\ pc = "fmtErase1" => hdr[0] = "valid" /\ hdr[1] = "erased"

\* What holds of the pages at any time.
PageInv ==
  /\ \A p \in Page : used[p] = 0 => Blank(p)
  /\ \A p \in Page : used[p] # 0 => first[p] # None
  /\ hdr[0] = "erased" /\ hdr[1] = "erased" => Blank(0) /\ Blank(1)
  /\ \A p \in Page : hdr[p] = "receive" /\ hdr[Other(p)] = "valid" =>
       \A v \in Var : v # first[p] => val[p][v] \in {None, val[Other(p)][v]}

IInv == TypeOK /\ PcInv /\ PageInv
-----------------------------------------------------------------------------
USE SizeAssumption, TokenAssumption

USE DEF TypeOK, PcInv, PageInv, IInv, Page, Header, PcSet, HalfPcs, Var,
        NoVals, Full, Blank, Other, Src, WritePage, ReadPage, Read, Receiving,
        Settled, Moving, Copied, AllCopied, Copies, flash

LEMMA InitInv == Init => IInv
<1> SUFFICES ASSUME Init PROVE IInv
  OBVIOUS
<1>1. TypeOK
  <2>1. val \in [Page -> [Var -> Val \cup {None}]]
    BY DEF Init
  <2>2. crashes \in 0..MaxCrash /\ cur \in 1..(NVars + 1)
    BY DEF Init
  <2>3. hdr \in [Page -> Header]
    BY DEF Init
  <2>4. used \in [Page -> 0..NSlots]
    BY DEF Init
  <2>5. first \in [Page -> Var \cup {None, Torn}]
    BY DEF Init
  <2>6. pc \in PcSet /\ half \in BOOLEAN /\ dst \in Page /\ req \in Request
    BY DEF Init
  <2> QED
    BY <2>1, <2>2, <2>3, <2>4, <2>5, <2>6
<1>2. PcInv
  BY DEF Init
<1>3. PageInv
  BY DEF Init
<1> QED
  BY <1>1, <1>2, <1>3

\* In a copy loop the page written to is the new one, the page read from the
\* old one.
LEMMA CopyPages ==
  ASSUME IInv, pc \in {"xferCopy", "recCopy"}
  PROVE  /\ WritePage = dst /\ ReadPage = Src
         /\ dst \in Page /\ Src \in Page /\ dst # Src
  OBVIOUS

LEMMA CopySkipInv ==
  ASSUME IInv, pc \in {"xferCopy", "recCopy"}, half = FALSE,
         CopySkip(first[dst]), UNCHANGED <<pc, dst, req, crashes>>
  PROVE  IInv'
<1>1. TypeOK'
  BY DEF CopySkip
<1>2. PcInv'
  BY DEF CopySkip
<1>3. PageInv'
  BY DEF CopySkip
<1> QED
  BY <1>1, <1>2, <1>3

LEMMA CopyDataInv ==
  ASSUME IInv, pc \in {"xferCopy", "recCopy"},
         CopyData(first[dst]), UNCHANGED <<pc, dst, req, crashes>>
  PROVE  IInv'
<1>1. TypeOK'
  BY DEF CopyData, ProgramData
<1>2. PcInv'
  <2>1. /\ half' = TRUE /\ hdr' = hdr /\ val' = val /\ cur' = cur
        /\ used' = [used EXCEPT ![dst] = @ + 1]
        /\ first' = [first EXCEPT ![dst] = IF used[dst] = 0 THEN Torn ELSE @]
        /\ pc' = pc /\ dst' = dst /\ req' = req
    BY CopyPages DEF CopyData, ProgramData
  <2>2. used[dst] \in Nat /\ (used[dst] = 0 => first[dst] = None)
    OBVIOUS
  <2>3. pc = "xferCopy" => first[dst] = req.v /\ used[dst] # 0
    <3>1. pc = "xferCopy" => first[dst] = req.v /\ req.v \in Var
      BY DEF Request
    <3> QED
      BY <2>2, <3>1
  <2>4. Moving' /\ (pc = "xferCopy" => first'[dst'] = req'.v)
    BY <2>1, <2>3
  <2>5. Copied'
    BY <2>1, <2>2
  <2>6. /\ Copies(first[dst])'
        /\ used'[dst'] # 0 /\ (used[dst] = 1 => first[dst] = Torn)'
    BY <2>1, <2>2 DEF CopyData
  <2> QED
    BY <2>1, <2>4, <2>5, <2>6
<1>3. PageInv'
  BY DEF CopyData, ProgramData
<1> QED
  BY <1>1, <1>2, <1>3

LEMMA CopyAddressInv ==
  ASSUME IInv, pc \in {"xferCopy", "recCopy"},
         CopyAddress, UNCHANGED <<pc, dst, req, crashes>>
  PROVE  IInv'
<1>1. /\ half = TRUE /\ half' = FALSE /\ hdr' = hdr /\ used' = used
      /\ val' = [val EXCEPT ![dst][cur] = val[Src][cur]]
      /\ first' = [first EXCEPT ![dst] = IF used[dst] = 1 THEN cur ELSE @]
      /\ cur' = cur + 1 /\ pc' = pc /\ dst' = dst /\ req' = req
      /\ crashes' = crashes
  BY CopyPages DEF CopyAddress, ProgramAddress
<1>2. /\ cur \in Var /\ cur # first[dst]
      /\ val[Src][cur] # None
      /\ used[dst] # 0 /\ (used[dst] = 1 => first[dst] = Torn)
  BY <1>1, CopyPages
<1>3. dst \in Page /\ Src \in Page /\ dst # Src
  BY CopyPages
<1>4. TypeOK'
  <2>1. val' \in [Page -> [Var -> Val \cup {None}]]
    <3>1. val \in [Page -> [Var -> Val \cup {None}]]
      OBVIOUS
    <3>2. val[Src][cur] \in Val \cup {None}
      BY <1>2, <1>3, <3>1
    <3> QED
      BY <1>1, <1>2, <1>3, <3>1, <3>2
  <2>2. first' \in [Page -> Var \cup {None, Torn}]
    BY <1>1, <1>2
  <2>3. cur' \in 1..(NVars + 1)
    BY <1>1, <1>2
  <2>4. /\ hdr' \in [Page -> Header] /\ used' \in [Page -> 0..NSlots]
        /\ pc' \in PcSet /\ half' \in BOOLEAN /\ dst' \in Page
        /\ req' \in Request /\ crashes' \in 0..MaxCrash
    BY <1>1
  <2> QED
    BY <2>1, <2>2, <2>3, <2>4
<1>5. PcInv'
  <2>1. Moving'
    BY <1>1, <1>3
  <2>2. Copied'
    <3> SUFFICES ASSUME NEW v \in Var, v < cur + 1, v # first'[dst]
                 PROVE  val'[dst][v] = val'[Src][v]
      BY <1>1
    <3>1. val'[Src][v] = val[Src][v]
      BY <1>1, <1>3
    <3>2. CASE v = cur
      BY <1>1, <1>2, <1>3, <3>1, <3>2
    <3>3. CASE v # cur
      <4>1. val'[dst][v] = val[dst][v]
        BY <1>1, <1>2, <1>3, <3>3
      <4>2. v < cur /\ v # first[dst]
        BY <1>1, <1>2, <3>3
      <4> QED
        BY <3>1, <4>1, <4>2
    <3> QED
      BY <3>2, <3>3
  <2>3. pc = "xferCopy" => first'[dst] = req'.v
    <3>1. pc = "xferCopy" => first[dst] = req.v /\ req.v # Torn
      BY DEF Request
    <3> QED
      BY <1>1, <1>2, <3>1
  <2> QED
    BY <1>1, <2>1, <2>2, <2>3
<1>6. PageInv'
  <2>1. \A p \in Page : used'[p] = 0 => Blank(p)'
    <3> SUFFICES ASSUME NEW p \in Page, used[p] = 0 PROVE Blank(p)'
      BY <1>1
    <3> QED
      BY <1>1, <1>2, <1>3
  <2>2. \A p \in Page : used'[p] # 0 => first'[p] # None
    BY <1>1, <1>2
  <2>3. \A p \in Page : hdr'[p] = "receive" /\ hdr'[Other(p)] = "valid" =>
          \A v \in Var : v # first'[p] =>
            val'[p][v] \in {None, val'[Other(p)][v]}
    BY <1>1, <1>2, <1>3
  <2> QED
    BY <1>1, <1>3, <2>1, <2>2, <2>3
<1> QED
  BY <1>4, <1>5, <1>6
\* Types of what an erase and a programmed address change.
LEMMA EraseType ==
  ASSUME TypeOK, NEW p \in Page, EraseBegin(p) \/ EraseEnd(p)
  PROVE  /\ hdr' \in [Page -> Header]
         /\ val' \in [Page -> [Var -> Val \cup {None}]]
         /\ used' \in [Page -> 0..NSlots]
         /\ first' \in [Page -> Var \cup {None, Torn}]
         /\ half' \in BOOLEAN
<1>1. NoVals \in [Var -> Val \cup {None}] /\ 0 \in 0..NSlots
  OBVIOUS
<1>2. CASE EraseBegin(p)
  BY <1>2 DEF EraseBegin
<1>3. CASE EraseEnd(p)
  <2>1. val' \in [Page -> [Var -> Val \cup {None}]]
    <3> HIDE DEF NoVals
    <3> QED
      BY <1>1, <1>3 DEF EraseEnd
  <2> QED
    BY <1>1, <1>3, <2>1 DEF EraseEnd
<1> QED
  BY <1>2, <1>3

LEMMA AddressType ==
  ASSUME TypeOK, NEW p \in Page, NEW v \in Var, NEW d \in Val,
         ProgramAddress(p, v, d)
  PROVE  /\ val' \in [Page -> [Var -> Val \cup {None}]]
         /\ first' \in [Page -> Var \cup {None, Torn}]
  BY DEF ProgramAddress

\* Steps that leave the flash alone.
LEMMA ControlInv ==
  ASSUME IInv,
         WriteCall \/ WriteReturn \/ TransferBegin \/
           TransferCopied \/ TransferFull \/ BootErase \/ BootRecover
           \/ BootFormat \/ RecoverCopied \/ RecoverFull
  PROVE  IInv'
<1>1. CASE WriteCall
  <2>1. TypeOK'
    BY <1>1 DEF WriteCall
  <2>2. PcInv'
    BY <1>1 DEF WriteCall
  <2>3. PageInv'
    BY <1>1 DEF WriteCall
  <2> QED
    BY <2>1, <2>2, <2>3
<1>2. CASE WriteReturn
  <2>1. TypeOK'
    BY <1>2 DEF WriteReturn
  <2>2. PcInv'
    BY <1>2 DEF WriteReturn
  <2>3. PageInv'
    BY <1>2 DEF WriteReturn
  <2> QED
    BY <2>1, <2>2, <2>3
<1>3. CASE TransferBegin
  <2>1. TypeOK'
    BY <1>3 DEF TransferBegin
  <2>2. PcInv'
    BY <1>3 DEF TransferBegin
  <2>3. PageInv'
    BY <1>3 DEF TransferBegin
  <2> QED
    BY <2>1, <2>2, <2>3
<1>4. CASE TransferCopied
  <2>1. TypeOK'
    BY <1>4 DEF TransferCopied
  <2>2. PcInv'
    BY <1>4 DEF TransferCopied
  <2>3. PageInv'
    BY <1>4 DEF TransferCopied
  <2> QED
    BY <2>1, <2>2, <2>3
<1>5. CASE TransferFull
  <2>1. TypeOK'
    BY <1>5 DEF TransferFull
  <2>2. PcInv'
    BY <1>5 DEF TransferFull
  <2>3. PageInv'
    BY <1>5 DEF TransferFull
  <2> QED
    BY <2>1, <2>2, <2>3
<1>6. CASE BootErase
  <2>1. TypeOK'
    BY <1>6 DEF BootErase, Boot
  <2>2. PcInv'
    BY <1>6 DEF BootErase, Boot
  <2>3. PageInv'
    BY <1>6 DEF BootErase, Boot
  <2> QED
    BY <2>1, <2>2, <2>3
<1>7. CASE BootRecover
  <2>1. TypeOK'
    BY <1>7 DEF BootRecover, Boot
  <2>2. PcInv'
    BY <1>7 DEF BootRecover, Boot
  <2>3. PageInv'
    BY <1>7 DEF BootRecover, Boot
  <2> QED
    BY <2>1, <2>2, <2>3
<1>8. CASE BootFormat
  <2>1. TypeOK'
    BY <1>8 DEF BootFormat
  <2>2. PcInv'
    BY <1>8 DEF BootFormat
  <2>3. PageInv'
    BY <1>8 DEF BootFormat
  <2> QED
    BY <2>1, <2>2, <2>3
<1>9. CASE RecoverCopied
  <2>1. TypeOK'
    BY <1>9 DEF RecoverCopied
  <2>2. PcInv'
    BY <1>9 DEF RecoverCopied
  <2>3. PageInv'
    BY <1>9 DEF RecoverCopied
  <2> QED
    BY <2>1, <2>2, <2>3
<1>10. CASE RecoverFull
  <2>1. TypeOK'
    BY <1>10 DEF RecoverFull
  <2>2. PcInv'
    BY <1>10 DEF RecoverFull
  <2>3. PageInv'
    BY <1>10 DEF RecoverFull
  <2> QED
    BY <2>1, <2>2, <2>3
<1> QED
  BY <1>1, <1>2, <1>3, <1>4, <1>5, <1>6, <1>7, <1>8, <1>9, <1>10

\* Steps that program a slot outside the copy loops.
LEMMA SlotInv ==
  ASSUME IInv,
         WriteData \/ WriteAddress \/ TransferNewData \/
           TransferNewAddress
  PROVE  IInv'
<1>1. CASE WriteData
  <2>1. TypeOK'
    BY <1>1 DEF WriteData, ProgramData
  <2>2. PcInv'
    BY <1>1 DEF WriteData, ProgramData
  <2>3. PageInv'
    BY <1>1 DEF WriteData, ProgramData
  <2> QED
    BY <2>1, <2>2, <2>3
<1>2. CASE WriteAddress
  <2>1. TypeOK'
    <3>1. req.v \in Var /\ req.d \in Val /\ WritePage \in Page
      BY DEF Request
    <3> QED
      BY <1>2, <3>1, AddressType DEF WriteAddress, ProgramAddress
  <2>2. PcInv'
    BY <1>2 DEF WriteAddress, ProgramAddress
  <2>3. PageInv'
    <3>1. req.v \in Var /\ req.d \in Val
      BY DEF Request
    <3> QED
      BY <1>2, <3>1 DEF WriteAddress, ProgramAddress
  <2> QED
    BY <2>1, <2>2, <2>3
<1>3. CASE TransferNewData
  <2>1. TypeOK'
    BY <1>3 DEF TransferNewData, ProgramData
  <2>2. PcInv'
    BY <1>3 DEF TransferNewData, ProgramData
  <2>3. PageInv'
    BY <1>3 DEF TransferNewData, ProgramData
  <2> QED
    BY <2>1, <2>2, <2>3
<1>4. CASE TransferNewAddress
  <2>1. TypeOK'
    <3>1. req.v \in Var /\ req.d \in Val /\ WritePage \in Page
      BY DEF Request
    <3>2. cur' \in 1..(NVars + 1)
      BY <1>4 DEF TransferNewAddress
    <3> QED
      BY <1>4, <3>1, <3>2, AddressType DEF TransferNewAddress, ProgramAddress
  <2>2. PcInv'
    BY <1>4 DEF TransferNewAddress, ProgramAddress
  <2>3. PageInv'
    <3>1. req.v \in Var /\ req.d \in Val
      BY DEF Request
    <3> QED
      BY <1>4, <3>1 DEF TransferNewAddress, ProgramAddress
  <2> QED
    BY <2>1, <2>2, <2>3
<1> QED
  BY <1>1, <1>2, <1>3, <1>4

\* Steps that program a page status.
LEMMA MarkInv ==
  ASSUME IInv,
         TransferMark \/ TransferValid \/ InitValid \/ RecoverValid
           \/ FormatValid0
  PROVE  IInv'
<1>1. CASE TransferMark
  <2>1. TypeOK'
    BY <1>1 DEF TransferMark, Mark
  <2>2. PcInv'
    BY <1>1 DEF TransferMark, Mark
  <2>3. PageInv'
    BY <1>1 DEF TransferMark, Mark
  <2> QED
    BY <2>1, <2>2, <2>3
<1>2. CASE TransferValid
  <2>1. TypeOK'
    BY <1>2 DEF TransferValid, Mark
  <2>2. PcInv'
    BY <1>2 DEF TransferValid, Mark
  <2>3. PageInv'
    BY <1>2 DEF TransferValid, Mark
  <2> QED
    BY <2>1, <2>2, <2>3
<1>3. CASE InitValid
  <2>1. TypeOK'
    BY <1>3 DEF InitValid, Mark
  <2>2. PcInv'
    BY <1>3 DEF InitValid, Mark
  <2>3. PageInv'
    BY <1>3 DEF InitValid, Mark
  <2> QED
    BY <2>1, <2>2, <2>3
<1>4. CASE RecoverValid
  <2>1. TypeOK'
    BY <1>4 DEF RecoverValid, Mark
  <2>2. PcInv'
    BY <1>4 DEF RecoverValid, Mark
  <2>3. PageInv'
    BY <1>4 DEF RecoverValid, Mark
  <2> QED
    BY <2>1, <2>2, <2>3
<1>5. CASE FormatValid0
  <2>1. TypeOK'
    BY <1>5 DEF FormatValid0, Mark
  <2>2. PcInv'
    BY <1>5 DEF FormatValid0, Mark
  <2>3. PageInv'
    BY <1>5 DEF FormatValid0, Mark
  <2> QED
    BY <2>1, <2>2, <2>3
<1> QED
  BY <1>1, <1>2, <1>3, <1>4, <1>5

\* Steps of an erase.
LEMMA EraseInv ==
  ASSUME IInv,
         TransferErase \/ InitErase \/ RecoverErase \/ FormatErase0
           \/ FormatErase1
  PROVE  IInv'
<1>1. CASE TransferErase
  <2>1. TypeOK'
    <3>1. /\ EraseBegin(Src) \/ EraseEnd(Src)
          /\ pc' \in PcSet
          /\ UNCHANGED <<dst, cur, req, crashes>>
      BY <1>1 DEF TransferErase, Erase
    <3>2. TypeOK /\ Src \in Page
      OBVIOUS
    <3> HIDE DEF Src
    <3> QED
      BY <3>1, <3>2, EraseType
  <2>2. PcInv'
    BY <1>1 DEF TransferErase, Erase, EraseBegin, EraseEnd
  <2>3. PageInv'
    BY <1>1 DEF TransferErase, Erase, EraseBegin, EraseEnd
  <2> QED
    BY <2>1, <2>2, <2>3
<1>2. CASE InitErase
  <2>1. TypeOK'
    <3>1. /\ EraseBegin(Src) \/ EraseEnd(Src)
          /\ pc' \in PcSet
          /\ UNCHANGED <<dst, cur, req, crashes>>
      BY <1>2 DEF InitErase, Erase
    <3>2. TypeOK /\ Src \in Page
      OBVIOUS
    <3> HIDE DEF Src
    <3> QED
      BY <3>1, <3>2, EraseType
  <2>2. PcInv'
    BY <1>2 DEF InitErase, Erase, EraseBegin, EraseEnd
  <2>3. PageInv'
    BY <1>2 DEF InitErase, Erase, EraseBegin, EraseEnd
  <2> QED
    BY <2>1, <2>2, <2>3
<1>3. CASE RecoverErase
  <2>1. TypeOK'
    <3>1. /\ EraseBegin(Src) \/ EraseEnd(Src)
          /\ pc' \in PcSet
          /\ UNCHANGED <<dst, cur, req, crashes>>
      BY <1>3 DEF RecoverErase, Erase
    <3>2. TypeOK /\ Src \in Page
      OBVIOUS
    <3> HIDE DEF Src
    <3> QED
      BY <3>1, <3>2, EraseType
  <2>2. PcInv'
    BY <1>3 DEF RecoverErase, Erase, EraseBegin, EraseEnd
  <2>3. PageInv'
    BY <1>3 DEF RecoverErase, Erase, EraseBegin, EraseEnd
  <2> QED
    BY <2>1, <2>2, <2>3
<1>4. CASE FormatErase0
  <2>1. TypeOK'
    BY <1>4, EraseType DEF FormatErase0, Erase
  <2>2. PcInv'
    BY <1>4 DEF FormatErase0, Erase, EraseBegin, EraseEnd
  <2>3. PageInv'
    BY <1>4 DEF FormatErase0, Erase, EraseBegin, EraseEnd
  <2> QED
    BY <2>1, <2>2, <2>3
<1>5. CASE FormatErase1
  <2>1. TypeOK'
    BY <1>5, EraseType DEF FormatErase1, Erase
  <2>2. PcInv'
    BY <1>5 DEF FormatErase1, Erase, EraseBegin, EraseEnd
  <2>3. PageInv'
    BY <1>5 DEF FormatErase1, Erase, EraseBegin, EraseEnd
  <2> QED
    BY <2>1, <2>2, <2>3
<1> QED
  BY <1>1, <1>2, <1>3, <1>4, <1>5


LEMMA CrashInv ==
  ASSUME IInv, Crash
  PROVE  IInv'
<1>1. TypeOK'
  <2>1. crashes' \in 0..MaxCrash
    BY DEF Crash, PowerLoss
  <2> QED
    BY <2>1 DEF Crash, PowerLoss
<1>2. PcInv'
  <2>1. ~InWindow /\ pc' = "off" /\ half' = FALSE /\ hdr' = hdr
    BY DEF Crash, PowerLoss
  <2>2. hdr[0] # hdr[1] \/ hdr[0] = "erased"
    BY <2>1 DEF InWindow
  <2> QED
    BY <2>1, <2>2
<1>3. PageInv'
  BY DEF Crash, PowerLoss
<1> QED
  BY <1>1, <1>2, <1>3

LEMMA CopyInv ==
  ASSUME IInv, TransferCopy \/ RecoverCopy
  PROVE  IInv'
<1>1. /\ pc \in {"xferCopy", "recCopy"}
      /\ UNCHANGED <<pc, dst, req, crashes>>
      /\ \/ half = FALSE /\ CopySkip(first[dst])
         \/ CopyData(first[dst])
         \/ CopyAddress
  BY DEF TransferCopy, RecoverCopy
<1> QED
  BY <1>1, CopySkipInv, CopyDataInv, CopyAddressInv

LEMMA NextInv == ASSUME IInv, [Next]_vars PROVE IInv'
<1>1. CASE Next
  BY <1>1, ControlInv, SlotInv, MarkInv, EraseInv, CopyInv, CrashInv
  DEF Next, Step, WriteStep, TransferStep, InitStep
<1>2. CASE UNCHANGED vars
  BY <1>2 DEF vars, Request
<1> QED
  BY <1>1, <1>2

-----------------------------------------------------------------------------
(***************************************************************************)
(* Refinement: which steps change what the pages stand for.                *)
(***************************************************************************)
\* Outside the two commit points no step changes a stored value.
LEMMA FlashKept ==
  ASSUME IInv, WriteCall \/ WriteReturn \/ TransferBegin \/ TransferCopied
               \/ TransferFull \/ BootErase \/ BootRecover \/ BootFormat
               \/ RecoverCopied \/ RecoverFull
  PROVE  Logical' = Logical
<1>1. CASE WriteCall
  BY <1>1 DEF WriteCall, Logical, Home
<1>2. CASE WriteReturn
  BY <1>2 DEF WriteReturn, Logical, Home
<1>3. CASE TransferBegin
  BY <1>3 DEF TransferBegin, Logical, Home
<1>4. CASE TransferCopied
  BY <1>4 DEF TransferCopied, Logical, Home
<1>5. CASE TransferFull
  BY <1>5 DEF TransferFull, Logical, Home
<1>6. CASE BootErase
  BY <1>6 DEF BootErase, Boot, Logical, Home
<1>7. CASE BootRecover
  BY <1>7 DEF BootRecover, Boot, Logical, Home
<1>8. CASE BootFormat
  BY <1>8 DEF BootFormat, Logical, Home
<1>9. CASE RecoverCopied
  BY <1>9 DEF RecoverCopied, Logical, Home
<1>10. CASE RecoverFull
  BY <1>10 DEF RecoverFull, Logical, Home
<1> QED
  BY <1>1, <1>2, <1>3, <1>4, <1>5, <1>6, <1>7, <1>8, <1>9, <1>10

LEMMA StatusKept ==
  ASSUME IInv, TransferMark \/ TransferValid \/ InitValid \/ RecoverValid
               \/ FormatValid0
  PROVE  Logical' = Logical
<1>1. CASE TransferMark
  BY <1>1 DEF TransferMark, Mark, Logical, Home
<1>2. CASE TransferValid
  BY <1>2 DEF TransferValid, Mark, Logical, Home
<1>3. CASE InitValid
  BY <1>3 DEF InitValid, Mark, Logical, Home
<1>4. CASE RecoverValid
  BY <1>4 DEF RecoverValid, Mark, Logical, Home
<1>5. CASE FormatValid0
  BY <1>5 DEF FormatValid0, Mark, Logical, Home
<1> QED
  BY <1>1, <1>2, <1>3, <1>4, <1>5

LEMMA EraseKept ==
  ASSUME IInv, TransferErase \/ InitErase \/ RecoverErase \/ FormatErase0
               \/ FormatErase1
  PROVE  Logical' = Logical
<1>1. CASE TransferErase
  BY <1>1 DEF TransferErase, Erase, EraseBegin, EraseEnd, Logical, Home
<1>2. CASE InitErase
  BY <1>2 DEF InitErase, Erase, EraseBegin, EraseEnd, Logical, Home
<1>3. CASE RecoverErase
  BY <1>3 DEF RecoverErase, Erase, EraseBegin, EraseEnd, Logical, Home
<1>4. CASE FormatErase0
  BY <1>4 DEF FormatErase0, Erase, EraseBegin, EraseEnd, Logical, Home
<1>5. CASE FormatErase1
  BY <1>5 DEF FormatErase1, Erase, EraseBegin, EraseEnd, Logical, Home
<1> QED
  BY <1>1, <1>2, <1>3, <1>4, <1>5

LEMMA DataKept ==
  ASSUME IInv, WriteData \/ TransferNewData
  PROVE  Logical' = Logical
<1>1. CASE WriteData
  BY <1>1 DEF WriteData, ProgramData, Logical, Home
<1>2. CASE TransferNewData
  BY <1>2 DEF TransferNewData, ProgramData, Logical, Home
<1> QED
  BY <1>1, <1>2

LEMMA CopyKept ==
  ASSUME IInv, TransferCopy \/ RecoverCopy
  PROVE  Logical' = Logical
<1>1. /\ pc \in {"xferCopy", "recCopy"} /\ UNCHANGED <<pc, dst>>
      /\ \/ CopySkip(first[dst])
         \/ CopyData(first[dst])
         \/ CopyAddress
  BY DEF TransferCopy, RecoverCopy
<1>2. CASE CopySkip(first[dst])
  BY <1>1, <1>2 DEF CopySkip, Logical, Home
<1>3. CASE CopyData(first[dst])
  BY <1>1, <1>3 DEF CopyData, ProgramData, Logical, Home
<1>4. CASE CopyAddress
  BY <1>1, <1>4 DEF CopyAddress, ProgramAddress, Logical, Home
<1> QED
  BY <1>1, <1>2, <1>3, <1>4

LEMMA CrashKept ==
  ASSUME IInv, Crash
  PROVE  Logical' = Logical
  BY DEF Crash, PowerLoss, Logical, Home

\* The address half-word of the caller's own slot commits the write.
LEMMA Committed ==
  ASSUME IInv, WriteAddress \/ TransferNewAddress
  PROVE  Logical' = [Logical EXCEPT ![req.v] = req.d]
<1>1. req.v \in Var /\ req.d \in Val
  BY DEF Request
<1>2. SUFFICES ASSUME NEW v \in Var
               PROVE  val'[Home(v)'][v] = IF v = req.v THEN req.d
                                          ELSE val[Home(v)][v]
  BY <1>1 DEF Logical
<1>3. CASE WriteAddress
  BY <1>1, <1>3 DEF WriteAddress, ProgramAddress, Home
<1>4. CASE TransferNewAddress
  BY <1>1, <1>4 DEF TransferNewAddress, ProgramAddress, Home
<1> QED
  BY <1>3, <1>4

LEMMA StepSimulates ==
  ASSUME IInv, [Next]_vars
  PROVE  [Abstract!Next]_(Abstract!vars)
<1> USE DEF Abstract!Next, Abstract!vars
<1>1. CASE WriteCall
  <2>1. Logical' = Logical
    BY <1>1, FlashKept
  <2>2. CallState = "free" /\ CallState' = "busy" /\ req' \in Request
    BY <1>1 DEF WriteCall, CallState
  <2> QED
    BY <2>1, <2>2 DEF Abstract!Begin, Abstract!Request, Request
<1>2. CASE WriteAddress \/ TransferNewAddress
  <2>1. CallState = "busy" /\ CallState' = "done" /\ req' = req
    BY <1>2 DEF WriteAddress, TransferNewAddress, CallState
  <2> QED
    BY <1>2, <2>1, Committed DEF Abstract!Commit
<1>3. CASE WriteReturn \/ TransferFull
  <2>1. Logical' = Logical
    BY <1>3, FlashKept
  <2>2. CallState # "free" /\ CallState' = "free" /\ req' = req
    BY <1>3 DEF WriteReturn, TransferFull, CallState
  <2> QED
    BY <2>1, <2>2 DEF Abstract!End
<1>4. CASE Crash
  <2>1. CallState' = "free" /\ req' = req
    BY <1>4 DEF Crash, PowerLoss, CallState
  <2> QED
    BY <1>4, <2>1, CrashKept DEF Abstract!End
<1>5. CASE \/ TransferBegin \/ TransferCopied \/ BootErase \/ BootRecover
           \/ BootFormat \/ RecoverCopied \/ RecoverFull
  <2>1. CallState' = CallState /\ req' = req
    BY <1>5 DEF TransferBegin, TransferCopied, BootErase, BootRecover, Boot,
                BootFormat, RecoverCopied, RecoverFull, CallState
  <2> QED
    BY <1>5, <2>1, FlashKept
<1>6. CASE \/ TransferMark \/ TransferValid \/ InitValid \/ RecoverValid
           \/ FormatValid0
  <2>1. CallState' = CallState /\ req' = req
    BY <1>6 DEF TransferMark, TransferValid, InitValid, RecoverValid,
                FormatValid0, CallState
  <2> QED
    BY <1>6, <2>1, StatusKept
<1>7. CASE \/ TransferErase \/ InitErase \/ RecoverErase \/ FormatErase0
           \/ FormatErase1
  <2>1. CallState' = CallState /\ req' = req
    BY <1>7 DEF TransferErase, InitErase, RecoverErase, FormatErase0,
                FormatErase1, Erase, CallState
  <2> QED
    BY <1>7, <2>1, EraseKept
<1>8. CASE WriteData \/ TransferNewData \/ TransferCopy \/ RecoverCopy
  <2>1. CallState' = CallState /\ req' = req
    BY <1>8 DEF WriteData, TransferNewData, TransferCopy, RecoverCopy, CallState
  <2> QED
    BY <1>8, <2>1, DataKept, CopyKept
<1>9. CASE UNCHANGED vars
  <2>1. Logical' = Logical
    BY <1>9 DEF vars, Logical, Home
  <2> QED
    BY <1>9, <2>1 DEF vars, CallState
<1> QED
  BY <1>1, <1>2, <1>3, <1>4, <1>5, <1>6, <1>7, <1>8, <1>9
  DEF Next, Step, WriteStep, TransferStep, InitStep

LEMMA InitSimulates == Init => Abstract!Init
<1> SUFFICES ASSUME Init PROVE Abstract!Init
  OBVIOUS
<1>1. Logical = [v \in Var |-> None]
  BY DEF Init, Logical, Home
<1>2. CallState = "free" /\ req \in Request
  BY DEF Init, CallState
<1> QED
  BY <1>1, <1>2 DEF Abstract!Init, Abstract!Request, Request

-----------------------------------------------------------------------------
HIDE DEF TypeOK, IInv, PcInv, PageInv

\* The invariant of eeprom.c holds wherever the power left or leaves it.
THEOREM Invariance == Spec => []IInv
<1>1. IInv /\ [Next]_vars => IInv'
  BY NextInv
<1> QED
  BY InitInv, <1>1, PTL DEF Spec

\* Every variable of the emulation keeps its type; no page outgrows its slots.
THEOREM TypeCorrect == Spec => []TypeOK
<1>1. IInv => TypeOK
  BY DEF IInv
<1> QED
  BY Invariance, <1>1, PTL

\* EE_ReadVariable answers with what is stored, at any time a caller can run.
THEOREM ReadsCorrect == Spec => []ReadsStored
<1>1. IInv => ReadsStored
  BY DEF IInv, PcInv, ReadsStored, Logical, Home
<1> QED
  BY Invariance, <1>1, PTL

\* eeprom.c implements VarStore: whatever the power does, a write takes effect
\* at one instant or not at all, and nothing else changes a stored value.  No
\* assumption is made on the room of a page.
THEOREM Refinement == Spec => AtomicDurable
<1>1. IInv /\ [Next]_vars => [Abstract!Next]_(Abstract!vars)
  BY StepSimulates
<1> QED
  BY Invariance, InitSimulates, <1>1, PTL DEF Spec, AtomicDurable, Abstract!Spec
=============================================================================
