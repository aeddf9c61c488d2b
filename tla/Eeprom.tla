------------------------------- MODULE Eeprom -------------------------------
(***************************************************************************)
(* The EEPROM emulation of APP/Eeprom/eeprom.c: a log of (data, address)   *)
(* slots in one of two flash sectors, moved to the other sector when it is *)
(* full.  Each action is one flash operation (a half-word programmed, an   *)
(* erase begun or ended), because the power can go between any two.        *)
(*                                                                         *)
(* A page is what its readers can tell of it: the status half-word, the    *)
(* value a scan from the end finds for each variable, the number of slots  *)
(* in use, and the address half-word of the first slot (offset +6), which  *)
(* recovery reads.  A slot whose data is programmed and whose address is   *)
(* not is used and belongs to no variable (Torn).                          *)
(***************************************************************************)
EXTENDS Naturals

CONSTANTS NVars,       \* variables ever written (half-words of the config)
          NSlots,      \* slots of a page (32767 in eeprom.h)
          Val,         \* half-words
          None,        \* no value, no address
          Torn,        \* an address half-word left blank by a power loss
          MaxCrash     \* bound: power losses from a transfer to its end

ASSUME SizeAssumption == /\ NVars \in Nat \ {0}
                         /\ NSlots \in Nat \ {0}
                         /\ MaxCrash \in Nat
ASSUME TokenAssumption == /\ None \notin Val
                          /\ None \notin 1..NVars
                          /\ Torn \notin 1..NVars
                          /\ None # Torn

Var     == 1..NVars
Page    == {0, 1}
Header  == {"erased", "receive", "valid"}
Request == [v : Var, d : Val]
Other(p) == 1 - p

VARIABLES hdr,     \* status half-word of each page
          val,     \* value found for each variable of each page
          used,    \* slots of each page that are not 0xFFFFFFFF
          first,   \* address half-word of slot 1 of each page
          pc,      \* where the code is
          half,    \* is the operation at pc half done?
          dst,     \* NewPageAddress of a transfer, the page EE_Init keeps
          cur,     \* VarIdx of the copy loops
          req,     \* the arguments of EE_WriteVariable
          crashes  \* power losses since the last transfer began or ended

flash == <<hdr, val, used, first>>
vars  == <<hdr, val, used, first, pc, half, dst, cur, req, crashes>>

PcSet == {"off", "idle", "write", "ret",
          "xferMark", "xferNew", "xferCopy", "xferErase", "xferValid",
          "recCopy", "recValid", "recErase", "initErase", "initValid",
          "fmtErase0", "fmtValid0", "fmtErase1"}

NoVals == [v \in Var |-> None]

\* Both sectors as the factory leaves them, the device not yet powered.
Init == /\ hdr = [p \in Page |-> "erased"]
        /\ val = [p \in Page |-> NoVals]
        /\ used = [p \in Page |-> 0]
        /\ first = [p \in Page |-> None]
        /\ pc = "off" /\ half = FALSE
        /\ dst = 0 /\ cur = 1
        /\ req \in Request
        /\ crashes = 0

-----------------------------------------------------------------------------
\* EE_FindValidPage(READ_FROM_VALID_PAGE) and (WRITE_IN_VALID_PAGE).  With no
\* page VALID both answer NO_VALID_PAGE; callers here always have one.
ReadPage == IF hdr[0] = "valid" THEN 0 ELSE 1

WritePage ==
  IF hdr[1] = "valid" THEN IF hdr[0] = "receive" THEN 0 ELSE 1
                      ELSE IF hdr[1] = "receive" THEN 1 ELSE 0

Full(p) == used[p] = NSlots

\* EE_ReadVariable: the last slot of that address in the page read from.
Read(v) == val[ReadPage][v]

\* Mutant: no test for a full page.
ProgramDataUnbounded(p) ==
  /\ half = FALSE
  /\ half' = TRUE
  /\ used' = [used EXCEPT ![p] = @ + 1]
  /\ first' = [first EXCEPT ![p] = IF used[p] = 0 THEN Torn ELSE @]
  /\ UNCHANGED <<hdr, val>>

\* FLASH_ProgramHalfWord of a slot's data: the slot is no longer free.  (Data
\* 0xFFFF leaves it free, which is this state without the step.)
ProgramData(p) ==
  /\ half = FALSE /\ ~Full(p)
  /\ half' = TRUE
  /\ used' = [used EXCEPT ![p] = @ + 1]
  /\ first' = [first EXCEPT ![p] = IF used[p] = 0 THEN Torn ELSE @]
  /\ UNCHANGED <<hdr, val>>

\* FLASH_ProgramHalfWord of the slot's address: v now reads as d.
ProgramAddress(p, v, d) ==
  /\ half = TRUE
  /\ half' = FALSE
  /\ val' = [val EXCEPT ![p][v] = d]
  /\ first' = [first EXCEPT ![p] = IF used[p] = 1 THEN v ELSE @]
  /\ UNCHANGED <<hdr, used>>

\* FLASH_ProgramHalfWord of a page's status.
Mark(p, h) ==
  /\ hdr' = [hdr EXCEPT ![p] = h]
  /\ UNCHANGED <<val, used, first, half>>

\* FLASH_EraseSector: the status reads erased before the rest of the sector
\* is blank, so that a power loss can leave old slots under a blank status.
EraseBegin(p) ==
  /\ half = FALSE
  /\ half' = TRUE
  /\ hdr' = [hdr EXCEPT ![p] = "erased"]
  /\ UNCHANGED <<val, used, first>>

EraseEnd(p) ==
  /\ half = TRUE
  /\ half' = FALSE
  /\ hdr' = [hdr EXCEPT ![p] = "erased"]
  /\ val' = [val EXCEPT ![p] = NoVals]
  /\ used' = [used EXCEPT ![p] = 0]
  /\ first' = [first EXCEPT ![p] = None]

\* An erase at pc = here, after which control is at there.
Erase(p, here, there) ==
  /\ pc = here
  /\ \/ EraseBegin(p) /\ pc' = pc
     \/ EraseEnd(p) /\ pc' = there

-----------------------------------------------------------------------------
\* EE_WriteVariable, EE_WriteVariableByte.
WriteCall ==
  /\ pc = "idle"
  /\ req' \in Request
  /\ pc' = "write"
  /\ UNCHANGED <<flash, half, dst, cur, crashes>>

WriteData ==
  /\ pc = "write"
  /\ ProgramData(WritePage)
  /\ UNCHANGED <<pc, dst, cur, req, crashes>>

WriteAddress ==
  /\ pc = "write"
  /\ ProgramAddress(WritePage, req.v, req.d)
  /\ pc' = "ret"
  /\ UNCHANGED <<dst, cur, req, crashes>>

\* PAGE_FULL: EE_PageTransfer finds the page to move to.
TransferBegin ==
  /\ pc = "write" /\ half = FALSE
  /\ Full(WritePage)
  /\ dst' = Other(ReadPage)
  /\ pc' = "xferMark"
  /\ UNCHANGED <<flash, half, cur, req, crashes>>

TransferMark ==
  /\ pc = "xferMark"
  /\ Mark(dst, "receive")
  /\ pc' = "xferNew"
  /\ crashes' = 0
  /\ UNCHANGED <<dst, cur, req>>

TransferNewData ==
  /\ pc = "xferNew"
  /\ ProgramData(WritePage)
  /\ UNCHANGED <<pc, dst, cur, req, crashes>>

TransferNewAddress ==
  /\ pc = "xferNew"
  /\ ProgramAddress(WritePage, req.v, req.d)
  /\ pc' = "xferCopy" /\ cur' = 1
  /\ UNCHANGED <<dst, req, crashes>>

\* The copy loops: a variable is skipped if it is the one already written to
\* the new page (skip) or if the old page has no value of it.
Copies(skip) == cur \in Var /\ cur # skip /\ Read(cur) # None

\* Mutant: the loop index is not advanced past a skipped variable.
CopySkipStuck(skip) ==
  /\ cur \in Var /\ ~Copies(skip)
  /\ UNCHANGED <<flash, half, cur>>

CopySkip(skip) ==
  /\ cur \in Var /\ ~Copies(skip)
  /\ cur' = cur + 1
  /\ UNCHANGED <<flash, half>>

CopyData(skip) ==
  /\ Copies(skip)
  /\ ProgramData(WritePage)
  /\ UNCHANGED cur

CopyAddress ==
  /\ ProgramAddress(WritePage, cur, Read(cur))
  /\ cur' = cur + 1

TransferCopy ==
  /\ pc = "xferCopy"
  /\ \/ half = FALSE /\ CopySkip(req.v)
     \/ CopyData(req.v)
     \/ CopyAddress
  /\ UNCHANGED <<pc, dst, req, crashes>>

\* Mutant: one variable too many.
TransferCopiedLate ==
  /\ pc = "xferCopy" /\ cur > NVars + 1
  /\ pc' = "xferErase"
  /\ UNCHANGED <<flash, half, dst, cur, req, crashes>>

TransferCopied ==
  /\ pc = "xferCopy" /\ cur \notin Var
  /\ pc' = "xferErase"
  /\ UNCHANGED <<flash, half, dst, cur, req, crashes>>

\* PAGE_FULL from the new page: EE_PageTransfer gives up where it is.
TransferFull ==
  /\ \/ pc = "xferNew"
     \/ pc = "xferCopy" /\ Copies(req.v)
  /\ half = FALSE
  /\ Full(WritePage)
  /\ pc' = "idle"
  /\ UNCHANGED <<flash, half, dst, cur, req, crashes>>

\* Mutant: the new page is not marked VALID.
TransferEraseOnly ==
  /\ Erase(Other(dst), "xferErase", "ret")
  /\ UNCHANGED <<dst, cur, req, crashes>>

TransferErase ==
  /\ Erase(Other(dst), "xferErase", "xferValid")
  /\ UNCHANGED <<dst, cur, req, crashes>>

TransferValid ==
  /\ pc = "xferValid"
  /\ Mark(dst, "valid")
  /\ pc' = "ret"
  /\ crashes' = 0
  /\ UNCHANGED <<dst, cur, req>>

WriteReturn ==
  /\ pc = "ret"
  /\ pc' = "idle"
  /\ UNCHANGED <<flash, half, dst, cur, req, crashes>>

-----------------------------------------------------------------------------
\* EE_Init: the status half-words decide.
Boot(p, h, ho, there) ==
  /\ pc = "off"
  /\ hdr[p] = h /\ hdr[Other(p)] = ho
  /\ pc' = there
  /\ dst' = p
  /\ cur' = 1
  /\ UNCHANGED <<flash, half, req, crashes>>

\* Mutant: a page that reads erased is taken to be blank.
BootEraseTrusting ==
  \E p \in Page : \/ Boot(p, "valid", "erased", "idle")
                 \/ Boot(p, "receive", "erased", "initValid")

\* One page blank: erase it again, its slots may not be; keep the other one.
BootErase == \E p \in Page : \/ Boot(p, "valid", "erased", "initErase")
                             \/ Boot(p, "receive", "erased", "initErase")

\* A transfer was interrupted before the old page was erased: complete it.
BootRecover == \E p \in Page : Boot(p, "receive", "valid", "recCopy")

\* First use, or an invalid pair: EE_Format, which keeps page 0.
BootFormat ==
  /\ pc = "off"
  /\ hdr[0] = hdr[1]
  /\ pc' = "fmtErase0"
  /\ UNCHANGED <<flash, half, dst, cur, req, crashes>>

InitErase ==
  /\ Erase(Other(dst), "initErase",
           IF hdr[dst] = "receive" THEN "initValid" ELSE "idle")
  /\ UNCHANGED <<dst, cur, req, crashes>>

InitValid ==
  /\ pc = "initValid"
  /\ Mark(dst, "valid")
  /\ pc' = "idle"
  /\ crashes' = 0
  /\ UNCHANGED <<dst, cur, req>>

\* Mutant: the variable the transfer began with is copied like the others.
RecoverCopyAll ==
  /\ pc = "recCopy"
  /\ \/ half = FALSE /\ CopySkip(None)
     \/ CopyData(None)
     \/ CopyAddress
  /\ UNCHANGED <<pc, dst, req, crashes>>

RecoverCopy ==
  /\ pc = "recCopy"
  /\ \/ half = FALSE /\ CopySkip(first[dst])
     \/ CopyData(first[dst])
     \/ CopyAddress
  /\ UNCHANGED <<pc, dst, req, crashes>>

RecoverCopied ==
  /\ pc = "recCopy" /\ cur \notin Var
  /\ pc' = "recValid"
  /\ UNCHANGED <<flash, half, dst, cur, req, crashes>>

\* Mutant: EE_Init goes on after PAGE_FULL.
RecoverFullIgnored ==
  /\ pc = "recCopy" /\ half = FALSE
  /\ Copies(first[dst]) /\ Full(WritePage)
  /\ pc' = "recValid"
  /\ UNCHANGED <<flash, half, dst, cur, req, crashes>>

\* PAGE_FULL: EE_Init returns it, and EE_Initialize ignores it.
RecoverFull ==
  /\ pc = "recCopy" /\ half = FALSE
  /\ Copies(first[dst]) /\ Full(WritePage)
  /\ pc' = "idle"
  /\ UNCHANGED <<flash, half, dst, cur, req, crashes>>

RecoverValid ==
  /\ pc = "recValid"
  /\ Mark(dst, "valid")
  /\ pc' = "recErase"
  /\ crashes' = 0
  /\ UNCHANGED <<dst, cur, req>>

RecoverErase ==
  /\ Erase(Other(dst), "recErase", "idle")
  /\ UNCHANGED <<dst, cur, req, crashes>>

FormatErase0 ==
  /\ Erase(0, "fmtErase0", "fmtValid0")
  /\ UNCHANGED <<dst, cur, req, crashes>>

FormatValid0 ==
  /\ pc = "fmtValid0"
  /\ Mark(0, "valid")
  /\ pc' = "fmtErase1"
  /\ UNCHANGED <<dst, cur, req, crashes>>

FormatErase1 ==
  /\ Erase(1, "fmtErase1", "idle")
  /\ UNCHANGED <<dst, cur, req, crashes>>

-----------------------------------------------------------------------------
\* The power goes: flash stays as it is, everything else is lost.  Not here
\* between the two flash operations that end EE_Init's recovery: see
\* EepromFaults for what that does.
InWindow == pc = "recErase" /\ half = FALSE

PowerLoss ==
  /\ pc # "off"
  /\ crashes < MaxCrash
  /\ pc' = "off" /\ half' = FALSE
  /\ crashes' = crashes + 1
  /\ UNCHANGED <<flash, dst, cur, req>>

Crash == ~InWindow /\ PowerLoss

WriteStep == \/ WriteData \/ WriteAddress \/ WriteReturn

TransferStep == \/ TransferBegin \/ TransferMark \/ TransferNewData
                \/ TransferNewAddress \/ TransferCopy \/ TransferCopied
                \/ TransferFull \/ TransferErase \/ TransferValid

InitStep == \/ BootErase \/ BootRecover \/ BootFormat
            \/ InitErase \/ InitValid
            \/ RecoverCopy \/ RecoverCopied \/ RecoverFull
            \/ RecoverValid \/ RecoverErase
            \/ FormatErase0 \/ FormatValid0 \/ FormatErase1

Step == WriteStep \/ TransferStep \/ InitStep

Next == WriteCall \/ Step \/ Crash

Spec == Init /\ [][Next]_vars

\* The processor runs while it has power: no step is postponed for ever.
FairSpec == Spec /\ WF_vars(Step)

-----------------------------------------------------------------------------
\* What the flash holds: the value each variable will read as once EE_Init
\* has brought the pages to a good state.
Receiving == \E p \in Page : hdr[p] = "receive" /\ hdr[Other(p)] = "valid"

Home(v) ==
  IF hdr[0] = "valid" /\ hdr[1] = "valid" THEN dst
  ELSE IF Receiving THEN IF first[WritePage] = v THEN WritePage ELSE ReadPage
  ELSE IF hdr[0] = "erased" THEN 1 ELSE 0

Logical == [v \in Var |-> val[Home(v)][v]]

CallState == IF pc \in {"write", "xferMark", "xferNew"} THEN "busy"
             ELSE IF pc \in {"xferCopy", "xferErase", "xferValid", "ret"}
                  THEN "done" ELSE "free"

Abstract == INSTANCE VarStore WITH store <- Logical, state <- CallState

\* Type invariant.
TypeOK ==
  /\ hdr \in [Page -> Header]
  /\ val \in [Page -> [Var -> Val \cup {None}]]
  /\ used \in [Page -> 0..NSlots]
  /\ first \in [Page -> Var \cup {None, Torn}]
  /\ pc \in PcSet /\ half \in BOOLEAN
  /\ dst \in Page /\ cur \in 1..(NVars + 1)
  /\ req \in Request
  /\ crashes \in 0..MaxCrash

\* EE_Init and EE_WriteVariable hand over the pages in a "known good state"
\* (eeprom.c:99): one page VALID, the other erased and really blank, whatever
\* the power did before.  It needs a page with room for the interrupted copies.
KnownGoodState ==
  pc = "idle" => \E p \in Page :
                   /\ hdr[p] = "valid" /\ hdr[Other(p)] = "erased"
                   /\ used[Other(p)] = 0 /\ val[Other(p)] = NoVals

\* A caller reads what is stored.  While a copy that ran out of room keeps a
\* page RECEIVE, that holds of all variables but the one it began with.
ReadsStored ==
  pc = "idle" =>
    \A v \in Var : \/ Read(v) = Logical[v]
                   \/ \E p \in Page : hdr[p] = "receive" /\ first[p] = v

\* Writing is atomic and durable: eeprom.c implements VarStore.
AtomicDurable == Abstract!Spec

\* EE_Init ends: recovery that is itself interrupted does not go on for ever.
BootCompletes == pc = "off" ~> pc = "idle"

\* A write ends, unless the power goes.
WriteEnds == pc = "write" ~> pc \in {"idle", "off"}
=============================================================================
