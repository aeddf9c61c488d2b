----------------------------- MODULE ConfigStore -----------------------------
(***************************************************************************)
(* The configuration block of APP/Config/config.c: loaded from the flash   *)
(* emulation at boot, changed in RAM by the web forms and the debug shell, *)
(* saved half-word by half-word.  The flash is VarStore (which Eeprom      *)
(* implements): a half-word is written at once or not at all, a block of   *)
(* them is not.                                                            *)
(***************************************************************************)
EXTENDS Naturals

CONSTANTS NFields,   \* parameters after the two magic bytes
          Word,      \* values a parameter can be given
          Zero,      \* what the static read buffer holds before it is filled
          Magic,     \* 0xA5 0xAA, half-word 0 of a block
          None,      \* a half-word never written
          Null,      \* the null pointer
          Default,   \* the factory value of a parameter
          MaxCrash   \* bound: power losses in a behaviour

ASSUME FieldAssumption == NFields \in Nat /\ NFields >= 3 /\ MaxCrash \in Nat
ASSUME WordAssumption == /\ Default \in Word
                         /\ Zero \notin Word
                         /\ Magic \notin Word \cup {Zero}
                         /\ None \notin Word \cup {Zero, Magic}

Field == 1..NFields
Block == [Field -> Word \cup {Zero}]

\* ulStaticIP, without which AppTaskStart waits for ever; userpasswd; and
\* GnssParameters.priority, in their order in tConfigParameters.
Ip == 1
Password == 2
Priority == 3

VARIABLES store, req, state, \* the flash emulation and the call to it
          ram,      \* g_sParameters
          work,     \* g_sWorkingDefaultParameters
          current,  \* what g_pucFlashPBCurrent points to, or Null
          defaults, \* what g_psDefaultParameters points to
          pc,       \* where AppTaskStart or the web server is
          index,    \* the loop index of FlashPBSave
          old, new, \* history: the last block loaded or saved, and the next
          crashes

flash == <<store, req, state>>
vars  == <<store, req, state, ram, work, current, defaults, pc, index,
           old, new, crashes>>

Store == INSTANCE VarStore WITH Var <- 0..NFields,
                                Val <- Word \cup {Zero, Magic}

Factory == [f \in Field |-> Default]
Blank   == [f \in Field |-> Zero]

\* Mutant: the buffer keeps the blank flash of what is missing.
FlashBlockRaw == [f \in Field |-> store[f]]

\* EE_ReadVariableByte into the zeroed buffer: what is missing stays zero.
FlashBlock == [f \in Field |-> IF store[f] = None THEN Zero ELSE store[f]]

Init == /\ Store!Init
        /\ ram = Blank /\ work = Blank
        /\ current = Null /\ defaults = Factory
        /\ pc = "off" /\ index = 0
        /\ old = Blank /\ new = Blank
        /\ crashes = 0

-----------------------------------------------------------------------------
\* ConfigInit, called by AppTaskStart: ConfigLoadFactory.
LoadFactory ==
  /\ pc = "off"
  /\ ram' = Factory /\ work' = Factory
  /\ pc' = "read"
  /\ UNCHANGED <<flash, current, defaults, index, old, new, crashes>>

\* ConfigReadFlash finds the magic bytes: ConfigLoad takes the block.
LoadSaved ==
  /\ pc = "read" /\ store[0] = Magic
  /\ ram' = FlashBlock /\ work' = FlashBlock
  /\ current' = FlashBlock /\ defaults' = FlashBlock
  /\ old' = FlashBlock /\ new' = FlashBlock
  /\ pc' = "net"
  /\ UNCHANGED <<flash, index, crashes>>

\* It does not: ConfigSave stores the factory block, and there is no current.
SaveFactory ==
  /\ pc = "read" /\ store[0] # Magic
  /\ pc' = "factory" /\ index' = 0
  /\ new' = work
  /\ UNCHANGED <<flash, ram, work, current, defaults, old, crashes>>

\* AppTaskStart: while(!lwIPLocalIPAddrGet()).
NetworkUp ==
  /\ pc = "net" /\ ram[Ip] # Zero
  /\ pc' = "run"
  /\ UNCHANGED <<flash, ram, work, current, defaults, index, old, new, crashes>>

\* FlashPBSave: EE_WriteVariableByte of half-word index, whose answer it does
\* not look at.
Saving == pc \in {"factory", "save"}

\* Mutant: the half-words are written from the last to the first.
SaveWordDown ==
  /\ Saving /\ index <= NFields
  /\ Store!Begin
  /\ req' = LET i == NFields - index IN
            [v |-> i, d |-> IF i = 0 THEN Magic ELSE work[i]]
  /\ UNCHANGED <<ram, work, current, defaults, pc, index, old, new, crashes>>

SaveWord ==
  /\ Saving /\ index <= NFields
  /\ Store!Begin
  /\ req' = [v |-> index, d |-> IF index = 0 THEN Magic ELSE work[index]]
  /\ UNCHANGED <<ram, work, current, defaults, pc, index, old, new, crashes>>

SaveCommit ==
  /\ Saving
  /\ Store!Commit
  /\ UNCHANGED <<ram, work, current, defaults, pc, index, old, new, crashes>>

\* Mutant: the loop index is not advanced.
SaveNextStuck ==
  /\ Saving /\ state = "done"
  /\ Store!End
  /\ UNCHANGED <<ram, work, current, defaults, pc, index, old, new, crashes>>

SaveNext ==
  /\ Saving /\ state = "done"
  /\ Store!End
  /\ index' = index + 1
  /\ UNCHANGED <<ram, work, current, defaults, pc, old, new, crashes>>

\* Mutant: the last half-word is left out.
SaveEndEarly ==
  /\ Saving /\ state = "free" /\ index > NFields - 1
  /\ defaults' = IF current = Null THEN Factory ELSE current
  /\ pc' = IF pc = "factory" THEN "net" ELSE "run"
  /\ old' = new
  /\ UNCHANGED <<flash, ram, work, current, index, new, crashes>>

\* Mutant: only the branch without a current block returns.
SaveEndNoCurrent ==
  /\ Saving /\ state = "free" /\ index > NFields
  /\ current = Null
  /\ defaults' = Factory
  /\ pc' = IF pc = "factory" THEN "net" ELSE "run"
  /\ old' = new
  /\ UNCHANGED <<flash, ram, work, current, index, new, crashes>>

\* ConfigSave points g_psDefaultParameters at the current block and returns,
\* to ConfigInit or to the web form.
SaveEnd ==
  /\ Saving /\ state = "free" /\ index > NFields
  /\ defaults' = IF current = Null THEN Factory ELSE current
  /\ pc' = IF pc = "factory" THEN "net" ELSE "run"
  /\ old' = new
  /\ UNCHANGED <<flash, ram, work, current, index, new, crashes>>

-----------------------------------------------------------------------------
\* A form of gnss.cgi, pnet.cgi or pmod.cgi whose values are all good: they go
\* to g_sParameters, all of that to the working block, and the block to flash.
\* No form the server knows sets the address.
FormAccepted ==
  /\ pc = "run"
  /\ \E form \in [Field \ {Ip} -> Word] :
       ram' = [f \in Field |-> IF f = Ip THEN ram[f] ELSE form[f]]
  /\ work' = ram' /\ new' = ram'
  /\ pc' = "save" /\ index' = 0
  /\ UNCHANGED <<flash, current, defaults, old, crashes>>

\* ConfigGnssHandler answers PARAM_ERROR after it has changed the priority.
FormRejected ==
  /\ pc = "run"
  /\ \E w \in Word : ram' = [ram EXCEPT ![Priority] = w]
  /\ UNCHANGED <<flash, work, current, defaults, pc, index, old, new, crashes>>

\* LoginCGIHandler decodes the password it is given into the working block.
Login ==
  /\ pc = "run"
  /\ \E w \in Word : work' = [work EXCEPT ![Password] = w]
  /\ UNCHANGED <<flash, ram, current, defaults, pc, index, old, new, crashes>>

\* A command of the debug shell (a task below the web server, which therefore
\* never runs inside a save) changes a parameter in RAM only.
ShellSet ==
  /\ pc = "run"
  /\ \E f \in Field \ {Ip}, w \in Word : ram' = [ram EXCEPT ![f] = w]
  /\ UNCHANGED <<flash, work, current, defaults, pc, index, old, new, crashes>>

\* The power goes, or the watchdog resets the processor.
Crash ==
  /\ pc # "off"
  /\ crashes < MaxCrash
  /\ pc' = "off"
  /\ state' = "free" /\ UNCHANGED <<store, req>>
  /\ ram' = Blank /\ work' = Blank
  /\ current' = Null /\ defaults' = Factory
  /\ crashes' = crashes + 1
  /\ UNCHANGED <<index, old, new>>

Step == \/ LoadFactory \/ LoadSaved \/ SaveFactory \/ NetworkUp
        \/ SaveWord \/ SaveCommit \/ SaveNext \/ SaveEnd

Next == Step \/ FormAccepted \/ FormRejected \/ Login \/ ShellSet \/ Crash

Spec == Init /\ [][Next]_vars

\* AppTaskStart and the web server's task run whenever they can.
FairSpec == Spec /\ WF_vars(Step)

-----------------------------------------------------------------------------
\* Type invariant.
TypeOK ==
  /\ store \in [0..NFields -> Word \cup {Zero, Magic, None}]
  /\ req \in Store!Request /\ state \in {"free", "busy", "done"}
  /\ ram \in Block /\ work \in Block
  /\ current \in Block \cup {Null} /\ defaults \in Block
  /\ pc \in {"off", "read", "factory", "net", "run", "save"}
  /\ index \in 0..(NFields + 1)
  /\ old \in Block /\ new \in Block
  /\ crashes \in 0..MaxCrash

\* What a power loss in FlashPBSave leaves is the new block up to some
\* half-word and the block before it from there on, never anything else.
PrefixOfSave ==
  \E k \in 0..NFields :
    FlashBlock = [f \in Field |-> IF f <= k THEN new[f] ELSE old[f]]

\* While the device runs, a block that was saved is what the next boot loads,
\* whatever forms were rejected, passwords tried or shell commands given.
SavedIsStored == pc = "run" => store[0] = Magic /\ FlashBlock = old

\* Start-up ends with the tasks running, unless the power goes, or the very
\* first save was cut before the address: then AppTaskStart waits in vain.
BootEnds == pc = "read" ~> \/ pc \in {"run", "off"}
                           \/ pc = "net" /\ store[Ip] = None

\* A form is answered, unless the power goes.
SaveEnds == pc = "save" ~> pc \in {"run", "off"}

\* The magic bytes are "used to validate the contents of the parameter block
\* (to avoid using a partially written parameter block)" (config.h:386-388).
NoPartialBlock == [][LoadSaved => FlashBlock \in {old, new}]_vars
=============================================================================
