---------------------------- MODULE ConfigProofs ----------------------------
(***************************************************************************)
(* Theorems about ConfigStore, for every number of parameters, every set   *)
(* of values and any number of power losses.                               *)
(***************************************************************************)
EXTENDS ConfigStore, TLAPS

Pcs == {"off", "read", "factory", "net", "run", "save"}

\* The half-words FlashPBSave has written so far.
Passed(f) == f < index \/ (f = index /\ state = "done")

\* Inside FlashPBSave: the magic bytes went first, the rest is the new block up
\* to the loop index and the old one from there on.
SaveInv ==
  /\ index \in 0..(NFields + 1)
  /\ work = new
  /\ index > 0 \/ state = "done" => store[0] = Magic
  /\ state # "free" => /\ index <= NFields
                       /\ req.v = index
                       /\ req.d = IF index = 0 THEN Magic ELSE new[index]
  /\ \A f \in Field : FlashBlock[f] = IF Passed(f) THEN new[f] ELSE old[f]

\* Outside: the block is whole when ConfigInit has found or saved it.
RestInv ==
  /\ state = "free"
  /\ PrefixOfSave
  /\ pc \in {"net", "run"} => store[0] = Magic /\ FlashBlock = old

\* The block in flash is the last one completed.
Whole == FlashBlock = old

IInv ==
  /\ TypeOK
  /\ \A f \in Field : store[f] # Magic
  /\ store[0] # Magic => FlashBlock = old
  /\ IF Saving THEN SaveInv ELSE RestInv

-----------------------------------------------------------------------------
\* What ConfigReadFlash reads is a block.
LEMMA FlashIsBlock ==
  ASSUME TypeOK, \A f \in Field : store[f] # Magic
  PROVE  FlashBlock \in Block
<1>1. \A f \in Field : f \in 0..NFields
  BY FieldAssumption DEF Field
<1>2. \A f \in Field : FlashBlock[f] \in Word \cup {Zero}
  BY <1>1 DEF TypeOK, FlashBlock
<1> QED
  BY <1>2 DEF FlashBlock, Block

\* The factory block, the blank one.
LEMMA Blocks == Factory \in Block /\ Blank \in Block
BY WordAssumption DEF Factory, Blank, Block

\* A block that is whole is a prefix of length zero.
LEMMA WholeIsPrefix == Whole => PrefixOfSave
<1> SUFFICES ASSUME FlashBlock = old PROVE PrefixOfSave
  BY DEF Whole
<1>1. 0 \in 0..NFields /\ \A f \in Field : ~(f <= 0)
  BY FieldAssumption DEF Field
<1>2. FlashBlock = [f \in Field |-> FlashBlock[f]]
  BY DEF FlashBlock
<1>3. FlashBlock = [f \in Field |-> IF f <= 0 THEN new[f] ELSE old[f]]
  BY <1>1, <1>2
<1> QED
  BY <1>1, <1>3 DEF PrefixOfSave

\* What a save has written is a prefix: up to the index, or up to the one before.
LEMMA SaveIsPrefix == SaveInv => PrefixOfSave
<1> SUFFICES ASSUME SaveInv PROVE PrefixOfSave
  OBVIOUS
<1>1. FlashBlock = [f \in Field |-> FlashBlock[f]]
  BY DEF FlashBlock
<1>2. index \in 0..(NFields + 1) /\ NFields \in Nat
  BY FieldAssumption DEF SaveInv
<1>3. PICK k \in 0..NFields : \A f \in Field : Passed(f) <=> f <= k
  <2>1. CASE state = "done"
    <3>1. index \in 0..NFields
      BY <1>2, <2>1 DEF SaveInv
    <3>2. \A f \in Field : Passed(f) <=> f <= index
      BY <1>2, <2>1 DEF Passed, Field
    <3> QED
      BY <3>1, <3>2
  <2>2. CASE state # "done" /\ index > 0
    <3>1. index - 1 \in 0..NFields
      BY <1>2, <2>2
    <3>2. \A f \in Field : Passed(f) <=> f <= index - 1
      BY <1>2, <2>2 DEF Passed, Field
    <3> QED
      BY <3>1, <3>2
  <2>3. CASE state # "done" /\ index = 0
    <3>1. \A f \in Field : Passed(f) <=> f <= 0
      BY <1>2, <2>3 DEF Passed, Field
    <3> QED
      BY <1>2, <3>1
  <2> QED
    BY <1>2, <2>1, <2>2, <2>3
<1>4. \A f \in Field : FlashBlock[f] = IF f <= k THEN new[f] ELSE old[f]
  BY <1>3 DEF SaveInv
<1> QED
  BY <1>1, <1>3, <1>4 DEF PrefixOfSave

\* Whatever the steps outside FlashPBSave leave alone.
LEMMA FlashFrame ==
  UNCHANGED store => FlashBlock' = FlashBlock
BY DEF FlashBlock

LEMMA PrefixFrame ==
  PrefixOfSave /\ UNCHANGED <<store, old, new>> => PrefixOfSave'
BY DEF PrefixOfSave, FlashBlock

-----------------------------------------------------------------------------
LEMMA InitInv == Init => IInv
<1> SUFFICES ASSUME Init PROVE IInv
  OBVIOUS
<1>1. /\ store = [v \in 0..NFields |-> None] /\ state = "free"
      /\ req \in Store!Request
  BY DEF Init, Store!Init
<1>2. \A f \in Field : f \in 0..NFields
  BY FieldAssumption DEF Field
<1>3. FlashBlock = old
  BY <1>1, <1>2 DEF Init, FlashBlock, Blank
<1>4. TypeOK
  <2>1. store \in [0..NFields -> Word \cup {Zero, Magic, None}]
    BY <1>1
  <2>2. index \in 0..(NFields + 1) /\ crashes \in 0..MaxCrash
    BY FieldAssumption DEF Init
  <2> QED
    BY <1>1, <2>1, <2>2, Blocks DEF Init, TypeOK
<1>5. \A f \in Field : store[f] # Magic
  BY <1>1, <1>2, WordAssumption
<1> QED
  BY <1>1, <1>3, <1>4, <1>5, WholeIsPrefix DEF Init, IInv, RestInv, Saving, Whole

-----------------------------------------------------------------------------
\* Start-up.

LEMMA LoadFactoryInv == IInv /\ LoadFactory => IInv'
<1> SUFFICES ASSUME IInv, LoadFactory PROVE IInv'
  OBVIOUS
<1>1. UNCHANGED <<store, req, state, old, new, index, crashes, current, defaults>>
      /\ pc = "off" /\ pc' = "read" /\ ram' = Factory /\ work' = Factory
  BY DEF LoadFactory, flash
<1>2. TypeOK'
  BY <1>1, Blocks DEF IInv, TypeOK
<1>3. RestInv /\ ~Saving /\ ~Saving'
  BY <1>1 DEF IInv, Saving
<1>4. RestInv'
  BY <1>1, <1>3, PrefixFrame DEF RestInv
<1> QED
  BY <1>1, <1>2, <1>3, <1>4, FlashFrame DEF IInv

LEMMA LoadSavedInv == IInv /\ LoadSaved => IInv'
<1> SUFFICES ASSUME IInv, LoadSaved PROVE IInv'
  OBVIOUS
<1>1. /\ UNCHANGED <<store, req, state, index, crashes>>
      /\ store[0] = Magic
      /\ pc = "read" /\ pc' = "net" /\ ram' = FlashBlock /\ work' = FlashBlock
      /\ current' = FlashBlock /\ defaults' = FlashBlock
      /\ old' = FlashBlock /\ new' = FlashBlock
  BY DEF LoadSaved, flash
<1>2. FlashBlock \in Block
  BY FlashIsBlock DEF IInv
<1>3. TypeOK'
  BY <1>1, <1>2 DEF IInv, TypeOK
<1>4. RestInv /\ ~Saving /\ ~Saving'
  BY <1>1 DEF IInv, Saving
<1>5. FlashBlock' = old'
  BY <1>1, FlashFrame
<1>6. PrefixOfSave'
  <2>1. Whole' => PrefixOfSave'
    BY WholeIsPrefix, PTL
  <2> QED
    BY <1>5, <2>1 DEF Whole
<1>7. RestInv'
  BY <1>1, <1>4, <1>5, <1>6 DEF RestInv
<1> QED
  BY <1>1, <1>3, <1>4, <1>5, <1>7 DEF IInv

LEMMA SaveFactoryInv == IInv /\ SaveFactory => IInv'
<1> SUFFICES ASSUME IInv, SaveFactory PROVE IInv'
  OBVIOUS
<1>1. /\ UNCHANGED <<store, req, state, work, ram, current, defaults, old, crashes>>
      /\ store[0] # Magic
      /\ pc = "read" /\ pc' = "factory" /\ index' = 0 /\ new' = work
  BY DEF SaveFactory, flash
<1>2. TypeOK'
  BY <1>1, FieldAssumption DEF IInv, TypeOK
<1>3. RestInv /\ ~Saving /\ Saving'
  BY <1>1 DEF IInv, Saving
<1>4. FlashBlock' = old'
  BY <1>1, FlashFrame DEF IInv
<1>5. \A f \in Field : ~Passed(f)'
  BY <1>1, <1>3 DEF Passed, Field, RestInv
<1>6. SaveInv'
  BY <1>1, <1>3, <1>4, <1>5, FieldAssumption DEF SaveInv, RestInv
<1> QED
  BY <1>1, <1>2, <1>3, <1>4, <1>6 DEF IInv

LEMMA NetworkUpInv == IInv /\ NetworkUp => IInv'
<1> SUFFICES ASSUME IInv, NetworkUp PROVE IInv'
  OBVIOUS
<1>1. /\ UNCHANGED <<store, req, state, work, ram, current, defaults, index,
                     old, new, crashes>>
      /\ pc = "net" /\ pc' = "run"
  BY DEF NetworkUp, flash
<1>2. TypeOK'
  BY <1>1 DEF IInv, TypeOK
<1>3. RestInv /\ ~Saving /\ ~Saving'
  BY <1>1 DEF IInv, Saving
<1>4. RestInv'
  BY <1>1, <1>3, PrefixFrame, FlashFrame DEF RestInv
<1> QED
  BY <1>1, <1>2, <1>3, <1>4, FlashFrame DEF IInv

-----------------------------------------------------------------------------
\* FlashPBSave.

\* The steps that leave the flash and the blocks alone leave the progress alone.
LEMMA ProgressFrame ==
  ASSUME SaveInv, UNCHANGED <<store, old, new>>,
         \A f \in Field : Passed(f)' = Passed(f)
  PROVE  \A f \in Field : FlashBlock'[f] = IF Passed(f)' THEN new'[f] ELSE old'[f]
BY FlashFrame DEF SaveInv

LEMMA SaveWordInv == IInv /\ SaveWord => IInv'
<1> SUFFICES ASSUME IInv, SaveWord PROVE IInv'
  OBVIOUS
<1>1. /\ UNCHANGED <<store, work, ram, current, defaults, pc, index, old, new,
                     crashes>>
      /\ Saving /\ index <= NFields /\ state = "free" /\ state' = "busy"
      /\ req' \in Store!Request
      /\ req' = [v |-> index, d |-> IF index = 0 THEN Magic ELSE work[index]]
  BY DEF SaveWord, Store!Begin
<1>2. TypeOK'
  BY <1>1 DEF IInv, TypeOK
<1>3. SaveInv /\ Saving'
  BY <1>1 DEF IInv, Saving
<1>4. \A f \in Field : Passed(f)' = Passed(f)
  BY <1>1 DEF Passed
<1>5. \A f \in Field : FlashBlock'[f] = IF Passed(f)' THEN new'[f] ELSE old'[f]
  BY <1>1, <1>3, <1>4, ProgressFrame
<1>6. /\ state' # "free" /\ index' <= NFields
      /\ req'.v = index'
      /\ req'.d = IF index' = 0 THEN Magic ELSE new'[index']
  BY <1>1, <1>3 DEF SaveInv
<1>7. SaveInv'
  BY <1>1, <1>3, <1>5, <1>6 DEF SaveInv
<1> QED
  BY <1>1, <1>2, <1>3, <1>7, FlashFrame DEF IInv

LEMMA SaveCommitInv == IInv /\ SaveCommit => IInv'
<1> SUFFICES ASSUME IInv, SaveCommit PROVE IInv'
  OBVIOUS
<1>1. /\ UNCHANGED <<req, work, ram, current, defaults, pc, index, old, new,
                     crashes>>
      /\ Saving /\ state = "busy" /\ state' = "done"
      /\ store' = [store EXCEPT ![req.v] = req.d]
  BY DEF SaveCommit, Store!Commit
<1>2. SaveInv /\ Saving'
  BY <1>1 DEF IInv, Saving
<1>3. /\ req.v = index /\ index \in 0..NFields
      /\ req.d = IF index = 0 THEN Magic ELSE new[index]
  BY <1>1, <1>2, FieldAssumption DEF SaveInv
<1>4. /\ store \in [0..NFields -> Word \cup {Zero, Magic, None}]
      /\ new \in Block
  BY DEF IInv, TypeOK
<1>5. index # 0 => index \in Field /\ new[index] \in Word \cup {Zero}
  BY <1>3, <1>4, FieldAssumption DEF Field, Block
<1>6. store'[index] = req.d
      /\ \A f \in 0..NFields : f # index => store'[f] = store[f]
  BY <1>1, <1>3, <1>4
<1>7. TypeOK'
  <2>1. req.d \in Word \cup {Zero, Magic}
    BY <1>3, <1>5
  <2>2. store' \in [0..NFields -> Word \cup {Zero, Magic, None}]
    BY <1>1, <1>4, <2>1
  <2> QED
    BY <1>1, <2>2 DEF IInv, TypeOK
<1>8. store'[0] = Magic
  BY <1>2, <1>3, <1>6, FieldAssumption DEF SaveInv
<1>9. \A f \in Field : f \in 0..NFields /\ f # 0
  BY FieldAssumption DEF Field
<1>10. \A f \in Field : store'[f] # Magic
  <2> SUFFICES ASSUME NEW f \in Field PROVE store'[f] # Magic
    OBVIOUS
  <2>1. CASE f = index
    BY <1>3, <1>5, <1>6, <1>9, <2>1, WordAssumption
  <2>2. CASE f # index
    BY <1>6, <1>9, <2>2 DEF IInv
  <2> QED
    BY <2>1, <2>2
<1>11. \A f \in Field : FlashBlock'[f] = IF Passed(f)' THEN new'[f] ELSE old'[f]
  <2> SUFFICES ASSUME NEW f \in Field
               PROVE  FlashBlock'[f] = IF Passed(f)' THEN new'[f] ELSE old'[f]
    OBVIOUS
  <2>1. CASE f = index
    <3>1. store'[f] = new[f] /\ new[f] # None
      BY <1>3, <1>5, <1>6, <1>9, <2>1, WordAssumption
    <3>2. FlashBlock'[f] = new[f]
      BY <3>1 DEF FlashBlock
    <3>3. Passed(f)'
      BY <1>1, <2>1 DEF Passed
    <3> QED
      BY <1>1, <3>2, <3>3
  <2>2. CASE f # index
    <3>1. store'[f] = store[f]
      BY <1>6, <1>9, <2>2
    <3>2. FlashBlock'[f] = FlashBlock[f]
      BY <3>1 DEF FlashBlock
    <3>3. Passed(f)' = Passed(f)
      BY <1>1, <2>2 DEF Passed
    <3> QED
      BY <1>1, <1>2, <3>2, <3>3 DEF SaveInv
  <2> QED
    BY <2>1, <2>2
<1>12. SaveInv'
  BY <1>1, <1>2, <1>3, <1>8, <1>11 DEF SaveInv
<1> QED
  BY <1>2, <1>7, <1>8, <1>10, <1>12 DEF IInv

LEMMA SaveNextInv == IInv /\ SaveNext => IInv'
<1> SUFFICES ASSUME IInv, SaveNext PROVE IInv'
  OBVIOUS
<1>1. /\ UNCHANGED <<store, req, work, ram, current, defaults, pc, old, new,
                     crashes>>
      /\ Saving /\ state = "done" /\ state' = "free" /\ index' = index + 1
  BY DEF SaveNext, Store!End
<1>2. SaveInv /\ Saving'
  BY <1>1 DEF IInv, Saving
<1>3. index \in 0..NFields /\ index' \in 0..(NFields + 1) /\ index' > 0
  BY <1>1, <1>2, FieldAssumption DEF SaveInv
<1>4. TypeOK'
  BY <1>1, <1>3 DEF IInv, TypeOK
<1>5. \A f \in Field : Passed(f)' = Passed(f)
  BY <1>1, <1>3, FieldAssumption DEF Passed, Field
<1>6. \A f \in Field : FlashBlock'[f] = IF Passed(f)' THEN new'[f] ELSE old'[f]
  BY <1>1, <1>2, <1>5, ProgressFrame
<1>7. store'[0] = Magic
  BY <1>1, <1>2 DEF SaveInv
<1>8. SaveInv'
  BY <1>1, <1>2, <1>3, <1>6, <1>7 DEF SaveInv
<1> QED
  BY <1>1, <1>2, <1>4, <1>7, <1>8 DEF IInv

LEMMA SaveEndInv == IInv /\ SaveEnd => IInv'
<1> SUFFICES ASSUME IInv, SaveEnd PROVE IInv'
  OBVIOUS
<1>1. /\ UNCHANGED <<store, req, state, work, ram, current, index, new, crashes>>
      /\ Saving /\ state = "free" /\ index > NFields
      /\ defaults' = IF current = Null THEN Factory ELSE current
      /\ pc' = (IF pc = "factory" THEN "net" ELSE "run")
      /\ old' = new
  BY DEF SaveEnd, flash
<1>2. SaveInv /\ ~Saving'
  BY <1>1 DEF IInv, Saving
<1>3. TypeOK'
  <2>1. defaults' \in Block /\ old' \in Block
    BY <1>1, Blocks DEF IInv, TypeOK
  <2>2. pc' \in {"net", "run"}
    BY <1>1
  <2> QED
    BY <1>1, <2>1, <2>2 DEF IInv, TypeOK
<1>4. FlashBlock' = old'
  <2>1. \A f \in Field : Passed(f)
    BY <1>1, <1>2, FieldAssumption DEF Passed, Field, SaveInv
  <2>2. \A f \in Field : FlashBlock[f] = new[f]
    BY <1>2, <2>1 DEF SaveInv
  <2>3. new = [f \in Field |-> new[f]]
    BY DEF IInv, TypeOK, Block
  <2>4. FlashBlock = new
    BY <2>2, <2>3 DEF FlashBlock
  <2> QED
    BY <1>1, <2>4, FlashFrame
<1>5. PrefixOfSave'
  <2>1. Whole' => PrefixOfSave'
    BY WholeIsPrefix, PTL
  <2> QED
    BY <1>4, <2>1 DEF Whole
<1>6. store'[0] = Magic
  BY <1>1, <1>2, FieldAssumption DEF SaveInv
<1>7. RestInv'
  BY <1>1, <1>4, <1>5, <1>6 DEF RestInv
<1> QED
  BY <1>1, <1>2, <1>3, <1>6, <1>7 DEF IInv

-----------------------------------------------------------------------------
\* The web forms and the shell.

LEMMA FormAcceptedInv == IInv /\ FormAccepted => IInv'
<1> SUFFICES ASSUME IInv, FormAccepted PROVE IInv'
  OBVIOUS
<1>1. /\ UNCHANGED <<store, req, state, current, defaults, old, crashes>>
      /\ pc = "run" /\ pc' = "save" /\ index' = 0
      /\ work' = ram' /\ new' = ram'
  BY DEF FormAccepted, flash
<1>2. PICK form \in [Field \ {Ip} -> Word] :
        ram' = [f \in Field |-> IF f = Ip THEN ram[f] ELSE form[f]]
  BY DEF FormAccepted
<1>3. ram' \in Block
  BY <1>2 DEF IInv, TypeOK, Block
<1>4. TypeOK'
  BY <1>1, <1>3, FieldAssumption DEF IInv, TypeOK
<1>5. RestInv /\ Saving'
  BY <1>1 DEF IInv, Saving
<1>6. FlashBlock' = old' /\ store'[0] = Magic
  BY <1>1, <1>5, FlashFrame DEF RestInv
<1>7. \A f \in Field : ~Passed(f)'
  BY <1>1, <1>5 DEF Passed, Field, RestInv
<1>8. SaveInv'
  BY <1>1, <1>5, <1>6, <1>7, FieldAssumption DEF SaveInv, RestInv
<1> QED
  BY <1>1, <1>4, <1>5, <1>6, <1>8 DEF IInv

\* A step that changes neither the flash nor what it is compared with.
LEMMA RamStep ==
  ASSUME IInv, pc = "run", ram' \in Block, work' \in Block,
         UNCHANGED <<store, req, state, current, defaults, pc, index, old, new,
                     crashes>>
  PROVE  IInv'
<1>1. TypeOK'
  BY DEF IInv, TypeOK
<1>2. RestInv /\ ~Saving /\ ~Saving'
  BY DEF IInv, Saving
<1>3. RestInv'
  BY <1>2, PrefixFrame, FlashFrame DEF RestInv
<1> QED
  BY <1>1, <1>2, <1>3, FlashFrame DEF IInv

LEMMA RamInv == IInv /\ (FormRejected \/ Login \/ ShellSet) => IInv'
<1> SUFFICES ASSUME IInv, FormRejected \/ Login \/ ShellSet PROVE IInv'
  OBVIOUS
<1>1. ram \in Block /\ work \in Block
  BY DEF IInv, TypeOK
<1>2. ram' \in Block /\ work' \in Block
  BY <1>1 DEF FormRejected, Login, ShellSet, Block
<1>3. /\ pc = "run"
      /\ UNCHANGED <<store, req, state, current, defaults, pc, index, old, new,
                     crashes>>
  BY DEF FormRejected, Login, ShellSet, flash
<1> QED
  BY <1>2, <1>3, RamStep

\* A power loss at any point leaves the prefix that was written.
LEMMA CrashInv == IInv /\ Crash => IInv'
<1> SUFFICES ASSUME IInv, Crash PROVE IInv'
  OBVIOUS
<1>1. /\ UNCHANGED <<store, req, index, old, new>>
      /\ pc' = "off" /\ state' = "free" /\ ram' = Blank /\ work' = Blank
      /\ current' = Null /\ defaults' = Factory /\ crashes' = crashes + 1
      /\ crashes < MaxCrash
  BY DEF Crash
<1>2. TypeOK'
  BY <1>1, Blocks, FieldAssumption DEF IInv, TypeOK
<1>3. PrefixOfSave
  BY SaveIsPrefix DEF IInv, RestInv
<1>4. RestInv' /\ ~Saving'
  BY <1>1, <1>3, PrefixFrame DEF RestInv, Saving
<1> QED
  BY <1>1, <1>2, <1>4, FlashFrame DEF IInv

LEMMA StutterInv == IInv /\ UNCHANGED vars => IInv'
<1> SUFFICES ASSUME IInv, UNCHANGED vars PROVE IInv'
  OBVIOUS
<1>1. TypeOK'
  BY DEF IInv, TypeOK, vars
<1>2. Saving' = Saving /\ \A f \in Field : Passed(f)' = Passed(f)
  BY DEF Saving, Passed, vars
<1>3. FlashBlock' = FlashBlock
  BY FlashFrame DEF vars
<1>4. RestInv => RestInv'
  BY <1>3, PrefixFrame DEF RestInv, vars
<1>5. SaveInv => SaveInv'
  BY <1>2, <1>3 DEF SaveInv, vars
<1> QED
  BY <1>1, <1>2, <1>3, <1>4, <1>5 DEF IInv, vars

LEMMA NextInv == IInv /\ [Next]_vars => IInv'
BY LoadFactoryInv, LoadSavedInv, SaveFactoryInv, NetworkUpInv, SaveWordInv,
   SaveCommitInv, SaveNextInv, SaveEndInv, FormAcceptedInv, RamInv, CrashInv,
   StutterInv DEF Next, Step

-----------------------------------------------------------------------------
\* The inductive invariant of the configuration store.
THEOREM Invariance == Spec => []IInv
BY InitInv, NextInv, PTL DEF Spec

\* Type correctness, whatever was cut when.
THEOREM TypeCorrect == Spec => []TypeOK
<1>1. IInv => TypeOK
  BY DEF IInv
<1> QED
  BY <1>1, Invariance, PTL

\* A power loss in FlashPBSave, or any number of them, leaves a prefix of the
\* new block and the rest of the old one.
THEOREM CutIsPrefix == Spec => []PrefixOfSave
<1>1. IInv => PrefixOfSave
  BY SaveIsPrefix DEF IInv, RestInv
<1> QED
  BY <1>1, Invariance, PTL

\* While the device runs the flash holds the block last saved.
THEOREM SavedStays == Spec => []SavedIsStored
<1>1. IInv => SavedIsStored
  BY DEF IInv, RestInv, Saving, SavedIsStored
<1> QED
  BY <1>1, Invariance, PTL
=============================================================================
