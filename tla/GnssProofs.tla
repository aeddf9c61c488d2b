----------------------------- MODULE GnssProofs -----------------------------
(***************************************************************************)
(* Theorems about GnssCmd, for every set of configurations without a       *)
(* repeated command and any number of calls.                               *)
(***************************************************************************)
EXTENDS GnssCmd, SequenceTheorems, TLAPS

\* Before the commands are sent, and after.
Before == {"clear", "copy", "index", "count", "spin", "send"}
After  == {"pend", "wait", "granted"}

\* How many commands of the call the receiver has taken up.
Answered == Len(cmds) - Len(line)

\* g_save_cmd holds the commands of the call, in their order; only the debug
\* task writes it.
SaveInv ==
  /\ pc \in Before \cup After \cup {"idle"} /\ cmds \in Config
  /\ num \in Nat /\ index \in [Slot -> Nat] /\ cmd_cnt \in Nat
  /\ permits \in Nat /\ accepted \in Nat
  /\ lost \in BOOLEAN /\ late \in BOOLEAN
  /\ line \in Seq([cmd : Cmd, call : Nat]) /\ call \in Nat
  /\ DOMAIN buf = Slot
  /\ pc = "copy" => num = 0
  /\ pc = "index" => num <= Len(cmds)
  /\ pc = "count" => num < Len(cmds) /\ index[num] = num
  /\ pc \in {"send"} \cup After => num = Len(cmds)
  /\ pc \in {"index", "count", "send"} \cup After =>
       /\ \A i \in 0..(Len(cmds) - 1) : buf[i] = cmds[i + 1]
       /\ \A i \in Slot : i < num => index[i] = i

\* No answer is late: what is on the line is the rest of the call, and a permit
\* is given when that rest is empty.
LineInv ==
  /\ pc \in Before \cup {"idle"} => line = <<>> /\ permits = 0
  /\ pc \in After =>
       /\ Len(line) <= Len(cmds)
       /\ \A i \in 1..Len(line) :
            line[i] = [cmd |-> cmds[Answered + i], call |-> call]
  /\ pc = "pend" /\ permits # 0 => permits = 1 /\ line = <<>>
  /\ pc = "wait" => permits = 0
  /\ pc = "granted" => permits = 0 /\ line = <<>>

\* Nor is one lost: the count is that of the answers, all of them OK, or zero.
CountInv ==
  /\ pc # "idle" => result = "none"
  /\ pc \in Before => cmd_cnt = 0 /\ accepted = 0
  /\ pc \in After =>
       /\ accepted <= Answered
       /\ accepted < Answered =>
            cmd_cnt = 0 /\ permits = 0 /\ pc # "granted"
       /\ accepted = Answered /\ line # <<>> =>
            cmd_cnt = Answered /\ permits = 0 /\ pc # "granted"
       /\ accepted = Answered /\ line = <<>> =>
            cmd_cnt = 0 /\ (pc = "granted" \/ (pc = "pend" /\ permits = 1))
  /\ pc = "idle" => /\ result = "OK" => accepted = Len(cmds)
                    /\ result = "NG" => accepted < Len(cmds)
                    /\ cmd_cnt = 0

IInv == /\ SaveInv
        /\ ~late => LineInv
        /\ ~late /\ ~lost => CountInv

-----------------------------------------------------------------------------
\* A configuration is a sequence of different commands.
LEMMA ConfigFacts ==
  ASSUME NEW c \in Config
  PROVE  /\ Len(c) \in Nat /\ Len(c) >= 1 /\ Len(c) <= MaxNum
         /\ DOMAIN c = 1..Len(c)
         /\ \A i \in 1..Len(c) : c[i] \in Cmd
         /\ \A i, j \in 1..Len(c) : c[i] = c[j] => i = j
<1>1. /\ c \in Seq({c[i] : i \in DOMAIN c}) /\ Len(c) \in 1..MaxNum
      /\ MaxNum \in Nat
      /\ \A i, j \in DOMAIN c : c[i] = c[j] => i = j
  BY ConfigAssumption
<1>2. DOMAIN c = 1..Len(c)
  BY <1>1, LenProperties
<1> QED
  BY <1>1, <1>2 DEF Cmd

\* A line without its first command.
LEMMA LineTail ==
  ASSUME NEW S, line \in Seq(S), line # <<>>
  PROVE  /\ Tail(line) \in Seq(S) /\ Len(Tail(line)) = Len(line) - 1
         /\ Len(line) \in Nat /\ Len(line) >= 1
         /\ Head(line) = line[1]
         /\ \A i \in 1..Len(Tail(line)) : Tail(line)[i] = line[i + 1]
<1>1. Len(line) \in Nat /\ Len(line) # 0
  BY EmptySeq, LenProperties
<1> QED
  BY <1>1, HeadTailProperties

LEMMA InitInv == Init => IInv
<1> SUFFICES ASSUME Init PROVE IInv
  OBVIOUS
<1>1. <<>> \in Seq([cmd : Cmd, call : Nat])
  BY EmptySeq
<1>2. line \in Seq([cmd : Cmd, call : Nat])
  BY <1>1, Zenon DEF Init
<1>3. SaveInv
  BY <1>2 DEF Init, SaveInv, Before, After
<1>4. LineInv /\ CountInv
  BY DEF Init, LineInv, CountInv, Before, After
<1> QED
  BY <1>3, <1>4 DEF IInv

-----------------------------------------------------------------------------
\* The debug task.

LEMMA CallInv == IInv /\ Call => IInv'
<1> SUFFICES ASSUME IInv, Call PROVE IInv'
  OBVIOUS
<1>1. /\ pc = "idle" /\ pc' = "clear" /\ cmds' \in Config
      /\ call' = call + 1 /\ result' = "none" /\ accepted' = 0
      /\ UNCHANGED <<num, index, buf, cmd_cnt, permits, line, lost, late>>
  BY DEF Call, save, faults
<1>2. SaveInv'
  BY <1>1 DEF IInv, SaveInv, Before, After
<1>3. ~late' => LineInv'
  BY <1>1 DEF IInv, LineInv, Before, After
<1>4. ~late' /\ ~lost' => CountInv'
  BY <1>1 DEF IInv, CountInv, Before, After
<1> QED
  BY <1>2, <1>3, <1>4 DEF IInv

\* A step of cmd_save, or the end of it, concerns g_save_cmd only.
LEMMA SaveStep ==
  ASSUME IInv, pc \in {"clear", "copy", "index", "count"}, pc' \in Before, SaveInv',
         UNCHANGED <<cmds, cmd_cnt, permits, line, call, result, accepted,
                     lost, late>>
  PROVE  IInv'
<1>1. ~late' => LineInv'
  BY DEF IInv, LineInv, Before, After
<1>2. ~late' /\ ~lost' => CountInv'
  BY DEF IInv, CountInv, Before, After
<1> QED
  BY <1>1, <1>2 DEF IInv

LEMMA SaveInvs ==
  IInv /\ (SaveClear \/ SaveCopy \/ SaveIndex \/ SaveCount \/ SaveEnd) => IInv'
<1> SUFFICES ASSUME IInv,
                    SaveClear \/ SaveCopy \/ SaveIndex \/ SaveCount \/ SaveEnd
             PROVE  IInv'
  OBVIOUS
<1>1. cmds \in Config /\ num \in Nat
  BY DEF IInv, SaveInv
<1>2. Len(cmds) \in Nat /\ Len(cmds) >= 1 /\ Len(cmds) <= MaxNum
  BY <1>1, ConfigFacts
<1>3. MaxNum \in Nat /\ Slot = 0..(MaxNum - 1)
  BY ConfigAssumption DEF Slot
<1>4. CASE SaveClear
  <2>1. SaveInv'
    BY <1>4 DEF SaveClear, IInv, SaveInv, Before, After, faults, truth
  <2> QED
    BY <1>4, <2>1, SaveStep DEF SaveClear, Before, faults, truth
<1>5. CASE SaveCopy
  <2>1. \A i \in 0..(Len(cmds) - 1) : buf'[i] = cmds[i + 1]
    BY <1>2, <1>3, <1>5 DEF SaveCopy
  <2>2. DOMAIN buf' = Slot
    BY <1>5 DEF SaveCopy
  <2>3. num' = 0 /\ pc' = "index"
    BY <1>5 DEF SaveCopy, IInv, SaveInv
  <2>4. \A i \in Slot : ~(i < num')
    BY <1>3, <2>3
  <2>5. SaveInv'
    BY <1>2, <1>5, <2>1, <2>2, <2>3, <2>4
    DEF SaveCopy, IInv, SaveInv, Before, After, faults, truth
  <2> QED
    BY <1>5, <2>5, SaveStep DEF SaveCopy, Before, faults, truth
<1>6. CASE SaveIndex
  <2>1. /\ pc = "index" /\ pc' = "count" /\ num < Len(cmds)
        /\ index' = [index EXCEPT ![num] = num]
        /\ UNCHANGED <<cmds, num, buf, cmd_cnt, permits, line, call, result,
                       accepted, lost, late>>
    BY <1>6 DEF SaveIndex, faults, truth
  <2>2. index \in [Slot -> Nat] /\ \A i \in Slot : i < num => index[i] = i
    BY <2>1 DEF IInv, SaveInv
  <2>3. index' \in [Slot -> Nat] /\ index'[num] = num
    BY <1>1, <1>2, <1>3, <2>1, <2>2
  <2>4. \A i \in Slot : i < num => index'[i] = i
    BY <1>1, <1>3, <2>1, <2>2
  <2>5. SaveInv'
    BY <1>1, <1>2, <2>1, <2>3, <2>4 DEF IInv, SaveInv, Before, After
  <2> QED
    BY <2>1, <2>5, SaveStep DEF Before
<1>8. CASE SaveCount
  <2>1. /\ pc = "count" /\ pc' = "index" /\ num' = num + 1
        /\ UNCHANGED <<cmds, index, buf, cmd_cnt, permits, line, call, result,
                       accepted, lost, late>>
    BY <1>8 DEF SaveCount, faults, truth
  <2>2. /\ num < Len(cmds) /\ index[num] = num
        /\ \A i \in Slot : i < num => index[i] = i
    BY <2>1 DEF IInv, SaveInv
  <2>3. \A i \in Slot : i < num' => index'[i] = i
    BY <1>1, <1>3, <2>1, <2>2
  <2>4. SaveInv'
    BY <1>1, <1>2, <2>1, <2>2, <2>3 DEF IInv, SaveInv, Before, After
  <2> QED
    BY <2>1, <2>4, SaveStep DEF Before
<1>7. CASE SaveEnd
  <2>1. /\ pc = "index" /\ num = Len(cmds) /\ pc' \in {"send", "spin"}
        /\ UNCHANGED <<cmds, num, index, buf, cmd_cnt, permits, line, call,
                       result, accepted, lost, late>>
    BY <1>7 DEF SaveEnd, save, faults, truth
  <2>2. SaveInv'
    BY <2>1 DEF IInv, SaveInv, Before, After
  <2> QED
    BY <2>1, <2>2, SaveStep DEF Before
<1> QED
  BY <1>4, <1>5, <1>6, <1>7, <1>8

LEMMA SendInv == IInv /\ Send => IInv'
<1> SUFFICES ASSUME IInv, Send PROVE IInv'
  OBVIOUS
<1> DEFINE text == [i \in 1..Len(cmds) |-> [cmd |-> cmds[i], call |-> call]]
           S == [cmd : Cmd, call : Nat]
<1>1. /\ pc = "send" /\ pc' = "pend" /\ line' = line \o text
      /\ UNCHANGED <<cmds, num, index, buf, cmd_cnt, permits, call, result,
                     accepted, lost, late>>
  BY DEF Send, save, faults, truth
<1>2. cmds \in Config /\ call \in Nat /\ line \in Seq(S)
  BY DEF IInv, SaveInv
<1>3. Len(cmds) \in Nat /\ Len(cmds) >= 1
      /\ \A i \in 1..Len(cmds) : cmds[i] \in Cmd
  BY <1>2, ConfigFacts
<1>4. text \in Seq(S) /\ Len(text) = Len(cmds)
  <2>1. text \in [1..Len(cmds) -> S]
    BY <1>2, <1>3
  <2> QED
    BY <1>3, <2>1
<1>5. \A i \in 1..Len(cmds) : text[i] = [cmd |-> cmds[i], call |-> call]
  OBVIOUS
<1> HIDE DEF text
<1>6. line' \in Seq(S)
  BY <1>1, <1>2, <1>4, ConcatProperties
<1>7. SaveInv'
  BY <1>1, <1>6 DEF IInv, SaveInv, Before, After
<1>8. ASSUME ~late PROVE LineInv'
  <2>1. line = <<>> /\ permits = 0
    BY <1>1, <1>8 DEF IInv, LineInv, Before
  <2>2. line' = text
    BY <1>1, <1>4, <2>1, ConcatEmptySeq
  <2>3. Len(line') = Len(cmds') /\ Answered' = 0
    BY <1>1, <1>3, <1>4, <2>2 DEF Answered
  <2>4. \A i \in 1..Len(line') :
          line'[i] = [cmd |-> cmds'[Answered' + i], call |-> call']
    BY <1>1, <1>3, <1>5, <2>2, <2>3
  <2> QED
    BY <1>1, <1>3, <2>1, <2>3, <2>4 DEF LineInv, Before, After
<1>9. ASSUME ~late, ~lost PROVE CountInv'
  <2>1. line = <<>> /\ permits = 0 /\ cmd_cnt = 0 /\ accepted = 0
        /\ result = "none"
    BY <1>1, <1>9 DEF IInv, LineInv, CountInv, Before
  <2>2. line' = text
    BY <1>1, <1>4, <2>1, ConcatEmptySeq
  <2>3. Answered' = 0 /\ Len(line') >= 1
    BY <1>1, <1>3, <1>4, <2>2 DEF Answered
  <2>4. line' # <<>>
    BY <2>3
  <2> QED
    BY <1>1, <2>1, <2>3, <2>4 DEF CountInv, Before, After
<1> QED
  BY <1>1, <1>7, <1>8, <1>9 DEF IInv

LEMMA PendInv == IInv /\ Pend => IInv'
<1> SUFFICES ASSUME IInv, Pend PROVE IInv'
  OBVIOUS
<1>1. /\ pc = "pend"
      /\ \/ permits > 0 /\ pc' = "granted" /\ permits' = permits - 1
         \/ ~(permits > 0) /\ pc' = "wait" /\ permits' = permits
      /\ UNCHANGED <<cmds, num, index, buf, cmd_cnt, line, call, result,
                     accepted, lost, late>>
  BY DEF Pend, save, faults, truth
<1>2. permits \in Nat
  BY DEF IInv, SaveInv
<1>3. permits' \in Nat
  BY <1>1, <1>2
<1>4. SaveInv'
  BY <1>1, <1>3 DEF IInv, SaveInv, Before, After
<1>5. Answered' = Answered
  BY <1>1 DEF Answered
<1>6. ASSUME ~late PROVE LineInv'
  BY <1>1, <1>2, <1>5, <1>6 DEF IInv, LineInv, Before, After
<1>7. ASSUME ~late, ~lost PROVE CountInv'
  <2>1. permits # 0 => permits = 1 /\ line = <<>>
    BY <1>1, <1>7 DEF IInv, LineInv
  <2> QED
    BY <1>1, <1>2, <1>5, <1>7, <2>1 DEF IInv, CountInv, Before, After
<1> QED
  BY <1>1, <1>4, <1>6, <1>7 DEF IInv

LEMMA ReturnOkInv == IInv /\ ReturnOk => IInv'
<1> SUFFICES ASSUME IInv, ReturnOk PROVE IInv'
  OBVIOUS
<1>1. /\ pc = "granted" /\ pc' = "idle" /\ result' = "OK"
      /\ UNCHANGED <<cmds, num, index, buf, cmd_cnt, permits, line, call,
                     accepted, lost, late>>
  BY DEF ReturnOk, save, faults, truth
<1>2. SaveInv'
  BY <1>1 DEF IInv, SaveInv, Before, After
<1>3. ASSUME ~late PROVE LineInv'
  BY <1>1, <1>3 DEF IInv, LineInv, Before, After
<1>4. ASSUME ~late, ~lost PROVE CountInv'
  <2>1. line = <<>> /\ Len(cmds) \in Nat
    BY <1>1, <1>4, ConfigFacts DEF IInv, LineInv, SaveInv
  <2>2. Answered = Len(cmds)
    BY <2>1, EmptySeq DEF Answered
  <2>3. accepted \in Nat /\ accepted <= Answered /\ ~(accepted < Answered)
    BY <1>1, <1>4 DEF IInv, SaveInv, CountInv, After
  <2>4. accepted = Answered
    BY <2>1, <2>2, <2>3
  <2>5. cmd_cnt = 0
    BY <1>1, <1>4, <2>1, <2>4 DEF IInv, CountInv, After
  <2> QED
    BY <1>1, <2>2, <2>4, <2>5 DEF CountInv, Before, After
<1> QED
  BY <1>1, <1>2, <1>3, <1>4 DEF IInv

LEMMA ReturnNgInv == IInv /\ ReturnNg => IInv'
<1> SUFFICES ASSUME IInv, ReturnNg PROVE IInv'
  OBVIOUS
<1>1. /\ pc = "wait" /\ pc' = "idle" /\ result' = "NG"
      /\ UNCHANGED <<cmds, num, index, buf, cmd_cnt, permits, line, call,
                     accepted, lost>>
  BY DEF ReturnNg, save, truth
<1>2. late' = (late \/ line # <<>>)
  BY Zenon DEF ReturnNg
<1>3. late' \in BOOLEAN /\ (~late' => ~late /\ line = <<>>)
  BY <1>2, Zenon DEF IInv, SaveInv
<1>4. SaveInv'
  BY <1>1, <1>3 DEF IInv, SaveInv, Before, After
<1>5. ASSUME ~late' PROVE LineInv'
  BY <1>1, <1>3, <1>5 DEF IInv, LineInv, Before, After
<1>6. ASSUME ~late', ~lost' PROVE CountInv'
  <2>1. line = <<>> /\ Len(cmds) \in Nat
    BY <1>3, <1>6, ConfigFacts DEF IInv, SaveInv
  <2>2. Answered = Len(cmds)
    BY <2>1, EmptySeq DEF Answered
  <2>3. CountInv /\ accepted \in Nat
    BY <1>1, <1>3, <1>6 DEF IInv, SaveInv
  <2>4. accepted <= Answered /\ accepted # Answered /\ cmd_cnt = 0
    BY <1>1, <2>1, <2>2, <2>3 DEF CountInv, After
  <2>5. accepted < Len(cmds)
    BY <2>1, <2>2, <2>3, <2>4
  <2> QED
    BY <1>1, <2>4, <2>5 DEF CountInv, Before, After
<1> QED
  BY <1>4, <1>5, <1>6 DEF IInv

-----------------------------------------------------------------------------
\* The replies.

\* The gnss task wakes the debug task or leaves it where it is.
LEMMA AnswerSave ==
  ASSUME IInv, NEW e \in BOOLEAN, NEW s \in BOOLEAN, Answer(e, s),
         cmd_cnt' \in Nat, permits' \in Nat,
         pc' = pc \/ (pc = "wait" /\ pc' = "granted")
  PROVE  /\ SaveInv'
         /\ Len(line') = Len(line) - 1 /\ Answered' = Answered + 1
         /\ Len(cmds) \in Nat /\ Len(line) \in Nat
<1>1. /\ line # <<>> /\ line' = Tail(line)
      /\ accepted' = accepted \/ accepted' = accepted + 1
      /\ UNCHANGED <<cmds, num, index, buf, call, late>>
  BY DEF Answer, save
<1>2. lost' \in BOOLEAN
  BY Zenon DEF Answer
<1>3. line \in Seq([cmd : Cmd, call : Nat]) /\ cmds \in Config
  BY DEF IInv, SaveInv
<1>4. line' \in Seq([cmd : Cmd, call : Nat]) /\ Len(line') = Len(line) - 1
      /\ Len(line) \in Nat
  BY <1>1, <1>3, LineTail
<1>5. Len(cmds) \in Nat
  BY <1>3, ConfigFacts
<1>6. Answered' = Answered + 1
  BY <1>1, <1>4, <1>5 DEF Answered
<1>7. SaveInv'
  <2>1. pc \in Before \cup After \cup {"idle"} /\ accepted \in Nat
        /\ call \in Nat /\ index \in [Slot -> Nat] /\ num \in Nat
    BY DEF IInv, SaveInv
  <2>2. pc' \in Before \cup After \cup {"idle"} /\ accepted' \in Nat
    BY <1>1, <2>1 DEF Before, After
  <2>3. /\ pc' = "copy" => pc = "copy"
        /\ pc' = "index" => pc = "index"
        /\ pc' = "count" => pc = "count"
        /\ pc' \in {"send"} \cup After => pc \in {"send"} \cup After
        /\ pc' \in {"index", "count", "send"} \cup After =>
             pc \in {"index", "count", "send"} \cup After
    BY DEF After
  <2> QED
    BY <1>1, <1>2, <1>3, <1>4, <2>1, <2>2, <2>3 DEF IInv, SaveInv
<1> QED
  BY <1>4, <1>5, <1>6, <1>7

\* In time, the receiver answers the call that is waited for, command by command.
LEMMA AnswerOwn ==
  ASSUME IInv, ~late, line # <<>>
  PROVE  /\ pc \in {"pend", "wait"} /\ permits = 0
         /\ Answered \in 0..(Len(cmds) - 1)
         /\ Head(line).cmd = cmds[Answered + 1] /\ Head(line).call = call
         /\ num = Len(cmds)
         /\ \A i \in 0..(Len(cmds) - 1) :
              i < MaxNum /\ index[i] = i /\ buf[index[i]] = cmds[i + 1]
<1>1. LineInv /\ SaveInv
  BY DEF IInv
<1>2. pc \in {"pend", "wait"} /\ permits = 0
  BY <1>1 DEF LineInv, SaveInv, Before, After
<1>3. /\ Len(line) \in Nat /\ Len(line) >= 1 /\ Head(line) = line[1]
  BY <1>1, LineTail DEF SaveInv
<1>4. Len(cmds) \in Nat /\ Len(cmds) <= MaxNum /\ MaxNum \in Nat
  BY <1>1, ConfigFacts, ConfigAssumption DEF SaveInv
<1>5. Len(line) <= Len(cmds)
      /\ line[1] = [cmd |-> cmds[Answered + 1], call |-> call]
  BY <1>1, <1>2, <1>3 DEF LineInv, After
<1>6. Answered \in 0..(Len(cmds) - 1)
  BY <1>3, <1>4, <1>5 DEF Answered
<1>7. /\ num = Len(cmds)
      /\ \A i \in 0..(Len(cmds) - 1) : buf[i] = cmds[i + 1]
      /\ \A i \in Slot : i < num => index[i] = i
  BY <1>1, <1>2 DEF SaveInv, After
<1>8. \A i \in 0..(Len(cmds) - 1) : i < MaxNum /\ i \in Slot /\ i < num
  BY <1>4, <1>7 DEF Slot
<1> QED
  BY <1>2, <1>3, <1>5, <1>6, <1>7, <1>8

\* A reply that wakes nobody leaves the rest of the call on the line.
LEMMA QuietLine ==
  ASSUME IInv, NEW e \in BOOLEAN, NEW s \in BOOLEAN, Answer(e, s), ~late,
         UNCHANGED <<pc, permits>>, Answered' = Answered + 1
  PROVE  LineInv'
<1>1. /\ line # <<>> /\ line' = Tail(line) /\ UNCHANGED <<cmds, call>>
  BY DEF Answer, save
<1>2. pc \in {"pend", "wait"} /\ permits = 0 /\ Answered \in 0..(Len(cmds) - 1)
  BY <1>1, AnswerOwn
<1>3. LineInv /\ line \in Seq([cmd : Cmd, call : Nat]) /\ cmds \in Config
  BY DEF IInv, SaveInv
<1>4. /\ Len(line') = Len(line) - 1 /\ Len(line) \in Nat
      /\ \A i \in 1..Len(line') : line'[i] = line[i + 1]
  BY <1>1, <1>3, LineTail
<1>5. Len(cmds) \in Nat
  BY <1>3, ConfigFacts
<1>6. ASSUME NEW i \in 1..Len(line')
      PROVE  line'[i] = [cmd |-> cmds'[Answered' + i], call |-> call']
  <2>1. i + 1 \in 1..Len(line) /\ Answered + (i + 1) = Answered' + i
    BY <1>2, <1>4, <1>5
  <2>2. line[i + 1] = [cmd |-> cmds[Answered + (i + 1)], call |-> call]
    BY <1>2, <1>3, <2>1 DEF LineInv, After
  <2> QED
    BY <1>1, <1>4, <2>1, <2>2
<1>7. Len(line') <= Len(cmds')
  BY <1>1, <1>2, <1>3, <1>4, <1>5 DEF LineInv, After
<1> QED
  BY <1>2, <1>6, <1>7 DEF LineInv, Before, After

LEMMA RefuseInv == IInv /\ Refuse => IInv'
<1> SUFFICES ASSUME IInv, Refuse PROVE IInv'
  OBVIOUS
<1>1. Answer(FALSE, TRUE) /\ cmd_cnt' = 0 /\ UNCHANGED <<pc, permits>>
  BY DEF Refuse, CountRefusal
<1>2. /\ SaveInv' /\ Answered' = Answered + 1
      /\ Len(cmds) \in Nat /\ Len(line) \in Nat
  BY <1>1, AnswerSave DEF IInv, SaveInv
<1>3. late' = late /\ line # <<>> /\ accepted' = accepted
      /\ result' = result
  BY <1>1 DEF Answer
<1>4. lost' = (lost \/ ~TRUE)
  BY <1>1, Zenon DEF Answer
<1>5. ~lost' => ~lost
  BY <1>4, Zenon
<1>6. ASSUME ~late PROVE LineInv'
  BY <1>1, <1>2, <1>6, QuietLine
<1>7. ASSUME ~late, ~lost PROVE CountInv'
  <2>1. pc \in {"pend", "wait"} /\ permits = 0 /\ Answered \in Nat
    BY <1>3, <1>7, AnswerOwn
  <2>2. accepted <= Answered /\ accepted \in Nat /\ result = "none"
    BY <1>7, <2>1 DEF IInv, CountInv, SaveInv, After
  <2>3. accepted' < Answered'
    BY <1>2, <1>3, <2>1, <2>2
  <2> QED
    BY <1>1, <1>2, <1>3, <2>1, <2>2, <2>3 DEF CountInv, Before, After
<1> QED
  BY <1>2, <1>3, <1>5, <1>6, <1>7 DEF IInv

LEMMA LoseInv == IInv /\ Lose => IInv'
<1> SUFFICES ASSUME IInv, Lose PROVE IInv'
  OBVIOUS
<1>1. PICK e \in BOOLEAN : Answer(e, FALSE)
  BY DEF Lose
<1>2. UNCHANGED <<cmd_cnt, pc, permits>>
  BY DEF Lose
<1>3. SaveInv' /\ Answered' = Answered + 1
  BY <1>1, <1>2, AnswerSave DEF IInv, SaveInv
<1>4. late' = late
  BY <1>1 DEF Answer
<1>5. lost' = (lost \/ ~FALSE)
  BY <1>1, Zenon DEF Answer
<1>6. ASSUME ~late PROVE LineInv'
  BY <1>1, <1>2, <1>3, <1>6, QuietLine
<1> QED
  BY <1>3, <1>4, <1>5, <1>6 DEF IInv

\* An OK that does not match the next saved command sets the count to zero; the
\* one that makes it complete posts; any other is counted.
LEMMA OkCases ==
  ASSUME IInv, NEW cmd, CountOk(cmd)
  PROVE  /\ cmd_cnt' \in Nat /\ permits' \in Nat
         /\ pc' = pc \/ (pc = "wait" /\ pc' = "granted")
         /\ ~Matches(cmd) => cmd_cnt' = 0 /\ UNCHANGED <<pc, permits>>
         /\ Matches(cmd) /\ cmd_cnt + 1 = num => cmd_cnt' = 0 /\ Post
         /\ Matches(cmd) /\ cmd_cnt + 1 # num =>
              cmd_cnt' = cmd_cnt + 1 /\ UNCHANGED <<pc, permits>>
<1>1. cmd_cnt \in Nat /\ permits \in Nat
  BY DEF IInv, SaveInv
<1>2. CASE ~Matches(cmd)
  BY <1>1, <1>2 DEF CountOk
<1>3. CASE Matches(cmd) /\ cmd_cnt + 1 = num
  BY <1>1, <1>3 DEF CountOk, Post
<1>4. CASE Matches(cmd) /\ cmd_cnt + 1 # num
  BY <1>1, <1>4 DEF CountOk
<1> QED
  BY <1>2, <1>3, <1>4

LEMMA AcceptInv == IInv /\ Accept => IInv'
<1> SUFFICES ASSUME IInv, Accept PROVE IInv'
  OBVIOUS
<1> DEFINE cmd == Head(line).cmd
<1>1. Answer(TRUE, TRUE) /\ CountOk(cmd)
  BY DEF Accept
<1>2. /\ cmd_cnt' \in Nat /\ permits' \in Nat
      /\ pc' = pc \/ (pc = "wait" /\ pc' = "granted")
      /\ ~Matches(cmd) => cmd_cnt' = 0 /\ UNCHANGED <<pc, permits>>
      /\ Matches(cmd) /\ cmd_cnt + 1 = num => cmd_cnt' = 0 /\ Post
      /\ Matches(cmd) /\ cmd_cnt + 1 # num =>
           cmd_cnt' = cmd_cnt + 1 /\ UNCHANGED <<pc, permits>>
  BY <1>1, OkCases
<1> HIDE DEF cmd
<1>3. /\ SaveInv' /\ Answered' = Answered + 1
      /\ Len(cmds) \in Nat /\ Len(line) \in Nat /\ Len(line') = Len(line) - 1
  BY <1>1, <1>2, AnswerSave
<1>4. late' = late /\ line # <<>> /\ UNCHANGED <<cmds, call, result>>
      /\ line' = Tail(line)
  BY <1>1 DEF Answer
<1>5. lost' = (lost \/ ~TRUE)
  BY <1>1, Zenon DEF Answer
<1>6. ~lost' => ~lost
  BY <1>5, Zenon
<1>7. ASSUME ~late
      PROVE  /\ pc \in {"pend", "wait"} /\ permits = 0
             /\ Answered \in 0..(Len(cmds) - 1)
             /\ cmd = cmds[Answered + 1] /\ accepted' = accepted + 1
             /\ num = Len(cmds)
             /\ \A i \in 0..(Len(cmds) - 1) :
                  i < MaxNum /\ buf[index[i]] = cmds[i + 1]
  <2>1. accepted' = accepted + 1
    BY <1>1, <1>4, <1>7, AnswerOwn DEF Answer
  <2> QED
    BY <1>4, <1>7, <2>1, AnswerOwn DEF cmd
<1>8. ASSUME ~late, NEW i \in 0..(Len(cmds) - 1), buf[index[i]] = cmd
      PROVE  i = Answered
  <2>1. cmds[i + 1] = cmds[Answered + 1] /\ Answered \in 0..(Len(cmds) - 1)
    BY <1>7, <1>8
  <2>2. i + 1 \in 1..Len(cmds) /\ Answered + 1 \in 1..Len(cmds)
    BY <1>3, <2>1
  <2>3. i + 1 = Answered + 1
    BY <2>1, <2>2, ConfigFacts DEF IInv, SaveInv
  <2> QED
    BY <2>1, <2>3
<1>9. ASSUME ~late, Matches(cmd), cmd_cnt + 1 = num
      PROVE  /\ line' = <<>> /\ cmd_cnt = Answered
             /\ \/ pc' = "granted" /\ permits' = 0
                \/ pc' = "pend" /\ permits' = 1
  <2>1. cmd_cnt \in 0..(Len(cmds) - 1) /\ buf[index[cmd_cnt]] = cmd
    BY <1>3, <1>7, <1>9 DEF Matches, IInv, SaveInv
  <2>2. cmd_cnt = Answered
    BY <1>8, <1>9, <2>1
  <2>3. Len(line') = 0
    BY <1>3, <1>7, <1>9, <2>2 DEF Answered
  <2>4. line' = <<>>
    BY <1>3, <2>3, EmptySeq DEF SaveInv
  <2>5. Post /\ pc \in {"pend", "wait"} /\ permits = 0
    BY <1>2, <1>7, <1>9
  <2>6. CASE pc = "wait"
    BY <2>2, <2>4, <2>5, <2>6 DEF Post
  <2>7. CASE pc = "pend"
    BY <2>2, <2>4, <2>5, <2>7 DEF Post
  <2> QED
    BY <2>5, <2>6, <2>7
<1>10. ASSUME ~late PROVE LineInv'
  <2>1. CASE Matches(cmd) /\ cmd_cnt + 1 = num
    <3>1. Len(line') = 0 /\ line' = <<>>
      BY <1>9, <1>10, <2>1, EmptySeq
    <3>2. \A i \in 1..Len(line') :
            line'[i] = [cmd |-> cmds'[Answered' + i], call |-> call']
      BY <3>1
    <3>3. Len(line') <= Len(cmds')
      <4>1. Len(cmds') \in Nat
        BY <1>3, <1>4
      <4>2. Len(line') = 0
        BY <3>1
      <4> QED
        BY <4>1, <4>2
    <3> QED
      BY <1>9, <1>10, <2>1, <3>1, <3>2, <3>3 DEF LineInv, Before, After
  <2>2. CASE ~(Matches(cmd) /\ cmd_cnt + 1 = num)
    BY <1>1, <1>2, <1>3, <1>10, <2>2, QuietLine
  <2> QED
    BY <2>1, <2>2
<1>11. ASSUME ~late, ~lost PROVE CountInv'
  <2>1. /\ pc \in {"pend", "wait"} /\ permits = 0 /\ accepted \in Nat
        /\ result = "none" /\ accepted <= Answered
        /\ Answered \in 0..(Len(cmds) - 1)
    BY <1>7, <1>11 DEF IInv, SaveInv, CountInv, After
  <2>2. CASE accepted = Answered
    <3>1. cmd_cnt = Answered /\ Matches(cmd)
      BY <1>4, <1>7, <1>11, <2>1, <2>2 DEF IInv, CountInv, After, Matches
    <3>2. accepted' = Answered'
      BY <1>3, <1>7, <1>11, <2>2
    <3>3. CASE cmd_cnt + 1 = num
      BY <1>2, <1>3, <1>4, <1>9, <1>11, <2>1, <3>1, <3>2, <3>3
      DEF CountInv, Before, After
    <3>4. CASE cmd_cnt + 1 # num
      <4>1. Len(line') # 0
        BY <1>3, <1>7, <1>11, <2>1, <3>1, <3>4 DEF Answered
      <4>2. line' # <<>>
        BY <4>1, EmptySeq
      <4> QED
        BY <1>2, <1>3, <1>4, <2>1, <3>1, <3>2, <3>4, <4>2
        DEF CountInv, Before, After
    <3> QED
      BY <3>3, <3>4
  <2>3. CASE accepted # Answered
    <3>1. accepted < Answered /\ cmd_cnt = 0
      BY <1>11, <2>1, <2>3 DEF IInv, CountInv, After
    <3>2. accepted' < Answered'
      BY <1>3, <1>7, <1>11, <2>1, <3>1
    <3>3. ~Matches(cmd)
      <4>1. 0 \in 0..(Len(cmds) - 1) /\ 0 # Answered
        BY <2>1, <3>1
      <4> QED
        BY <1>8, <1>11, <3>1, <4>1 DEF Matches
    <3>4. cmd_cnt' = 0 /\ permits' = 0 /\ pc' \in {"pend", "wait"}
          /\ result' = "none"
      BY <1>2, <1>4, <2>1, <3>3
    <3>5. accepted' <= Answered' /\ accepted' # Answered'
      BY <1>3, <1>7, <1>11, <2>1, <3>2
    <3> QED
      BY <3>2, <3>4, <3>5 DEF CountInv, Before, After
  <2> QED
    BY <2>2, <2>3
<1> QED
  BY <1>3, <1>4, <1>6, <1>10, <1>11 DEF IInv

LEMMA StutterInv == IInv /\ UNCHANGED vars => IInv'
BY DEF IInv, SaveInv, LineInv, CountInv, Answered, vars

LEMMA NextInv == IInv /\ [Next]_vars => IInv'
BY CallInv, SaveInvs, SendInv, PendInv, ReturnOkInv, ReturnNgInv, AcceptInv,
   RefuseInv, LoseInv, StutterInv DEF Next, DebugTask

-----------------------------------------------------------------------------
\* The inductive invariant of the commands.
THEOREM Invariance == Spec => []IInv
BY InitInv, NextInv, PTL DEF Spec

\* As long as no answer comes late, no permit is left for the next call.
THEOREM PermitsUsed == Spec => []NoStalePermit
<1>1. IInv => NoStalePermit
  BY DEF IInv, LineInv, NoStalePermit
<1> QED
  BY <1>1, Invariance, PTL

\* Without lost and late answers a call says exactly what the receiver did.
THEOREM AnswersExact == Spec => []ExactWithoutFaults
<1>1. IInv => ExactWithoutFaults
  <2> SUFFICES ASSUME IInv, ~lost, ~late
               PROVE  /\ OkMeansConfigured
                      /\ result = "NG" => accepted < Len(cmds)
                      /\ pc = "idle" => cmd_cnt = 0
    BY DEF ExactWithoutFaults
  <2> QED
    BY DEF IInv, CountInv, OkMeansConfigured
<1> QED
  BY <1>1, Invariance, PTL

-----------------------------------------------------------------------------
\* The ranges.  Each permit and each command on the line is of a command that
\* was sent; what the receiver has accepted of a call and what is left of it on
\* the line, behind the rest of the calls before, are commands of that call.
Sends == IF pc \in Before THEN call - 1 ELSE call

RangeInv ==
  /\ index \in [Slot -> Slot] /\ buf \in [Slot -> Cmd \cup {None}]
  /\ num <= MaxNum /\ cmd_cnt <= MaxNum
  /\ line \in Seq([cmd : Cmd, call : 1..MaxCalls])
  /\ call <= MaxCalls /\ result \in {"none", "OK", "NG"}
  /\ acked \in 0..accepted

SentInv ==
  /\ pc \in Before => call >= 1
  /\ permits + Len(line) <= MaxNum * Sends
  /\ \A i \in 1..Len(line) : line[i].call <= call

Rest(k) ==
  /\ \A i \in 1..k : line[i].call < call
  /\ accepted + (Len(line) - k) <= Len(cmds)
  /\ pc \in Before => k = Len(line) /\ accepted = 0

OwnInv == \E k \in 0..Len(line) : Rest(k)

TypeInv == IInv /\ RangeInv /\ SentInv /\ OwnInv

LEMMA InitTypes == Init => TypeInv
<1> SUFFICES ASSUME Init PROVE TypeInv
  OBVIOUS
<1>1. line = <<>> /\ Len(line) = 0
  BY DEF Init
<1>2. MaxNum \in Nat \ {0} /\ MaxCalls \in Nat
  BY ConfigAssumption
<1>3. line \in Seq([cmd : Cmd, call : 1..MaxCalls])
  BY <1>1, EmptySeq, Zenon
<1>4. IInv
  BY InitInv
<1>5. RangeInv
  BY <1>2, <1>3 DEF Init, RangeInv, Slot
<1>6. SentInv
  <2>1. Sends = 0 /\ pc \notin Before
    BY DEF Init, Sends, Before
  <2>2. permits = 0
    BY DEF Init
  <2> QED
    BY <1>1, <1>2, <2>1, <2>2 DEF SentInv
<1>7. OwnInv
  <2>1. Len(cmds) \in Nat
    BY ConfigFacts DEF Init
  <2>2. Rest(0)
    BY <1>1, <2>1 DEF Init, Rest, Before
  <2> QED
    BY <1>1, <2>2 DEF OwnInv
<1> QED
  BY <1>4, <1>5, <1>6, <1>7 DEF TypeInv

LEMMA CallTypes == TypeInv /\ Call => TypeInv'
<1> SUFFICES ASSUME TypeInv, Call PROVE TypeInv'
  OBVIOUS
<1>1. /\ pc = "idle" /\ pc' = "clear" /\ cmds' \in Config /\ call < MaxCalls
      /\ call' = call + 1 /\ result' = "none" /\ accepted' = 0 /\ acked' = 0
      /\ UNCHANGED <<num, index, buf, cmd_cnt, permits, line>>
  BY DEF Call, save
<1>2. IInv /\ RangeInv /\ SentInv /\ OwnInv /\ SaveInv
  BY DEF TypeInv, IInv
<1>3. call \in Nat /\ MaxCalls \in Nat
  BY <1>2, ConfigAssumption DEF SaveInv
<1>4. IInv'
  BY <1>2, CallInv
<1>5. RangeInv'
  BY <1>1, <1>2, <1>3 DEF RangeInv
<1>8. ASSUME NEW i \in 1..Len(line)
      PROVE  line[i].call < call + 1 /\ line[i].call <= call + 1
  <2>1. line[i] \in [cmd : Cmd, call : Nat]
    BY <1>2, ElementOfSeq DEF SaveInv
  <2>2. line[i].call \in Nat /\ line[i].call <= call
    BY <1>2, <2>1 DEF SentInv
  <2> QED
    BY <1>3, <2>2
<1>6. SentInv'
  <2>1. Sends = call /\ Sends' = call /\ call' >= 1
    BY <1>1, <1>3 DEF Sends, Before
  <2>2. \A i \in 1..Len(line) : line[i].call <= call + 1
    BY <1>8
  <2> QED
    BY <1>1, <1>2, <2>1, <2>2 DEF SentInv
<1>7. OwnInv'
  <2>1. Len(line) \in Nat
    BY <1>2, LenProperties DEF SaveInv
  <2>3. \A i \in 1..Len(line) : line[i].call < call + 1
    BY <1>8
  <2>4. Len(cmds') \in Nat
    BY <1>1, ConfigFacts
  <2>5. Rest(Len(line))'
    BY <1>1, <2>1, <2>3, <2>4 DEF Rest
  <2> QED
    BY <1>1, <2>1, <2>5 DEF OwnInv
<1> QED
  BY <1>4, <1>5, <1>6, <1>7 DEF TypeInv

\* A step of the debug task between the sending of two calls.
LEMMA TaskTypes ==
  ASSUME TypeInv, IInv', RangeInv', UNCHANGED <<cmds, line, call, accepted>>,
         permits' <= permits, pc' \in Before <=> pc \in Before
  PROVE  TypeInv'
<1>1. /\ call \in Nat /\ permits \in Nat /\ permits' \in Nat /\ MaxNum \in Nat
      /\ line \in Seq([cmd : Cmd, call : Nat])
  BY ConfigAssumption DEF TypeInv, IInv, SaveInv
<1>2. Sends' = Sends /\ Len(line') = Len(line) /\ Len(line) \in Nat
  BY <1>1, LenProperties DEF Sends
<1>3. pc \in Before => call >= 1
  BY DEF TypeInv, SentInv
<1>4. Sends \in Nat
  BY <1>1, <1>3 DEF Sends
<1>5. MaxNum * Sends \in Nat
  BY <1>1, <1>4
<1>6. SentInv'
  BY <1>1, <1>2, <1>5 DEF TypeInv, SentInv
<1>7. \A k : Rest(k)' <=> Rest(k)
  BY DEF Rest
<1>8. OwnInv'
  BY <1>2, <1>7 DEF TypeInv, OwnInv
<1> QED
  BY <1>6, <1>8 DEF TypeInv

LEMMA SaveTypes ==
  TypeInv /\ (SaveClear \/ SaveCopy \/ SaveIndex \/ SaveCount \/ SaveEnd) => TypeInv'
<1> SUFFICES ASSUME TypeInv,
                    SaveClear \/ SaveCopy \/ SaveIndex \/ SaveCount \/ SaveEnd
             PROVE  TypeInv'
  OBVIOUS
<1>1. IInv /\ IInv' /\ RangeInv /\ SaveInv
  BY SaveInvs DEF TypeInv, IInv
<1>2. /\ UNCHANGED <<cmds, cmd_cnt, permits, line, call, result, accepted,
                     acked>>
      /\ pc \in Before /\ pc' \in Before
  BY DEF SaveClear, SaveCopy, SaveIndex, SaveCount, SaveEnd, save, truth, faults, Before
<1>3. /\ cmds \in Config /\ num \in Nat /\ permits \in Nat /\ MaxNum \in Nat
      /\ MaxNum # 0
  BY <1>1, ConfigAssumption DEF SaveInv
<1>4. Len(cmds) \in Nat /\ Len(cmds) <= MaxNum
      /\ \A i \in 1..Len(cmds) : cmds[i] \in Cmd
  BY <1>3, ConfigFacts
<1>5. /\ index' \in [Slot -> Slot] /\ buf' \in [Slot -> Cmd \cup {None}]
      /\ num' <= MaxNum
  <2>1. CASE SaveClear
    BY <1>1, <1>3, <2>1 DEF SaveClear, RangeInv
  <2>2. CASE SaveCopy
    <3>1. \A i \in Slot : i < Len(cmds) => i + 1 \in 1..Len(cmds)
      BY <1>4 DEF Slot
    <3>2. \A i \in Slot : (IF i < Len(cmds) THEN cmds[i + 1] ELSE buf[i])
                            \in Cmd \cup {None}
      BY <1>1, <1>4, <3>1 DEF RangeInv
    <3> QED
      BY <1>1, <2>2, <3>2 DEF SaveCopy, RangeInv
  <2>3. CASE SaveIndex
    <3>1. num < Len(cmds) /\ num' = num /\ buf' = buf
          /\ index' = [index EXCEPT ![num] = num]
      BY <2>3 DEF SaveIndex
    <3>2. num \in Slot
      BY <1>3, <1>4, <3>1 DEF Slot
    <3> QED
      BY <1>1, <1>3, <1>4, <3>1, <3>2 DEF RangeInv
  <2>4. CASE SaveEnd
    BY <1>1, <2>4 DEF SaveEnd, RangeInv, save
  <2>5. CASE SaveCount
    <3>1. num < Len(cmds) /\ num' = num + 1 /\ buf' = buf /\ index' = index
      BY <1>1, <2>5 DEF SaveCount, SaveInv
    <3> QED
      BY <1>1, <1>3, <1>4, <3>1 DEF RangeInv
  <2> QED
    BY <2>1, <2>2, <2>3, <2>4, <2>5
<1>6. RangeInv'
  BY <1>1, <1>2, <1>5 DEF RangeInv
<1>7. permits' <= permits
  BY <1>2, <1>3
<1> QED
  BY <1>1, <1>2, <1>6, <1>7, TaskTypes

LEMMA WaitTypes == TypeInv /\ (Pend \/ ReturnOk \/ ReturnNg) => TypeInv'
<1> SUFFICES ASSUME TypeInv, Pend \/ ReturnOk \/ ReturnNg PROVE TypeInv'
  OBVIOUS
<1>1. IInv /\ IInv' /\ RangeInv /\ permits \in Nat
  BY PendInv, ReturnOkInv, ReturnNgInv DEF TypeInv, IInv, SaveInv
<1>2. /\ UNCHANGED <<cmds, num, index, buf, cmd_cnt, line, call, accepted,
                     acked>>
      /\ permits' = permits \/ permits' = permits - 1
      /\ result' \in {result, "OK", "NG"}
      /\ pc \notin Before /\ pc' \notin Before
  BY DEF Pend, ReturnOk, ReturnNg, save, truth, faults, Before
<1>3. permits' <= permits
  BY <1>1, <1>2
<1>4. RangeInv'
  BY <1>1, <1>2 DEF RangeInv
<1> QED
  BY <1>1, <1>2, <1>3, <1>4, TaskTypes

LEMMA SendTypes == TypeInv /\ Send => TypeInv'
<1> SUFFICES ASSUME TypeInv, Send PROVE TypeInv'
  OBVIOUS
<1> DEFINE text == [i \in 1..Len(cmds) |-> [cmd |-> cmds[i], call |-> call]]
           S == [cmd : Cmd, call : 1..MaxCalls]
<1>1. /\ pc = "send" /\ pc' = "pend" /\ line' = line \o text
      /\ UNCHANGED <<cmds, num, index, buf, cmd_cnt, permits, call, result,
                     accepted, acked>>
  BY DEF Send, save, faults, truth
<1>2. IInv /\ IInv' /\ RangeInv /\ SentInv /\ OwnInv /\ SaveInv
  BY SendInv DEF TypeInv, IInv
<1>3. /\ cmds \in Config /\ call \in Nat /\ permits \in Nat
      /\ MaxNum \in Nat /\ MaxCalls \in Nat /\ line \in Seq(S)
      /\ call >= 1 /\ call <= MaxCalls
  BY <1>1, <1>2, ConfigAssumption DEF SaveInv, RangeInv, SentInv, Before
<1>4. Len(cmds) \in Nat /\ Len(cmds) <= MaxNum
      /\ \A i \in 1..Len(cmds) : cmds[i] \in Cmd
  BY <1>3, ConfigFacts
<1>5. text \in Seq(S) /\ Len(text) = Len(cmds)
  <2>1. call \in 1..MaxCalls
    BY <1>3
  <2>2. text \in [1..Len(cmds) -> S]
    BY <1>4, <2>1
  <2> QED
    BY <1>4, <2>2
<1>6. \A i \in 1..Len(cmds) : text[i].call = call
  OBVIOUS
<1> HIDE DEF text
<1>7. /\ line' \in Seq(S) /\ Len(line') = Len(line) + Len(cmds)
      /\ Len(line) \in Nat
      /\ \A i \in 1..Len(line') :
           line'[i] = IF i <= Len(line) THEN line[i] ELSE text[i - Len(line)]
  <2>1. Len(line) \in Nat
    BY <1>3, LenProperties
  <2>2. line \in Seq(S) /\ text \in Seq(S)
    BY <1>3, <1>5
  <2> HIDE DEF S
  <2>3. /\ line \o text \in Seq(S)
        /\ Len(line \o text) = Len(line) + Len(text)
        /\ \A i \in 1..Len(line) + Len(text) :
             (line \o text)[i] = IF i <= Len(line) THEN line[i]
                                ELSE text[i - Len(line)]
    BY <2>2, ConcatProperties
  <2> QED
    BY <1>1, <1>5, <2>1, <2>3
<1>8. RangeInv'
  BY <1>1, <1>2, <1>7 DEF RangeInv
<1>9. PICK k \in 0..Len(line) : Rest(k)
  BY <1>2 DEF OwnInv
<1>10. k = Len(line) /\ accepted = 0
       /\ \A i \in 1..Len(line) : line[i].call < call
  BY <1>1, <1>9 DEF Rest, Before
<1>11. OwnInv'
  <2>1. k \in 0..Len(line')
    BY <1>4, <1>7
  <2>2. \A i \in 1..k : line'[i].call < call'
    BY <1>1, <1>4, <1>7, <1>10
  <2>3. accepted' + (Len(line') - k) <= Len(cmds')
    BY <1>1, <1>4, <1>7, <1>10
  <2>4. pc' \notin Before
    BY <1>1 DEF Before
  <2>5. Rest(k)'
    BY <2>2, <2>3, <2>4 DEF Rest
  <2> QED
    BY <2>1, <2>5 DEF OwnInv
<1>12. SentInv'
  <2>1. Sends = call - 1 /\ Sends' = call /\ pc' \notin Before
    BY <1>1 DEF Sends, Before
  <2>2. permits + Len(line) <= MaxNum * (call - 1)
    BY <1>2, <2>1 DEF SentInv
  <2>3. MaxNum * (call - 1) = MaxNum * call - MaxNum
    BY <1>3
  <2>4. MaxNum * call \in Nat
    BY <1>3
  <2>5. permits + Len(line') <= MaxNum * call
    BY <1>3, <1>4, <1>7, <2>2, <2>3, <2>4
  <2>6. \A i \in 1..Len(line') : line'[i].call <= call
    <3> SUFFICES ASSUME NEW i \in 1..Len(line') PROVE line'[i].call <= call
      OBVIOUS
    <3>1. CASE i <= Len(line)
      <4>1. line'[i] = line[i] /\ i \in 1..Len(line)
        BY <1>4, <1>7, <3>1
      <4> QED
        BY <1>2, <4>1 DEF SentInv
    <3>2. CASE ~(i <= Len(line))
      <4>1. i - Len(line) \in 1..Len(cmds)
        BY <1>4, <1>7, <3>2
      <4>2. line'[i].call = call
        BY <1>6, <1>7, <3>2, <4>1
      <4> QED
        BY <1>3, <4>2
    <3> QED
      BY <3>1, <3>2
  <2> QED
    BY <1>1, <2>1, <2>5, <2>6 DEF SentInv
<1> QED
  BY <1>2, <1>8, <1>11, <1>12 DEF TypeInv

\* An answer takes a command off the line and gives a permit at most.
LEMMA AnswerTypes ==
  ASSUME TypeInv, IInv', NEW e \in BOOLEAN, NEW s \in BOOLEAN, Answer(e, s),
         cmd_cnt' <= MaxNum, permits' <= permits + 1,
         pc' \in Before <=> pc \in Before
  PROVE  TypeInv'
<1> DEFINE S == [cmd : Cmd, call : 1..MaxCalls]
<1>1. /\ line # <<>> /\ line' = Tail(line)
      /\ UNCHANGED <<cmds, num, index, buf, call, result>>
  BY DEF Answer, save
<1>2. /\ accepted' = accepted \/ accepted' = accepted + 1
      /\ acked' = acked \/ (acked' = acked + 1 /\ accepted' = accepted + 1)
      /\ Head(line).call # call => accepted' = accepted
  BY DEF Answer
<1>3. IInv /\ RangeInv /\ SentInv /\ OwnInv /\ SaveInv /\ SaveInv'
  BY DEF TypeInv, IInv
<1>4. /\ cmds \in Config /\ call \in Nat /\ permits \in Nat /\ permits' \in Nat
      /\ accepted \in Nat /\ MaxNum \in Nat /\ line \in Seq(S)
  BY <1>3, ConfigAssumption DEF SaveInv, RangeInv
<1>5. /\ line' \in Seq(S) /\ Len(line') = Len(line) - 1
      /\ Len(line) \in Nat /\ Len(line) >= 1 /\ Head(line) = line[1]
      /\ \A i \in 1..Len(line') : line'[i] = line[i + 1] /\ i + 1 \in 1..Len(line)
  BY <1>1, <1>4, LineTail
<1>6. Len(cmds) \in Nat
  BY <1>4, ConfigFacts
<1>7. RangeInv'
  <2>1. acked' \in 0..accepted'
    BY <1>2, <1>3, <1>4 DEF RangeInv
  <2> QED
    BY <1>1, <1>3, <1>5, <2>1 DEF RangeInv
<1>8. SentInv'
  <2>1. Sends' = Sends /\ (pc \in Before => call >= 1)
    BY <1>1, <1>3 DEF Sends, SentInv
  <2>2. MaxNum * Sends \in Nat
    BY <1>4, <2>1 DEF Sends
  <2>3. permits' + Len(line') <= MaxNum * Sends
    BY <1>3, <1>4, <1>5, <2>2 DEF SentInv
  <2>4. \A i \in 1..Len(line') : line'[i].call <= call
    BY <1>3, <1>5 DEF SentInv
  <2> QED
    BY <1>1, <2>1, <2>3, <2>4 DEF SentInv
<1>9. PICK k \in 0..Len(line) : Rest(k)
  BY <1>3 DEF OwnInv
<1>10. /\ \A i \in 1..k : line[i].call < call
       /\ accepted + (Len(line) - k) <= Len(cmds)
       /\ pc \in Before => k = Len(line) /\ accepted = 0
  BY <1>9 DEF Rest
<1>11. CASE k = 0
  <2>1. pc' \notin Before
    BY <1>5, <1>10, <1>11
  <2>2. accepted' + (Len(line') - 0) <= Len(cmds')
    BY <1>1, <1>2, <1>4, <1>5, <1>6, <1>10, <1>11
  <2>3. \A i \in 1..0 : line'[i].call < call'
    OBVIOUS
  <2>4. Rest(0)'
    BY <2>1, <2>2, <2>3 DEF Rest
  <2>5. 0 \in 0..Len(line')
    BY <1>5
  <2>6. OwnInv'
    BY <2>4, <2>5 DEF OwnInv
  <2> QED
    BY <1>7, <1>8, <2>6 DEF TypeInv
<1>12. CASE k > 0
  <2>1. 1 \in 1..k /\ k - 1 \in 0..Len(line')
    BY <1>5, <1>12
  <2>2. line[1].call < call
    BY <1>10, <2>1
  <2>3. Head(line).call # call
    BY <1>4, <1>5, <2>2
  <2>4. accepted' = accepted
    BY <1>2, <2>3
  <2>5. \A i \in 1..(k - 1) : line'[i].call < call'
    <3> SUFFICES ASSUME NEW i \in 1..(k - 1) PROVE line'[i].call < call'
      OBVIOUS
    <3>1. i \in 1..Len(line') /\ i + 1 \in 1..k
      BY <1>5, <1>12
    <3> QED
      BY <1>1, <1>5, <1>10, <3>1
  <2>6. accepted' + (Len(line') - (k - 1)) <= Len(cmds')
    <3>1. Len(line') - (k - 1) = Len(line) - k
      BY <1>5
    <3> QED
      BY <1>1, <1>10, <2>4, <3>1
  <2>7. pc' \in Before => k - 1 = Len(line') /\ accepted' = 0
    BY <1>5, <1>10, <2>4
  <2>8. Rest(k - 1)'
    BY <2>5, <2>6, <2>7 DEF Rest
  <2>9. OwnInv'
    BY <2>1, <2>8 DEF OwnInv
  <2> QED
    BY <1>7, <1>8, <2>9 DEF TypeInv
<1> QED
  BY <1>5, <1>9, <1>11, <1>12

LEMMA RepliesTypes == TypeInv /\ (Accept \/ Refuse \/ Lose) => TypeInv'
<1> SUFFICES ASSUME TypeInv, Accept \/ Refuse \/ Lose PROVE TypeInv'
  OBVIOUS
<1>1. IInv /\ IInv' /\ RangeInv
  BY AcceptInv, RefuseInv, LoseInv DEF TypeInv
<1>2. /\ permits \in Nat /\ cmd_cnt \in Nat /\ MaxNum \in Nat
      /\ cmd_cnt <= MaxNum
  BY <1>1, ConfigAssumption DEF IInv, SaveInv, RangeInv
<1>3. CASE Accept
  <2>1. Answer(TRUE, TRUE) /\ CountOk(Head(line).cmd)
    BY <1>3 DEF Accept
  <2>2. cmd_cnt' <= MaxNum /\ permits' <= permits + 1
        /\ (pc' \in Before <=> pc \in Before)
    BY <1>2, <2>1 DEF CountOk, Post, Matches, Before
  <2> QED
    BY <1>1, <2>1, <2>2, AnswerTypes
<1>4. CASE Refuse
  <2>1. Answer(FALSE, TRUE) /\ cmd_cnt' = 0 /\ UNCHANGED <<pc, permits>>
    BY <1>4 DEF Refuse, CountRefusal
  <2>2. /\ cmd_cnt' <= MaxNum /\ permits' <= permits + 1
        /\ pc' \in Before <=> pc \in Before
    BY <1>2, <2>1
  <2> QED
    BY <1>1, <2>1, <2>2, AnswerTypes
<1>5. CASE Lose
  <2>1. PICK e \in BOOLEAN : Answer(e, FALSE)
    BY <1>5 DEF Lose
  <2>2. UNCHANGED <<cmd_cnt, pc, permits>>
    BY <1>5 DEF Lose
  <2>3. /\ cmd_cnt' <= MaxNum /\ permits' <= permits + 1
        /\ pc' \in Before <=> pc \in Before
    BY <1>2, <2>2
  <2> QED
    BY <1>1, <2>1, <2>3, AnswerTypes
<1> QED
  BY <1>3, <1>4, <1>5

LEMMA StutterTypes == TypeInv /\ UNCHANGED vars => TypeInv'
<1> SUFFICES ASSUME TypeInv, UNCHANGED vars PROVE TypeInv'
  OBVIOUS
<1>1. IInv'
  BY StutterInv DEF TypeInv
<1>2. RangeInv' /\ SentInv' /\ OwnInv'
  BY DEF TypeInv, RangeInv, SentInv, Sends, OwnInv, Rest, vars
<1> QED
  BY <1>1, <1>2 DEF TypeInv

LEMMA NextTypes == TypeInv /\ [Next]_vars => TypeInv'
BY CallTypes, SaveTypes, SendTypes, WaitTypes, RepliesTypes, StutterTypes
   DEF Next, DebugTask

\* The variables of the commands keep their types and ranges: the receiver
\* never executes more commands of a call than it has, the count of replies
\* stays within the index, and no permit is given without a command sent.
THEOREM TypeCorrect == Spec => []TypeOK
<1>1. TypeInv => TypeOK
  <2> SUFFICES ASSUME TypeInv PROVE TypeOK
    OBVIOUS
  <2>1. IInv /\ RangeInv /\ SentInv /\ OwnInv /\ SaveInv
    BY DEF TypeInv, IInv
  <2>2. /\ MaxNum \in Nat /\ MaxCalls \in Nat /\ call \in Nat
        /\ call <= MaxCalls /\ accepted \in Nat /\ permits \in Nat
        /\ cmds \in Config /\ num \in Nat /\ cmd_cnt \in Nat
        /\ Len(line) \in Nat
    BY <2>1, ConfigAssumption, LenProperties DEF SaveInv, RangeInv
  <2>3. Len(cmds) \in Nat /\ Len(cmds) <= MaxNum
    BY <2>2, ConfigFacts
  <2>4. accepted \in 0..MaxNum
    BY <2>1, <2>2, <2>3 DEF OwnInv, Rest
  <2>5. permits \in 0..MaxNum * MaxCalls
    <3>1. Sends \in Nat /\ Sends <= MaxCalls
      BY <2>1, <2>2 DEF SentInv, Sends
    <3>2. MaxNum * Sends <= MaxNum * MaxCalls /\ MaxNum * Sends \in Nat
          /\ MaxNum * MaxCalls \in Nat
      BY <2>2, <3>1
    <3> QED
      BY <2>1, <2>2, <3>2 DEF SentInv
  <2>6. pc \in {"idle", "clear", "copy", "index", "count", "spin", "send", "pend",
                "wait", "granted"}
    BY <2>1 DEF SaveInv, Before, After
  <2> QED
    BY <2>1, <2>2, <2>4, <2>5, <2>6 DEF TypeOK, RangeInv, SaveInv
<1>2. Spec => []TypeInv
  BY InitTypes, NextTypes, PTL DEF Spec
<1> QED
  BY <1>1, <1>2, PTL
=============================================================================
