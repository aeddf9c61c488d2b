------------------------------ MODULE GnssCmd ------------------------------
(***************************************************************************)
(* Configuration commands to the UT4B0 satellite receiver                  *)
(* (APP/Gnss/ut4b0_receiver.c).  The debug task saves the commands, sends  *)
(* them and waits 2 s for a semaphore; the gnss task, which has the higher *)
(* priority and so runs between any two steps of the debug task, parses    *)
(* the receiver's replies one by one, counts those that match the saved    *)
(* commands and posts the semaphore when it has counted them all.          *)
(*                                                                         *)
(* The receiver answers commands in order, OK or not, when it likes; an    *)
(* answer can be lost (checksum, the DMA buffer overwritten).  Positions   *)
(* in the buffer are counted in commands, and no command of a table is a   *)
(* prefix of another.                                                      *)
(***************************************************************************)
EXTENDS Naturals, Sequences

CONSTANTS Config,     \* the texts ut4b0_receiver_configuration is given
          None,       \* blank buffer
          MaxNum,     \* UT4B0_COMBCMD_MAX_NUM
          MaxCalls    \* bound: configurations in a behaviour

ASSUME ConfigAssumption ==
  /\ MaxNum \in Nat \ {0} /\ MaxCalls \in Nat
  /\ \A c \in Config : /\ c \in Seq({c[i] : i \in DOMAIN c})
                       /\ Len(c) \in 1..MaxNum
                       /\ None \notin {c[i] : i \in DOMAIN c}
                       /\ \A i, j \in DOMAIN c : c[i] = c[j] => i = j

Cmd  == UNION {{c[i] : i \in DOMAIN c} : c \in Config}
Slot == 0..(MaxNum - 1)

VARIABLES pc,                \* where the debug task is
          cmds,              \* p_cmd
          num, index, buf,   \* g_save_cmd
          cmd_cnt,           \* static cmd_cnt of the reply parser
          permits,           \* the count of g_ut4b0_reply_sem
          line,              \* commands sent and not yet answered
          call,              \* history: which call this is,
          result,            \*   what it has returned,
          accepted,          \*   its commands the receiver executed,
          acked,             \*   and those whose OK the parser saw;
          lost, late         \*   an answer was lost, came after its call

save  == <<num, index, buf>>
truth == <<accepted, acked>>
faults == <<lost, late>>
vars  == <<pc, cmds, num, index, buf, cmd_cnt, permits, line,
           call, result, accepted, acked, lost, late>>

Init == /\ pc = "idle" /\ cmds \in Config
        /\ num = 0
        /\ index = [i \in Slot |-> 0] /\ buf = [i \in Slot |-> None]
        /\ cmd_cnt = 0 /\ permits = 0
        /\ line = <<>>
        /\ call = 0 /\ result = "none"
        /\ accepted = 0 /\ acked = 0
        /\ lost = FALSE /\ late = FALSE

-----------------------------------------------------------------------------
\* ut4b0_receiver_configuration.  (No text of the tables is too long for it.)
Call ==
  /\ pc = "idle" /\ call < MaxCalls
  /\ cmds' \in Config
  /\ call' = call + 1 /\ result' = "none"
  /\ accepted' = 0 /\ acked' = 0
  /\ pc' = "clear"
  /\ UNCHANGED <<save, cmd_cnt, permits, line, faults>>

\* ut4b0_receiver_cmd_save: num = 0, then strcpy, which leaves what lies
\* behind the new text, then each command's index and the count of them.
SaveClear ==
  /\ pc = "clear"
  /\ num' = 0
  /\ pc' = "copy"
  /\ UNCHANGED <<cmds, index, buf, cmd_cnt, permits, line, call, result,
                 truth, faults>>

SaveCopy ==
  /\ pc = "copy"
  /\ buf' = [i \in Slot |-> IF i < Len(cmds) THEN cmds[i + 1] ELSE buf[i]]
  /\ pc' = "index"
  /\ UNCHANGED <<cmds, num, index, cmd_cnt, permits, line, call, result,
                 truth, faults>>

\* Mutant: one index too many.
SaveIndexPast ==
  /\ pc = "index" /\ num <= Len(cmds)
  /\ index' = [index EXCEPT ![num] = num]
  /\ pc' = "count"
  /\ UNCHANGED <<cmds, num, buf, cmd_cnt, permits, line, call, result,
                 truth, faults>>

SaveIndex ==
  /\ pc = "index" /\ num < Len(cmds)
  /\ index' = [index EXCEPT ![num] = num]
  /\ pc' = "count"
  /\ UNCHANGED <<cmds, num, buf, cmd_cnt, permits, line, call, result,
                 truth, faults>>

SaveCount ==
  /\ pc = "count"
  /\ num' = num + 1
  /\ pc' = "index"
  /\ UNCHANGED <<cmds, index, buf, cmd_cnt, permits, line, call, result,
                 truth, faults>>

\* The text is used up.  A single command does not end in \r\n: p is NULL and
\* the loop reads address 0.  Depending on the stack address kept there, it
\* ends or goes round for ever.
SaveEnd ==
  /\ pc = "index" /\ num = Len(cmds)
  /\ \/ pc' = "send"
     \/ Len(cmds) = 1 /\ pc' = "spin"
  /\ UNCHANGED <<cmds, save, cmd_cnt, permits, line, call, result,
                 truth, faults>>

\* GNSS_USART_Send.
Send ==
  /\ pc = "send"
  /\ line' = line \o [i \in 1..Len(cmds) |-> [cmd |-> cmds[i], call |-> call]]
  /\ pc' = "pend"
  /\ UNCHANGED <<cmds, save, cmd_cnt, permits, call, result, truth, faults>>

\* OSSemPend.
Pend ==
  /\ pc = "pend"
  /\ IF permits > 0 THEN pc' = "granted" /\ permits' = permits - 1
                    ELSE pc' = "wait" /\ UNCHANGED permits
  /\ UNCHANGED <<cmds, save, cmd_cnt, line, call, result, truth, faults>>

\* OS_ERR_NONE.
ReturnOk ==
  /\ pc = "granted"
  /\ result' = "OK"
  /\ pc' = "idle"
  /\ UNCHANGED <<cmds, save, cmd_cnt, permits, line, call, truth, faults>>

\* Mutant: a timeout of 0, which means none.
ReturnNgNever == FALSE

\* OS_ERR_TIMEOUT after 2000 ticks.
ReturnNg ==
  /\ pc = "wait"
  /\ result' = "NG"
  /\ late' = (late \/ line # <<>>)
  /\ pc' = "idle"
  /\ UNCHANGED <<cmds, save, cmd_cnt, permits, line, call, truth,
                 lost>>

-----------------------------------------------------------------------------
\* OSSemPost: a waiting task takes the permit at once.
Post == IF pc = "wait" THEN pc' = "granted" /\ UNCHANGED permits
                       ELSE permits' = permits + 1 /\ UNCHANGED pc

\* The reply names the saved command it should name next.  (Past the array
\* index[cmd_cnt] is the first byte of buf, an offset behind the text.)
Matches(cmd) == cmd_cnt < MaxNum /\ buf[index[cmd_cnt]] = cmd

\* Mutant: every reply posts.
CountOkEach(cmd) ==
  IF ~Matches(cmd) THEN cmd_cnt' = 0 /\ UNCHANGED <<pc, permits>>
  ELSE cmd_cnt' = (IF cmd_cnt + 1 = num THEN 0 ELSE cmd_cnt + 1) /\ Post

\* ut4b0_cmd_reply_msg_parser, for "OK" ...
CountOk(cmd) ==
  IF ~Matches(cmd) THEN cmd_cnt' = 0 /\ UNCHANGED <<pc, permits>>
  ELSE IF cmd_cnt + 1 = num THEN cmd_cnt' = 0 /\ Post
  ELSE cmd_cnt' = cmd_cnt + 1 /\ UNCHANGED <<pc, permits>>

\* ... and for anything else.
CountRefusal == cmd_cnt' = 0 /\ UNCHANGED <<pc, permits>>

\* The receiver takes up the next command of the line.
Answer(executed, seen) ==
  /\ line # <<>>
  /\ line' = Tail(line)
  /\ LET own == Head(line).call = call IN
     /\ accepted' = IF own /\ executed THEN accepted + 1 ELSE accepted
     /\ acked' = IF own /\ executed /\ seen THEN acked + 1 ELSE acked
  /\ lost' = (lost \/ ~seen)
  /\ UNCHANGED <<cmds, save, call, result, late>>

Accept == Answer(TRUE, TRUE)  /\ CountOk(Head(line).cmd)
Refuse == Answer(FALSE, TRUE) /\ CountRefusal

\* The answer does not reach the parser.
Lose == /\ \E executed \in BOOLEAN : Answer(executed, FALSE)
        /\ UNCHANGED <<cmd_cnt, pc, permits>>

DebugTask == \/ SaveClear \/ SaveCopy \/ SaveIndex \/ SaveCount
             \/ SaveEnd \/ Send \/ Pend \/ ReturnOk \/ ReturnNg

Next == Call \/ DebugTask \/ Accept \/ Refuse \/ Lose

Spec == Init /\ [][Next]_vars

\* The debug task runs whenever the tasks above it sleep, and the tick ends a
\* pend.  Nothing is asked of the receiver.
FairSpec == Spec /\ WF_vars(DebugTask)

-----------------------------------------------------------------------------
\* Type invariant.
TypeOK ==
  /\ pc \in {"idle", "clear", "copy", "index", "count", "spin", "send", "pend",
             "wait", "granted"}
  /\ cmds \in Config
  /\ num \in 0..MaxNum /\ index \in [Slot -> Slot]
  /\ buf \in [Slot -> Cmd \cup {None}]
  /\ cmd_cnt \in 0..MaxNum
  /\ permits \in 0..MaxNum * MaxCalls
  /\ line \in Seq([cmd : Cmd, call : 1..MaxCalls])
  /\ call \in 0..MaxCalls /\ result \in {"none", "OK", "NG"}
  /\ accepted \in 0..MaxNum /\ acked \in 0..accepted
  /\ lost \in BOOLEAN /\ late \in BOOLEAN

\* OK: "the configuration was correctly executed" (ut4b0_receiver.c:1429).
OkMeansConfigured == result = "OK" => accepted = Len(cmds)

\* NG: "it was not" (ut4b0_receiver.c:1430), not the answer to a call all of
\* whose commands were executed and confirmed in time.
ConfirmedMeansOk == result = "NG" /\ ~late => acked < Len(cmds)

\* As long as no answer is lost or late, the result is exact and the count of
\* replies is back at zero between calls.
ExactWithoutFaults ==
  ~lost /\ ~late => /\ OkMeansConfigured
                    /\ result = "NG" => accepted < Len(cmds)
                    /\ pc = "idle" => cmd_cnt = 0

\* Lost answers alone leave no permit behind for the next call: only an answer
\* that comes after its call has given up does.
NoStalePermit == ~late /\ pc = "idle" => permits = 0

\* A call ends, answered or not, unless cmd_save does not.
CallEnds == pc = "clear" ~> pc \in {"idle", "spin"}
=============================================================================
