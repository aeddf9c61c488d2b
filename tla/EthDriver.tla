----------------------------- MODULE EthDriver -----------------------------
(***************************************************************************)
(* The Ethernet driver (BSP/src/bsp_eth.c) under the lwIP port             *)
(* (LWIP/port/STM32).  The DMA fills a ring of descriptors, the interrupt  *)
(* posts lwip_sem, the thread "Ethernet input" empties the ring into the   *)
(* mailbox of the tcpip thread, which has the higher priority and never    *)
(* blocks but on that mailbox.  low_level_output fills a second ring.      *)
(* AppTaskStart, above both threads, starts the DMA before it installs the *)
(* interrupt's callback and creates the semaphore and the thread.  The     *)
(* PHY's interrupt stops and restarts the MAC, and so does the web thread, *)
(* every five seconds until the PHY has been initialised.                  *)
(*                                                                         *)
(* A frame on the wire is [descs, pbufs]: the descriptors it needs (two    *)
(* when it is longer than ETH_RX_BUF_SIZE) and the pbufs of the pool.      *)
(***************************************************************************)
EXTENDS Naturals, Sequences

CONSTANTS Frames,     \* the frames that can arrive
          RxBufs,     \* ETH_RXBUFNB
          TxBufs,     \* ETH_TXBUFNB
          Pbufs,      \* PBUF_POOL_SIZE
          InPkts,     \* MEMP_NUM_TCPIP_MSG_INPKT
          MboxSize,   \* TCPIP_MBOX_SIZE
          MaxIn,      \* bound: frames received
          MaxOut      \* bound: frames output

ASSUME EthAssumption ==
  /\ RxBufs \in Nat \ {0} /\ TxBufs \in Nat \ {0}
  /\ Pbufs \in Nat /\ InPkts \in Nat \ {0} /\ MboxSize \in Nat \ {0}
  /\ MaxIn \in Nat /\ MaxOut \in Nat
  /\ Frames \subseteq [descs : 1..2, pbufs : Nat \ {0}]

VARIABLES boot,      \* how far AppTaskStart is
          link,      \* the DMA and the MAC are enabled
          phy,       \* EthInitStatus
          enabled,   \* ETH_DMAITConfig was reached
          up,        \* NETIF_FLAG_LINK_UP
          web,       \* where Web_Thread is: it tests EthInitStatus, delays,
                     \*   has called ETH_PHY_Config
          ring,      \* received descriptors, from DMARxDescToGet on
          taken,     \* low_level_input holds one more
          flag,      \* ETH_DMA_FLAG_R
          isr,       \* where ETH_IRQHandler is
          masked,    \* interrupts are disabled
          sem,       \* the count of lwip_sem
          pc,        \* where the thread "Ethernet input" is
          p,         \* the pbufs of its frame
          pool,      \* pbufs and
          inpkts,    \*   messages left in lwIP's pools
          kept,      \* pbufs lwIP keeps (out of order, unread)
          mbox,      \* the mailbox: the pbufs of each frame
          tcpip,     \* where the tcpip thread is
          tx,        \* frames whose transmit descriptors the DMA owns
          given,     \* history: how many frames low_level_output was given,
          sent,      \*   those on the wire,
          lost,      \*   those flushed;
          overrun,   \*   low_level_output met a full ring;
          arrived    \*   how many frames arrived

mac   == <<link, phy, enabled, up, web>>
rx    == <<ring, arrived, flag>>
irq   == <<isr, sem>>
input == <<taken, masked, pc, p>>
lwip  == <<pool, inpkts, kept, mbox, tcpip>>
out   == <<tx, given, sent, lost, overrun>>
vars  == <<boot, mac, rx, irq, input, lwip, out>>

\* Frames are tagged early when they come before the semaphore exists.
Entry == [ok : BOOLEAN, pbufs : Nat, early : BOOLEAN]

\* BSP_InitEth has returned: without a cable ETH_Init failed, and ETH_Start
\* was called all the same.
Init == /\ boot = "eth"
        /\ link = TRUE /\ phy \in BOOLEAN /\ enabled = phy /\ up = TRUE
        /\ web = "test"
        /\ ring = <<>> /\ taken = FALSE /\ flag = FALSE
        /\ isr = "out" /\ masked = FALSE /\ sem = 0
        /\ pc = "none" /\ p = 0
        /\ pool = Pbufs /\ inpkts = InPkts /\ kept = 0
        /\ mbox = <<>> /\ tcpip = "fetch"
        /\ tx = <<>> /\ given = 0 /\ sent = <<>> /\ lost = {}
        /\ overrun = FALSE
        /\ arrived = 0

-----------------------------------------------------------------------------
\* The DMA: a frame takes one descriptor after the other; one that meets a
\* descriptor it does not own is cut there, or missed, and marked in error.
Room == RxBufs - Len(ring) - (IF taken THEN 1 ELSE 0)

Segments(f) ==
  LET early == boot \notin {"sem", "thread"}
  IN  [i \in 1..(IF f.descs < Room THEN f.descs ELSE Room) |->
        [ok |-> i = f.descs, pbufs |-> f.pbufs, early |-> early]]

Receive(f) ==
  /\ link /\ arrived < MaxIn
  /\ arrived' = arrived + 1
  /\ ring' = ring \o Segments(f)
  /\ flag' = (flag \/ Room > 0)
  /\ UNCHANGED <<boot, mac, irq, input, lwip, out>>

Transmit ==
  /\ link /\ tx # <<>>
  /\ sent' = Append(sent, Head(tx)) /\ tx' = Tail(tx)
  /\ UNCHANGED <<boot, mac, rx, irq, input, lwip, given, lost, overrun>>

-----------------------------------------------------------------------------
\* ETH_FlushTransmitFIFO: of the frames queued the FIFO holds the first two at
\* most (ETH_SecondFrameOperate).  Their descriptors are closed, the others stay.
Fifo == 2

Flush == \E k \in 0..Fifo :
           /\ k <= Len(tx)
           /\ lost' = lost \cup {tx[i] : i \in 1..k}
           /\ tx' = SubSeq(tx, k + 1, Len(tx))

\* ETH_PHY_Config: no interrupt is enabled if ETH_Init fails.
PhyConfig == phy' \in BOOLEAN /\ enabled' = (enabled \/ phy')

\* ETH_Start.
Start == link' = TRUE /\ Flush

\* Eth_Link_ITHandler reaches ethernetif_update_config when the flag changes and
\* the callback is set; the frame of netif_set_link_up is an Output before it.
PhyInterrupt == boot # "eth" /\ isr = "out" /\ ~masked

Callback == boot \in {"sem", "thread"}

LinkDown ==
  /\ PhyInterrupt /\ up
  /\ up' = FALSE
  /\ IF Callback THEN link' = FALSE /\ Flush ELSE UNCHANGED <<link, tx, lost>>
  /\ UNCHANGED <<boot, phy, enabled, web, rx, irq, input, lwip, given, sent,
                 overrun>>

\* reConnect_config.
LinkUp ==
  /\ PhyInterrupt /\ ~up
  /\ up' = TRUE
  /\ IF Callback THEN PhyConfig /\ Start
                 ELSE UNCHANGED <<phy, enabled, link, tx, lost>>
  /\ UNCHANGED <<boot, web, rx, irq, input, lwip, given, sent, overrun>>

\* Web_Thread tests EthInitStatus and calls reConnect_config five seconds later,
\* whatever an interrupt of the PHY has done meanwhile, or does between its two
\* parts.
WebRuns == boot = "thread" /\ isr = "out" /\ ~masked

WebTest ==
  /\ WebRuns /\ web = "test" /\ ~phy
  /\ web' = "delay"
  /\ UNCHANGED <<boot, link, phy, enabled, up, rx, irq, input, lwip, out>>

WebPhyConfig ==
  /\ WebRuns /\ web = "delay"
  /\ PhyConfig
  /\ web' = "start"
  /\ UNCHANGED <<boot, link, up, rx, irq, input, lwip, out>>

WebStart ==
  /\ WebRuns /\ web = "start"
  /\ Start
  /\ web' = "test"
  /\ UNCHANGED <<boot, phy, enabled, up, rx, irq, input, lwip, given, sent,
                 overrun>>

Link == LinkDown \/ LinkUp \/ WebTest \/ WebPhyConfig \/ WebStart

-----------------------------------------------------------------------------
\* ETH_IRQHandler posts through BSP_ETH_IRQHandler, once that is set, ...
IsrPost ==
  /\ flag /\ enabled /\ isr = "out" /\ ~masked
  /\ isr' = "clear"
  /\ sem' = IF boot = "eth" THEN sem ELSE sem + 1
  /\ UNCHANGED <<boot, mac, rx, input, lwip, out>>

\* ... and then clears the flag, that of a frame received meanwhile too.
IsrClear ==
  /\ isr = "clear"
  /\ isr' = "out" /\ flag' = FALSE
  /\ UNCHANGED <<boot, mac, ring, arrived, sem, input, lwip, out>>

Isr == IsrPost \/ IsrClear

-----------------------------------------------------------------------------
\* lwIPInit, from netif_add on.
BootHandler ==
  /\ boot = "eth" /\ isr = "out"
  /\ boot' = "handler"
  /\ UNCHANGED <<mac, rx, irq, input, lwip, out>>

\* OSSemCreate: whatever was posted before is gone.
BootSem ==
  /\ boot = "handler" /\ isr = "out"
  /\ boot' = "sem" /\ sem' = 0
  /\ UNCHANGED <<mac, rx, isr, input, lwip, out>>

BootThread ==
  /\ boot = "sem" /\ isr = "out"
  /\ boot' = "thread" /\ pc' = "pend"
  /\ UNCHANGED <<mac, rx, irq, taken, masked, p, lwip, out>>

Boot == BootHandler \/ BootSem \/ BootThread

-----------------------------------------------------------------------------
\* Mutant: "Ethernet input" above the tcpip thread.
TcpipAside == tcpip # "none"

\* The threads run between interrupts, the lower one while the tcpip thread
\* waits.
TcpipWaits == tcpip = "fetch" /\ mbox = <<>>

ThreadRuns == isr = "out" /\ TcpipWaits

Pend ==
  /\ ThreadRuns /\ pc = "pend" /\ sem > 0
  /\ sem' = sem - 1 /\ pc' = "test"
  /\ UNCHANGED <<boot, mac, rx, isr, taken, masked, p, lwip, out>>

\* ETH_GetRxPktSize: the first descriptor is received, without error, and
\* holds the last segment of a frame.
IsRxPktValid == ring # <<>> /\ ring[1].ok

\* while(BSP_ETH_IsRxPktValid()), and SYS_ARCH_PROTECT of ethernetif_input.
Take ==
  /\ ThreadRuns /\ pc = "test"
  /\ IF IsRxPktValid
     THEN /\ taken' = TRUE /\ p' = ring[1].pbufs /\ ring' = Tail(ring)
          /\ masked' = TRUE /\ pc' = "alloc"
     ELSE pc' = "pend" /\ UNCHANGED <<taken, p, ring, masked>>
  /\ UNCHANGED <<boot, mac, arrived, flag, irq, lwip, out>>

\* Mutant: the pool is not looked at.
AllocAlways ==
  /\ ThreadRuns /\ pc = "alloc"
  /\ pool' = pool - p
  /\ masked' = FALSE
  /\ pc' = "release"
  /\ UNCHANGED <<boot, mac, rx, irq, taken, p, inpkts, kept, mbox, tcpip,
                 out>>

\* Mutant: interrupts stay disabled.
AllocMasked ==
  /\ ThreadRuns /\ pc = "alloc"
  /\ IF p <= pool THEN pool' = pool - p /\ UNCHANGED p
                  ELSE p' = 0 /\ UNCHANGED pool
  /\ pc' = "release"
  /\ UNCHANGED <<boot, mac, rx, irq, taken, masked, inpkts, kept, mbox,
                 tcpip, out>>

\* pbuf_alloc.  The pool's own SYS_ARCH_UNPROTECT restores no old level: it
\* enables interrupts, in the middle of ethernetif_input's protection.
Alloc ==
  /\ ThreadRuns /\ pc = "alloc"
  /\ IF p <= pool THEN pool' = pool - p /\ UNCHANGED p
                  ELSE p' = 0 /\ UNCHANGED pool
  /\ masked' = FALSE
  /\ pc' = "release"
  /\ UNCHANGED <<boot, mac, rx, irq, taken, inpkts, kept, mbox, tcpip, out>>

\* Mutant: if (BSP_ETH_IsRxPktValid()).
Once == "pend"

\* After a frame the loop tests again.
Again == "test"

\* The frame is copied and BSP_ETH_ReleaseDescriptor gives it back.
Release ==
  /\ ThreadRuns /\ pc = "release"
  /\ taken' = FALSE
  /\ pc' = IF p = 0 THEN Again ELSE "input"
  /\ UNCHANGED <<boot, mac, rx, irq, masked, p, lwip, out>>

\* tcpip_input: memp_malloc.
Input ==
  /\ ThreadRuns /\ pc = "input"
  /\ IF inpkts > 0 THEN inpkts' = inpkts - 1 /\ pc' = "post"
                   ELSE pc' = "free" /\ UNCHANGED inpkts
  /\ UNCHANGED <<boot, mac, rx, irq, taken, masked, p, pool, kept, mbox,
                 tcpip, out>>

\* sys_mbox_trypost.  The kernel's messages, which the other queues share, may
\* have run out.
Post ==
  /\ ThreadRuns /\ pc = "post" /\ Len(mbox) < MboxSize
  /\ mbox' = Append(mbox, p) /\ p' = 0
  /\ pc' = Again
  /\ UNCHANGED <<boot, mac, rx, irq, taken, masked, pool, inpkts, kept,
                 tcpip, out>>

\* Mutant: the message is not given back.
PostRefusedKept ==
  /\ ThreadRuns /\ pc = "post"
  /\ pc' = "free"
  /\ UNCHANGED <<boot, mac, rx, irq, taken, masked, p, lwip, out>>

PostRefused ==
  /\ ThreadRuns /\ pc = "post"
  /\ inpkts' = inpkts + 1
  /\ pc' = "free"
  /\ UNCHANGED <<boot, mac, rx, irq, taken, masked, p, pool, kept, mbox,
                 tcpip, out>>

\* ethernetif_input: pbuf_free.
Free ==
  /\ ThreadRuns /\ pc = "free"
  /\ pool' = pool + p /\ p' = 0
  /\ pc' = Again
  /\ UNCHANGED <<boot, mac, rx, irq, taken, masked, inpkts, kept, mbox,
                 tcpip, out>>

Thread == Pend \/ Take \/ Alloc \/ Release \/ Input
          \/ Post \/ PostRefused \/ Free

-----------------------------------------------------------------------------
\* tcpip_thread takes a message; ethernet_input frees its pbufs or keeps them
\* (a segment out of order) for some time.
TcpipFetch ==
  /\ isr = "out" /\ tcpip = "fetch" /\ mbox # <<>>
  /\ tcpip' = "input"
  /\ UNCHANGED <<boot, mac, rx, irq, input, pool, inpkts, kept, mbox, out>>

TcpipInput ==
  /\ isr = "out" /\ tcpip = "input"
  /\ \/ pool' = pool + mbox[1] /\ UNCHANGED kept
     \/ kept' = kept + mbox[1] /\ UNCHANGED pool
  /\ tcpip' = "free"
  /\ UNCHANGED <<boot, mac, rx, irq, input, inpkts, mbox, out>>

TcpipFree ==
  /\ isr = "out" /\ tcpip = "free"
  /\ inpkts' = inpkts + 1 /\ mbox' = Tail(mbox)
  /\ tcpip' = "fetch"
  /\ UNCHANGED <<boot, mac, rx, irq, input, pool, kept, out>>

TcpipKept ==
  /\ isr = "out" /\ ~masked /\ tcpip = "fetch" /\ kept > 0
  /\ pool' = pool + kept /\ kept' = 0
  /\ UNCHANGED <<boot, mac, rx, irq, input, inpkts, mbox, tcpip, out>>

TcpipThread == TcpipFetch \/ TcpipInput \/ TcpipFree \/ TcpipKept

\* Mutant: DMATxDescToSet does not move on.
OutputSame ==
  /\ boot # "eth" /\ isr = "out" /\ ~masked
  /\ given < MaxOut
  /\ given' = given + 1
  /\ tx' = IF tx = <<>> THEN <<given'>> ELSE [tx EXCEPT ![1] = given']
  /\ UNCHANGED <<boot, mac, rx, irq, input, lwip, sent, lost, overrun>>

\* low_level_output, with interrupts disabled: the frame is copied into the
\* buffer of DMATxDescToSet before ETH_Prepare_Transmit_Descriptors looks
\* whether the DMA owns it, and ERR_OK is returned in either case.
Output ==
  /\ boot # "eth" /\ isr = "out" /\ ~masked
  /\ given < MaxOut
  /\ given' = given + 1
  /\ tx' = IF Len(tx) < TxBufs THEN Append(tx, given')
                                ELSE [tx EXCEPT ![1] = given']
  /\ overrun' = (overrun \/ Len(tx) = TxBufs)
  /\ UNCHANGED <<boot, mac, rx, irq, input, lwip, sent, lost>>

Next == \/ \E f \in Frames : Receive(f)
        \/ Transmit \/ Link
        \/ Isr \/ Boot \/ Thread \/ TcpipThread \/ Output

Spec == Init /\ [][Next]_vars

\* The interrupt is taken, AppTaskStart goes on, and the threads run whenever
\* those above them wait.  Nothing is asked of the wire.
FairSpec == Spec /\ WF_vars(Isr) /\ WF_vars(Boot)
                 /\ WF_vars(Thread) /\ WF_vars(TcpipThread)

-----------------------------------------------------------------------------
\* Type invariant.
TypeOK ==
  /\ boot \in {"eth", "handler", "sem", "thread"}
  /\ link \in BOOLEAN /\ phy \in BOOLEAN /\ enabled \in BOOLEAN
  /\ up \in BOOLEAN /\ web \in {"test", "delay", "start"}
  /\ ring \in Seq(Entry) /\ Room \in 0..RxBufs
  /\ taken \in BOOLEAN /\ flag \in BOOLEAN
  /\ isr \in {"out", "clear"} /\ masked \in BOOLEAN /\ sem \in 0..MaxIn
  /\ pc \in {"none", "pend", "test", "alloc", "release", "input", "post",
             "free"}
  /\ p \in Nat /\ pool \in 0..Pbufs /\ inpkts \in 0..InPkts
  /\ kept \in 0..Pbufs
  /\ mbox \in Seq(Nat) /\ Len(mbox) <= MboxSize
  /\ tcpip \in {"fetch", "input", "free"}
  /\ tx \in Seq(1..MaxOut) /\ Len(tx) <= TxBufs
  /\ given \in 0..MaxOut /\ sent \in Seq(1..MaxOut) /\ lost \subseteq 1..given
  /\ overrun \in BOOLEAN /\ arrived \in 0..MaxIn

\* The interrupt clears flags of frames it has not posted for, and posts for
\* frames that are gone; still the thread never sleeps over a good frame with
\* no signal on its way (that of the flag waits until the interrupt is enabled),
\* unless all there are came before the semaphore was created.
Woken == pc \notin {"none", "pend"} \/ sem > 0 \/ (flag /\ isr = "out")
Owed  == IsRxPktValid /\ \E i \in DOMAIN ring : ~ring[i].early

NoMissedWakeup == Owed => Woken

\* No buffer is lost on any way out of ethernetif_input and tcpip_input.
Holds  == IF pc \in {"release", "input", "post", "free"} THEN p ELSE 0
Queued == IF mbox = <<>> \/ tcpip = "free" THEN 0 ELSE mbox[1]

NoLeak ==
  /\ pool + Holds + Queued + kept = Pbufs
  /\ inpkts + Len(mbox) + (IF pc = "post" THEN 1 ELSE 0) = InPkts

\* A frame is never dropped for want of a message or of room in the mailbox:
\* by the priorities the tcpip thread has dealt with the frame before.
NoBacklog == pc = "post" => mbox = <<>> /\ inpkts = InPkts - 1

\* Of the frames low_level_output was given, all are sent that no flush finds in
\* the FIFO, once and in their order, however often the link is lost, as long as
\* none finds the ring full.
Line == sent \o tx

SentAsGiven ==
  ~overrun => /\ \A i, j \in DOMAIN Line : i < j => Line[i] < Line[j]
              /\ {Line[i] : i \in DOMAIN Line} = (1..given) \ lost

\* Once the interrupt is enabled, a good frame is taken, and the ring emptied up
\* to a descriptor that BSP_ETH_IsRxPktValid refuses.
CatchesUp == boot = "thread" /\ enabled /\ Owed ~> ~IsRxPktValid
=============================================================================
