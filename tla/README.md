# Verification of the XGM30 timing module's firmware

TLA+ models, TLC runs and TLAPS proofs for the firmware in
`src/XGM30/SOFTWARE`: an STM32F407 under uC/OS-III with lwIP that configures a
GNSS receiver (UT4B0) and an FPGA (PTP, NTP, PPS/TOD outputs), keeps its
configuration in on-chip flash, and is driven from a web page and a serial shell.
Paths below are relative to `src/XGM30/SOFTWARE`.

## 1. Inventory

Tasks, by priority (a smaller number preempts a larger one): `AppTaskStart` 2, the
lwIP `tcpip` thread, which runs the web server, 3, watchdog 5, gnss 6, debug shell
7, periodic printing 10; the kernel's tick task, which ends timed waits, is below
all of them.  Interrupts: the two USARTs (DMA and idle line), Ethernet, and the
FPGA's external line.

| Component | State it keeps | Operations | Talks to |
|---|---|---|---|
| Flash emulation `APP/Eeprom` | two sectors: a status half-word and (data, address) slots; write and read offsets | `EE_Initialize`, `EE_ReadVariable(Byte)`, `EE_WriteVariable(Byte)`, page transfer, format | flash controller; called by Config |
| Configuration `APP/Config` | `g_sParameters`, the working block, the start-up buffer, two pointers | `ConfigInit`, `ConfigLoad`, `ConfigSave`, the cgi handlers | Eeprom; web server; shell writes `g_sParameters` |
| GNSS commands `APP/Gnss/ut4b0_receiver.c` | `g_save_cmd`, static `cmd_cnt`, `g_ut4b0_reply_sem` | `ut4b0_receiver_configuration`, `..._cmd_save`, the reply parser | debug task asks, gnss task parses |
| GNSS sentences, leap second | `g_gnss_info`, `g_leap` | one parser per sentence | gnss task; FPGA |
| Serial reception `BSP/src/bsp_usart.c` | one DMA buffer per port, `g_gnss_msgq`, debug semaphore | idle-line interrupts | gnss and debug tasks |
| Debug shell `APP/Debug` | strtok's hidden place | `user_cmd_parser` and its tables | every component; the web forms use it too |
| FPGA over SPI `BSP/src/bsp_spi.c` | chip select, shift register | byte and buffer frames | web server, watchdog, debug shell and printing, without a lock |
| PTP, NTP, PPS/TOD outputs `APP/Output` | parameters, the table of unicast slaves | one handler per command | SPI, `g_sParameters` |
| lwIP port `LWIP/port`, `BSP/src/bsp_eth.c` | mailboxes, semaphores, DMA descriptors | post, fetch, input | Ethernet interrupt, tcpip thread |
| Web server `APP/Web` | connection states | lwIP's example httpd; `Web_Thread` tries the PHY again until it starts | Config's cgi handlers; Ethernet driver |
| Watchdog, system, printing, ring buffer, checksums | little | | |

`PROJECT.json` lists them all, with those that are compiled and never started
(SNMP, SNTP, the shell server, sensor and control tasks).

What is hard here:

* **Power.**  Every write to flash takes several operations, a transfer
  thousands; the power, or the FPGA's watchdog, can end them anywhere, and
  `EE_Init` must repair what it finds, also after it was itself interrupted.
* **Two layers of atomicity.**  The emulation promises one half-word at a time;
  a configuration block has hundreds.
* **Preemption.**  The gnss task runs between any two steps of the debug task
  and shares `g_save_cmd` with it without a lock; the USART interrupt fills the
  one buffer the gnss task reads; SPI frames of two tasks can mix.
* **Answers.**  The receiver answers late, not at all, or with a refusal, and the
  parser keeps a count across calls.
* **Limits.**  A full page, a full slave table, a full mailbox, a pool of 100
  kernel messages shared by everything.

What makes each component correct: the emulation is an atomic, durable map; the
configuration in flash is a whole block and the one last saved; a configuration
command's answer says what the receiver did; a forecast of a leap second is the
receiver's latest and comes once; a register of the FPGA changes only to what a frame for it says;
a sentence is parsed once and as it was verified; a received frame wakes the
thread that takes it, and no buffer is lost on the way.  The hazards, each at its
line, with the properties that cover it, or why none does, are in
`PROJECT.json`.

## 2. Plan

| # | Module | What | State |
|---|---|---|---|
| 1 | `VarStore` | abstract: an atomic, durable map | done |
| 2 | `Eeprom`, `EepromFaults` | the emulation at the level of flash operations; implements `VarStore` | done |
| 3 | `EepromProofs`, `EepromRoom` | inductive invariant, refinement; room and `KnownGoodState` | done |
| 4 | `ConfigStore`, `ConfigProofs` | the configuration over `VarStore` | done |
| 5 | `GnssCmd`, `MCGnssCmd`, `GnssProofs` | commands to the receiver | done |
| 6 | `GnssRx`, `RxProofs` | interrupt, one DMA buffer, queue of equal pointers, the 10 s of `gnss_init`, strtok | done |
| 7 | `FpgaSpi`, `MCFpgaSpi`, `SpiProofs` | frames under preemption; the delay and the slaves, kept in RAM and in registers | done |
| 8 | `LeapSecond`, `MCLeapSecond`, `LeapProofs` | three systems, a forecast, a calendar | done |
| 9 | `EthDriver`, `MCEthDriver`, `EthProofs` | both rings of descriptors, interrupt, thread, mailbox, pools; the link lost and found | done |
| 10 | `LwipTimers`, `MCLwipTimers` | the waits of the tcpip thread | done |
| 11 | proofs of `DelayAgrees`, `SlavesAgree`, `DateRight` and the last types | an invariant over RAM, registers and the frames of all calls; a loop over months and years | done |
| 12 | flash errors in `EepromFaults` | a failing operation, and `FlashPBSave` that ignores it | left: no promise of the code to check it against |
| 13 | the working mode, the availability filter | stored before it is confirmed; read between two sentences | left, likewise |

`ConfigStore` composes with `VarStore` (its `store`, `req` and `state` are those of
an instance), which `Eeprom` refines; the other modules share no state, except
that several of them have a task of another in a role: the web server in
`ConfigStore`, `FpgaSpi`, `GnssRx` and `EthDriver`, the debug shell in `ConfigStore`,
`GnssCmd` and `FpgaSpi`, the gnss task in `GnssCmd` and `GnssRx`, the tcpip thread in
`EthDriver` and `LwipTimers`.

## 3. The modules and the code

### `VarStore`
`store` is what `EE_ReadVariable` answers, `Begin`/`Commit`/`End` a call of
`EE_WriteVariable`.  `Commit` is the instant at which the write takes effect; an
`End` without it is a call that failed or lost its power.

### `Eeprom`
A page is abstracted to what the code can tell of it: `hdr` (status), `val` (what
a scan from the end finds), `used` (slots that are not blank) and `first` (the
address half-word at offset +6, which recovery takes for "the variable the
transfer began with").  `pc` is the place in the code; operations of two flash
operations (data then address; erase begun then ended) have `half`.

| Code | Actions |
|---|---|
| `EE_WriteVariable`, `EE_VerifyPageFullWriteVariable` (and their `Byte` twins) | `WriteCall`, `WriteData`, `WriteAddress`, `WriteReturn` |
| `EE_PageTransfer` | `TransferBegin` ... `TransferValid`, `TransferFull` |
| `EE_Init`: erased/VALID, erased/RECEIVE | `BootErase`, `InitErase`, `InitValid` |
| `EE_Init`: VALID/RECEIVE | `BootRecover`, `RecoverCopy` ... `RecoverErase`, `RecoverFull` |
| `EE_Init`: anything else, `EE_Format` | `BootFormat`, `FormatErase0` ... `FormatErase1` |
| `EE_ReadVariable` | `Read` |
| loss of power, reset | `Crash`; in `EepromFaults` `PowerLoss` at any point |

Assumptions about flash: programming a half-word happens or does not; an erase
that is cut leaves the status as it was or blank, with any old slots below it;
no operation reports an error.  Data 0xFFFF programs nothing and is the state in which
the step was not taken.  The copy loops of the code visit 32767 addresses, of which
the model keeps those that were ever written: for the others the loop does nothing.

`Crash` excludes exactly one point, between the last two operations of recovery,
where the code does lose everything (finding `eeprom_window`); all that the other
runs and the theorems say is about every other point.

### `ConfigStore`
The flash is `VarStore`'s `store`, `req`, `state`.  `LoadFactory`, `LoadSaved`,
`SaveFactory`, `NetworkUp` are `ConfigInit` and the wait in `AppTaskStart`;
`SaveWord`, `SaveCommit`, `SaveNext`, `SaveEnd` are `ConfigSave` and
`FlashPBSave`; `FormAccepted`, `FormRejected`, `Login` the cgi handlers;
`ShellSet` the debug task, which is below the web server and so never runs
inside a save.  `old` and `new` are history: the block last completed, and the
one being written.

### `GnssCmd`
`Call` ... `ReturnNg` are the debug task in `ut4b0_receiver_configuration` and
`ut4b0_receiver_cmd_save`, one assignment to shared memory per action (`SaveIndex` and
`SaveCount` are the two of a round of the loop); `Accept`,
`Refuse`, `Lose` are one reply each, parsed by the gnss task in one go, since
the debug task cannot run inside it.  `strcpy` is one step, and positions in the
buffer are counted in commands.  A single command has no `\r\n`, `strstr`
answers NULL and the loop goes on from address 0: `SaveEnd` allows both outcomes,
that it ends and that it does not (`spin`).  `call`, `result`, `accepted`,
`acked`, `lost` and `late` are history.  `g_gnss_cmd_send_flag`
is written and never read, and no text of the tables is long enough for the
length check: both are left out.

### `GnssRx`
A byte is a cell: `head` ($ or #, and what follows), `star` (*, checksum, \r) and
`nl`; a checksum names the sentence it is right for, so that a head of one
sentence and a star of another do not verify.  `Receive` is the DMA, `Idle` the idle line
interrupt of `bsp_usart.c` (NUL behind the last byte, post of the buffer's address,
DMA from the start again), `Web` a web page that calls strtok.  The gnss task is
`InitEnds` (the 10 s of `gnss_init`), `Pend`, and one action per library call of
`ut4b0_receiver_msg_parser` and `ut4b0_check_cmdhandler`: `Walk`, `Scan`
(`strtok(p, "\n")`), `Skip` (`strlen`), `Check` (`strchr`), `Match` (`strncmp` with the known
heads), `Cut` (`strtok(pdata, "*")`), `Verify` (`strtok(NULL, "\r")` and the checksum),
`Parse`; `Tear` is the `strtok(pdata, ",")` of a sentence nobody knows.  With `$SATEPRINT` on
a message is printed before it is parsed: `Echo` is one line of `gnss_stmt_echo` a step, and
each message may or may not be echoed (its line buffer of 200 bytes is not modelled).
`place` is strtok's hidden pointer, as far as it matters whose string that is in.

Three histories are exceptions of `StaysInBuffer`, in all of which the code does leave its
buffer: `overlong` - after a sentence that was cut short the parser's `p++`
passes its own NUL, so that a second one is needed; `nothing` - the interrupt's NUL
under the parser's feet makes strtok return NULL, whose `strlen` is anything; `raced` - the
echo looks for NUL at the start of a line only and in the line for `\n` only, so that it passes
the end of a burst that ends inside a sentence, and of a buffer whose `\n` the parser has already
made NUL (two messages for one buffer).  Only a burst of whole sentences that nothing touches is
echoed inside the buffer whatever else happens.  `pc` is `lost` in a loop that nothing bounds any
more: the echo behind the buffer, or a parser that looks for its commas or its semicolon
(`ut4b0_receiver.c:316`, 373, 658, 752) in a sentence that was overwritten after its checksum was
verified.  `Drains` excepts it.

The queue takes what the kernel's pool of messages leaves it (`Pool`); the other
users of that pool are in its smallness.

### `FpgaSpi`
Three tasks, `web` above `watchdog` above `debug`, each with its `call`, the frame of it it has
come to (`nth`) and the bytes `sent` of that.  `Select`, `SendByte` and `Deselect` are what all
four routines of `bsp_spi.c` consist of; a byte's exchange is one step.  Frames have their own
lengths: command, address and one byte of data, or command, address, size and the data of
`SPI_FPGA_BufferWrite` and `SPI_FPGA_BufferRead`.  In the code an address is 4 bytes and a slave's
entry 12, so that frames have 6 and 18 bytes; `SpiAssumption` keeps what matters of
that, `DataLen >= 2 * (AddrLen + 2)` (12 >= 12): the headers of two frames do not fill a third.

A frame that begins inside another is appended to it; the rest of the other goes to an FPGA that
is not selected.  What the FPGA makes of a selection is an assumption (`Execute`, `Answers`): it
executes one that is exactly as long as a frame of its first byte's command, and nothing else.  So two short
frames are both lost, while a long one that is cut late enough and one or more short ones add up to its
length, and a mixture is written: to its own entry when its address had been sent, else anywhere (the proof
shows that it always had been).  All the calls return OK.

`SetDelay` and `GetDelay` are `gnss_set_gps_pps_offset`, four frames, and its query, which stores
what it has read (rounded to 8 ns, or, overtaken by another, a mixture of two delays).
`RefusedDelay` is the form with a delay above what the command takes: the form accepts 50 ms,
stores and saves it, and ignores that the command refuses all above 1 ms.  `UfsAdd`, `UfsDel` and
`UfsRtrv` are the table of slaves, with the entry behind the table that the searches
end at; an entry is one address.  `Init` has any saved delay as the parameter (`Saved`, what
`ConfigInit` has loaded) and anything in the registers (`PowerOn`: start-up writes none of them,
and a reset of the processor is none of the FPGA).

`hurt`, `mixed`, `apart` and `dirty` are history: which frames were cut, which
delay calls met another, and what a whole call, or a whole frame for an entry, must set right before RAM and
registers agree - at start-up everything.

Left out: the printing task (10), which reads single bytes and, being the lowest, cuts nobody; `$FPGA-W`
and `$FPGA-R` of the shell, which write any register by hand; what an entry holds beside the slave's
address.  The gnss task does not use the bus.

### `LeapSecond`
`Decide`, `Announce`, `Leap`, `Settle` are the world: a change of one second, announced and
dropped by GPS, BDS and GAL each on a day of its own.  `Hear` is a good sentence
of one system, through its parser (BDS through a `u8_t` with 14 added) and
`ut4b0_leap_process`; `HearNothing` a receiver that knows nothing of it, `HearNoise` a
wrong checksum.  `After` is the switch of `ut4b0_get_leap_time`, `Walk` and `Months` are its loop, for
the months of a year and for the years; its array of months is set right for February in the
round of January only, before any February is looked at.  `g_leap` is set by
`gnss_global_variable_init` and here only (`system_set_leap` runs before anything is
heard).  `info` is the copy that is printed: every GPSUTC sentence resets it, so that a
forecast shows for one second; nothing promises more.  A device started after a
leap second it has missed keeps 18 and is told nothing wrong by any property, as the forecast
asks for `now == g_leap.now_leap`: `Starts` has such a start.

### `EthDriver`
`ring` is the DMA's descriptors from `DMARxDescToGet` on, `taken` the one
`low_level_input` holds, `mbox` the mailbox of the tcpip thread.

| Code | Actions |
|---|---|
| DMA and wire | `Receive`, `Transmit` |
| `ETH_IRQHandler`: post, then clear the flag | `IsrPost`, `IsrClear` |
| `lwIPInit`: handler, semaphore, thread | `BootHandler`, `BootSem`, `BootThread` |
| `ethernetif_input`, `low_level_input` | `Pend`, `Take`, `Alloc`, `Release`, `Free` |
| `tcpip_input` | `Input`, `Post`, `PostRefused` |
| `tcpip_thread` | `TcpipFetch`, `TcpipInput`, `TcpipFree`, `TcpipKept` |
| `low_level_output` | `Output` |
| PHY's interrupt, `ethernetif_update_config` | `LinkDown`, `LinkUp` (with `reConnect_config`) |
| `Web_Thread` until `EthInitStatus` is set | `WebTest`, `WebPhyConfig`, `WebStart` |
| `ETH_FlushTransmitFIFO`, `ETH_Start`, `ETH_PHY_Config` | `Flush`, `Start`, `PhyConfig`, parts of these |

The tcpip thread (3) is above "Ethernet input" (4), so the latter runs only while
the former waits; interrupts come between any two steps, except where they
are disabled - and `pbuf_alloc`'s own unprotect enables them, in the middle of the
protection of `ethernetif_input`, because `sys_arch_unprotect` enables them whatever
the level was.  `PostRefused` can always happen: the kernel's messages are shared.

The loss of the link stops DMA and MAC and flushes the transmit FIFO; its return, and the web
thread's retry, configure and start them again, which flushes it as well.  The web thread tests
`EthInitStatus`, waits 5 s and then runs `reConnect_config` in two steps, with the PHY's
interrupt anywhere between.  What the hardware does with the settings in
`ETH_PHY_Config` is an assumption: the FIFO holds at most the frame being sent and the next (`Fifo`), the
descriptors of flushed frames are closed, and those of frames still queued stay with the DMA, which goes on with
them when it is started.  A start without a cable leaves `ETH_Init` failed and the receive interrupt disabled though
`ETH_Start` is called (`Init` has both cases); only the web thread or the return of the link mends it
(`main_control_Task`, which would as well, is never created).  The frame that `netif_set_link_up`
sends before the callback is an `Output` before `LinkUp`.

Three things the code does are not promises broken, and stand in the model as they are: a frame
that needs two descriptors is refused by `BSP_ETH_IsRxPktValid` and stops reception for good;
frames before the semaphore exists wake nobody, and if they fill the ring no
interrupt ever comes; with all transmit descriptors owned by the DMA a new frame
overwrites the oldest, with `ERR_OK`.

### `LwipTimers`
`Fetch`, `Timeout`, `Message`, `Expire` are `sys_timeouts_mbox_fetch` and the
handlers, `Tick` is time.  The list is lwIP's, each entry's time counted from
the one before.  `TimeStamp` is what `sys_arch_mbox_fetch` says it has waited: the
cycle counter, which may or may not count.

## 4. What each run checks

| Run | Instance | Distinct states | Shows |
|---|---|---|---|
| `eeprom` | 3 variables, 7 slots, 2 values, 2 losses of power per transfer | 0.34 million | type, `KnownGoodState`, `ReadsStored`; refinement of `VarStore` (`AtomicDurable`); `BootCompletes`, `WriteEnds` |
| `eeprom_tight` | 2 variables, 4 slots, 2 losses | 38 thousand | interrupted copies fill the new page: transfers and start-up give up (`TransferFull`, `RecoverFull`), and still `AtomicDurable` |
| `eeprom_window` | 2, 4, 1 | | *violated*: `AtomicDurable` with losses of power everywhere |
| `config` | 3 parameters, 2 values, 2 losses | 7 thousand | type, `PrefixOfSave`, `SavedIsStored`; `BootEnds`, `SaveEnds` |
| `config_torn` | 1 loss | | *violated*: `NoPartialBlock` |
| `gnss_cmd` | combinations of 3, 2 and 1 commands, 3 calls | 10 thousand | type, `ExactWithoutFaults`, `NoStalePermit`; `CallEnds` |
| `gnss_stale` | the same | | *violated*: `ConfirmedMeansOk` |
| `gnss_rx` | buffer of 8 cells, 2 messages, 3 sentences | 2.6 million | type, `ParsedOnce`, `QuietBurstParsed`, `StaysInBuffer`; `Drains` |
| `spi` | delays 20 and -2100 ns, and 2 ms, which the command refuses; addresses of 1 byte, entries of 6; 2 slaves and a table for 1; calls: web 1, watchdog 1, debug 2 | 2.4 million | type, `NoStrayWrite`, `DelayAgrees`, `SlavesAgree` |
| `leap` | starts with 18 and 19, two days, 2 leap seconds, 1 restart | 38 thousand | type, `ForecastOnce`, `ForecastTrue`, `DateRight`, `TakesOverInTime`; `ForecastEnds` |
| `eth` | rings of 3 and 2, 3 pbufs, 2 messages, a mailbox of 2; 3 frames in, 3 out | 0.9 million | type, `NoMissedWakeup`, `NoLeak`, `NoBacklog`, `SentAsGiven`; `CatchesUp` |
| `timers` | two periodic timers, one on demand, 3 messages | | *violated*: `ExpiresInTime` |

The bounds.  Two variables are the least for which the one a transfer began
with differs from one that is copied; three let the copy be cut before, at and
after it.  With `NSlots` = 7 the worst behaviours (a copy cut
at its very end, each time, or a torn first slot and then such copies) just fit:
with 6, `KnownGoodState` is violated, so the run is at the edge and not
inside it; the theorem `KnownGood` asks for the simpler `(MaxCrash + 1) * NVars`, 9 here.  With 4 slots and 2 variables a page does fill.  `MaxCrash` counts
power losses from one transfer to its end and starts again with the next, so that a
behaviour has any number of them.  Three parameters are the least for a cut
in the middle of a block, after the address and before the last; two losses let a
save be cut, the mixture be loaded, and its save be cut.  Three calls are the
one that fails, the one that sees what is left, and one after it; shared
commands between combinations are what makes a stale count or text matter.
Eight cells hold two sentences, their NUL and one cell more, so that a third
sentence makes a burst too long, and one that follows alone leaves the end of
an earlier burst behind it; with two messages the queue holds equal pointers and the third
post fails.  In `spi` entries of 6 bytes are the least `SpiAssumption` allows for addresses of one, and as in the
code a long frame (9 bytes) has room for the bytes of a cut one and a short frame (3); one call of each task
above cuts a call of the shell at every byte, and the shell's second call finds what is left;
the delays differ in their sign and in two bytes, and 20 is no multiple of 8.  The days of `leap`, 31
December 2016 (13509 days, in a leap year) and 29 February 2028, make the walk
end in the month after a year's last and in a leap year's February; the second
leap second finds what the first has left, or a device that has restarted.
In `eth` a frame of two descriptors and more frames than descriptors fill the ring, more pbufs in use than
the pool has make `Alloc` fail, and three frames out meet a ring of two
and a flush that finds none, one or two of them.

Runs with `CHECK_DEADLOCK FALSE`: a `ConfigStore` that waits for an address that
never comes stands still (`BootEnds` says when); in `GnssCmd` the bounded number
of calls is used up, or `cmd_save` spins; in `GnssRx`, `FpgaSpi` and `EthDriver` the bounded
number of sentences, calls and frames is used up and every task waits (`Drains` and
`CatchesUp` say that none waits with work left).

Fairness.  Weak fairness on the steps of the code only: `Step` in `Eeprom` and
`ConfigStore` (a powered processor goes on; the copy loops run in a task nothing
blocks for ever), `DebugTask` in `GnssCmd` (all tasks above it and those between
it and the tick task sleep in between, and the tick ends a wait of 2 s), `Task` in `GnssRx`,
`Isr`, `Boot`, `Thread` and `TcpipThread` in `EthDriver` (the interrupt is taken when it is enabled, and a
thread runs when those above it wait).  Nothing is asked of
power losses, users, forms, the shell, the wire, or the receiver; but for `LeapSecond`, whose liveness
is about the world: there a change that is decided comes, every system settles, and its good
sentences keep coming, without which no device could know.

## 5. What is proved

### The flash emulation

`EepromProofs` and `EepromRoom`, for every number of variables, slots and power losses, from
`SizeAssumption` (there is a variable and a slot) and `TokenAssumption` (the
tokens differ from the data):

* `TypeCorrect`: `[]TypeOK`.
* `Invariance`: `[]IInv`.
* `ReadsCorrect`: `[]ReadsStored`.
* `Refinement`: `Spec` implies `VarStore`'s `Spec` under the mapping
  `store <- Logical`, `state <- CallState`.
* `KnownGood`: `[]KnownGoodState`, under the assumption `Room` that a page has
  `(MaxCrash + 1) * NVars` slots or more.  (The device has 32767 slots, and a
  configuration block is some hundreds of half-words: room for dozens of
  interrupted copies of one transfer.)

The argument.  `TypeOK` and `ReadsStored` say nothing about a page in the middle of a
transfer, so neither is inductive.  `IInv` is `TypeOK /\ PcInv /\ PageInv`.  `PcInv`
says, for each place in the code, what the two statuses are and which variables the new page already
agrees on (`Copied`: those before the loop index, except the one the transfer
began with).  `PageInv` says what holds at rest too: a receiving page's
`first` and its contents, by which recovery can tell where an interrupted copy
stood.  `Logical` maps each variable to the page whose value start-up will keep:
the old one during a copy, except the variable written first, whose value
is on the new page as soon as its address is programmed.  That address is the
instant `Commit` of a write that causes a transfer; all other steps of a
transfer, of start-up and of power losses stutter, because by `Copied` the
new page already agrees when `hdr` changes hands.  For `KnownGood`, `RoomInv` counts:
a copy has used at most one slot for each variable it has passed, an interrupted one
leaves at most one slot per variable behind, and so no copy meets `PAGE_FULL`.  The proof has one lemma for each
action, and the theorems combine them.

### The configuration
`ConfigProofs`, for every number of parameters, set of values and power losses, from
`FieldAssumption` and `WordAssumption` (the magic half-word, zero, blank flash and the parameters'
values differ): `TypeCorrect`, `CutIsPrefix` (`[]PrefixOfSave`), `SavedStays`
(`[]SavedIsStored`).  `PrefixOfSave` does not say where the prefix ends, so
`SaveInv` does: inside `FlashPBSave` exactly the half-words before the loop index, and the one at
it once its write is done, are the new ones, `work` still is the block
being saved, and the magic bytes went first; and flash without magic bytes is
what `old` says, because nothing behind them has ever been written.

### The commands
`GnssProofs`, for every set of configurations without a repeated command and any number of calls, from
`ConfigAssumption`: `AnswersExact` (`[]ExactWithoutFaults`) and `PermitsUsed` (`[]NoStalePermit`).
The invariant has three layers, each under fewer faults: `SaveInv` (always: what
`g_save_cmd` holds at each point of `cmd_save`), `LineInv` (no answer late: what is on the line is
the rest of the call that waits, and a permit exists only when that rest is
empty) and `CountInv` (nor one lost: the count of replies is that of the answers so
far, or zero from the first refusal on).  That commands of a call differ is what keeps a
reply after a refusal from starting the count again.  `TypeCorrect` (`[]TypeOK`) holds under all faults and needs
two counts: permits and answers on the line together are at most the commands sent (`SentInv`), and what
the receiver has accepted of a call and what is left of it on the line, behind the rests of earlier
calls, are commands of that call (`OwnInv`).

### The leap second
`LeapProofs`, for every default, number of leap seconds and restarts, and any days, from
`LeapAssumption` (the numbers fit into a `u8_t` and are above the 14 of the BDS; the days are not before
BDS's first and in years that a `u16_t` holds): `ForecastsOnce`, `ForecastsTrue`, `TakesOver`,
`DatesRight` (`[]DateRight`), `TypeCorrect`.  None of the properties is inductive, for they do not say why a system
that is behind cannot start the forecast again: `ForecastInv` says that a forecast stands
only while some system has not yet been heard with the new number, and that the number taken over
is the change's, from which the old announcement does not start.

The date.  `DateInv` keeps the date of a forecast with the day of its change; what is left is
`DateTrue`, that the calculation is right for every day.  `Months` and `Walk` are recursive functions, so that
first there must be such functions at all (`Loops`): the value at a date is what the
loop reaches from there and stops at, which is one place at most.  Then each round keeps the day a date
stands for (`SameDay`: the days before a month and the leap years before a year add up), ends
with fewer days than it began (`MonthAfterIs`, `RollIs`), and so the loop ends, for the dates it does not end
well from would have one with the fewest days (`FewerDays`, from natural numbers being well-founded).  What is
reached is a date of the calendar (`WalkDay`), and its year is small enough for its field (`YearFits`).

### The Ethernet driver
`EthProofs`, for every size of rings, pools and mailbox, every set of frames and any number of
them, from `EthAssumption`: `TypeCorrect`, `WakeupNotMissed` (`[]NoMissedWakeup`),
`BuffersConserved` (`[]NoLeak`), `BacklogFree` (`[]NoBacklog`), `OutputFaithful` (`[]SentAsGiven`).
`MacInv` only types the PHY's and the web thread's state: the other parts hold wherever these are.
`RingInv` holds what makes the late clearing of the flag harmless: between post
and clearing, the semaphore is above zero, so that the thread will still look; and
every signal is of a frame, which bounds the semaphore.  `PoolInv` says that the mailbox holds one
message at most, and only while the thread is where it comes to after a post: the tcpip thread, which is above
it, has emptied the mailbox before the thread runs on.  `OutInv` is about the other ring
alone: `sent` and `tx` together name, in rising order, all frames given but those flushed, and a flush only takes
from the front of `tx`.

### The SPI bus
`SpiProofs`, for every length of address and entry, set of delays, saved delays and slaves, content of the
registers at start-up, size of the table and number of calls, from `SpiAssumption`: `NothingAstray` (`NoStrayWrite`),
`TypeCorrect`, `SlavesMatch` (`[]SlavesAgree`), `DelayMatches` (`[]DelayAgrees`).  The properties say
nothing of frames on their way, so the invariant has three parts.  `TaskInv`: which frame of which
call each task is in.  `BusInv`: priorities are a total order and a task that begins a
frame cuts all those below it, so an unhurt frame is alone on the bus, byte for byte as far as it
has been sent; of a selection the FPGA has received exactly the bytes sent by the task whose byte came first and by
those above it.  From that `Executed` counts: short frames never add up to a short one, and what adds up to a long one has at
most one short frame of each task above in it, so that its header, and with it its address, came first and whole.  `StoreInv`
types registers and RAM.  `SlaveInv`: between RAM and register of
an entry stands only the frame the shell is sending, and what an unhurt frame has read is stored as it is read.
`DelayInv`: a call that met no other and whose frames were whole has all four registers for itself, so that the
parameter is what it is writing, byte by byte, or will be what it has read; the higher task cannot meet the
lower one's call without that one being marked as mixed.  That the bytes of a delay decode to it, up to 8 ns, is
`Decoded`.

### The sentences
`RxProofs`, for every size of the buffer and of the pool and any number of sentences, from
`RxAssumption`: `TypeCorrect`, `OnceOnly` (`[]ParsedOnce`), `QuietParsed`
(`[]QuietBurstParsed`), `BufferKept` (`[]StaysInBuffer`).  That the first string
end from a place on exists, and that every string function of the parser stops there (`FindIs`), rests on natural
numbers being well-founded.  The invariant has a part for each property.  `OnceInv`: the receiver sends each star once and strtok cuts it
once, so that no sentence that was parsed, is verified, or is about to be parsed has its star
in the buffer or yet to come.  `EndInv`: while bursts leave two cells, these are NUL, and each place
in the parser keeps `p` a known distance below them; the echo is inside because `QuietInv` says what it
goes over (`EchoWhole`).  `QuietInv`: the cells of such a burst are those
the DMA was given (`BurstInv`), and at each place in the parser so many sentences are done, `p`, `p_msg` and the
cut star are where the next one lies, and the rest is untouched (`AtStage`).

## 6. Findings

1. `eeprom_window` (`eeprom.c:189`): recovery marks the new page VALID before it erases the
   old one; a power loss between the two makes the next start-up format both.
2. `config_torn` (`config.c:941`): the magic bytes are written first, so that a
   block that was cut is loaded, which `config.h:386-388` says is avoided.
3. `gnss_stale` (`ut4b0_receiver.c:1127`): a lost answer leaves the count in
   the middle and makes the next call answer NG although all was confirmed.
4. `timers` (`sys_arch.c:159`): the port tells lwIP a time stamp for the time it has waited,
   so that traffic puts every timer off.

Met while modelling, without a run of their own: a late answer makes the next call answer
OK at once (`ut4b0_receiver.c:1459`; `ExactWithoutFaults` and `NoStalePermit` except it);
the default pointer `ConfigSave` sets is never the block just saved (`config.c:992`; nothing reads it);
start-up loads the saved delay and writes no register of the FPGA (`app.c:197`); the form stores and saves a delay of up to
50 ms, of which the command refuses all above 1 ms (`config.c:2636`, `gnss_handler.c:740`); frames that were cut, or that cut
another, are answered with OK (`bsp_spi.c:187-234`); the echo of `$SATEPRINT` leaves its buffer (`gnss_handler.c:195`);
the exceptions in `StaysInBuffer`, `Drains`, `SentAsGiven`, `NoMissedWakeup`, `DelayAgrees` and `SlavesAgree`
are each something the code does, as section 3 says.

## 7. Only model-checked, and not modelled

Only model-checked: liveness (out of the prover's reach; `BootCompletes`,
`WriteEnds`, `BootEnds`, `SaveEnds`, `CallEnds`, `Drains`, `CatchesUp`, `ForecastEnds`).  Every invariant and action property of
the passing runs is proved.

Not modelled, and why:

* flash operations that report an error: the code returns from wherever it is and
  its callers ignore it, and no comment or document says what then holds;
* how long a copy takes against the watchdog's period, and the timeouts of
  `SPI_FPGA_SendByte`: real time;
* the printing task as a further user of the SPI: the lowest, it reads single bytes and cuts nobody; the shell's commands
  that read and write any register by hand;
* parsing and formatting of text, the parsers that fill `g_gnss_info` for printing, and the availability
  filter, whose answer depends on how often the receiver repeats a sentence;
* the outputs (`out_pps_tod.c`, `out_ntp.c`, most of `out_ptp.c`), `system.c` and the tables of commands:
  one register or parameter each, in sequence;
* what `ETH_Init` does with the PHY beyond failing or not, and the addresses read at start-up: one caller, in sequence;
* the web server, lwIP, the kernel and the drivers beyond what the models above use: third-party code and generated data, which are
  most of the repository's lines;
* the printing tasks, the ring buffer, checksums: output, unused, and functions on bytes;
* the tasks that are compiled and never started.
