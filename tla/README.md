# A TLA+ development of the mtk_t7xx driver

The driver runs MediaTek T7xx 5G modems over PCIe: it boots the modem and shakes hands with its
cores, carries control messages over the CLDMA rings and network packets over the DPMAIF, and
handles exceptions, resets, suspend, resume and removal. Almost everything that is hard in it is
concurrency: kernel threads, work items, threaded interrupt handlers and PM callbacks share a few
flags, and the other party of every protocol is a device that may be late, fall silent or come back
from sleep as a different modem.

The modules here model the parts of `src/src` that decide whether the modem works at all: the state
monitor with the handshakes, the power management, a transmit and a receive queue of the control path
with the port behind it, and the transmission and reception of network packets with their rings and the
deep-sleep lock. They are translated from the code; comments of the definitions say where they abstract.
`PROJECT.json` maps every definition to its lines.

## Inventory

| Component | State it keeps | Operations | Interacts with |
|---|---|---|---|
| Modem state monitor, `t7xx_state_monitor.c` | `curr_state`, `md_state`, `command_queue`, `event_queue`, `exp_flg`, the notifier list | `t7xx_fsm_append_cmd`, `_append_event`, `_recv_md_intr`, `_clr_event`, the FSM thread, `t7xx_fsm_uninit` | called by every other part; its thread calls modem operations, CLDMA and PM, and broadcasts states to ports |
| Modem operations, `t7xx_modem_ops.c` | `core_md`/`core_ap` (`ready`, `handshake_ongoing`), `exp_id`, `handshake_wq` | MHCCIF handler, handshake works, exception handshake, `t7xx_reset_device`, RGU interrupt, `t7xx_md_init`/`_exit` | FSM commands and events, CLDMA set-up, ACPI reset |
| MHCCIF, `t7xx_mhccif.c` | interrupt mask and status registers of the device | threaded handler, mask set/clear, H2D interrupts | FSM, PM acknowledgements |
| Control port, `t7xx_port_ctrl_msg.c` | the port's `rx_skb_list` and thread | HS2 and exception messages, port enumeration | appends FSM events |
| PM, `t7xx_pci.c` | `md_pm_state`, `mode`, `rgu_pci_irq_en`, `resume_reprobe_count`, `pm_sr_ack`, usage count, `md_pm_entities` | suspend, resume, `*_noirq`, freeze/thaw/restore, re-probe, `init_late`, `exp_detected`, sleep lock | CLDMA and DPMAIF entities, FSM START/STOP, MHCCIF |
| CLDMA, `t7xx_hif_cldma.c` | per queue: ring, `tr_done`, `tx_next`, `budget`, works; `txq_active`, `txq_started`, `rxq_active` | `send_skb`, interrupt handler, TX-done and RX-done works, start, stop, clear, reset, suspend, resume | senders (ports), FSM thread, PM callbacks, device |
| Port proxy, `t7xx_port_proxy.c` | ports, channel tables, `rx_skb_list`s, channel sequence numbers | receive and route, send, broadcast of modem states | CLDMA, FSM, WWAN core |
| DPMAIF, `t7xx_dpmaif.c`, `t7xx_hif_dpmaif*.c` | DRB ring, BAT and PIT rings, bitmaps, `tx_wq`, NAPI | start/stop, TX kick and done, RX polling, BAT refill | netdevs, PM, sleep lock |
| Netdevs, `t7xx_netdev.c` | queue state, `napi_enable`, `ctlb` | open, stop, xmit, state notification | DPMAIF, FSM notifier |
| Register access, scripts | none of their own | | |

What is hard, and the property each part owes:

* **State monitor.** A command is flushed, completed, timed out and freed by different threads: no
  caller is forgotten (`WaiterNotForgotten`). Readiness is announced from flags work items set
  for a session that may have ended: it is backed by the FSM and by live rings (`ReadyBroadcast`,
  `MdReadyUsable`). Boots, stops and exceptions end although the device may not answer (`FsmSettles`,
  `ExceptionHandled`), and so does the unload (`ExitJoins`, `ExitEnds`).
* **Power management.** A sleep has four phases and two handshakes, and each can fail: what was suspended
  is resumed (`EntitiesMatch`), interrupts that were disabled come back (`InterruptsBack`),
  a booting modem is left alone (`BootUndisturbed`), waits end (`CallbackReturns`) and so do
  retries (`RetriesEnd`).
* **CLDMA transmit.** The same ring is used by senders, the collecting work, the handler, the
  exception path and PM: its bookkeeping agrees (`RingIntact`), no packet is freed under the device
  (`OwnedAreKept`), no interrupt is lost for good (`InterruptLive`), the device is not put to sleep under the
  work (`WorkHoldsPower`), and packets arrive in order, each once (`InOrder`).
* **Network packets.** Interrupts, NAPI, runtime PM and the deep-sleep lock each have their own idea of
  whether a poll may run. The device is out of deep sleep when it is used (`AwakeWhenUsed`) and may sleep
  again afterwards (`LockCounts`), it is not suspended under a poll (`PollHoldsPower`), and no packet is left in
  the ring (`RxServed`).
* **CLDMA receive, port proxy.** A port may refuse a message, a buffer may be missing, and a round may be over
  before the ring is empty; whoever goes round again must have its reference (`WorkHoldsPower`). Buffers are
  neither forgotten nor overwritten (`RingIntact`), messages are handled in order, each once (`InOrder`),
  and all of them are (`Served`).
* **DPMAIF transmit.** Senders look at a budget, a thread fills the ring, the device empties it and a work item releases
  it, each with an index or a count of its own: they agree (`WindowIntact`, `BudgetMatches`), the
  interrupt does not stay masked (`DoneServed`), packets go out in order (`InOrder`) and are freed (`Released`).
* **DPMAIF rings.** Two queues take packets out of one ring of buffers in any order; the work releases what is taken,
  over the end of the ring. A buffer is the device's or holds a packet, never both (`BufferIntact`), and a
  device that has used up its buffers gets new ones (`Supplied`).

## Modules

### `T7xxFsm`, `MCFsm`, `T7xxFsmProofs`: state monitor and handshakes

Actors: the FSM thread (`fsmPc`), the threaded MHCCIF handler (`isrPc`), the two handshake work items
(`workPc`), the control-port threads, threads in `t7xx_reset_device()` (`rst`), the thread in
`t7xx_md_exit()`, and the device. A step is what one of them does between two points at which another could
observe it: a lock, a sleep, a wait. So reading the interrupt status, acting on it and acknowledging
it are three steps, since FSM_START reads the same register in between, and a handshake work
item goes through its HS1, its wait for the event and its completion separately.

Commands are records with a caller; `complete_all` and the waiter's timeout are explicit. `event_queue` holds
the handshake and exception events. CLDMA appears as the state of each core's interface (`hif`). Sleeps
and `wait_event_timeout`s may elapse at any moment; a loop of polls is one step that may be repeated. The
device boots into one of `BootStages`, raises the interrupts of `Bursts`, answers HS1 or not, and may
raise an exception. `caught` is a history variable: no guard looks at it. Boot stages after the poll that the code tests but cannot meet (BROM) are not modelled.

### `T7xxPm`, `MCPm`, `T7xxPmProofs`: power management

Actors: the PM core's thread, which runs one callback at a time, the MHCCIF thread that completes `pm_sr_ack`, the
FSM thread reduced to what it tells PM (`fsm`, `command_queue`), resetters (the RGU interrupt's thread and
writers of `t7xx_mode`), and the device, which answers each of four requests early, late or never. All
runtime, system and hibernation callbacks are modelled down to the order of their register writes where
an overlapping reset could see it. The three entities are suspended one by one, and `FailingEntities` may
refuse (none of the driver's does). A reset may come before, during and after a sleep, and a modem may boot unasked
(`BootsUnasked`). The history variable `overlapped` is TRUE from when a reset or an unasked boot meets a sleep, or a modem that
could be put to sleep, until the modem is next ready with neither under way: in between the two threads undo each
other's work, and `EntitiesMatch` and `BootUndisturbed` say nothing. After a sleep the device reports any of `ResumeStates`; INIT with a lost address
translation counts as a state of its own, as the code tells it apart.

### `CldmaTx`, `ControlChannel`, `MCCldmaTx`, `CldmaTxProofs`: a transmit queue

Actors: senders in `t7xx_cldma_send_skb()`, the interrupt handler, the TX-done work, the device, and the
threads that control the interface (`ctl`: one of them at a time, since the FSM thread and PM exclude
each other in this respect). Packets are numbered in the order they enter the ring. The device goes
through descriptors whose HWO bit is set and becomes inactive at one whose bit is not; its
registers (`hwCur`, `hwStart`, `txInt`) are kept as far as the driver uses them.

`ControlChannel` is the abstract specification: packets under way, delivered in the order of acceptance and
each at most once, with `Drop` for exceptions and resets. `InOrder` states that `CldmaTx` implements it with
`under <- {skb[i] : hwo[i]}` and `accepted <- placed`. The code does not keep order without condition:
after a stop or a sleep that catches packets under way, or a packet (or the hole of a failed mapping) put into a queue that was
stopped after the sender had asked, the queue is started past the old packets; and a late "empty" interrupt may
resume a device where it stood before it is started anew. These cases set `orderly` to
FALSE (`CutOff`), and a reset that finds nobody using the queue renews the promise. `orderly`, `placed` and `barrier` (which run of the work `flush_work()` waits for) are
history or stand for the kernel's own state; no guard of the code's actions looks at the first two,
other than the bound on `placed`.

### `T7xxSleepLock`, `DpmaifNapi`, `MCNapi`, `DpmaifNapiProofs`: received packets and the deep-sleep lock

`T7xxSleepLock` has the state of the lock and its operations without a specification of its own: the
users put them into their steps. `sleepDis` is the bit that forbids deep sleep, `awake` the resource
status of the device, which falls asleep by itself while the bit is clear.

`DpmaifNapi` extends it with one receive queue. Actors: softirqs on `CPUs` that run
`t7xx_dpmaif_napi_rx_poll()` step by step (`pollPc`), the threaded interrupt handler (`irqPc`), the BAT work as the
second user of the lock (`batPc`), the thread that opens and closes the interface and the FSM thread, which
stops and starts the data path (`pc`; both switch NAPI on and off), suspend and resume (`pm`), and the
device. NAPI is the kernel's: `sched`, `missed` and `disabling` are the bits of its state, `listed` says on
which processor's list it is, and `napi_synchronize()` and `napi_disable()` wait as they do there. The device moves its
write index and writes the packet in two steps, as the code's check of the PIT sequence number
(`once_more`) expects. `Disturbers` chooses what else happens: `"close"`, `"stop"`, `"system"` (sleep) and `"bad"`: rounds of a poll that
end with an error, since their last packet has an error payload or PITs cannot be given back (`CollectFails`). Such
a poll completes and unmasks the interrupt whatever is left in the ring.

Two history variables: `stranded` is TRUE while packets such a poll has left are signalled by nobody, that is until another
packet is. `orderly` is FALSE after a poll has relied on the count of the deep-sleep lock that another poll waits with, or
the lock was taken while the device was not resumed (`t7xx_pci_disable_sleep()` then completes it without asking the device), and TRUE
again once the lock is taken by a resumed device of which nobody has or wants the lock. No guard looks at either.
In `pm_runtime_resume_and_get()` a caller waits for a runtime suspend to be over; in a system sleep it does not.

### `CldmaRx`, `PortProxy`, `ReceiveChannel`, `MCControlRx`, `CldmaRxProofs`, `CldmaRxOrderProofs`: a receive queue and its port

`PortProxy` has the state of the control port (`rx_skb_list`, its limit, the thread) and the operations of the proxy
on it; `CldmaRx` extends it with the ring the messages come from and is the composition of the two. Actors:
the device, the interrupt handler, the work item `t7xx_cldma_rx_done()` step by step (`workPc`), the port's thread,
and the threads that start, stop, clear, reset, suspend and remove (`ctl`). A message for which the port has no room
stays in the ring and sends the work round again; `Strays` are messages for a channel without a port, which
the proxy drops. The round of the work is over early if the processor is wanted and its budget is used up.

`ReceiveChannel` is the abstract specification: messages are handled in the order the modem writes them; a
closed channel may lose any. `CldmaRx` implements it with `under <-` what is in the ring or at the port and
`open <-` the interface being up or asleep. A suspend that catches messages in the ring ends the promise (`orderly`): the
device is started behind them.

### `DpmaifTx`, `DataChannel`, `MCDpmaifTx`, `DpmaifTxProofs`: transmission of network packets

Actors: the kernel that calls `t7xx_ccmni_start_xmit()` (`xmitPc`) with its watchdog, the push thread (`pushPc`), the
device, the interrupt handler (`isrPc`), the work item `t7xx_dpmaif_tx_done()` (`workPc`), the FSM thread that stops
and starts the data path (`ctl`), and suspend and resume (`pm`). Each slot of the ring has the type of its DRB and the packet
its record points to (`dtyp`, `skb`); `hwRd` and `hwCnt` are the device's index and the count of DRBs it has been told of.
One packet takes `DrbCnt[p]` DRBs, the first a message, the last marked as such.

`DataChannel` is the abstract specification: packets reach the modem in the order of acceptance, at most once
each; a stop drops the oldest, those in the ring. The history variable `orderly` is FALSE once a
stop has cleared the ring under somebody who uses it, a sleep has overlapped the work's last look
at the device's index, or a wait for the device has timed out; in all three cases the code loses track, see below.

### `DpmaifBat`, `MCDpmaifBat`, `DpmaifBatProofs`: where received packets are put

The BAT ring that the device takes buffers from and the PIT rings in which it reports them, both queues, and the
work that releases and refills. A behaviour is about one of the two BAT rings (`type`), the normal one or the one of fragments,
since the code for them differs in a few places only. The interrupts, the NAPI bits and the lock, which
`DpmaifNapi` has, are left out: here a poll may begin whenever there is a PIT and its queue is started. `ctl`
stops, starts, suspends and resumes queue after queue, as `t7xx_dpmaif_rx_stop()` does. The
history variables are `orderly` (nobody used the ring while it was stopped or cleared, every slot has its buffer) and `served`
(the work has not been cut short by a sleep, a missing buffer or a time-out).

## Runs

| Run | Question | Instance |
|---|---|---|
| `MCFsm_reset` | is announced readiness real and no caller forgotten, with a reset or a fastboot switch and an unload at any moment? | 1 resetter, 1 reset, every boot stage, interrupts together |
| `MCFsm_exception` | do starts, stops, exceptions and an unload end with a device that may fall silent? | 1 exception, an unload |
| `MCFsm_shutdown` | does `t7xx_md_exit()` return? **No** | as the first, without reset |
| `MCPm_sleep` | do callbacks return and re-probes end, in every kind of sleep and with acknowledgements early, late or never? | every resume state, 2 counted re-probes, `CTRL2` refuses, no reset |
| `MCPm_reset` | do interrupts and entities come back, and is a boot left alone, with resets around and in a sleep? | system sleeps, RGU and sysfs resetters, 1 reset, L1 and L3, unasked boots |
| `MCCldmaTx_stop` | ring, ownership, interrupts, references and order under exceptions, stops, resets and sleeps | 2 senders, 2 requests, 2 packets |
| `MCControlRx` | are messages handled, in order, with buffers that may be missing and a port that refuses? | 2 requests, 3 messages, one of them stray, a port with room for 1, 1 failing allocation, exception, reset, sleep, removal |
| `MCDpmaifTx_stop` | do window, budget, mask and order survive stops, sleeps and time-outs, and is each packet freed? | ring of 5, 2 packets of 3 DRBs, 1 stop or system sleep, any number of runtime suspends |
| `MCDpmaifBat` | is a buffer ever the device's and a packet's at once, and is a starved device supplied? | ring of 4 buffers, 2 PITs a queue, 1 stop or sleep, 1 failure |
| `MCNapi_close` | are packets fetched? | 1 processor, 2 packets, budget 1, bad packets, 1 close, runtime suspends |
| `MCNapi_stop` | does every poll have its runtime-PM reference, and is the device awake under it? | 2 processors, 1 packet, 2 stops or system sleeps, runtime suspends |
| `MCNapi_lock` | is the lock given back when all polls are done? **No** | 1 packet, nothing disturbs |

**Why the bounds are enough.** The monitor has two queues that are flushed and one waiter per thread: one reset
already overlaps with the boot, with the exit and with itself (STOP and START of one reset are
separate commands), and every boot stage is a different path of one boot. Two resets bring one new case, the one described under
"What the models showed" (`caught`); that they bring no other is proved. An exception
needs one boot. In the PM
module the sleeps are not bounded, only resets and queued commands are; with `MaxReprobes = 2` the cap is
reached, passed over and reset. A transmit ring of two requests filled with two packets is full and is empty, goes over its end and makes a sender
wait; two senders are interchangeable, hence the symmetry (no liveness is checked there). That a third and a fourth
packet reuse requests was checked with one sender while the proofs, which do not depend on the number, were made.

A receive ring of two requests and three messages go over the end of the ring; with room for one message at the
port, a message is refused as soon as one waits and one is handled. `MaxRefs` bounds the references
beyond which the queue is not suspended: the handler may leave any number behind when the interface
is reset. In `DpmaifTx` a ring of five takes one of two packets of three DRBs: the senders are stopped at the threshold of
`netif_stop`, the push thread waits for a released DRB, and the second packet lies over the end of the ring. That sizes and
numbers do not matter is proved. In `DpmaifBat` four buffers and a threshold of two are the smallest ring in which a run of taken
slots goes over the end.

In `DpmaifNapi` a budget of one packet makes the first poll use it up and the second
one return less; with two packets one is under way while another is fetched, and may be announced before it is
written. Two processors are enough for a poll that is scheduled while the one before is still between its steps, and a
third poll cannot be scheduled then; they are interchangeable, hence the symmetry (no liveness is checked there).
`MaxDisturbances` bounds closes, stops and system sleeps together: two of them put a sleep into a stop, a stop into a sleep, or
either after the other. Runtime suspends are not bounded. `MaxRefs` bounds the references nobody gives back: after a close with an
interrupt under way they pile up, so nobody opens or starts while that many are held. Safety is proved without any of these bounds.

`MCPm_reset` has one kind of sleep and two resume states, one that goes on and one that re-probes, since every reset multiplies the
states; what it checks is proved for all of them.

**Deadlock** is not checked in any run: a modem that is dead or asleep and that nobody resets, a driver that
has been unloaded, a queue with nothing left to send are all states in which the system rightly stops.

**Fairness.** In `T7xxFsm` the FSM thread, the handler, each work item, each control-port thread, the steps of a reset once
begun, and the unload once begun are weakly fair: they are kernel threads and work items that
the scheduler runs when they can go on, and each of their bounded waits elapses. In `T7xxPm` the same holds for
a callback that has begun, for the FSM's steps and for the handler. Nothing is assumed of
the device: it may never answer, boot or acknowledge. Nobody is assumed to begin a reset, a sleep or an
unload. `CldmaTx` states safety only. In `CldmaRx` the handler, the work item and the port's thread are weakly fair; the modem
need not write and no thread need act on the interface. In `DpmaifBat` the polls and the work are; the device is unfair.

In `DpmaifTx` every thread goes on when it can: `XmitQueue` and `XmitBusy`, the handler, the waits of a suspend and the device's
reading are weakly fair; the push thread, the work and the FSM thread are strongly fair, since a suspend takes away
and gives back what they wait for, and `PushPlace` is, since DMA mappings do not fail for ever. Who waits for the device has it
resumed, and a system sleep ends (`Wanted`). Runtime suspend is possible only when nobody holds a
reference and the device has nothing to read: `PM_AUTOSUSPEND_MS` is longer than the device takes. The device
raises UL_DONE together with its index. Stops and sleeps exclude each other here; what keeps them apart is modelled in
`T7xxPm`. The kernel neither has to send a packet nor anybody to stop the data path.

In `DpmaifNapi` softirqs, suspend, resume when somebody asks for it (`Wanted`) and the FSM thread's stop and start are weakly fair;
the interrupt handler, the BAT work and the NAPI switch are strongly fair, because what they wait
for comes and goes: the device can be suspended again before a waiter for its resume runs. The code justifies this with the autosuspend delay,
and with runtime PM, which counts the reference before it waits for the resume. The device writes the packets it has
announced, answers H2D_CH_DS_LOCK and wakes the host for packets. Without these nothing could be promised about
received packets; nobody is assumed to receive, open, close, stop or suspend.

## What the violated runs show

* `ExitEnds`: `destroy_workqueue()` at the end of `t7xx_md_exit()` waits for a handshake work that waits
  for an event (`t7xx_modem_ops.c:534`) without a timeout. If the modem never answers HS1 and the FSM
  has been shut down before it could give up and tell the work, nothing ends the wait. README.md:180
  calls `t7xx_md_exit()` at shutdown the way to prevent the poweroff hang.
* `LockCounts`: a poll that uses up its budget, or meets a packet that is not yet written, returns without
  `t7xx_pci_enable_sleep()`, and the next poll locks again (`t7xx_hif_dpmaif_rx.c:849`); one lock is given back. From then on
  `sleep_disable_count` never is zero and the device is not allowed into deep sleep any more.

## Proofs

All are checked by TLAPS for every value of the constants that the named assumptions allow (bounds are
naturals, sets of threads do not contain the names of the others, the ring has at least one request).

* **`T7xxFsmProofs`.** `ReadyBroadcastHolds`: `ReadyInv` adds to the property where the FSM thread
  is when it stands in FSM_STATE_READY and that `md_state` READY is broadcast only then; the only steps to examine are
  those of the FSM thread and those that write `mode`. `WaiterNotForgottenHolds`: `WaiterInv` says that each
  waiting caller's command is the current one or queued, and that a thread that is idle or has exited has none; it
  is inductive because the flush completes each command it takes and the unload flushes after the
  thread has gone. `TypeCorrect` is the whole type; so that the provers can say what is left of `event_queue`,
  `t7xx_fsm_clr_event` is stated as a relation. `MdReadyUsableHolds`: `UsableInv` says that while there are no rings, and no exception
  handshake is about to start them again, the handshake work cannot bring `md_state` back to READY: an `MD_HS2_EXIT` stands in
  `event_queue` before any HS2 it could take for an answer, and `ready` has been taken back.
* **`T7xxPmProofs`.** `InterruptsBackHolds` without any assumption on resets and failing entities:
  `InterruptsInv` ties the disabled interrupts to the points of the PM thread between `resume_noirq` and the
  end of the resume. `BootUndisturbedHolds`, with any resetters, any number of resets and unasked
  boots: `BootInv` says that a callback runs alone (`CallbackAlone`), that no fastboot mode
  outlives a boot (`NoFastboot`), so that the STOP of a running modem flushes whatever START is left over, and that while the modem boots, or a stopped one has a START
  queued, no callback runs and every suspend is refused (`BootAlone`); the second and third unless `overlapped`. `EntitiesMatchHolds` adds the entities: each way out of a sleep resumes all of them or leaves
  MTK_PM_RESUMED. It assumes that no entity refuses to be suspended (`NoEntityFails`): the abort for one that does resumes
  those before it only, which is wrong if an earlier resume failed and left others suspended. `PmTypeCorrect` bounds the re-probe counter.
* **`CldmaTxProofs`.** `TxInv` is the conjunction of the type, `RingIntact`, `WorkHoldsPower`,
  `HwPlaced` (the device stands in the ring), `OwnedAreKept`, `ActiveUp` (an active queue has a ring
  and an interface that is up) and `InterruptLive`, inductive together: `RingIntact` makes the
  slot a sender takes a free one, which is what `OwnedAreKept` needs, and `WorkHoldsPower` makes every put of a
  reference a decrement of a positive number, which is what the type needs. The arithmetic of the circular
  window is in lemmas of its own, so that the step of each action only cites them.
  `TxInOrderHolds`: `CldmaTx` implements `ControlChannel`. `OrderInv` adds to `TxInv` that packets are
  numbered as placed and lie round the ring by age, counted back from `tx_next` (`AgeOrder`), and, while `orderly`, that what the
  device has sent is older than what it owns (`SentFirst`) and that either nothing is under way and the queue is stopped (`AtRest`)
  or the device stands at the oldest request it owns, or will be started there (`AtOldest`). `TxInv` knows which slots are occupied, not where the device is among them; without `AtOldest` it could
  send a later packet first.
* **`DpmaifNapiProofs`.** `PollHoldsPowerCorrect` and `NapiTypeCorrect`, for every set of processors and all
  disturbers. `NapiInv` is the type with `RefsCover`: one reference is held for every poll
  at work, scheduled or missed, for the BAT work, and for every thread between taking a reference and scheduling the poll it is for; and
  `Suspended`: a device that is suspended at run time had no reference when it was. `PollHoldsPower` alone is not
  inductive, since a poll could then put the reference of another. The counting is done with the cardinality of the
  set of polls at work, with a lemma for a poll that begins and one for a poll that ends.
  `AwakeWhenUsedCorrect`, for every set of processors and all disturbers. `SleepLockInv` adds to `NapiInv`, while `orderly`, that `sleep_disable_count`
  covers the polls that have or want the lock and the BAT work, and, with the one that has been told to come again in place of a waiting one, once
  more (`Counted`; it may exceed them, since a poll that uses up its budget leaves its count behind), that while it is not zero the
  device may not fall asleep (`Forbids`), that who
  has passed the wait finds `sleep_lock_acquire` set (`HasSeen`), that no request to the device is under way then (`UnderWay`), and that the
  completion belongs to the present lock (`KeptAwake`): it is the reinitialisation in `t7xx_pci_disable_sleep()` that makes the last inductive.
  Polls are counted by the cardinality of the sets of processors at each stage (`Count`); a poll that moves changes two of them
  (`CountMoves`), and four lemmas say what counting up, down, and not at all does to the lock.
* **`DpmaifBatProofs`.** `BatTypeCorrect`, whatever happens to the ring, and `BufferIntactHolds`, for rings of any length and any
  thresholds. Slots are told apart by their distance from the release index. `BatInv` is the type, `Placed` (a cleared ring of PITs
  stays so until the start) and, while `orderly`: the distances from the release index over the device's to the write index, and what is about
  to be announced, add up to less than the ring (`Agree`); a slot the device has used is marked or in one PIT of one queue, and marked or taken ones are
  the ones without a buffer (`Marked`, `Found`, `Apart`, `Waiting`); the ones behind hold empty buffers (`Emptied`); a ring that was cleared in good order is in
  nobody's hands (`Cleared`); and what the work remembers between its steps is still so (`AtWork`). `BufferIntact` is not inductive: it
  says nothing of the order of the PITs, of a queue that lists a slot twice, or of the slots that the work is about to release or has just
  filled. That the search for marked slots finds an end is an induction; it is made with the least number of a set of numbers, which the
  library's theorem on well-founded relations gives (`Least`).

* **`CldmaRxProofs`.** `RxInv` is the type, `WorkHoldsPower`, `Placed` (the work, the device and the refill pointer stand in the
  ring while there is one), `Filled` and `Midway` (what the slot in hand looks like between taking its buffer out and giving it a
  new one), and `RingIntact`. `RingIntact` alone says nothing of a slot whose buffer the work holds; `Midway` does, and with
  `Placed` it follows that the slot which is filled again is the one that was emptied.
* **`CldmaRxOrderProofs`.** `RxInOrderHolds`: `CldmaRx` and `PortProxy` implement `ReceiveChannel`. `Unique`, which holds whatever
  happens, says that no message is in two places: in two requests, in a request and at the port, twice at the port; the
  request whose message has been handed over and not yet cleared is the exception, and `InRing` leaves it out. While `orderly`,
  `RingOrder` orders the messages in the ring by their distance from `tr_done`, `PortOrder` puts those at the port before them,
  and `Behind` says that the requests with messages are those from `tr_done` to the device. `Behind` is what makes the next message
  the last in the order; it holds when the device is started because the ring is empty then.
* **`DpmaifTxProofs`.** `TxInv` is the type, `Flow` (where each thread stands and what it holds there), `BudgetMatches`, `DoneServed`
  and, while `orderly` is TRUE, six more: the release, read and device's indices and the count of announced DRBs agree (`Agree`,
  and `Idle` after a stop), there is room for what the push thread is about to write (`Room`), the device's signal is held by the
  handler, the work or nobody (`Signals`), and the records between release and write index are those of the packets in order,
  read means sent, and what was taken from the list is sent, freed or in the ring (`Records`, `Past`). `DoneServed` is not inductive
  without `Signals`, since a second holder could unmask the interrupt for the first. `WindowIntact` is a consequence of `Agree`,
  `Room` and `Records`. `InOrderHolds` is the refinement: each step of `DpmaifTx` accepts, transmits or drops in `DataChannel`, or
  stutters; `Past` ties the slot the device reads to the next packet to be transmitted. The arithmetic is in lemmas about distances round a ring.

Only model-checked: everything temporal under fairness (`ExceptionHandled`, `FsmSettles`, `ExitJoins`,
`CallbackReturns`, `RetriesEnd`, `RxServed`, `Served`, `Released`, `Supplied`). TLAPS has no rules for
`ENABLED`, on which weak fairness rests. Every invariant of the passing runs is proved.

## What is left out of the models

* Formatting and contents: runtime-feature tables are accepted or refused, packets and messages are numbers.
* Probe and its error paths, IRQ allocation, the debug-port attribute, address translation.
* In `T7xxFsm`: the test of `md_init_finish` in `t7xx_md_exit()`, which is set before the model begins, and `t7xx_md_reset()`, which
  clears it for a moment; an interrupt's exception flag and its command are one step.
* In `CldmaTx` and `CldmaRx`: `t7xx_cldma_stop()` up to its `flush_work()` is one step although it takes no lock
  (`t7xx_hif_cldma.c:635-650`), so a work or a sender that resumes a queue between two of its assignments is not seen; a failing `t7xx_cldma_late_init()` (nobody is told, and the queue's pointers keep
  pointing into the ring that was freed) or `kthread_run()`, a second handshake that sets up a running interface, and messages that the
  proxy drops because the modem's state is invalid. Module removal is in `CldmaRx` only.
* In `DpmaifNapi`: the contents of the BAT and PIT rings (`DpmaifBat` has them) and the second queue, which is like the first; that
  `rx_stop` gives up waiting after 100 ms, that masking the interrupt or a runtime resume may fail, and that the BAT
  work's wait for the lock may time out.
* In `DpmaifTx`: a device whose index is seen later than its UL_DONE (the release of nothing would then be the release of the whole ring,
  `tx.c:146`; nothing in the repository says in which order the two appear); that a wait for the push thread or the work gives up after a million turns, and a device that cannot be resumed.
* In `DpmaifBat`: the counts told to the device that time out (`-EBUSY`), a PIT that is announced before it is written, the
  buffers freed when a start fails, and what the device does once its ring is upset.

## Not modelled

The ports of the WWAN core and of the trace (`t7xx_port_wwan.c`, `t7xx_port_trace.c`) hand packets on and have no state beyond the
proxy's. Register set-up (`t7xx_cldma.c`, `t7xx_dpmaif.c`, `t7xx_pcie_mac.c`, apart from what the models name) is
programming that is done once and answers to the device's manual, which is not in the repository. The scripts are shell around DKMS,
`insmod` and `rfkill`.

## What the models showed in passing

Behaviour that the models contain and that no run claims to be otherwise. Most of it no text of the repository speaks of. Where
one does, it is named: the code is not what README.md:179 and the comments at `t7xx_hif_dpmaif_rx.c:1106`, `t7xx_netdev.c:58` and
`t7xx_pci.h:113` lead to expect; the properties nearby leave these cases out and say so.

State monitor and power management:

* READY without rings: a first reset leaves a second run of the handshake work behind, a second reset catches it between
  `t7xx_cldma_start()` and `handshake_ongoing = true` and therefore queues no `MD_HS2_EXIT` (`t7xx_modem_ops.c:478`), and the HS2 of the first modem, still in
  the port's list, is taken for an answer. TLC finds this with `MaxResets = 2` in 58 steps. `MdReadyUsable` is about all other
  histories: the history variable `caught` marks this one.
* `t7xx_core_reset()` resets one core; the application core's flags survive a reset.
* A STOP that times out is ignored by `t7xx_reset_device()`; when it is handled at last, it flushes the START behind it.
* Four acknowledgements share the completion `pm_sr_ack`; a late one answers the next request, so that resume callbacks may run before the
  resume is acknowledged, which `t7xx_pci.h:113` excludes.
* An MHCCIF interrupt of a stopped modem can boot it outside PM's knowledge (`BootsUnasked`).
* A second re-probe before the modem is ready takes a second runtime-PM reference, of which only one is put.
* A modem that comes back in L3 is re-probed without being counted (`t7xx_pci.c:596`); README.md:179 says that re-probes are capped at 3.
* Were a PM entity to refuse its suspend after an earlier resume has failed half way, the abort would leave entities suspended in
  MTK_PM_RESUMED (`t7xx_pci.c:470`); with `CTRL2` in `FailingEntities` TLC finds `EntitiesMatch` violated.
* An aborted suspend enables `SAP_RGU_INT` and leaves `rgu_pci_irq_en` false (`t7xx_pci.c:481`), so the handler ignores the reset.

CLDMA:

* A sender that has found its queue active may find no ring after a reset (`SendOops`).
* The error of a DMA mapping is dropped and leaves a request without a packet, at which the device and
  the collecting work stand.
* -ETIMEDOUT is returned after a packet was queued, though callers treat it as not sent.
* The end of the CLDMA handler enables an interrupt that a stop has disabled meanwhile.
* The failure of an allocation in `t7xx_cldma_clear_rxq()` (`t7xx_hif_cldma.c:803`) is ignored by its callers and leaves slots without a buffer.
* RX work that is queued again after it was flushed runs into the clearing of its ring and loses the message it has in hand.

DPMAIF, transmitting:

* With nothing to release, `min_not_zero()` yields the budget, which is the whole ring (`t7xx_hif_dpmaif_tx.c:146`).
* A stop looks for a flag that the push thread sets too late (`tx.c:254`, `tx.c:645`), so it may clear the ring under it.
* A stop sets the budget without counting what the senders have taken from it (`tx.c:665`).
* A suspend may fall between the work's last look at the device's index and its unmasking of the interrupt (`tx.c:56`).

DPMAIF, receiving:

* A poll that finds its queue stopped returns without `napi_complete_done()`, which the comment at `t7xx_netdev.c:58` relies on. It stays
  scheduled for ever: with `"stop"` in `Disturbers` TLC finds a thread that hangs in `napi_synchronize()` (`DisableSync`), with
  `"system"` that `RxServed` fails (no poll after the resume). `RxServed` is therefore checked with `"close"` and `"bad"` only.
* A poll that ends with an error unmasks the interrupt with packets left in the ring and DONE acknowledged (`rx.c:754-762`, `rx.c:784-793`); they
  stay until another packet comes. `RxServed` says that nothing else leaves packets.
* `sleep_lock_pending` is written after `napi_complete_done()`. With two processors the next poll may run in
  between and share the count, or find the completion of a lock that has been given back. `AwakeWhenUsed` leaves this out (`orderly`).
* In a system sleep `t7xx_pci_disable_sleep()` completes the lock without asking the device (`md_pm_state` is below
  `MTK_PM_RESUMED`), and a poll scheduled by the opening of an interface goes on to use it. `AwakeWhenUsed` leaves this out, too.
* After a failed refill the slots are unmapped from 0, not from where the refill began (`t7xx_hif_dpmaif_rx.c:230`), and what was not
  filled is never made up for (`rx.c:197`). A first allocation that succeeds in part returns success (`t7xx_hif_dpmaif.c:356`).
* `rx_stop` does not wait for the BAT work (`rx.c:1118`), which its comment (`rx.c:1106`) says it does, and a stop does not clear the bitmap of the fragments.
* A start that fails leaves the data path without buffers for good (`rx.c:181`).
* The slot of a packet with an error is never marked as taken, and ends every run of slots to release (`rx.c:666`).
* BAT work that is refused because the device sleeps is not queued again (`rx.c:510`).
* `pit_remain_release_cnt` is set to 0 although telling the device of the PITs has failed (`rx.c:243`, `rx.c:567`).

## Plan

1. **Done:** state monitor and handshakes, power management, a transmit and a receive queue of the control path with the control
   port, deep-sleep lock, transmission and reception of network packets, the rings of buffers.
2. The sending side of the port proxy: channel sequence numbers, who owns a packet after an error of the send, the
   broadcast of states to the ports; composed with `CldmaTx`.
3. The ports of the WWAN core and of the trace as further ports of `PortProxy`; several queues that share the interrupt and
   `txq_active` of one interface.
4. Proofs: every invariant that a run checks is proved, and the three refinements; what the parts of 2 and 3 add is to be
   proved with them.
