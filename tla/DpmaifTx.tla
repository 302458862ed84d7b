------------------------------ MODULE DpmaifTx ------------------------------
(***************************************************************************)
(* How packets are sent: the transmit queue of the data path               *)
(* (t7xx_hif_dpmaif_tx.c, t7xx_netdev.c, t7xx_hif_dpmaif.c). The network   *)
(* device puts packets into a list, the push thread moves them from there  *)
(* into the ring of DRBs and announces them to the device, and a work item *)
(* frees what the device has read, while the FSM thread stops and starts   *)
(* the data path and the power management suspends and resumes it. A step  *)
(* is what a thread does between two points where others can see it.       *)
(***************************************************************************)
EXTENDS Integers, FiniteSets, Sequences

CONSTANTS
    N,           \* DPMAIF_DRB_LIST_LEN, the length of the ring
    Largest,     \* MAX_SKB_FRAGS + 2: DRBs of the largest packet
    WakeAbove,   \* drb_size_cnt / 8: a stopped queue is woken above it
    Burst,       \* DPMAIF_SKB_TX_BURST_CNT
    MaxPackets,  \* bound: number of packets sent
    DrbCnt,      \* t7xx_skb_drb_cnt() of each packet
    MaxStops,    \* bound: number of stops and system sleeps
    Disturbers   \* which of "runtime", "system" (sleep), "timeout" and "nomem" happen

Slots   == 0 .. N - 1
NoSkb   == 0             \* packets are numbered from 1 in the order of acceptance
Packets == 1 .. MaxPackets

ASSUME TxSizeAssumption ==
    /\ N \in Nat /\ Largest \in Nat /\ WakeAbove \in Nat
    /\ Largest <= WakeAbove /\ WakeAbove < N
    /\ DrbCnt \in [Packets -> 2 .. Largest]
ASSUME TxBoundAssumption == Burst \in Nat \ {0} /\ {MaxPackets, MaxStops} \subseteq Nat

VARIABLES
    \* the network device: its queue is stopped, MD_STATE_READY has been
    \* announced, where t7xx_ccmni_start_xmit() is
    stopped, md_ready, xmitPc,
    \* tx_skb_head holds the packets from unlinked + 1 to accepted
    accepted, unlinked,
    \* struct dpmaif_tx_queue; of each DRB its type and its record's skb
    dtyp, skb, drb_wr_idx, drb_rd_idx, drb_release_rd_idx,
    tx_budget, que_started, tx_processing,
    powered,                \* the state is DPMAIF_STATE_PWRON
    \* the device: its read index, the DRBs announced and not read, whether it
    \* reads, the interrupt UL_DONE
    hwRd, hwCnt, hwOn, done, masked,
    irqOn,                  \* DPMAIF_INT is enabled in the PCIe MAC
    \* the push thread and its local variables
    pushPc, burst, waited,
    isrPc,
    \* dpmaif_tx_work
    pending, workPc, rel,
    ctl, stops,             \* the FSM thread
    pm,                     \* the power management
    \* history: the packets sent while orderly, those freed; no stop has overlapped a push or a
    \* release, and no wait for the device has timed out
    sent, freed, orderly

netVars   == <<stopped, md_ready, xmitPc>>
listVars  == <<accepted, unlinked>>
drbVars   == <<dtyp, skb>>
ringVars  == <<drbVars, drb_wr_idx, drb_rd_idx, drb_release_rd_idx, tx_budget>>
hwVars    == <<hwRd, hwCnt, hwOn, done, masked>>
pushVars  == <<tx_processing, pushPc, burst, waited>>
workVars  == <<pending, workPc, rel>>
ctlVars   == <<que_started, powered, ctl, stops, pm>>
pastVars  == <<sent, freed, orderly>>

vars == <<netVars, listVars, ringVars, hwVars, irqOn, pushVars, isrPc, workVars, ctlVars, pastVars>>

PushPcs == {"wait", "get", "select", "burst", "mark", "place", "full", "unlink", "lock"}
WorkPcs == {"off", "get", "update", "release", "wake", "moved", "unmask"}
CtlPcs  == {"ready", "quiet", "stop", "wait", "cancel", "clear", "down", "starting", "started"}

RingTypeOK ==
    /\ dtyp \in [Slots -> {"unused", "msg", "part", "last"}] /\ skb \in [Slots -> {NoSkb} \cup Packets]
    /\ drb_wr_idx \in Slots /\ drb_rd_idx \in Slots /\ drb_release_rd_idx \in Slots
    /\ tx_budget \in Int
DeviceTypeOK ==
    /\ hwRd \in Slots /\ hwCnt \in Nat /\ hwOn \in BOOLEAN /\ done \in BOOLEAN /\ masked \in BOOLEAN
    /\ irqOn \in BOOLEAN
ThreadTypeOK ==
    /\ xmitPc \in {"off", "queue", "busy"} /\ pushPc \in PushPcs /\ workPc \in WorkPcs
    /\ isrPc \in {"off", "read", "queue", "end"} /\ ctl \in CtlPcs
    /\ burst \in [n : 0 .. Burst, remain : Int, cnt : Nat]
    /\ rel \in 0 .. N /\ stops \in 0 .. MaxStops
    /\ pm \in [at : {"active", "stopping", "asleep"}, kind : {"runtime", "system"}]
FlagTypeOK ==
    /\ {stopped, md_ready, que_started, tx_processing, powered, waited, pending, orderly} \subseteq BOOLEAN
    /\ accepted \in 0 .. MaxPackets /\ unlinked \in 0 .. MaxPackets
    /\ sent \in Seq(Packets) /\ Len(sent) <= MaxPackets /\ freed \subseteq Packets

(* Every variable keeps its type *)
TypeOK == RingTypeOK /\ DeviceTypeOK /\ ThreadTypeOK /\ FlagTypeOK

(* The modem is ready and the interface has been opened *)
Init ==
    /\ stopped = FALSE /\ md_ready = TRUE /\ xmitPc = "off"
    /\ accepted = 0 /\ unlinked = 0
    /\ dtyp = [i \in Slots |-> "unused"] /\ skb = [i \in Slots |-> NoSkb]
    /\ drb_wr_idx = 0 /\ drb_rd_idx = 0 /\ drb_release_rd_idx = 0
    /\ tx_budget = N /\ que_started = TRUE /\ tx_processing = FALSE /\ powered = TRUE
    /\ hwRd = 0 /\ hwCnt = 0 /\ hwOn = TRUE /\ done = FALSE /\ masked = FALSE /\ irqOn = TRUE
    /\ pushPc = "wait" /\ burst = [n |-> 0, remain |-> 0, cnt |-> 0] /\ waited = FALSE
    /\ isrPc = "off" /\ pending = FALSE /\ workPc = "off" /\ rel = 0
    /\ ctl = "ready" /\ stops = 0 /\ pm = [at |-> "active", kind |-> "runtime"]
    /\ sent = <<>> /\ freed = {} /\ orderly = TRUE
-----------------------------------------------------------------------------
(* t7xx_ring_buf_get_next_wr_idx() applied k times *)
Next_idx(i, k) == IF i + k < N THEN i + k ELSE i + k - N

(* t7xx_ring_buf_rd_wr_count() with DPMAIF_READ *)
rd_count(rd, wr) == IF wr >= rd THEN wr - rd ELSE wr - rd + N

(* Faulty variant: no DRB is kept free to tell a full ring from an empty one *)
AvailableAll ==
    LET cnt == drb_release_rd_idx - drb_wr_idx - 1 IN IF cnt < 0 THEN cnt + N + 1 ELSE cnt + 1

(* t7xx_ring_buf_rd_wr_count() with DPMAIF_WRITE *)
t7xx_txq_drb_wr_available ==
    LET cnt == drb_release_rd_idx - drb_wr_idx - 1 IN IF cnt < 0 THEN cnt + N ELSE cnt

tx_lists_empty == unlinked = accepted
-----------------------------------------------------------------------------
(* The network device. The kernel calls t7xx_ccmni_start_xmit() one at a     *)
(* time, and not while the queue is stopped.                                 *)

NotXmit == UNCHANGED <<ringVars, hwVars, irqOn, pushVars, isrPc, workVars, ctlVars, pastVars>>

(* t7xx_dpmaif_tx_send_skb(): the budget is tested, then the packet is       *)
(* queued or the queue is stopped                                            *)
XmitBegin ==
    /\ xmitPc = "off" /\ ~stopped /\ accepted < MaxPackets
    /\ xmitPc' = IF tx_budget <= DrbCnt[accepted + 1] THEN "busy" ELSE "queue"
    /\ NotXmit /\ UNCHANGED <<stopped, md_ready, listVars>>

XmitQueue ==
    /\ xmitPc = "queue"
    /\ xmitPc' = "off"
    /\ accepted' = accepted + 1
    /\ NotXmit /\ UNCHANGED <<stopped, md_ready, unlinked>>

(* -EBUSY: the kernel keeps the packet and calls again *)
XmitBusy ==
    /\ xmitPc = "busy"
    /\ xmitPc' = "off"
    /\ stopped' = (stopped \/ md_ready)
    /\ NotXmit /\ UNCHANGED <<md_ready, listVars>>

(* The kernel's watchdog calls t7xx_ccmni_tx_timeout() *)
t7xx_ccmni_tx_timeout ==
    /\ stopped /\ ctl \notin {"down", "starting", "started"}
    /\ stopped' = FALSE
    /\ NotXmit /\ UNCHANGED <<md_ready, xmitPc, listVars>>

Xmit == XmitBegin \/ XmitQueue \/ XmitBusy \/ t7xx_ccmni_tx_timeout
-----------------------------------------------------------------------------
(* The push thread.                                                          *)

Goes(next) == pushPc' = next

NotPush == UNCHANGED <<md_ready, xmitPc, accepted, drb_rd_idx, drb_release_rd_idx, hwRd, hwOn, done, masked,
                       irqOn, isrPc, workVars, ctlVars, pastVars>>

(* pm_runtime_resume_and_get() waits for the device to be active, except in  *)
(* a system sleep, in which the device stays active for runtime PM           *)
Active == pm.at = "active" \/ pm.kind = "system"

(* t7xx_dpmaif_tx_hw_push_thread() *)
PushWoken ==
    /\ pushPc = "wait" /\ ~tx_lists_empty /\ powered
    /\ Goes("get")
    /\ NotPush
    /\ UNCHANGED <<stopped, unlinked, drbVars, drb_wr_idx, tx_budget, hwCnt, tx_processing, burst, waited>>

PushGet ==
    /\ pushPc = "get" /\ Active
    /\ Goes("select")
    /\ waited' = FALSE
    /\ NotPush
    /\ UNCHANGED <<stopped, unlinked, drbVars, drb_wr_idx, tx_budget, hwCnt, tx_processing, burst>>

(* t7xx_select_tx_queue(), and the begin of t7xx_txq_burst_send_skb() *)
PushSelect ==
    /\ pushPc = "select"
    /\ \/ /\ que_started
          /\ Goes("burst")
          /\ burst' = [burst EXCEPT !.remain = t7xx_txq_drb_wr_available]
          /\ UNCHANGED waited
       \/ /\ ~que_started
          /\ Goes("wait")
          /\ waited' = FALSE /\ UNCHANGED burst
    /\ NotPush
    /\ UNCHANGED <<stopped, unlinked, drbVars, drb_wr_idx, tx_budget, hwCnt, tx_processing>>


(* What skb_peek() finds *)
Peeked == unlinked + 1
Size == DrbCnt[Peeked]

(* Faulty variant: the burst is one turn longer *)
BurstOverLate == burst.n > Burst \/ tx_lists_empty

BurstOver == burst.n = Burst \/ tx_lists_empty

(* What t7xx_txq_burst_send_skb() returns *)
Over(cnt) == [n |-> 0, remain |-> 0, cnt |-> cnt]

(* The condition of the loop of t7xx_do_tx_hw_push() *)
Loop == IF ~tx_lists_empty /\ powered THEN "select" ELSE "wait"

(* No room: the free DRBs are counted once more, which uses up a turn *)
PushRecount ==
    /\ pushPc = "burst" /\ ~BurstOver /\ burst.remain < Size
    /\ burst' = [burst EXCEPT !.n = burst.n + 1, !.remain = t7xx_txq_drb_wr_available]
    /\ NotPush
    /\ UNCHANGED <<stopped, unlinked, drbVars, drb_wr_idx, tx_budget, hwCnt, tx_processing, pushPc, waited>>

(* t7xx_dpmaif_add_skb_to_ring() looks at the queue and the state; -ENODEV   *)
(* ends the burst                                                            *)
PushTest ==
    /\ pushPc = "burst" /\ ~BurstOver /\ burst.remain >= Size
    /\ Goes(IF que_started /\ powered THEN "mark" ELSE IF burst.cnt > 0 THEN "lock" ELSE Loop)
    /\ burst' = IF que_started /\ powered THEN [burst EXCEPT !.remain = burst.remain - Size]
                ELSE Over(burst.cnt)
    /\ NotPush
    /\ UNCHANGED <<stopped, unlinked, drbVars, drb_wr_idx, tx_budget, hwCnt, tx_processing, waited>>

PushMark ==
    /\ pushPc = "mark"
    /\ Goes("place")
    /\ tx_processing' = TRUE
    /\ NotPush
    /\ UNCHANGED <<stopped, unlinked, drbVars, drb_wr_idx, tx_budget, hwCnt, burst, waited>>

(* The DRBs of the packet and their records: a message, then its parts *)
Part(i) ==
    IF i = drb_wr_idx THEN "msg" ELSE IF i = Next_idx(drb_wr_idx, Size - 1) THEN "last" ELSE "part"
Written(filled) ==
    /\ dtyp' = [i \in Slots |-> IF i \in filled THEN Part(i) ELSE dtyp[i]]
    /\ skb' = [i \in Slots |-> IF i \in filled THEN Peeked ELSE skb[i]]
InPacket == {Next_idx(drb_wr_idx, k) : k \in 0 .. Size - 1}

PushPlace ==
    /\ pushPc = "place"
    /\ Written(InPacket)
    /\ drb_wr_idx' = Next_idx(drb_wr_idx, Size)
    /\ tx_budget' = tx_budget - Size
    /\ Goes(IF tx_budget' <= Largest THEN "full" ELSE "unlink")
    /\ tx_processing' = (tx_budget' <= Largest)
    /\ NotPush
    /\ UNCHANGED <<stopped, unlinked, hwCnt, burst, waited>>

(* A buffer could not be mapped: the write index is put back (-ENOMEM). The  *)
(* records that were written stay; here all but the last of them.            *)
PushNoMem ==
    /\ pushPc = "place" /\ "nomem" \in Disturbers
    /\ Goes(IF burst.cnt > 0 THEN "lock" ELSE Loop)
    /\ Written(InPacket \ {Next_idx(drb_wr_idx, Size - 1)})
    /\ burst' = Over(burst.cnt) /\ tx_processing' = FALSE
    /\ NotPush
    /\ UNCHANGED <<stopped, unlinked, drb_wr_idx, tx_budget, hwCnt, waited>>

(* DMPAIF_TXQ_STATE_FULL *)
PushFull ==
    /\ pushPc = "full"
    /\ Goes("unlink")
    /\ stopped' = (stopped \/ md_ready)
    /\ tx_processing' = FALSE
    /\ NotPush
    /\ UNCHANGED <<unlinked, drbVars, drb_wr_idx, tx_budget, hwCnt, burst, waited>>

(* Faulty variant: the packet stays in the list *)
PushUnlinkForgets ==
    /\ pushPc = "unlink"
    /\ Goes("burst")
    /\ burst' = [burst EXCEPT !.n = burst.n + 1, !.cnt = burst.cnt + Size]
    /\ NotPush
    /\ UNCHANGED <<stopped, unlinked, drbVars, drb_wr_idx, tx_budget, hwCnt, tx_processing, waited>>

PushUnlink ==
    /\ pushPc = "unlink"
    /\ Goes("burst")
    /\ unlinked' = unlinked + 1
    /\ burst' = [burst EXCEPT !.n = burst.n + 1, !.cnt = burst.cnt + Size]
    /\ NotPush
    /\ UNCHANGED <<stopped, drbVars, drb_wr_idx, tx_budget, hwCnt, tx_processing, waited>>

PushBurstOver ==
    /\ pushPc = "burst" /\ BurstOver
    /\ Goes(IF burst.cnt > 0 THEN "lock" ELSE Loop)
    /\ burst' = Over(burst.cnt)
    /\ NotPush
    /\ UNCHANGED <<stopped, unlinked, drbVars, drb_wr_idx, tx_budget, hwCnt, tx_processing, waited>>

(* t7xx_dpmaif_ul_update_hw_drb_cnt() *)
PushAnnounce ==
    /\ pushPc = "lock"
    /\ Goes(Loop)
    /\ hwCnt' = hwCnt + burst.cnt
    /\ burst' = Over(0)
    /\ waited' = (Loop = "select")
    /\ NotPush
    /\ UNCHANGED <<stopped, unlinked, drbVars, drb_wr_idx, tx_budget, tx_processing>>

(* t7xx_pci_sleep_disable_complete(), once for each t7xx_do_tx_hw_push(),    *)
(* which returns when the device does not wake up                            *)
PushTimeout ==
    /\ pushPc = "lock" /\ ~waited /\ "timeout" \in Disturbers
    /\ Goes("wait")
    /\ burst' = Over(0)
    /\ orderly' = FALSE
    /\ UNCHANGED <<netVars, listVars, ringVars, hwVars, irqOn, tx_processing, waited, isrPc, workVars,
                   ctlVars, sent, freed>>

Push ==
    \/ PushWoken \/ PushGet \/ PushSelect \/ PushRecount \/ PushTest \/ PushMark \/ PushPlace \/ PushNoMem
    \/ PushFull \/ PushUnlink \/ PushBurstOver \/ PushAnnounce \/ PushTimeout
-----------------------------------------------------------------------------
(* The device reads whole packets and then raises UL_DONE. What it finds in  *)
(* DRBs announced in error is unknown: it reads to their end.                *)

LastDrb(k) == dtyp[Next_idx(hwRd, k - 1)] = "last"

DeviceSends ==
    /\ hwOn /\ hwCnt > 0
    /\ \E k \in 1 .. (IF hwCnt < N THEN hwCnt ELSE N) :
        /\ \A j \in 1 .. k - 1 : ~LastDrb(j)
        /\ LastDrb(k) \/ k = hwCnt \/ k = N
        /\ hwRd' = Next_idx(hwRd, k) /\ hwCnt' = hwCnt - k
        /\ sent' = IF orderly /\ LastDrb(k) THEN Append(sent, skb[Next_idx(hwRd, k - 1)]) ELSE sent
    /\ done' = TRUE
    /\ UNCHANGED <<netVars, listVars, ringVars, hwOn, masked, irqOn, pushVars, isrPc, workVars, ctlVars, freed,
                   orderly>>
-----------------------------------------------------------------------------
(* The interrupt handler and its thread; other queues share them.            *)

NotIsr == UNCHANGED <<netVars, listVars, ringVars, hwRd, hwCnt, hwOn, pushVars, workPc, rel, ctlVars, pastVars>>

t7xx_dpmaif_isr_handler ==
    /\ isrPc = "off" /\ irqOn /\ done /\ ~masked /\ powered
    /\ isrPc' = "read" /\ irqOn' = FALSE
    /\ NotIsr /\ UNCHANGED <<done, masked, pending>>

(* t7xx_dpmaif_hw_check_tx_intr() *)
t7xx_dpmaif_hw_check_tx_intr ==
    /\ isrPc = "read"
    /\ IF done /\ ~masked
       THEN isrPc' = "queue" /\ masked' = TRUE /\ done' = FALSE
       ELSE isrPc' = "end" /\ UNCHANGED <<masked, done>>
    /\ NotIsr /\ UNCHANGED <<irqOn, pending>>

(* Faulty variant: a queue that is marked as started only is served *)
IrqTxDoneStarted ==
    /\ isrPc = "queue"
    /\ isrPc' = "end" /\ pending' = (pending \/ que_started)
    /\ NotIsr /\ UNCHANGED <<irqOn, masked, done>>

t7xx_dpmaif_irq_tx_done ==
    /\ isrPc = "queue"
    /\ isrPc' = "end" /\ pending' = TRUE
    /\ NotIsr /\ UNCHANGED <<irqOn, masked, done>>

IsrEnd ==
    /\ isrPc = "end"
    /\ isrPc' = "off" /\ irqOn' = TRUE
    /\ NotIsr /\ UNCHANGED <<masked, done, pending>>

Interrupt == t7xx_dpmaif_isr_handler \/ t7xx_dpmaif_hw_check_tx_intr \/ t7xx_dpmaif_irq_tx_done \/ IsrEnd
-----------------------------------------------------------------------------
(* The work item t7xx_dpmaif_tx_done().                                      *)

NotWork == UNCHANGED <<md_ready, xmitPc, listVars, dtyp, drb_wr_idx, hwRd, hwCnt, hwOn, irqOn, pushVars, isrPc,
                       ctlVars, sent>>

WorkBegin ==
    /\ pending /\ workPc = "off"
    /\ workPc' = "get" /\ pending' = FALSE
    /\ NotWork
    /\ UNCHANGED <<stopped, skb, drb_rd_idx, drb_release_rd_idx, tx_budget, done, masked, rel, freed, orderly>>

(* A device that cannot be resumed is left out *)
WorkGet ==
    /\ workPc = "get" /\ Active
    /\ workPc' = "update"
    /\ NotWork
    /\ UNCHANGED <<stopped, skb, drb_rd_idx, drb_release_rd_idx, tx_budget, done, masked, pending, rel, freed,
                   orderly>>

(* The device does not wake up: the work is over *)
WorkTimeout ==
    /\ workPc = "update" /\ "timeout" \in Disturbers
    /\ workPc' = "off"
    /\ orderly' = FALSE
    /\ NotWork
    /\ UNCHANGED <<stopped, skb, drb_rd_idx, drb_release_rd_idx, tx_budget, done, masked, pending, rel, freed>>

(* t7xx_dpmaif_update_drb_rd_idx() *)
t7xx_dpmaif_update_drb_rd_idx == drb_rd_idx' = IF que_started THEN hwRd ELSE drb_rd_idx

(* t7xx_dpmaif_tx_release(): min_not_zero() takes nothing to release for the *)
(* whole ring                                                                *)
WorkUpdate ==
    /\ workPc = "update"
    /\ workPc' = "release"
    /\ t7xx_dpmaif_update_drb_rd_idx
    /\ LET rel_cnt == rd_count(drb_release_rd_idx, drb_rd_idx') IN rel' = IF rel_cnt = 0 THEN N ELSE rel_cnt
    /\ orderly' = (orderly /\ que_started)
    /\ NotWork
    /\ UNCHANGED <<stopped, skb, drb_release_rd_idx, tx_budget, done, masked, pending, freed>>

(* t7xx_dpmaif_release_tx_buffer(), one DRB at a time. A last DRB without a  *)
(* packet is complained about, and not passed.                               *)
Cur == drb_release_rd_idx
Invalid == dtyp[Cur] \in {"last", "unused"} /\ skb[Cur] = NoSkb

(* Faulty variant: a message gives no budget back *)
ReleasePayload ==
    /\ workPc = "release" /\ rel > 0 /\ ~Invalid
    /\ freed' = IF dtyp[Cur] = "last" THEN freed \cup {skb[Cur]} ELSE freed
    /\ skb' = [skb EXCEPT ![Cur] = IF dtyp[Cur] = "msg" THEN skb[Cur] ELSE NoSkb]
    /\ drb_release_rd_idx' = Next_idx(Cur, 1)
    /\ tx_budget' = IF dtyp[Cur] = "msg" THEN tx_budget ELSE tx_budget + 1
    /\ rel' = rel - 1
    /\ workPc' = IF tx_budget' > WakeAbove THEN "wake" ELSE "release"
    /\ NotWork /\ UNCHANGED <<stopped, drb_rd_idx, done, masked, pending, orderly>>

WorkRelease ==
    /\ workPc = "release" /\ rel > 0 /\ ~Invalid
    /\ freed' = IF dtyp[Cur] = "last" THEN freed \cup {skb[Cur]} ELSE freed
    /\ skb' = [skb EXCEPT ![Cur] = IF dtyp[Cur] = "msg" THEN skb[Cur] ELSE NoSkb]
    /\ drb_release_rd_idx' = Next_idx(Cur, 1)
    /\ tx_budget' = tx_budget + 1
    /\ rel' = rel - 1
    /\ workPc' = IF tx_budget' > WakeAbove THEN "wake" ELSE "release"
    /\ NotWork /\ UNCHANGED <<stopped, drb_rd_idx, done, masked, pending, orderly>>

WorkInvalid ==
    /\ workPc = "release" /\ rel > 0 /\ Invalid
    /\ rel' = rel - 1
    /\ NotWork
    /\ UNCHANGED <<stopped, skb, drb_rd_idx, drb_release_rd_idx, tx_budget, done, masked, pending, workPc, freed,
                   orderly>>

(* DMPAIF_TXQ_STATE_IRQ *)
WorkWake ==
    /\ workPc = "wake"
    /\ workPc' = "release"
    /\ stopped' = (stopped /\ ~md_ready)
    /\ NotWork
    /\ UNCHANGED <<skb, drb_rd_idx, drb_release_rd_idx, tx_budget, done, masked, pending, rel, freed, orderly>>

(* t7xx_dpmaif_ul_clr_done() *)
t7xx_dpmaif_ul_clr_done ==
    /\ workPc = "release" /\ rel = 0
    /\ workPc' = IF done THEN "moved" ELSE "unmask"
    /\ done' = FALSE
    /\ NotWork
    /\ UNCHANGED <<stopped, skb, drb_rd_idx, drb_release_rd_idx, tx_budget, masked, pending, rel, freed, orderly>>

(* Faulty variant: the work is not queued again, and the interrupt stays masked *)
RingNotEmptyForgets ==
    /\ workPc = "moved"
    /\ t7xx_dpmaif_update_drb_rd_idx
    /\ workPc' = IF drb_rd_idx' # drb_rd_idx THEN "off" ELSE "unmask"
    /\ NotWork
    /\ UNCHANGED <<stopped, skb, drb_release_rd_idx, tx_budget, done, masked, pending, rel, freed, orderly>>

(* t7xx_dpmaif_drb_ring_not_empty(): what has been read meanwhile is left to *)
(* the next run. During a stop or a sleep the device's index is not read and *)
(* what it has read is not released before it raises UL_DONE again.          *)
t7xx_dpmaif_drb_ring_not_empty ==
    /\ workPc = "moved"
    /\ t7xx_dpmaif_update_drb_rd_idx
    /\ IF drb_rd_idx' # drb_rd_idx
       THEN workPc' = "off" /\ pending' = TRUE
       ELSE workPc' = "unmask" /\ UNCHANGED pending
    /\ orderly' = (orderly /\ que_started)
    /\ NotWork
    /\ UNCHANGED <<stopped, skb, drb_release_rd_idx, tx_budget, done, masked, rel, freed>>

t7xx_dpmaif_unmask_ulq_intr ==
    /\ workPc = "unmask"
    /\ workPc' = "off" /\ masked' = FALSE
    /\ NotWork
    /\ UNCHANGED <<stopped, skb, drb_rd_idx, drb_release_rd_idx, tx_budget, done, pending, rel, freed, orderly>>

Work ==
    \/ WorkBegin \/ WorkGet \/ WorkTimeout \/ WorkUpdate \/ WorkRelease \/ WorkInvalid \/ WorkWake
    \/ t7xx_dpmaif_ul_clr_done \/ t7xx_dpmaif_drb_ring_not_empty \/ t7xx_dpmaif_unmask_ulq_intr
-----------------------------------------------------------------------------
(* The FSM thread: t7xx_ccmni_md_state_callback().                           *)

NotCtl == UNCHANGED <<xmitPc, listVars, pushVars, isrPc, workPc, rel, pm, sent>>

t7xx_dpmaif_ul_all_q_en(enable) == hwOn' = enable

(* A stop or an exception is announced. t7xx_dpmaif_hw_stop_all_txq() stops  *)
(* the device; a modem that crashes stops by itself.                         *)
CtlQuiet ==
    /\ ctl \in {"ready", "started"} /\ pm.at = "active"
    /\ stops < MaxStops /\ stops' = stops + 1
    /\ ctl' = "quiet"
    /\ md_ready' = FALSE /\ t7xx_dpmaif_ul_all_q_en(FALSE)
    /\ NotCtl
    /\ UNCHANGED <<stopped, ringVars, que_started, powered, hwRd, hwCnt, done, masked, irqOn, pending, freed,
                   orderly>>

(* netif_tx_disable() waits for t7xx_ccmni_start_xmit() to return *)
t7xx_ccmni_pre_stop ==
    /\ ctl = "quiet" /\ xmitPc = "off"
    /\ ctl' = "stop"
    /\ stopped' = TRUE
    /\ NotCtl
    /\ UNCHANGED <<md_ready, ringVars, que_started, powered, hwVars, irqOn, stops, pending, freed, orderly>>

(* t7xx_dpmaif_stop() up to the wait of t7xx_dpmaif_tx_stop() *)
CtlStop ==
    /\ ctl = "stop"
    /\ ctl' = "wait"
    /\ irqOn' = FALSE /\ powered' = FALSE /\ que_started' = FALSE
    /\ NotCtl
    /\ UNCHANGED <<stopped, md_ready, ringVars, hwVars, stops, pending, freed, orderly>>

(* That the wait gives up after 10^6 turns is left out *)
CtlWait ==
    /\ ctl = "wait" /\ ~tx_processing
    /\ ctl' = "cancel"
    /\ NotCtl
    /\ UNCHANGED <<stopped, md_ready, ringVars, que_started, powered, hwVars, irqOn, stops, pending, freed, orderly>>

(* t7xx_dpmaif_txq_flush_rel(): cancel_work_sync() *)
CtlCancel ==
    /\ ctl = "cancel" /\ workPc = "off"
    /\ ctl' = "clear"
    /\ pending' = FALSE
    /\ NotCtl
    /\ UNCHANGED <<stopped, md_ready, ringVars, que_started, powered, hwVars, irqOn, stops, freed, orderly>>

(* The push thread is between the test of que_started and the announcement   *)
(* of what it has put into the ring                                          *)
Pushing ==
    \/ pushPc \in {"mark", "place", "full", "unlink", "lock"}
    \/ pushPc = "burst" /\ burst.cnt > 0

(* History, not code: nobody is in the middle of using the ring *)
Quiet == ~Pushing /\ isrPc \in {"off", "end"} /\ ~pending /\ workPc = "off"

(* Only the record of a last DRB is emptied. The budget stays as it is. *)
t7xx_dpmaif_tx_free_drb_skb ==
    LET lasts == {i \in Slots : dtyp[i] = "last" /\ skb[i] # NoSkb}
    IN /\ freed' = freed \cup {skb[i] : i \in lasts}
       /\ skb' = [i \in Slots |-> IF i \in lasts THEN NoSkb ELSE skb[i]]

CtlClear ==
    /\ ctl = "clear"
    /\ ctl' = "down"
    /\ t7xx_dpmaif_tx_free_drb_skb
    /\ drb_rd_idx' = 0 /\ drb_wr_idx' = 0 /\ drb_release_rd_idx' = 0
    /\ orderly' = (orderly /\ Quiet)
    /\ NotCtl
    /\ UNCHANGED <<stopped, md_ready, dtyp, tx_budget, que_started, powered, hwVars, irqOn, stops, pending>>

(* t7xx_dpmaif_start() *)
CtlStart ==
    /\ ctl = "down"
    /\ ctl' = "starting"
    /\ que_started' = TRUE
    /\ NotCtl
    /\ UNCHANGED <<stopped, md_ready, ringVars, powered, hwVars, irqOn, stops, pending, freed, orderly>>

(* t7xx_dpmaif_hw_init(): the device's queue and its interrupt *)
t7xx_dpmaif_config_ulq_hw == hwRd' = 0 /\ hwCnt' = 0 /\ hwOn' = TRUE
t7xx_dpmaif_init_intr == done' = FALSE /\ masked' = FALSE

CtlPowerOn ==
    /\ ctl = "starting"
    /\ ctl' = "started"
    /\ t7xx_dpmaif_config_ulq_hw /\ t7xx_dpmaif_init_intr
    /\ powered' = TRUE /\ irqOn' = TRUE
    /\ NotCtl
    /\ UNCHANGED <<stopped, md_ready, ringVars, que_started, stops, pending, freed, orderly>>

t7xx_ccmni_start ==
    /\ ctl = "started"
    /\ ctl' = "ready"
    /\ md_ready' = TRUE /\ stopped' = FALSE
    /\ NotCtl
    /\ UNCHANGED <<ringVars, que_started, powered, hwVars, irqOn, stops, pending, freed, orderly>>

CtlGoesOn ==
    \/ t7xx_ccmni_pre_stop \/ CtlStop \/ CtlWait \/ CtlCancel \/ CtlClear
    \/ CtlStart \/ CtlPowerOn \/ t7xx_ccmni_start
-----------------------------------------------------------------------------
(* Suspend and resume. Stops are kept apart from them by what T7xxPm models. *)

NotPm == UNCHANGED <<netVars, listVars, ringVars, powered, hwRd, hwCnt, done, masked, pushVars, isrPc, workVars,
                     ctl, pastVars>>

(* References that keep the device from a runtime suspend, which also waits  *)
(* for the device to be idle for PM_AUTOSUSPEND_MS                           *)
Held == pushPc \notin {"wait", "get"} \/ workPc \notin {"off", "get"}

(* t7xx_dpmaif_suspend() up to the wait of t7xx_dpmaif_tx_stop() *)
Suspend(kind) ==
    /\ pm.at = "active" /\ ctl = "ready" /\ kind \in Disturbers
    /\ IF kind = "runtime"
       THEN ~Held /\ hwCnt = 0 /\ ~done /\ UNCHANGED stops
       ELSE stops < MaxStops /\ stops' = stops + 1
    /\ pm' = [at |-> "stopping", kind |-> kind]
    /\ que_started' = FALSE
    /\ NotPm /\ UNCHANGED <<hwOn, irqOn>>

Suspended ==
    /\ pm.at = "stopping" /\ ~tx_processing
    /\ pm' = [pm EXCEPT !.at = "asleep"]
    /\ t7xx_dpmaif_ul_all_q_en(FALSE) /\ irqOn' = FALSE
    /\ NotPm /\ UNCHANGED <<que_started, stops>>

(* t7xx_dpmaif_resume() *)
t7xx_dpmaif_resume ==
    /\ pm.at = "asleep"
    /\ pm' = [pm EXCEPT !.at = "active"]
    /\ que_started' = TRUE /\ irqOn' = TRUE /\ t7xx_dpmaif_ul_all_q_en(TRUE)
    /\ NotPm /\ UNCHANGED stops

Next ==
    \/ Xmit \/ Push \/ DeviceSends \/ Interrupt \/ Work
    \/ CtlQuiet \/ CtlGoesOn
    \/ (\E kind \in {"runtime", "system"} : Suspend(kind)) \/ Suspended \/ t7xx_dpmaif_resume

(* Threads and work items run when they can go on, and whoever waits for the *)
(* device has it resumed. A system sleep ends, a stopped modem is started    *)
(* again.                                                                    *)
Wanted == pushPc = "get" \/ workPc = "get" \/ pm.kind = "system"

Fairness ==
    /\ WF_vars(XmitQueue \/ XmitBusy) /\ SF_vars(Push) /\ SF_vars(PushPlace) /\ WF_vars(DeviceSends)
    /\ WF_vars(Interrupt) /\ SF_vars(Work)
    /\ SF_vars(CtlGoesOn) /\ WF_vars(Suspended) /\ WF_vars(Wanted /\ t7xx_dpmaif_resume)

Spec == Init /\ [][Next]_vars /\ Fairness
-----------------------------------------------------------------------------
InRing == rd_count(drb_release_rd_idx, drb_wr_idx)

(* Put into the ring and not announced yet *)
Unannounced == burst.cnt + (IF pushPc \in {"full", "unlink"} THEN Size ELSE 0)

(* The indices of the host and of the device agree: from the release index   *)
(* on there are the DRBs that have been read, those the device is to read,   *)
(* and those it will be told of, up to the write index. None of the packets  *)
(* in them has been freed.                                                   *)
WindowIntact ==
    orderly /\ ctl \notin {"down", "starting"} =>
        /\ rd_count(drb_release_rd_idx, drb_rd_idx) <= rd_count(drb_release_rd_idx, hwRd)
        /\ rd_count(drb_release_rd_idx, hwRd) + hwCnt + Unannounced = InRing
        /\ \A i \in Slots :
            rd_count(drb_release_rd_idx, i) < InRing /\ dtyp[i] = "last" => skb[i] \notin freed \cup {NoSkb}

(* The budget is what the ring lacks: a sender that finds budget finds room. *)
(* A stop loses the budget of what it throws away.                           *)
BudgetMatches == orderly => tx_budget + InRing <= N /\ (stops = 0 => tx_budget + InRing = N)

(* UL_DONE is masked only while the work that unmasks it is on its way *)
DoneServed ==
    masked /\ orderly => \/ isrPc = "queue" \/ pending \/ workPc # "off"
                         \/ ctl \in {"clear", "down", "starting"}

OnTheWay == {p \in 1 .. accepted : p \notin freed /\ \A k \in DOMAIN sent : sent[k] # p}

Channel == INSTANCE DataChannel WITH under <- OnTheWay

(* Packets reach the modem in the order of acceptance, none twice *)
InOrder == Channel!Spec

(* Each accepted packet is put into the ring and announced, sent or thrown   *)
(* away by a stop, and freed: neither the push thread nor UL_DONE is lost    *)
Released == \A p \in Packets : accepted >= p ~> p \in freed \/ ~orderly
=============================================================================
