----------------------------- MODULE DpmaifBat -----------------------------
(***************************************************************************)
(* Where received packets are put: a ring of buffers (BAT) that all        *)
(* receive queues share (t7xx_hif_dpmaif_rx.c, t7xx_hif_dpmaif.c). The     *)
(* device fills its buffers in order and reports each in the ring of PITs  *)
(* of one of the queues; a poll takes the packet out of its slot and sets  *)
(* the slot's bit; a work item releases the run of slots whose bits are    *)
(* set, gives them new buffers and tells the device. The FSM thread stops  *)
(* and starts the data path and system sleep pauses it. There are two such *)
(* rings, of normal buffers and of fragments, with nearly the same code: a *)
(* behaviour is about one of them. The polls themselves (interrupts,       *)
(* budgets, references) are in DpmaifNapi.                                 *)
(***************************************************************************)
EXTENDS Integers, FiniteSets, Sequences

CONSTANTS
    N,             \* bat_size_cnt
    Threshold,     \* DPMAIF_BAT_CNT_THRESHOLD
    M,             \* pit_size_cnt
    PitThreshold,  \* DPMAIF_PIT_CNT_THRESHOLD
    MaxStops,      \* bound: number of stops and sleeps
    MaxFailures,   \* bound: number of failures
    Disturbers     \* which of "stop", "sleep", "nomem", "bad" (packet) and "timeout" happen

Slots  == 0 .. N - 1
Queues == {0, 1}       \* DPMAIF_RXQ_NUM; the work is done for queue 0, DPF_RX_QNO_DFT

ASSUME BatSizeAssumption ==
    /\ {N, Threshold, M, PitThreshold} \subseteq Nat \ {0}
    /\ Threshold < N /\ PitThreshold < M
ASSUME BatBoundAssumption == {MaxStops, MaxFailures} \subseteq Nat

VARIABLES
    \* struct dpmaif_bat_request: what is in bat_skb of each slot, the slots
    \* whose bit is set
    type, skb, bat_bitmap, bat_release_rd_idx, bat_wr_idx,
    hwRd, hwWr, hwOn,    \* the device's indices of the ring; whether it receives
    \* struct dpmaif_rx_queue: buffer ids in the PIT ring, pit_remain_release_cnt,
    \* PITs the device may write
    pit, remain, pitFree, que_started,
    pollPc, bid,         \* the poll of each queue and the buffer it has taken
    \* bat_release_work: slots to release, the index behind them, buffers put in
    batQueued, batPc, cnt, newRel, filled,
    ctl, stops,          \* who stops the data path, and how far it has got
    failures,
    \* history: nothing has upset the ring; the work has not been cut short
    orderly, served

ringVars == <<skb, bat_bitmap, bat_release_rd_idx, bat_wr_idx>>
hwVars   == <<hwRd, hwWr, hwOn>>
pitVars  == <<pit, remain, pitFree>>
pollVars == <<pollPc, bid>>
workVars == <<batPc, cnt, newRel, filled>>
ctlVars  == <<que_started, ctl, stops>>
pastVars == <<failures, orderly, served>>

vars == <<type, ringVars, hwVars, pitVars, pollVars, batQueued, workVars, ctlVars, pastVars>>

PollPcs == {"idle", "take", "mask", "notify"}
WorkPcs == {"off", "lock", "release", "advance", "alloc", "update", "announce"}
CtlPcs  == {"up", "wait", "mark", "clear", "down", "starting", "failed", "asleep"}

RingTypeOK ==
    /\ type \in {"normal", "frag"} /\ skb \in [Slots -> {"none", "empty", "full"}]
    /\ bat_bitmap \subseteq Slots /\ bat_release_rd_idx \in Slots /\ bat_wr_idx \in Slots
QueueTypeOK ==
    /\ pit \in [Queues -> Seq(Slots)] /\ remain \in [Queues -> 0 .. M - 1] /\ pitFree \in [Queues -> 0 .. M - 1]
    /\ \A q \in Queues : Len(pit[q]) + remain[q] + pitFree[q] < M
    /\ que_started \in [Queues -> BOOLEAN]
DeviceTypeOK == hwRd \in Slots /\ hwWr \in Slots /\ hwOn \in BOOLEAN
ThreadTypeOK ==
    /\ pollPc \in [Queues -> PollPcs] /\ bid \in [Queues -> Slots]
    /\ batQueued \in BOOLEAN /\ batPc \in WorkPcs /\ {cnt, filled} \subseteq 0 .. N /\ newRel \in Slots
    /\ ctl \in [at : CtlPcs, to : {"stop", "sleep"}, q : Queues] /\ stops \in 0 .. MaxStops
    /\ failures \in 0 .. MaxFailures /\ orderly \in BOOLEAN /\ served \in BOOLEAN

(* Every variable keeps its type; in particular no PIT is given back to the  *)
(* device twice                                                              *)
TypeOK == RingTypeOK /\ QueueTypeOK /\ DeviceTypeOK /\ ThreadTypeOK

(* The data path has just been started *)
Init ==
    /\ type \in {"normal", "frag"}
    /\ skb = [i \in Slots |-> IF i < N - 1 THEN "empty" ELSE "none"] /\ bat_bitmap = {}
    /\ bat_release_rd_idx = 0 /\ bat_wr_idx = N - 1
    /\ hwRd = 0 /\ hwWr = N - 1 /\ hwOn = TRUE
    /\ pit = [q \in Queues |-> <<>>] /\ remain = [q \in Queues |-> 0] /\ pitFree = [q \in Queues |-> M - 1]
    /\ que_started = [q \in Queues |-> TRUE]
    /\ pollPc = [q \in Queues |-> "idle"] /\ bid = [q \in Queues |-> 0]
    /\ batQueued = FALSE /\ batPc = "off" /\ cnt = 0 /\ newRel = 0 /\ filled = 0
    /\ ctl = [at |-> "up", to |-> "stop", q |-> 0] /\ stops = 0
    /\ failures = 0 /\ orderly = TRUE /\ served = TRUE
-----------------------------------------------------------------------------
Next_idx(i, k) == (i + k) % N

(* The k slots from i on *)
Run(i, k) == {Next_idx(i, j) : j \in 0 .. k - 1}

(* t7xx_ring_buf_rd_wr_count() with DPMAIF_READ *)
rd_count(rd, wr) == (wr - rd) % N

(* The same with DPMAIF_WRITE: one slot is kept free *)
Space == (bat_release_rd_idx - bat_wr_idx - 1) % N

(* Something fails that may fail *)
Fails(what) == what \in Disturbers /\ failures < MaxFailures /\ failures' = failures + 1
-----------------------------------------------------------------------------
(* The device: it writes into the next buffer and then a PIT. What it makes  *)
(* of a ring that has been upset is not known and left out.                  *)

DeviceFills(q) ==
    /\ hwOn /\ hwRd # hwWr /\ pitFree[q] > 0 /\ orderly
    /\ skb' = [skb EXCEPT ![hwRd] = IF @ = "empty" THEN "full" ELSE @]
    /\ pit' = [pit EXCEPT ![q] = Append(@, hwRd)]
    /\ pitFree' = [pitFree EXCEPT ![q] = @ - 1]
    /\ hwRd' = Next_idx(hwRd, 1)
    /\ UNCHANGED <<type, bat_bitmap, bat_release_rd_idx, bat_wr_idx, hwWr, hwOn, remain, pollVars, batQueued,
                   workVars, ctlVars, pastVars>>
-----------------------------------------------------------------------------
(* The poll of a queue: t7xx_dpmaif_rx_start(). rx_processing is set while   *)
(* it is not idle.                                                           *)

NotPoll == UNCHANGED <<type, bat_release_rd_idx, bat_wr_idx, hwVars, workVars, ctlVars>>

(* t7xx_dpmaifq_poll_pit() finds PITs *)
PollBegin(q) ==
    /\ pollPc[q] = "idle" /\ que_started[q] /\ pit[q] # <<>>
    /\ pollPc' = [pollPc EXCEPT ![q] = "take"]
    /\ NotPoll /\ UNCHANGED <<skb, bat_bitmap, pitVars, bid, batQueued, pastVars>>

(* The ring has been cleared under the poll *)
PollCleared(q) ==
    /\ pollPc[q] = "take" /\ pit[q] = <<>>
    /\ pollPc' = [pollPc EXCEPT ![q] = "idle"]
    /\ NotPoll /\ UNCHANGED <<skb, bat_bitmap, pitVars, bid, batQueued, pastVars>>

(* Faulty variant: the bit is set before the packet is taken *)
TakeMaskedEarly(q) ==
    /\ pollPc[q] = "take" /\ pit[q] # <<>> /\ skb[Head(pit[q])] # "none"
    /\ IF Head(pit[q]) \in bat_bitmap
       THEN /\ pollPc' = [pollPc EXCEPT ![q] = "mask"]
            /\ skb' = [skb EXCEPT ![Head(pit[q])] = "none"]
            /\ UNCHANGED bat_bitmap
       ELSE /\ bat_bitmap' = bat_bitmap \cup {Head(pit[q])}
            /\ UNCHANGED <<pollPc, skb>>
    /\ bid' = [bid EXCEPT ![q] = Head(pit[q])]
    /\ NotPoll /\ UNCHANGED <<pitVars, batQueued, pastVars>>

(* t7xx_dpmaif_get_rx_pkt(), t7xx_dpmaif_get_frag(): the packet is taken ... *)
PollTake(q) ==
    /\ pollPc[q] = "take" /\ pit[q] # <<>> /\ skb[Head(pit[q])] # "none"
    /\ pollPc' = [pollPc EXCEPT ![q] = "mask"]
    /\ bid' = [bid EXCEPT ![q] = Head(pit[q])]
    /\ skb' = [skb EXCEPT ![Head(pit[q])] = "none"]
    /\ NotPoll /\ UNCHANGED <<bat_bitmap, pitVars, batQueued, pastVars>>

(* The PIT is done with *)
Passed(q) ==
    /\ pit' = [pit EXCEPT ![q] = IF @ = <<>> THEN <<>> ELSE Tail(@)]
    /\ remain' = [remain EXCEPT ![q] = IF pit[q] = <<>> THEN @ ELSE @ + 1]

(* The batch goes on or is over *)
Onward(q, over) ==
    \/ pollPc' = [pollPc EXCEPT ![q] = over]
    \/ pit'[q] # <<>> /\ pollPc' = [pollPc EXCEPT ![q] = "take"]

(* ... or it does not fit its buffer or has none: the slot's bit stays, and  *)
(* a batch that ends so is not notified                                      *)
PollBad(q) ==
    /\ pollPc[q] = "take" /\ pit[q] # <<>>
    /\ IF skb[Head(pit[q])] = "none" THEN UNCHANGED failures ELSE Fails("bad")
    /\ Passed(q) /\ Onward(q, "idle")
    /\ orderly' = FALSE
    /\ NotPoll /\ UNCHANGED <<skb, bat_bitmap, pitFree, bid, batQueued, served>>

(* t7xx_dpmaif_set_bat_mask() *)
PollMask(q) ==
    /\ pollPc[q] = "mask"
    /\ bat_bitmap' = bat_bitmap \cup {bid[q]}
    /\ bid' = [bid EXCEPT ![q] = 0]
    /\ Passed(q) /\ Onward(q, "notify")
    /\ NotPoll /\ UNCHANGED <<skb, pitFree, batQueued, pastVars>>

(* Faulty variant: PITs are given back and stay counted *)
ReleaseUncounted(q) ==
    IF remain[q] < PitThreshold \/ ~que_started[q]
    THEN UNCHANGED <<remain, pitFree>>
    ELSE pitFree' = [pitFree EXCEPT ![q] = @ + remain[q]] /\ UNCHANGED remain

(* With t7xx_dpmaifq_release_pit_entry(), which gives nothing back for a     *)
(* queue that is not started                                                 *)
t7xx_dpmaif_pit_release_and_add(q) ==
    IF remain[q] < PitThreshold
    THEN UNCHANGED <<remain, pitFree>>
    ELSE /\ remain' = [remain EXCEPT ![q] = 0]
         /\ pitFree' = [pitFree EXCEPT ![q] = IF que_started[q] THEN @ + remain[q] ELSE @]

(* Every DPMAIF_NOTIFY_RELEASE_COUNT packets and after the last. Then the    *)
(* poll is over or looks for more.                                           *)
t7xx_dpmaifq_rx_notify_hw(q) ==
    /\ pollPc[q] = "notify"
    /\ batQueued' = TRUE
    /\ t7xx_dpmaif_pit_release_and_add(q)
    /\ \/ pollPc' = [pollPc EXCEPT ![q] = "idle"]
       \/ que_started[q] /\ pit[q] # <<>> /\ pollPc' = [pollPc EXCEPT ![q] = "take"]
    /\ NotPoll /\ UNCHANGED <<skb, bat_bitmap, pit, bid, pastVars>>

Poll(q) ==
    PollBegin(q) \/ PollCleared(q) \/ PollTake(q) \/ PollBad(q) \/ PollMask(q) \/ t7xx_dpmaifq_rx_notify_hw(q)
-----------------------------------------------------------------------------
(* t7xx_dpmaif_bat_release_work()                                            *)

NotWork == UNCHANGED <<type, hwRd, hwOn, pitVars, pollVars, ctlVars>>

(* The local variables are forgotten *)
Over == batPc' = "off" /\ cnt' = 0 /\ newRel' = 0 /\ filled' = 0

(* The reference and the sleep lock are in DpmaifNapi *)
WorkBegin ==
    /\ batQueued /\ batPc = "off"
    /\ batPc' = "lock" /\ batQueued' = FALSE
    /\ NotWork /\ UNCHANGED <<ringVars, hwWr, cnt, newRel, filled, pastVars>>

(* The device cannot be resumed or does not wake up, as during a system sleep *)
WorkTimeout ==
    /\ batPc = "lock"
    /\ Fails("timeout") \/ (ctl.at = "asleep" /\ UNCHANGED failures)
    /\ Over /\ served' = FALSE
    /\ NotWork /\ UNCHANGED <<ringVars, hwWr, batQueued, orderly>>

(* Faulty variant: the search does not go on at the start of the bitmap *)
AvailToTheEnd ==
    CHOOSE k \in 0 .. N - bat_release_rd_idx :
        /\ Run(bat_release_rd_idx, k) \subseteq bat_bitmap
        /\ k < N - bat_release_rd_idx => Next_idx(bat_release_rd_idx, k) \notin bat_bitmap

(* t7xx_dpmaif_avail_pkt_bat_cnt(): the run of bits set from the release     *)
(* index on, over the end of the ring                                        *)
t7xx_dpmaif_avail_pkt_bat_cnt ==
    CHOOSE k \in 0 .. N :
        /\ Run(bat_release_rd_idx, k) \subseteq bat_bitmap
        /\ k < N => Next_idx(bat_release_rd_idx, k) \notin bat_bitmap

(* t7xx_dpmaif_bat_release_and_add(), t7xx_dpmaif_frag_bat_release_and_add() *)
WorkCount ==
    /\ batPc = "lock"
    /\ IF t7xx_dpmaif_avail_pkt_bat_cnt < Threshold
       THEN Over
       ELSE batPc' = "release" /\ cnt' = t7xx_dpmaif_avail_pkt_bat_cnt /\ UNCHANGED <<newRel, filled>>
    /\ NotWork /\ UNCHANGED <<ringVars, hwWr, batQueued, pastVars>>

(* The tests of t7xx_dpmaif_release_bat_entry() *)
Releasable ==
    LET new == bat_release_rd_idx + cnt
    IN /\ que_started[0] /\ cnt < N /\ bat_wr_idx # bat_release_rd_idx
       /\ hwRd >= bat_release_rd_idx => new <= hwRd
       /\ new >= N => new - N <= hwRd

(* What is refused is not tried again *)
WorkRelease ==
    /\ batPc = "release"
    /\ IF Releasable
       THEN /\ batPc' = "advance" /\ newRel' = Next_idx(bat_release_rd_idx, cnt)
            /\ UNCHANGED <<cnt, filled, served>>
       ELSE Over /\ served' = FALSE
    /\ NotWork /\ UNCHANGED <<ringVars, hwWr, batQueued, failures, orderly>>

WorkAdvance ==
    /\ batPc = "advance"
    /\ batPc' = "alloc"
    /\ bat_bitmap' = bat_bitmap \ Run(bat_release_rd_idx, cnt)
    /\ bat_release_rd_idx' = newRel /\ newRel' = 0
    /\ NotWork /\ UNCHANGED <<skb, bat_wr_idx, hwWr, batQueued, cnt, filled, pastVars>>

(* k buffers are put into the slots from i on. One that is still there is    *)
(* used again.                                                               *)
Filled(i, k) == [s \in Slots |-> IF s \in Run(i, k) THEN "empty" ELSE skb[s]]

(* t7xx_dpmaif_rx_buf_alloc(), t7xx_dpmaif_rx_frag_alloc(): slots are filled *)
(* until there is no memory. The missing buffers are never made up for.      *)
WorkAlloc ==
    /\ batPc = "alloc"
    /\ IF cnt > Space
       THEN Over /\ served' = FALSE /\ UNCHANGED <<skb, failures>>
       ELSE /\ UNCHANGED served
            /\ \E k \in 0 .. cnt :
                /\ IF k < cnt THEN Fails("nomem") ELSE UNCHANGED failures
                /\ skb' = Filled(bat_wr_idx, k)
                /\ IF k = 0 /\ type = "normal"
                   THEN Over
                   ELSE batPc' = "update" /\ filled' = k /\ cnt' = 0 /\ UNCHANGED newRel
    /\ NotWork /\ UNCHANGED <<bat_bitmap, bat_release_rd_idx, bat_wr_idx, hwWr, batQueued, orderly>>

(* err_unmap_skbs: the slots counted from 0, not those just filled *)
Unmapped == [s \in Slots |-> IF s < filled THEN "none" ELSE skb[s]]

(* t7xx_dpmaif_update_bat_wr_idx(); fragments are not tested *)
WorkUpdate ==
    /\ batPc = "update"
    /\ IF type = "normal" /\ (~que_started[0] \/ filled > Space)
       THEN Over /\ skb' = Unmapped /\ served' = FALSE /\ UNCHANGED bat_wr_idx
       ELSE /\ batPc' = "announce" /\ bat_wr_idx' = Next_idx(bat_wr_idx, filled)
            /\ UNCHANGED <<skb, cnt, newRel, filled, served>>
    /\ NotWork /\ UNCHANGED <<bat_bitmap, bat_release_rd_idx, hwWr, batQueued, failures, orderly>>

(* t7xx_dpmaif_dl_snd_hw_bat_cnt(), t7xx_dpmaif_dl_snd_hw_frg_cnt(). The     *)
(* write index of the ring of fragments is not compared.                     *)
WorkAnnounce ==
    /\ batPc = "announce"
    /\ Over
    /\ hwWr' = Next_idx(hwWr, filled)
    /\ skb' = IF type = "normal" /\ hwWr' # bat_wr_idx THEN Unmapped ELSE skb
    /\ NotWork /\ UNCHANGED <<bat_bitmap, bat_release_rd_idx, bat_wr_idx, batQueued, pastVars>>

Work == WorkBegin \/ WorkTimeout \/ WorkCount \/ WorkRelease \/ WorkAdvance \/ WorkAlloc \/ WorkUpdate \/ WorkAnnounce
-----------------------------------------------------------------------------
(* Stops and sleeps. T7xxPm keeps them apart.                                *)

NotCtl == UNCHANGED <<type, pollVars, batQueued, workVars>>

Idle == \A q \in Queues : pollPc[q] = "idle"

(* The device is quiet: t7xx_dpmaif_hw_stop_all_rxq(), or it has crashed *)
CtlQuiet(to) ==
    /\ ctl.at = "up" /\ to \in Disturbers
    /\ stops < MaxStops /\ stops' = stops + 1
    /\ ctl' = [at |-> "wait", to |-> to, q |-> 0]
    /\ hwOn' = FALSE
    /\ NotCtl /\ UNCHANGED <<ringVars, hwRd, hwWr, pitVars, que_started, pastVars>>

(* t7xx_dpmaif_rx_stop(): the poll is waited for, which begins again, and    *)
(* the work is not. That the wait gives up in the end is left out.           *)
RxStopWait ==
    /\ ctl.at = "wait" /\ pollPc[ctl.q] = "idle"
    /\ ctl' = [ctl EXCEPT !.at = "mark"]
    /\ NotCtl /\ UNCHANGED <<ringVars, hwVars, pitVars, que_started, stops, pastVars>>

RxStopMark ==
    /\ ctl.at = "mark"
    /\ que_started' = [que_started EXCEPT ![ctl.q] = FALSE]
    /\ ctl' = IF ctl.q = 0 THEN [ctl EXCEPT !.at = "wait", !.q = 1]
              ELSE [ctl EXCEPT !.at = IF ctl.to = "stop" THEN "clear" ELSE "asleep", !.q = 0]
    /\ orderly' = (/\ orderly /\ pollPc[ctl.q] = "idle"
                   /\ ctl.q = 0 => batPc \notin {"advance", "alloc", "update"})
    /\ NotCtl /\ UNCHANGED <<ringVars, hwVars, pitVars, stops, failures, served>>

(* t7xx_dpmaif_rx_clear(). The bits of the ring of fragments and the buffers *)
(* of both stay.                                                             *)
RxClear ==
    /\ ctl.at = "clear"
    /\ ctl' = [ctl EXCEPT !.at = "down"]
    /\ bat_bitmap' = IF type = "normal" THEN {} ELSE bat_bitmap
    /\ bat_release_rd_idx' = 0 /\ bat_wr_idx' = 0
    /\ pit' = [q \in Queues |-> <<>>] /\ remain' = [q \in Queues |-> 0]
    /\ orderly' = (orderly /\ bat_bitmap' = {} /\ Idle /\ batPc \in {"off", "lock"})
    /\ NotCtl /\ UNCHANGED <<skb, hwVars, pitFree, que_started, stops, failures, served>>

(* t7xx_dpmaif_start() *)
CtlStart ==
    /\ ctl.at = "down"
    /\ ctl' = [ctl EXCEPT !.at = "starting"]
    /\ que_started' = [q \in Queues |-> TRUE]
    /\ bat_bitmap' = IF type = "normal" THEN {} ELSE bat_bitmap
    /\ orderly' = (orderly /\ bat_bitmap' = {})
    /\ NotCtl
    /\ UNCHANGED <<skb, bat_release_rd_idx, bat_wr_idx, hwVars, pitVars, stops, failures, served>>

(* t7xx_dpmaif_config_dlq_hw(), and the device is told of N - 1 buffers *)
t7xx_dpmaif_config_dlq_hw ==
    /\ hwRd' = 0 /\ hwWr' = N - 1 /\ hwOn' = TRUE
    /\ pitFree' = [q \in Queues |-> M - 1]

(* The ring is filled. Too few fragments are an error, too few buffers none  *)
(* unless there is not even one, and the device is told of all.              *)
CtlPowerOn ==
    /\ ctl.at = "starting" /\ Space = N - 1
    /\ \E k \in 0 .. N - 1 :
        /\ IF k < N - 1 THEN Fails("nomem") ELSE UNCHANGED failures
        /\ skb' = Filled(bat_wr_idx, k)
        /\ bat_wr_idx' = Next_idx(bat_wr_idx, k)
        /\ IF k = N - 1 \/ (type = "normal" /\ k > 0)
           THEN t7xx_dpmaif_config_dlq_hw /\ ctl' = [ctl EXCEPT !.at = "up"]
           ELSE UNCHANGED <<hwVars, pitFree>> /\ ctl' = [ctl EXCEPT !.at = "failed"]
        /\ orderly' = (orderly /\ k = N - 1)
    /\ NotCtl
    /\ UNCHANGED <<bat_bitmap, bat_release_rd_idx, pit, remain, que_started, stops, served>>

(* A ring that is not empty cannot be filled. Nothing clears it: the state   *)
(* is not DPMAIF_STATE_PWRON.                                                *)
CtlStartFails ==
    /\ ctl.at = "starting" /\ Space < N - 1
    /\ ctl' = [ctl EXCEPT !.at = "failed"]
    /\ NotCtl /\ UNCHANGED <<ringVars, hwVars, pitVars, que_started, stops, pastVars>>

(* t7xx_dpmaif_resume() *)
t7xx_dpmaif_resume ==
    /\ ctl.at = "asleep"
    /\ ctl' = [ctl EXCEPT !.at = "up"]
    /\ que_started' = [q \in Queues |-> TRUE] /\ hwOn' = TRUE
    /\ NotCtl /\ UNCHANGED <<ringVars, hwRd, hwWr, pitVars, stops, pastVars>>

Ctl ==
    \/ \E to \in {"stop", "sleep"} : CtlQuiet(to)
    \/ RxStopWait \/ RxStopMark \/ RxClear \/ CtlStart \/ CtlPowerOn \/ CtlStartFails \/ t7xx_dpmaif_resume

Next == (\E q \in Queues : DeviceFills(q) \/ Poll(q)) \/ Work \/ Ctl

(* Polls are run by softirqs and the work by its workqueue *)
Fairness == (\A q \in Queues : WF_vars(Poll(q))) /\ WF_vars(Work)

Spec == Init /\ [][Next]_vars /\ Fairness
-----------------------------------------------------------------------------
(* Slots between two indices *)
Between(i, j) == Run(i, rd_count(i, j))

InPit(q) == {pit[q][k] : k \in DOMAIN pit[q]}

(* The device owns empty buffers only. Between the release index and the     *)
(* device's each slot waits in one queue for its packet to be taken or has   *)
(* lost it and is marked; nothing else is. The indices of the host and of    *)
(* the device agree, except on what is about to be announced.                *)
BufferIntact ==
    orderly /\ ctl.at \notin {"down", "starting", "failed"} =>
        LET used    == Between(bat_release_rd_idx, hwRd)
            waiting == {s \in used : skb[s] = "full"}
            taken   == {bid[q] : q \in {p \in Queues : pollPc[p] = "mask"}}
            ahead   == IF batPc = "announce" THEN filled ELSE 0
        IN /\ bat_wr_idx = Next_idx(hwWr, ahead)
           /\ rd_count(bat_release_rd_idx, hwRd) + rd_count(hwRd, hwWr) + ahead < N
           /\ \A s \in Between(hwRd, bat_wr_idx) : skb[s] = "empty" /\ s \notin bat_bitmap
           /\ waiting \cup taken = InPit(0) \cup InPit(1) /\ InPit(0) \cap InPit(1) = {}
           /\ bat_bitmap = used \ (waiting \cup taken)
           /\ \A s \in used \ waiting : skb[s] = "none"

(* So few buffers are left in the ring that their return stays below the     *)
(* threshold                                                                 *)
Few == rd_count(bat_release_rd_idx, bat_wr_idx) < Threshold

(* The device can write a packet *)
Fillable == hwRd # hwWr /\ \E q \in Queues : pitFree[q] > 0

(* A device that has run out of buffers or of PITs gets some, unless the     *)
(* data path goes down, the work was cut short or failed refills have        *)
(* drained the ring                                                          *)
Supplied == ctl.at = "up" /\ ~Fillable ~> Fillable \/ ctl.at # "up" \/ Few \/ ~served \/ ~orderly
=============================================================================
