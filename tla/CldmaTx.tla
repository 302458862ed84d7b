------------------------------- MODULE CldmaTx -------------------------------
(***************************************************************************)
(* One transmit queue of a CLDMA interface (t7xx_hif_cldma.c): the ring of *)
(* descriptors between threads that send, the work item that collects what *)
(* has been sent, the interrupt handler, and the device, while the queue   *)
(* is stopped, cleared and restarted by the exception handling, put to     *)
(* sleep and woken by the power management, and released by a reset.       *)
(* A step is what a thread does under one lock or between two of them.     *)
(***************************************************************************)
EXTENDS Integers, FiniteSets

CONSTANTS
    Senders,    \* threads in t7xx_cldma_send_skb()
    N,          \* MAX_TX_BUDGET, the length of the ring
    MaxSends,   \* bound: number of packets put into the ring
    Disturbers  \* which of "exception", "stop", "sleep" and "reset" happen

ASSUME TxRingAssumption    == N \in Nat \ {0}
ASSUME TxBoundAssumption   == MaxSends \in Nat
ASSUME TxSendersAssumption == IsFiniteSet(Senders)

Slots == 0 .. N - 1
NULL  == N              \* no request: a pointer that is not set
NoSkb == 0              \* packets are numbered from 1 in the order they are placed

VARIABLES
    \* struct cldma_queue and its ring
    skb, hwo,           \* of each request: its packet, and GPD_FLAGS_HWO
    tr_done, tx_next, budget,
    \* cldma_work: whether it is queued, where it is, and its local variables
    pending, workPc, count, l2_tx_int,
    barrier,            \* which run of the work flush_work() waits for
    \* struct cldma_ctrl
    txq_active, txq_started, is_late_init,
    \* the device's registers
    irqOn,              \* the interface's interrupt is enabled in the PCIe MAC
    hwOn,               \* UL_STATUS: the queue is active
    hwCur, hwStart,     \* current and start address; NULL if not set
    txInt,              \* L2TISAR0: "done" and "empty"
    masked,             \* L2TIMR0: both are masked
    \* threads
    isr,                \* where the interrupt handler is
    pc, req,            \* of each sender: where it is and its tx_req
    ctl,                \* what the FSM and PM threads have done to the interface
    refs,               \* runtime-PM references taken by the interrupt handler
    placed,             \* how many packets have been put into the ring
    orderly             \* the queue has not been stopped, or used, out of turn

ringVars == <<skb, hwo, tr_done, tx_next, budget>>
workVars == <<pending, workPc, count, l2_tx_int>>
ctrlVars == <<txq_active, txq_started, is_late_init>>
hwVars   == <<hwOn, hwCur, hwStart, txInt>>
intVars  == <<irqOn, masked>>
sendVars == <<pc, req>>

vars == <<ringVars, workVars, ctrlVars, hwVars, intVars, isr, sendVars, ctl, barrier, refs, placed,
          orderly>>

SendPcs == {"idle", "ring", "kick", "full", "wait", "woken", "oops"}
WorkPcs == {"off", "collect", "empty", "end", "oops"}
CtlPcs  == {"down", "init", "up", "flush", "stopped", "ex_stopped", "ex_cleared", "ex_flush",
            "ex_reset", "asleep", "reset"}

RingTypeOK ==
    /\ skb \in [Slots -> Nat] /\ hwo \in [Slots -> BOOLEAN]
    /\ tr_done \in Slots \cup {NULL} /\ tx_next \in Slots \cup {NULL}
    /\ budget \in 0 .. N
    /\ placed \in 0 .. MaxSends

WorkTypeOK ==
    /\ pending \in BOOLEAN /\ workPc \in WorkPcs /\ count \in Nat /\ refs \in Nat
    /\ l2_tx_int \subseteq {"done", "empty"}

DeviceTypeOK ==
    /\ hwOn \in BOOLEAN /\ hwCur \in Slots \cup {NULL} /\ hwStart \in Slots \cup {NULL}
    /\ txInt \subseteq {"done", "empty"}
    /\ irqOn \in BOOLEAN /\ masked \in BOOLEAN

ThreadTypeOK ==
    /\ txq_active \in BOOLEAN /\ txq_started \in BOOLEAN /\ is_late_init \in BOOLEAN
    /\ isr \in {"off", "empty", "end", "oops"}
    /\ barrier \in {"none", "pending", "running", "done"}
    /\ pc \in [Senders -> SendPcs] /\ req \in [Senders -> Slots \cup {NULL}]
    /\ ctl \in CtlPcs /\ orderly \in BOOLEAN

(* Every variable keeps its type *)
TypeOK == RingTypeOK /\ WorkTypeOK /\ DeviceTypeOK /\ ThreadTypeOK

(* After t7xx_cldma_init(): no ring yet *)
Init ==
    /\ skb = [i \in Slots |-> NoSkb] /\ hwo = [i \in Slots |-> FALSE]
    /\ tr_done = NULL /\ tx_next = NULL /\ budget = 0
    /\ pending = FALSE /\ workPc = "off" /\ count = 0 /\ l2_tx_int = {}
    /\ barrier = "none"
    /\ txq_active = FALSE /\ txq_started = FALSE /\ is_late_init = FALSE
    /\ hwOn = FALSE /\ hwCur = NULL /\ hwStart = NULL /\ txInt = {}
    /\ irqOn = FALSE /\ masked = TRUE /\ isr = "off"
    /\ pc = [s \in Senders |-> "idle"] /\ req = [s \in Senders |-> NULL]
    /\ ctl = "down" /\ refs = 0 /\ placed = 0 /\ orderly = TRUE
-----------------------------------------------------------------------------
Succ(i) == IF i = N - 1 THEN 0 ELSE i + 1        \* list_next_entry_circular()
Pred(i) == IF i = 0 THEN N - 1 ELSE i - 1        \* list_prev_entry_circular()

(* The device goes on at slot i: a queue whose next descriptor it does not   *)
(* own becomes inactive and says that it is empty.                           *)
HwContinue(i, ints) ==
    /\ hwCur' = i
    /\ hwOn' = (i # NULL /\ hwo[i])
    /\ txInt' = IF hwOn' THEN ints ELSE ints \cup {"empty"}

t7xx_cldma_hw_start_queue(start) == HwContinue(start, txInt)
t7xx_cldma_hw_resume_queue       == HwContinue(hwCur, txInt)
-----------------------------------------------------------------------------
(* t7xx_cldma_send_skb().                                                    *)

Goes(s, next) == pc' = [pc EXCEPT ![s] = next]

(* History, not code: nobody is in the middle of using the queue, and        *)
(* nothing is under way                                                      *)
Unused == (\A s \in Senders : pc[s] \in {"idle", "wait"}) /\ isr # "empty" /\ workPc # "empty"
Quiet  == Unused /\ \A i \in Slots : ~hwo[i]

(* What a sender leaves alone, whatever it does *)
NotSenders == UNCHANGED <<workVars, txq_active, is_late_init, intVars, isr, ctl, barrier, refs>>

(* The queue is active when it is asked; otherwise nothing happens (-EIO) *)
SendBegin(s) ==
    /\ pc[s] = "idle" /\ txq_active
    /\ Goes(s, "ring")
    /\ NotSenders /\ UNCHANGED <<ringVars, txq_started, hwVars, req, placed, orderly>>

Room == budget > 0 /\ skb[tx_next] = NoSkb

(* t7xx_cldma_gpd_handle_tx_request(): the device owns the descriptor only   *)
(* if the queue is still active                                              *)
t7xx_cldma_gpd_handle_tx_request ==
    /\ placed' = placed + 1
    /\ skb' = [skb EXCEPT ![tx_next] = placed']
    /\ hwo' = [hwo EXCEPT ![tx_next] = hwo[tx_next] \/ txq_active]

(* What t7xx_cldma_send_skb() does under ring_lock. An error of the DMA      *)
(* mapping is ignored: the request is used up without a packet.              *)
SendPlace(s) ==
    /\ pc[s] = "ring" /\ tx_next # NULL /\ Room
    /\ placed < MaxSends
    /\ budget' = budget - 1
    /\ \/ t7xx_cldma_gpd_handle_tx_request
       \/ placed' = placed + 1 /\ UNCHANGED <<skb, hwo>>
    /\ orderly' = (orderly /\ txq_active)
    /\ tx_next' = Succ(tx_next)
    /\ req' = [req EXCEPT ![s] = tx_next]
    /\ Goes(s, "kick")
    /\ NotSenders /\ UNCHANGED <<tr_done, txq_started, hwVars>>

(* t7xx_cldma_hw_start_send() *)
t7xx_cldma_hw_start_send(prev_req) ==
    LET lost    == hwStart = NULL
        start   == IF lost THEN prev_req ELSE hwStart
        started == txq_started /\ ~lost
    IN /\ hwStart' = start
       /\ \/ /\ hwOn
             /\ txq_started' = started
             /\ UNCHANGED <<hwOn, hwCur, txInt>>
          \/ /\ ~hwOn
             /\ txq_started' = TRUE
             /\ IF started THEN t7xx_cldma_hw_resume_queue
                           ELSE t7xx_cldma_hw_start_queue(start)

(* The device is awake, or it is not (-ETIMEDOUT) *)
SendKick(s) ==
    /\ pc[s] = "kick"
    /\ Goes(s, "idle")
    /\ \/ t7xx_cldma_hw_start_send(req[s])
       \/ UNCHANGED <<hwVars, txq_started>>
    /\ req' = [req EXCEPT ![s] = NULL]
    /\ NotSenders /\ UNCHANGED <<ringVars, placed, orderly>>

SendFull(s) ==
    /\ pc[s] = "ring" /\ (budget > 0 => tx_next # NULL) /\ ~Room
    /\ Goes(s, "full")
    /\ NotSenders /\ UNCHANGED <<ringVars, txq_started, hwVars, req, placed, orderly>>

(* The queue is resumed if it stands still, then the thread waits for budget *)
SendResume(s) ==
    /\ pc[s] = "full"
    /\ \/ hwOn /\ UNCHANGED <<hwOn, hwCur, txInt>>
       \/ ~hwOn /\ t7xx_cldma_hw_resume_queue
    /\ orderly' = (orderly /\ txq_started)
    /\ Goes(s, IF budget > 0 THEN "ring" ELSE "wait")
    /\ NotSenders /\ UNCHANGED <<ringVars, txq_started, hwStart, req, placed>>

SendWoken(s) ==
    /\ pc[s] = "woken"
    /\ Goes(s, IF budget > 0 THEN "ring" ELSE "wait")
    /\ NotSenders /\ UNCHANGED <<ringVars, txq_started, hwVars, req, placed, orderly>>

(* The device did not wake up (-ETIMEDOUT), or a signal ended the wait *)
SendGivesUp(s) ==
    /\ pc[s] \in {"full", "wait"}
    /\ Goes(s, "idle")
    /\ NotSenders /\ UNCHANGED <<ringVars, txq_started, hwVars, req, placed, orderly>>

(* The queue was reset after it was found active: if there is budget, a NULL *)
(* request is read                                                           *)
SendOops(s) ==
    /\ pc[s] = "ring" /\ budget > 0 /\ tx_next = NULL
    /\ Goes(s, "oops")
    /\ NotSenders /\ UNCHANGED <<ringVars, txq_started, hwVars, req, placed, orderly>>

Send(s) ==
    \/ SendBegin(s) \/ SendPlace(s) \/ SendKick(s) \/ SendFull(s) \/ SendResume(s) \/ SendWoken(s)
    \/ SendGivesUp(s) \/ SendOops(s)
-----------------------------------------------------------------------------
(* The device.                                                               *)

(* It sends the packet it stands at and goes on *)
HwSend ==
    /\ hwOn /\ hwo[hwCur]
    /\ hwo' = [hwo EXCEPT ![hwCur] = FALSE]
    /\ hwCur' = Succ(hwCur)
    /\ hwOn' = hwo'[hwCur']
    /\ txInt' = txInt \cup {"done"} \cup IF hwOn' THEN {} ELSE {"empty"}
    /\ UNCHANGED <<skb, tr_done, tx_next, budget, workVars, ctrlVars, hwStart, intVars, isr,
                   sendVars, ctl, barrier, refs, placed, orderly>>

(* The packet was taken away from it *)
HwStarve ==
    /\ hwOn /\ ~hwo[hwCur]
    /\ t7xx_cldma_hw_resume_queue
    /\ UNCHANGED <<ringVars, workVars, ctrlVars, hwStart, intVars, isr, sendVars, ctl, barrier, refs,
                   placed, orderly>>
-----------------------------------------------------------------------------
(* The interrupt handler.                                                    *)

(* t7xx_cldma_txq_empty_hndl() past its test of txq_active: the last packet  *)
(* is pending and the device stands at it                                    *)
EmptyHandlerResumes == LET last == Pred(tx_next) IN hwo[last] /\ skb[last] # NoSkb /\ hwCur = last

t7xx_cldma_txq_empty_hndl ==
    /\ IF EmptyHandlerResumes THEN t7xx_cldma_hw_resume_queue ELSE UNCHANGED <<hwOn, hwCur, txInt>>
    /\ orderly' = (orderly /\ (EmptyHandlerResumes => txq_started))
    /\ UNCHANGED hwStart

(* t7xx_cldma_isr_handler(), t7xx_cldma_irq_work_cb(): the interrupt of the  *)
(* interface is disabled, what is pending and not masked is acknowledged;    *)
(* "done" masks both, takes a runtime-PM reference and queues the work. The  *)
(* interrupt may have been one of the receive queues.                        *)
t7xx_cldma_irq_work_cb ==
    /\ isr = "off" /\ irqOn
    /\ irqOn' = FALSE
    /\ LET ints == IF masked THEN {} ELSE txInt
       IN /\ txInt' = txInt \ ints
          /\ IF "done" \in ints THEN masked' = TRUE /\ refs' = refs + 1 /\ pending' = TRUE
                               ELSE UNCHANGED <<masked, refs, pending>>
          /\ isr' = IF "empty" \in ints /\ txq_active THEN "empty" ELSE "end"
    /\ UNCHANGED <<ringVars, workPc, count, l2_tx_int, ctrlVars, hwOn, hwCur, hwStart, sendVars, ctl, barrier,
                   placed, orderly>>

IsrEmpty ==
    /\ isr = "empty"
    /\ \/ tx_next # NULL /\ isr' = "end" /\ t7xx_cldma_txq_empty_hndl
       \/ tx_next = NULL /\ isr' = "oops" /\ UNCHANGED <<hwVars, orderly>>
    /\ UNCHANGED <<ringVars, workVars, ctrlVars, intVars, sendVars, ctl, barrier, refs, placed>>

(* The interrupt is enabled again, whatever has happened to the interface *)
IsrEnd ==
    /\ isr = "end"
    /\ isr' = "off" /\ irqOn' = TRUE
    /\ UNCHANGED <<ringVars, workVars, ctrlVars, hwVars, masked, sendVars, ctl, barrier, refs, placed, orderly>>
-----------------------------------------------------------------------------
(* The work item: t7xx_cldma_tx_done().                                      *)

WorkBegin ==
    /\ pending /\ workPc = "off"
    /\ pending' = FALSE /\ workPc' = "collect" /\ count' = 0
    /\ barrier' = IF barrier = "pending" THEN "running" ELSE barrier
    /\ UNCHANGED <<ringVars, l2_tx_int, ctrlVars, hwVars, intVars, isr, sendVars, ctl, refs, placed,
                   orderly>>

(* Faulty variant: the device's ownership is not tested *)
CollectableOwned == tr_done # NULL /\ skb[tr_done] # NoSkb

Collectable == tr_done # NULL /\ ~hwo[tr_done] /\ skb[tr_done] # NoSkb

(* One round of t7xx_cldma_gpd_tx_collect() *)
WorkCollect ==
    /\ workPc = "collect" /\ Collectable
    /\ budget' = budget + 1
    /\ skb' = [skb EXCEPT ![tr_done] = NoSkb]
    /\ tr_done' = Succ(tr_done)
    /\ count' = count + 1
    /\ UNCHANGED <<hwo, tx_next, pending, workPc, l2_tx_int, ctrlVars, hwVars, intVars, isr, sendVars,
                   ctl, barrier, refs, placed, orderly>>

(* wake_up_nr(): so many of the threads that wait, or all of them *)
WakeUp(set) ==
    LET waiting == {s \in Senders : pc[s] = "wait"}
    IN /\ set \subseteq waiting
       /\ \/ Cardinality(set) = count
          \/ Cardinality(set) < count /\ set = waiting
       /\ pc' = [s \in Senders |-> IF s \in set THEN "woken" ELSE pc[s]]

(* Nothing is left to collect; the status is read, "empty" acknowledged *)
WorkStatus ==
    /\ workPc = "collect" /\ ~Collectable
    /\ \E set \in SUBSET Senders : WakeUp(set)
    /\ count' = 0
    /\ l2_tx_int' = txInt
    /\ txInt' = txInt \ {"empty"}
    /\ workPc' = IF "empty" \in txInt /\ txq_active THEN "empty" ELSE "end"
    /\ UNCHANGED <<ringVars, pending, ctrlVars, hwOn, hwCur, hwStart, intVars, isr, req, ctl, barrier, refs,
                   placed, orderly>>

WorkEmpty ==
    /\ workPc = "empty"
    /\ \/ tx_next # NULL /\ workPc' = "end" /\ t7xx_cldma_txq_empty_hndl
       \/ tx_next = NULL /\ workPc' = "oops" /\ UNCHANGED <<hwVars, orderly>>
    /\ UNCHANGED <<ringVars, pending, count, l2_tx_int, ctrlVars, intVars, isr, sendVars, ctl, barrier, refs,
                   placed>>

(* Faulty variant: a work that queues itself again puts its reference *)
WorkAgainPuts == txInt' = txInt \ {"done"} /\ pending' = TRUE /\ refs' = refs - 1 /\ UNCHANGED masked

(* More was sent: the work is queued again and keeps its reference *)
WorkAgain == txInt' = txInt \ {"done"} /\ pending' = TRUE /\ UNCHANGED <<refs, masked>>

(* Faulty variant: the interrupts stay masked *)
WorkReturnsMasked == refs' = refs - 1 /\ UNCHANGED <<txInt, pending, masked>>

(* Nothing was sent: the interrupts of an active queue are unmasked *)
WorkReturns ==
    /\ masked' = (masked /\ ~txq_active)
    /\ refs' = refs - 1
    /\ UNCHANGED <<txInt, pending>>

WorkEnd ==
    /\ workPc = "end"
    /\ workPc' = "off" /\ l2_tx_int' = {}
    /\ barrier' = IF barrier = "running" THEN "done" ELSE barrier
    /\ IF "done" \in l2_tx_int THEN WorkAgain ELSE WorkReturns
    /\ UNCHANGED <<ringVars, count, ctrlVars, hwOn, hwCur, hwStart, irqOn, isr, sendVars, ctl, placed,
                   orderly>>

Work == WorkBegin \/ WorkCollect \/ WorkStatus \/ WorkEmpty \/ WorkEnd
-----------------------------------------------------------------------------
(* The threads that control the interface. One of them is at work at a time. *)

NoPackets == skb' = [i \in Slots |-> NoSkb] /\ hwo' = [i \in Slots |-> FALSE]

(* t7xx_cldma_q_reset() *)
t7xx_cldma_q_reset == tr_done' = 0 /\ tx_next' = 0 /\ budget' = N

t7xx_cldma_late_init == NoPackets /\ t7xx_cldma_q_reset /\ is_late_init' = TRUE

(* t7xx_cldma_switch_cfg(): the ring is released and a new one made. That    *)
(* its allocation fails, of which nobody is told, is left out.               *)
t7xx_cldma_switch_cfg ==
    /\ ctl \in {"down", "stopped"}
    /\ ctl' = "init"
    /\ t7xx_cldma_late_init
    /\ UNCHANGED <<workVars, txq_active, txq_started, hwVars, intVars, isr, sendVars, barrier, refs, placed,
                   orderly>>

(* Faulty variant: the start address is left as it was *)
StartUnplaced ==
    /\ irqOn' = TRUE /\ masked' = FALSE
    /\ txq_started' = FALSE /\ txq_active' = TRUE
    /\ UNCHANGED <<is_late_init, hwVars>>

t7xx_cldma_start ==
    /\ irqOn' = TRUE /\ masked' = FALSE
    /\ hwStart' = tr_done
    /\ txq_started' = FALSE /\ txq_active' = TRUE
    /\ UNCHANGED <<is_late_init, hwCur, hwOn, txInt>>

(* After a new ring was made, or by the last stage of an exception *)
Start ==
    /\ ctl \in {"init", "ex_reset"}
    /\ ctl' = "up"
    /\ t7xx_cldma_start
    /\ UNCHANGED <<ringVars, workVars, isr, sendVars, barrier, refs, placed, orderly>>

(* t7xx_cldma_stop_all_qs(MTK_TX), in the first stage of an exception *)
ExStopTx ==
    /\ ctl = "up" /\ "exception" \in Disturbers
    /\ ctl' = "ex_stopped"
    /\ masked' = TRUE /\ txq_active' = FALSE /\ hwOn' = FALSE
    /\ orderly' = (orderly /\ Quiet)
    /\ UNCHANGED <<ringVars, workVars, txq_started, is_late_init, irqOn, hwCur, hwStart, txInt, isr,
                   sendVars, barrier, refs, placed>>

(* Faulty variant: the budget is left as it was *)
ClearPackets == NoPackets /\ tr_done' = 0 /\ tx_next' = 0 /\ UNCHANGED budget

(* t7xx_cldma_clear_txq() *)
t7xx_cldma_clear_txq == NoPackets /\ t7xx_cldma_q_reset

ExClearTx ==
    /\ ctl = "ex_stopped"
    /\ ctl' = "ex_cleared"
    /\ t7xx_cldma_clear_txq
    /\ UNCHANGED <<workVars, ctrlVars, hwVars, intVars, isr, sendVars, barrier, refs, placed, orderly>>

(* t7xx_cldma_stop() up to its flush_work(), in the second stage of an       *)
(* exception, when the FSM stops and before the AP's handshake. It takes no   *)
(* lock, and a sender or the work could come between its assignments; here it *)
(* is one step.                                                              *)
t7xx_cldma_stop ==
    /\ \/ ctl = "ex_cleared" /\ ctl' = "ex_flush"
       \/ ctl \in {"up", "asleep"} /\ "stop" \in Disturbers /\ ctl' = "flush"
    /\ barrier' = IF pending THEN "pending" ELSE IF workPc # "off" THEN "running" ELSE "done"
    /\ txq_active' = FALSE /\ txq_started' = FALSE
    /\ hwOn' = FALSE /\ txInt' = {}
    /\ irqOn' = FALSE /\ masked' = TRUE
    /\ orderly' = (orderly /\ Quiet)
    /\ UNCHANGED <<ringVars, workVars, is_late_init, hwCur, hwStart, isr, sendVars, refs, placed>>

(* flush_work() has returned: the run that was queued last is over, another  *)
(* may have been queued since. An exception resets the modem's interface.    *)
Flushed ==
    /\ barrier = "done" /\ barrier' = "none"
    /\ \/ ctl = "flush" /\ ctl' = "stopped" /\ UNCHANGED hwVars
       \/ ctl = "ex_flush" /\ ctl' = "ex_reset" /\ UNCHANGED hwVars
       \/ /\ ctl = "ex_flush" /\ ctl' = "ex_reset"
          /\ hwOn' = FALSE /\ hwCur' = NULL /\ hwStart' = NULL /\ txInt' = {}
    /\ UNCHANGED <<ringVars, workVars, ctrlVars, intVars, isr, sendVars, refs, placed, orderly>>

(* t7xx_cldma_suspend(), and perhaps t7xx_cldma_suspend_late() *)
Suspend ==
    /\ ctl = "up" /\ "sleep" \in Disturbers
    /\ ctl' = "asleep"
    /\ masked' = TRUE /\ txq_active' = FALSE /\ txq_started' = FALSE /\ hwOn' = FALSE
    /\ orderly' = (orderly /\ Quiet)
    /\ irqOn' \in {irqOn, FALSE}
    /\ UNCHANGED <<ringVars, workVars, is_late_init, hwCur, hwStart, txInt, isr, sendVars, barrier, refs, placed>>

t7xx_cldma_resume_early == hwStart' = tx_next /\ irqOn' = TRUE /\ UNCHANGED orderly

(* t7xx_cldma_resume_early() and t7xx_cldma_resume(); only the latter if the *)
(* suspend was aborted before its late part, the start address being an old  *)
(* one then                                                                  *)
Resume ==
    /\ ctl = "asleep"
    /\ ctl' = "up"
    /\ \/ t7xx_cldma_resume_early
       \/ irqOn /\ orderly' = FALSE /\ UNCHANGED <<hwStart, irqOn>>
    /\ txq_active' = TRUE /\ masked' = FALSE
    /\ UNCHANGED <<ringVars, workVars, txq_started, is_late_init, hwOn, hwCur, txInt, isr, sendVars, barrier,
                   refs, placed>>

(* t7xx_cldma_reset() up to cancel_work_sync() *)
ResetBegin ==
    /\ ctl \in {"init", "up", "stopped", "ex_reset", "asleep"} /\ "reset" \in Disturbers
    /\ ctl' = "reset"
    /\ txq_active' = FALSE /\ irqOn' = FALSE
    /\ UNCHANGED <<ringVars, workVars, txq_started, is_late_init, hwVars, masked, isr, sendVars, barrier, refs,
                   placed, orderly>>

(* The rest of it, and the reset of the device that follows *)
ResetQueue ==
    /\ ctl = "reset" /\ workPc = "off"
    /\ ctl' = "down"
    /\ pending' = FALSE
    /\ tr_done' = NULL /\ tx_next' = NULL /\ is_late_init' = FALSE
    /\ NoPackets /\ orderly' = Unused
    /\ hwOn' = FALSE /\ hwCur' = NULL /\ hwStart' = NULL /\ txInt' = {} /\ masked' = TRUE
    /\ UNCHANGED <<budget, workPc, count, l2_tx_int, txq_active, txq_started, irqOn, isr, sendVars, barrier,
                   refs, placed>>

Control ==
    \/ t7xx_cldma_switch_cfg \/ Start \/ ExStopTx \/ ExClearTx \/ t7xx_cldma_stop \/ Flushed
    \/ Suspend \/ Resume \/ ResetBegin \/ ResetQueue

(* Reading a NULL request brings the kernel down *)
Alive == isr # "oops" /\ workPc # "oops" /\ \A s \in Senders : pc[s] # "oops"

Steps ==
    \/ \E s \in Senders : Send(s)
    \/ HwSend \/ HwStarve
    \/ t7xx_cldma_irq_work_cb \/ IsrEmpty \/ IsrEnd
    \/ Work \/ Control

Next == Alive /\ Steps

Spec == Init /\ [][Next]_vars
-----------------------------------------------------------------------------
(* The requests between tr_done and tx_next, going round, are in use: as     *)
(* many as the budget lacks, and every packet is in one of them. A sender    *)
(* that finds budget therefore finds the next request free, whatever order   *)
(* the stages of an exception, the work item and the senders came in.        *)
InUse(i) ==
    \/ budget = 0
    \/ tr_done < tx_next /\ tr_done <= i /\ i < tx_next
    \/ tx_next < tr_done /\ (tr_done <= i \/ i < tx_next)

RingIntact ==
    IF tx_next = NULL
    THEN tr_done = NULL /\ \A i \in Slots : skb[i] = NoSkb
    ELSE /\ tr_done # NULL
         /\ tr_done < tx_next => budget = N - (tx_next - tr_done)
         /\ tx_next < tr_done => budget = tr_done - tx_next
         /\ tx_next = tr_done => budget \in {0, N}
         /\ \A i \in Slots : skb[i] # NoSkb => InUse(i)

(* The device owns no request without a packet: what it may still read has   *)
(* not been freed                                                            *)
OwnedAreKept == \A i \in Slots : hwo[i] => skb[i] # NoSkb

(* The interrupts of an active queue are masked only while the work that     *)
(* unmasks them is on its way                                                *)
InterruptLive == txq_active /\ masked => pending \/ workPc # "off"

(* The work item has a runtime-PM reference for each time it is queued or    *)
(* runs: the device is not put to sleep under it                             *)
WorkHoldsPower == refs >= (IF pending THEN 1 ELSE 0) + (IF workPc # "off" THEN 1 ELSE 0)

Channel == INSTANCE ControlChannel
           WITH under <- {skb[i] : i \in {j \in Slots : hwo[j]}}, accepted <- placed

(* Packets reach the modem in the order they were put into the ring, and     *)
(* none twice                                                                *)
InOrder == Channel!Spec
=============================================================================
