------------------------------- MODULE CldmaRx -------------------------------
(***************************************************************************)
(* The receive queue of a CLDMA interface that feeds the control port      *)
(* (t7xx_hif_cldma.c), composed with the port (PortProxy): the ring of     *)
(* buffers between the device and the work item that collects what the     *)
(* device has written, the interrupt handler, and the threads that start,  *)
(* stop, clear, suspend and release the queue and the port.                *)
(* A step is what a thread does under one lock or between two of them.     *)
(***************************************************************************)
EXTENDS PortProxy

CONSTANTS
    N,           \* MAX_RX_BUDGET, the length of the ring
    MaxWritten,  \* bound: number of messages of the modem
    MaxFailures, \* bound: number of buffers that cannot be allocated
    MaxRefs,     \* bound: references beyond which the queue is not suspended
    Disturbers   \* which of "exception", "reset", "sleep" and "exit" happen

ASSUME RxRingAssumption  == N \in Nat \ {0}
ASSUME RxBoundAssumption == {MaxWritten, MaxFailures, MaxRefs} \subseteq Nat

Slots == 0 .. N - 1
NULL  == N              \* no request: a pointer that is not set

VARIABLES
    \* struct cldma_queue and its ring
    skb, hwo,           \* of each request: it has a buffer, and GPD_FLAGS_HWO
    data,               \* the message the device has written, data_buff_len
    tr_done, rx_refill,
    \* cldma_work: whether it is queued, where it is, and its local variables
    pending, workPc, req, count, over_budget,
    barrier,            \* which run of the work flush_work() waits for
    rxq_active,
    \* the device's registers
    irqOn,              \* the interface's interrupt is enabled in the PCIe MAC
    hwOn,               \* DL_STATUS: the queue is active
    hwCur,              \* DL_CURRENT_ADDR
    rxInt,              \* L2RISAR0: "done" and "empty"
    masked,             \* L2RIMR0: both are masked
    isr,                \* the interrupt handler is at work
    ctl,                \* what the FSM and PM threads have done
    refs,               \* runtime-PM references taken by the interrupt handler
    written, failures,
    orderly             \* the ring has not been cleared or suspended out of turn

ringVars == <<skb, hwo, data, tr_done, rx_refill>>
workVars == <<pending, workPc, req, count, over_budget>>
hwVars   == <<hwOn, hwCur, rxInt>>
intVars  == <<irqOn, masked, isr>>
histVars == <<written, failures, orderly>>

vars == <<portVars, ringVars, workVars, barrier, rxq_active, hwVars, intVars, ctl, refs, histVars>>

WorkPcs == {"off", "take", "advance", "refill", "status", "decide", "again", "return"}
CtlPcs  == {"down", "join", "ports", "init", "up", "ex_stopped", "ex_flush", "ex_clear", "ex_reset",
            "stop_flush", "stopped", "reset", "asleep", "exit_join", "exit_ports", "exit_flush", "gone"}

RingTypeOK ==
    /\ skb \in [Slots -> BOOLEAN] /\ hwo \in [Slots -> BOOLEAN]
    /\ data \in [Slots -> 0 .. MaxWritten]
    /\ tr_done \in Slots \cup {NULL} /\ rx_refill \in Slots \cup {NULL}
WorkTypeOK ==
    /\ pending \in BOOLEAN /\ workPc \in WorkPcs /\ req \in Slots \cup {NULL}
    /\ count \in 0 .. N /\ over_budget \in BOOLEAN
    /\ refs \in Nat
DeviceTypeOK ==
    /\ hwOn \in BOOLEAN /\ hwCur \in Slots \cup {NULL} /\ rxInt \subseteq {"done", "empty"}
    /\ irqOn \in BOOLEAN /\ masked \in BOOLEAN /\ isr \in BOOLEAN
ThreadTypeOK ==
    /\ barrier \in {"none", "pending", "running", "done"} /\ rxq_active \in BOOLEAN
    /\ ctl \in CtlPcs
    /\ written \in 0 .. MaxWritten /\ failures \in 0 .. MaxFailures /\ orderly \in BOOLEAN

(* Every variable keeps its type; in particular no reference is put twice    *)
TypeOK == PortTypeOK /\ RingTypeOK /\ WorkTypeOK /\ DeviceTypeOK /\ ThreadTypeOK

(* After t7xx_cldma_init() and t7xx_port_proxy_init(): no ring and no port *)
Init ==
    /\ PortInit
    /\ skb = [i \in Slots |-> FALSE] /\ hwo = [i \in Slots |-> FALSE]
    /\ data = [i \in Slots |-> NoMsg]
    /\ tr_done = NULL /\ rx_refill = NULL
    /\ pending = FALSE /\ workPc = "off" /\ req = NULL /\ count = 0 /\ over_budget = FALSE
    /\ barrier = "none" /\ rxq_active = FALSE
    /\ hwOn = FALSE /\ hwCur = NULL /\ rxInt = {}
    /\ irqOn = FALSE /\ masked = TRUE /\ isr = FALSE
    /\ ctl = "down" /\ refs = 0
    /\ written = 0 /\ failures = 0 /\ orderly = TRUE
-----------------------------------------------------------------------------
Succ(i) == IF i = N - 1 THEN 0 ELSE i + 1        \* list_next_entry_circular()

(* How far it is round the ring from i to j *)
Dist(i, j) == IF j >= i THEN j - i ELSE j - i + N

(* History, not code: the messages in the ring, without the one the work     *)
(* item has just handed over                                                 *)
InRing == {data[i] : i \in {j \in Slots : ~(workPc = "advance" /\ j = req)}} \ {NoMsg}
-----------------------------------------------------------------------------
(* The device.                                                               *)

(* A queue whose next descriptor it does not own becomes inactive and says   *)
(* that it is empty                                                          *)
HwContinue(i) ==
    /\ hwCur' = i
    /\ hwOn' = hwo[i]
    /\ rxInt' = IF hwOn' THEN rxInt ELSE rxInt \cup {"empty"}

(* It writes a message into the buffer it stands at and goes on *)
HwWrite ==
    /\ hwOn /\ hwo[hwCur] /\ written < MaxWritten
    /\ written' = written + 1
    /\ data' = [data EXCEPT ![hwCur] = written']
    /\ hwo' = [hwo EXCEPT ![hwCur] = FALSE]
    /\ hwCur' = Succ(hwCur)
    /\ hwOn' = hwo'[hwCur']
    /\ rxInt' = rxInt \cup {"done"} \cup IF hwOn' THEN {} ELSE {"empty"}
    /\ UNCHANGED <<portVars, skb, tr_done, rx_refill, workVars, barrier, rxq_active, intVars, ctl, refs,
                   failures, orderly>>
-----------------------------------------------------------------------------
(* t7xx_cldma_isr_handler(), t7xx_cldma_irq_work_cb(): the interrupt of the  *)
(* interface is disabled, what is pending and not masked is acknowledged and *)
(* masked, a runtime-PM reference is taken and the work queued.  The         *)
(* interrupt may have been one of a transmit queue.                          *)
t7xx_cldma_irq_work_cb ==
    /\ ~isr /\ irqOn
    /\ isr' = TRUE /\ irqOn' = FALSE
    /\ IF masked \/ rxInt = {}
       THEN UNCHANGED <<rxInt, masked, refs, pending>>
       ELSE rxInt' = {} /\ masked' = TRUE /\ refs' = refs + 1 /\ pending' = TRUE
    /\ UNCHANGED <<portVars, ringVars, workPc, req, count, over_budget, barrier, rxq_active, hwOn, hwCur, ctl,
                   histVars>>

(* The interrupt is enabled again, whatever has happened to the interface *)
IsrEnd ==
    /\ isr
    /\ isr' = FALSE /\ irqOn' = TRUE
    /\ UNCHANGED <<portVars, ringVars, workVars, barrier, rxq_active, hwVars, masked, ctl, refs, histVars>>
-----------------------------------------------------------------------------
(* The work item: t7xx_cldma_rx_done().                                      *)

Goes(next) == workPc' = next

NotWork == UNCHANGED <<rxq_active, irqOn, isr, ctl, written>>

WorkBegin ==
    /\ pending /\ workPc = "off"
    /\ pending' = FALSE /\ Goes("take") /\ count' = 0 /\ over_budget' = FALSE
    /\ barrier' = IF barrier = "pending" THEN "running" ELSE barrier
    /\ NotWork
    /\ UNCHANGED <<portVars, ringVars, req, hwVars, masked, refs, failures, orderly>>

(* The request at tr_done holds a message *)
Written == ~hwo[tr_done] /\ skb[tr_done]

(* Nothing, or nothing more, to take: the queue was reset (-ENODATA), or the *)
(* device owns the request, be it that it stands there or that a hundred     *)
(* looks did not help.  That the device is gone (-ENODEV) is left out.       *)
WorkNothing ==
    /\ workPc = "take"
    /\ \/ tr_done = NULL /\ Goes("return")
       \/ tr_done # NULL /\ ~Written /\ Goes("status")
    /\ NotWork
    /\ UNCHANGED <<portVars, ringVars, pending, req, count, over_budget, barrier, hwVars, masked, refs, failures,
                   orderly>>

(* The proxy consumes the message or wants it again later (-ENOBUFS) *)
WorkTake ==
    /\ workPc = "take" /\ tr_done # NULL /\ Written
    /\ \/ /\ t7xx_port_proxy_recv_skb(data[tr_done])
          /\ req' = tr_done
          /\ Goes("advance")
       \/ /\ Refuses(data[tr_done])
          /\ Goes("decide")
          /\ UNCHANGED <<portVars, req>>
    /\ NotWork
    /\ UNCHANGED <<ringVars, pending, count, over_budget, barrier, hwVars, masked, refs, failures, orderly>>

WorkAdvance ==
    /\ workPc = "advance"
    /\ skb' = [skb EXCEPT ![req] = FALSE]
    /\ data' = [data EXCEPT ![req] = NoMsg]
    /\ tr_done' = Succ(req)
    /\ req' = NULL
    /\ Goes("refill")
    /\ NotWork
    /\ UNCHANGED <<portVars, hwo, rx_refill, pending, count, over_budget, barrier, hwVars, masked, refs, failures,
                   orderly>>

(* Faulty variant: the request just emptied is refilled, not the next in     *)
(* turn                                                                      *)
RefillInPlace ==
    LET last == IF tr_done = 0 THEN N - 1 ELSE tr_done - 1
    IN /\ skb' = [skb EXCEPT ![last] = TRUE]
       /\ hwo' = [hwo EXCEPT ![last] = TRUE]
       /\ rx_refill' = Succ(last)

(* t7xx_cldma_alloc_and_map_skb() has succeeded *)
Refill ==
    /\ skb' = [skb EXCEPT ![rx_refill] = TRUE]
    /\ hwo' = [hwo EXCEPT ![rx_refill] = TRUE]
    /\ rx_refill' = Succ(rx_refill)

(* Faulty variant: the budget is smaller than the ring *)
BudgetSmall == TRUE

(* The round ends if the processor is wanted (need_resched()) and as many    *)
(* messages have been taken as the ring is long                              *)
BudgetUsed == count + 1 >= N

(* Without memory (-ENOMEM) rx_refill stays where it is *)
WorkRefill ==
    /\ workPc = "refill" /\ rx_refill # NULL
    /\ \/ /\ Refill
          /\ count' = IF count < N THEN count + 1 ELSE N
          /\ \/ Goes("take") /\ UNCHANGED over_budget
             \/ BudgetUsed /\ Goes("status") /\ over_budget' = TRUE
          /\ UNCHANGED failures
       \/ /\ failures < MaxFailures
          /\ failures' = failures + 1
          /\ Goes("decide")
          /\ UNCHANGED <<skb, hwo, rx_refill, count, over_budget>>
    /\ NotWork
    /\ UNCHANGED <<portVars, data, tr_done, pending, req, barrier, hwVars, masked, refs, orderly>>

(* Under cldma_lock: a queue that stands still is resumed; what has happened *)
(* meanwhile is acknowledged and looked at, at once or, the budget being     *)
(* used up (-EAGAIN), in another run                                         *)
WorkStatus ==
    /\ workPc = "status"
    /\ \/ ~rxq_active /\ UNCHANGED hwVars /\ Goes("return")
       \/ /\ rxq_active
          /\ LET starved == ~hwOn /\ ~hwo[hwCur]
                 ints    == rxInt \cup IF starved THEN {"empty"} ELSE {}
             IN Goes(IF ints = {} THEN "return" ELSE IF over_budget THEN "decide" ELSE "take")
          /\ hwOn' = hwo[hwCur] /\ rxInt' = {} /\ UNCHANGED hwCur
    /\ count' = 0
    /\ NotWork
    /\ UNCHANGED <<portVars, ringVars, pending, req, over_budget, barrier, masked, refs, failures, orderly>>

(* t7xx_cldma_gpd_rx_collect() has returned an error *)
WorkDecide ==
    /\ workPc = "decide"
    /\ Goes(IF rxq_active THEN "again" ELSE "return")
    /\ NotWork
    /\ UNCHANGED <<portVars, ringVars, pending, req, count, over_budget, barrier, hwVars, masked, refs, failures,
                   orderly>>

BarrierPassed == barrier' = IF barrier = "running" THEN "done" ELSE barrier

(* Faulty variant: a work that queues itself again puts its reference *)
AgainPuts == pending' = TRUE /\ refs' = refs - 1 /\ UNCHANGED masked

(* The work is queued again and keeps its reference *)
Again == pending' = TRUE /\ UNCHANGED <<masked, refs>>

(* The interrupts are unmasked and the reference is put *)
Return == masked' = FALSE /\ refs' = refs - 1 /\ UNCHANGED pending

WorkEnd ==
    /\ \/ workPc = "again" /\ Again
       \/ workPc = "return" /\ Return
    /\ Goes("off") /\ count' = 0 /\ over_budget' = FALSE
    /\ BarrierPassed
    /\ NotWork
    /\ UNCHANGED <<portVars, ringVars, req, hwVars, failures, orderly>>

Work ==
    \/ WorkBegin \/ WorkNothing \/ WorkTake \/ WorkAdvance \/ WorkRefill \/ WorkStatus \/ WorkDecide
    \/ WorkEnd
-----------------------------------------------------------------------------
(* The threads that control the interface and the port, one at a time.       *)

NotControl == UNCHANGED <<workPc, req, count, over_budget, isr, refs, written>>

NoRing ==
    /\ skb' = [i \in Slots |-> FALSE] /\ hwo' = [i \in Slots |-> FALSE]
    /\ data' = [i \in Slots |-> NoMsg]

(* t7xx_cldma_q_reset() *)
t7xx_cldma_q_reset == tr_done' = 0 /\ rx_refill' = 0

(* t7xx_cldma_rx_ring_init(): every request has a buffer and is the device's *)
t7xx_cldma_rx_ring_init ==
    /\ skb' = [i \in Slots |-> TRUE] /\ hwo' = [i \in Slots |-> TRUE]
    /\ data' = [i \in Slots |-> NoMsg]

(* The modem has booted: t7xx_cldma_hif_hw_init(), and the first half of     *)
(* t7xx_port_proxy_set_cfg()                                                 *)
t7xx_port_proxy_set_cfg ==
    /\ ctl = "down" /\ ctl' = "join"
    /\ masked' = TRUE /\ rxInt' = {}
    /\ UninitStops
    /\ NotControl
    /\ UNCHANGED <<ringVars, pending, barrier, rxq_active, hwOn, hwCur, irqOn, failures, orderly>>

(* Its second half.  That no thread can be made is left out. *)
t7xx_proxy_init_all_ports ==
    /\ ctl = "join" /\ ctl' = "ports"
    /\ port_ctl_init
    /\ NotControl
    /\ UNCHANGED <<ringVars, pending, barrier, rxq_active, hwVars, irqOn, masked, failures, orderly>>

(* The handshake: the ring is released and made anew.  That its allocation   *)
(* fails, of which nobody is told, is left out.                              *)
t7xx_cldma_switch_cfg ==
    /\ ctl = "ports" /\ ctl' = "init"
    /\ t7xx_cldma_rx_ring_init /\ t7xx_cldma_q_reset
    /\ orderly' = (workPc = "off")
    /\ NotControl
    /\ UNCHANGED <<portVars, pending, barrier, rxq_active, hwVars, irqOn, masked, failures>>

(* What t7xx_cldma_start() and t7xx_cldma_resume_early() have in common: the *)
(* device starts at the request that is to be collected next                 *)
StartRx ==
    /\ HwContinue(tr_done)
    /\ irqOn' = TRUE /\ masked' = FALSE /\ rxq_active' = TRUE

(* t7xx_cldma_start(), by the handshake or the last stage of an exception *)
Start ==
    /\ ctl \in {"init", "ex_reset"} /\ ctl' = "up"
    /\ StartRx
    /\ NotControl
    /\ UNCHANGED <<portVars, ringVars, pending, barrier, failures, orderly>>

(* t7xx_cldma_stop_all_qs(MTK_RX), in the third stage of an exception *)
ExStopRx ==
    /\ ctl = "up" /\ "exception" \in Disturbers /\ ctl' = "ex_stopped"
    /\ masked' = TRUE /\ rxq_active' = FALSE /\ hwOn' = FALSE
    /\ NotControl
    /\ UNCHANGED <<portVars, ringVars, pending, barrier, hwCur, rxInt, irqOn, failures, orderly>>

(* t7xx_cldma_stop() up to its flush_work(), in an exception, when the FSM   *)
(* stops and when the driver is removed. It takes no lock, and a work could   *)
(* resume the queue between its assignments; here it is one step.            *)
t7xx_cldma_stop ==
    /\ \/ ctl = "ex_stopped" /\ ctl' = "ex_flush"
       \/ ctl \in {"up", "asleep"} /\ "reset" \in Disturbers /\ ctl' = "stop_flush"
       \/ ctl = "exit_ports" /\ ctl' = "exit_flush"
    /\ barrier' = IF pending THEN "pending" ELSE IF workPc # "off" THEN "running" ELSE "done"
    /\ rxq_active' = FALSE
    /\ hwOn' = FALSE /\ rxInt' = {}
    /\ irqOn' = FALSE /\ masked' = TRUE
    /\ NotControl
    /\ UNCHANGED <<portVars, ringVars, pending, hwCur, failures, orderly>>

(* flush_work() has returned: the run that was queued last is over, another  *)
(* may have been queued since.  On removal t7xx_cldma_late_release() follows *)
Flushed ==
    /\ barrier = "done" /\ barrier' = "none"
    /\ \/ ctl = "ex_flush" /\ ctl' = "ex_clear" /\ UNCHANGED <<ringVars, orderly>>
       \/ ctl = "stop_flush" /\ ctl' = "stopped" /\ UNCHANGED <<ringVars, orderly>>
       \/ /\ ctl = "exit_flush" /\ ctl' = "gone"
          /\ NoRing /\ orderly' = FALSE
          /\ UNCHANGED <<tr_done, rx_refill>>
    /\ NotControl
    /\ UNCHANGED <<portVars, pending, rxq_active, hwVars, irqOn, masked, failures>>

(* t7xx_cldma_clear_rxq(): every request is given to the device, the missing *)
(* buffers are allocated                                                     *)
t7xx_cldma_clear_rxq == t7xx_cldma_rx_ring_init /\ t7xx_cldma_q_reset /\ UNCHANGED failures

(* An allocation fails: nobody looks at the result, and the device owns      *)
(* requests without a buffer                                                 *)
ClearFails(i) ==
    /\ ~skb[i] /\ failures < MaxFailures
    /\ failures' = failures + 1
    /\ hwo' = [j \in Slots |-> TRUE] /\ data' = [j \in Slots |-> NoMsg]
    /\ skb' = [j \in Slots |-> skb[j] \/ j < i]
    /\ t7xx_cldma_q_reset

ExClearRx ==
    /\ ctl = "ex_clear" /\ ctl' = "ex_reset"
    /\ \/ t7xx_cldma_clear_rxq /\ orderly' = (orderly /\ workPc = "off")
       \/ \E i \in Slots : ClearFails(i) /\ orderly' = FALSE
    /\ NotControl
    /\ UNCHANGED <<portVars, pending, barrier, rxq_active, hwVars, irqOn, masked>>

(* t7xx_cldma_reset() up to cancel_work_sync() *)
ResetBegin ==
    /\ ctl = "stopped" /\ ctl' = "reset"
    /\ rxq_active' = FALSE /\ irqOn' = FALSE
    /\ NotControl
    /\ UNCHANGED <<portVars, ringVars, pending, barrier, hwVars, masked, failures, orderly>>

(* The rest of it, and the reset of the device that follows *)
ResetQueue ==
    /\ ctl = "reset" /\ workPc = "off" /\ ctl' = "down"
    /\ pending' = FALSE
    /\ NoRing /\ tr_done' = NULL /\ rx_refill' = NULL
    /\ hwOn' = FALSE /\ hwCur' = NULL /\ rxInt' = {} /\ masked' = TRUE
    /\ NotControl
    /\ UNCHANGED <<portVars, barrier, rxq_active, irqOn, failures, orderly>>

(* What is written and not collected when the queue is suspended is passed   *)
(* over by the device when it is resumed                                     *)
t7xx_cldma_suspend_late ==
    /\ ctl = "up" /\ "sleep" \in Disturbers /\ refs <= MaxRefs /\ ctl' = "asleep"
    /\ masked' = TRUE /\ rxq_active' = FALSE /\ hwOn' = FALSE /\ irqOn' = FALSE
    /\ orderly' = (orderly /\ InRing = {} /\ workPc # "advance")
    /\ NotControl
    /\ UNCHANGED <<portVars, ringVars, pending, barrier, hwCur, rxInt, failures>>

t7xx_cldma_resume_early ==
    /\ ctl = "asleep" /\ ctl' = "up"
    /\ StartRx
    /\ NotControl
    /\ UNCHANGED <<portVars, ringVars, pending, barrier, failures, orderly>>

(* t7xx_md_exit() takes the ports away before it stops the interface *)
ExitBegin ==
    /\ ctl = "up" /\ "exit" \in Disturbers /\ ctl' = "exit_join"
    /\ UninitStops
    /\ NotControl
    /\ UNCHANGED <<ringVars, pending, barrier, rxq_active, hwVars, irqOn, masked, failures, orderly>>

ExitPurges ==
    /\ ctl = "exit_join" /\ ctl' = "exit_ports"
    /\ UninitPurges
    /\ NotControl
    /\ UNCHANGED <<ringVars, pending, barrier, rxq_active, hwVars, irqOn, masked, failures, orderly>>

Control ==
    \/ t7xx_port_proxy_set_cfg \/ t7xx_proxy_init_all_ports \/ t7xx_cldma_switch_cfg \/ Start
    \/ ExStopRx \/ t7xx_cldma_stop \/ Flushed \/ ExClearRx \/ ResetBegin \/ ResetQueue
    \/ t7xx_cldma_suspend_late \/ t7xx_cldma_resume_early \/ ExitBegin \/ ExitPurges
-----------------------------------------------------------------------------
PortThread ==
    /\ Thread
    /\ UNCHANGED <<ringVars, workVars, barrier, rxq_active, hwVars, intVars, ctl, refs, histVars>>

Next == HwWrite \/ t7xx_cldma_irq_work_cb \/ IsrEnd \/ Work \/ Control \/ PortThread

(* Interrupts are handled, the work queue and the port's thread run; the     *)
(* send of an answer returns.  Nothing makes the modem write or the          *)
(* controlling threads act.                                                  *)
Spec ==
    /\ Init /\ [][Next]_vars
    /\ WF_vars(t7xx_cldma_irq_work_cb) /\ WF_vars(IsrEnd) /\ WF_vars(Work) /\ WF_vars(PortThread)
-----------------------------------------------------------------------------
(* Properties.                                                               *)

(* Requests without a buffer are those from rx_refill up to tr_done: refills *)
(* that failed are in arrears, no buffer is forgotten and none overwritten.  *)
(* What the device owns has an empty buffer, however collecting, clearing in *)
(* an exception and suspending interleave.                                   *)
Gap == Dist(rx_refill, tr_done)

InGap(i) == Dist(rx_refill, i) < Gap

RingIntact ==
    orderly /\ tr_done # NULL =>
        /\ \A i \in Slots :
            /\ hwo[i] => skb[i] /\ data[i] = NoMsg
            /\ data[i] # NoMsg => skb[i]
        /\ \/ \A i \in Slots : skb[i] <=> ~InGap(i)
           \/ Gap = 0 /\ \A i \in Slots : ~skb[i]

(* The work item has a runtime-PM reference for each time it is queued or    *)
(* runs                                                                      *)
WorkHoldsPower == refs >= (IF pending THEN 1 ELSE 0) + (IF workPc # "off" THEN 1 ELSE 0)

Open == ctl \in {"up", "asleep"}

Channel == INSTANCE ReceiveChannel
           WITH under <- (InRing \cup AtPort) \ Strays, open <- Open

(* While the interface is up, messages are handled in the order the modem    *)
(* has written them, none twice and none left out, though the port may       *)
(* refuse them and buffers may run short                                     *)
InOrder == Channel!Spec

(* Whatever is under way is handled in the end - the modem writes finitely   *)
(* many messages - unless the interface is stopped or suspended: the port    *)
(* that refuses a message for want of room gets it again, and no interrupt   *)
(* is lost between the work item's last look and its unmasking               *)
Served == InRing \cup AtPort # {} ~> InRing \cup AtPort = {} \/ ctl # "up" \/ ~orderly
=============================================================================
