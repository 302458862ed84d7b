----------------------------- MODULE DpmaifNapi -----------------------------
(***************************************************************************)
(* How received packets are fetched: one receive queue of the data path    *)
(* with its NAPI instance (t7xx_hif_dpmaif_rx.c, t7xx_hif_dpmaif.c,        *)
(* t7xx_netdev.c).  The interrupt handler schedules polls, polls run in    *)
(* softirqs and take the deep-sleep lock, the interface is opened and      *)
(* closed, the FSM thread stops and starts the data path, and the device   *)
(* is suspended.  The two queues are alike and share the lock, of which    *)
(* the BAT work is another user here.                                      *)
(***************************************************************************)
EXTENDS T7xxSleepLock, FiniteSets

CONSTANTS
    CPUs,        \* processors that run softirqs
    Budget,      \* the budget of a poll
    MaxPackets,  \* bound: number of packets received
    MaxRefs,     \* bound: with so many references held, nobody opens or starts
    MaxDisturbances, \* bound: number of closes, stops and system sleeps
    Disturbers   \* which of "close", "stop", "system" (sleep) and "bad" (packets) happen

ASSUME NapiCpusAssumption  == IsFiniteSet(CPUs) /\ "none" \notin CPUs
ASSUME NapiBoundAssumption == /\ Budget \in Nat \ {0}
                              /\ {MaxPackets, MaxRefs, MaxDisturbances} \subseteq Nat

Threads == {"user", "fsm"}

VARIABLES
    \* struct napi_struct
    sched, missed, disabling,   \* NAPI_STATE_SCHED, _MISSED and _DISABLE
    listed,        \* the processor on whose poll list it is
    \* struct dpmaif_rx_queue
    que_started, rx_processing, sleep_lock_pending,
    \* the device: packets in the ring, of which the last may not be written
    \* yet, and the interrupt of the queue
    data, late, received, done, masked,
    irqOn,         \* DPMAIF_INT is enabled in the PCIe MAC
    \* struct dpmaif_ctrl, struct t7xx_ccmni_ctrl
    powered,       \* the state is DPMAIF_STATE_PWRON
    is_napi_en, napi_usr_refcnt,
    refs,          \* runtime-PM references held for polls and the BAT work
    \* threads
    pollPc, irqPc, batQueued, batPc,
    pc,            \* the thread that opens and closes, and the FSM thread
    pm,            \* whether the device is active, and which kind of sleep it goes to
    disturbances,  \* closes, stops and system sleeps so far, for the bound
    \* history, for the properties
    stranded,      \* an error made a poll leave packets that nothing signals
    orderly        \* who uses the deep-sleep lock has asked for it and has a count

napiVars  == <<sched, missed, disabling, listed>>
queueVars == <<que_started, rx_processing, sleep_lock_pending>>
ringVars  == <<data, late, stranded>>
devVars   == <<ringVars, received, done, masked>>
pathVars  == <<powered, is_napi_en, napi_usr_refcnt>>
batVars   == <<batQueued, batPc>>

useVars   == <<countVars, orderly>>

vars ==
    <<lockVars, napiVars, queueVars, devVars, irqOn, pathVars, refs, pollPc, irqPc, batVars, pc, pm,
      orderly, disturbances>>

PollPcs == {"idle", "begin", "try", "again", "collect", "full", "complete", "unmask", "unlock",
            "put"}
IrqPcs  == {"off", "read", "get", "schedule", "end"}
BatPcs  == {"off", "wait", "use"}
CtlPcs  == {"idle", "enable", "get", "on", "schedule", "disable", "sync", "off", "wait",
            "rx_stop", "rx_mark", "rx_clear", "post", "oops"}
PmStates == [at : {"active", "stopping", "marking", "asleep"}, kind : {"runtime", "system"}]

NapiTypeOK ==
    /\ sched \in BOOLEAN /\ missed \in BOOLEAN /\ disabling \in BOOLEAN
    /\ listed \in CPUs \cup {"none"}
QueueTypeOK == que_started \in BOOLEAN /\ rx_processing \in BOOLEAN /\ sleep_lock_pending \in BOOLEAN
DeviceTypeOK ==
    /\ late \in BOOLEAN /\ stranded \in BOOLEAN
    /\ done \in BOOLEAN /\ masked \in BOOLEAN /\ irqOn \in BOOLEAN
    /\ data \in Int /\ received \in 0 .. MaxPackets
PathTypeOK == powered \in BOOLEAN /\ is_napi_en \in BOOLEAN /\ napi_usr_refcnt \in 0 .. 1
ThreadTypeOK ==
    /\ pollPc \in [CPUs -> PollPcs] /\ irqPc \in IrqPcs
    /\ batQueued \in BOOLEAN /\ batPc \in BatPcs
    /\ pc \in [Threads -> CtlPcs] /\ pm \in PmStates

HistoryTypeOK == orderly \in BOOLEAN /\ disturbances \in 0 .. MaxDisturbances

(* Every variable keeps its type; in particular no poll and no work gives    *)
(* back a runtime-PM reference that was not taken                            *)
TypeOK ==
    /\ LockTypeOK /\ NapiTypeOK /\ QueueTypeOK /\ DeviceTypeOK /\ PathTypeOK /\ ThreadTypeOK
    /\ HistoryTypeOK /\ refs \in Nat

(* The modem is ready and the interface has not been opened. netif_napi_add() *)
(* leaves the instance disabled.                                             *)
Init ==
    /\ LockInit
    /\ sched = TRUE /\ missed = FALSE /\ disabling = FALSE /\ listed = "none"
    /\ que_started = TRUE /\ rx_processing = FALSE /\ sleep_lock_pending = FALSE
    /\ data = 0 /\ late = FALSE /\ received = 0 /\ done = FALSE /\ masked = FALSE /\ irqOn = TRUE
    /\ stranded = FALSE /\ orderly = TRUE /\ disturbances = 0
    /\ powered = TRUE /\ is_napi_en = FALSE /\ napi_usr_refcnt = 0 /\ refs = 0
    /\ pollPc = [c \in CPUs |-> "idle"] /\ irqPc = "off" /\ batQueued = FALSE /\ batPc = "off"
    /\ pc = [t \in Threads |-> "idle"]
    /\ pm = [at |-> "active", kind |-> "runtime"]
-----------------------------------------------------------------------------
(* The kernel's side.                                                        *)

(* napi_schedule(); softirqs it raises run on processor c *)
napi_schedule(c) ==
    /\ sched' = (sched \/ ~disabling)
    /\ missed' = (missed \/ (sched /\ ~disabling))
    /\ listed' = IF (sched \/ disabling) THEN listed ELSE c
    /\ UNCHANGED disabling

(* napi_complete_done(): what was missed is scheduled at once *)
napi_complete_done(c) ==
    /\ sched' = missed /\ missed' = FALSE
    /\ listed' = IF missed THEN c ELSE "none"
    /\ UNCHANGED disabling

(* One of the events that the bound counts *)
Disturbs(what) ==
    /\ what \in Disturbers
    /\ disturbances < MaxDisturbances /\ disturbances' = disturbances + 1

(* pm_runtime_resume_and_get(): it waits for the device to be active, except *)
(* in a system sleep, in which the device stays active for runtime PM        *)
pm_runtime_resume_and_get ==
    /\ pm.at = "active" \/ pm.kind = "system"
    /\ refs' = refs + 1

(* Where a poll has counted itself, or relies on the count of an earlier one *)
Trying == {"try", "again"}
Locked == {"collect", "full", "complete", "unmask", "unlock"}

(* Nobody uses the lock or waits for it, and nothing is left of earlier uses *)
LockUnused ==
    /\ sleep_disable_count = 0 /\ ~sleep_lock_pending /\ ~dsLock /\ ~dsAck
    /\ batPc = "off" /\ \A c \in CPUs : pollPc[c] \notin Trying \cup Locked

(* t7xx_pci_disable_sleep(), with its history: while the device is not       *)
(* resumed it completes without asking the device                            *)
TakesLock ==
    /\ t7xx_pci_disable_sleep
    /\ orderly' = (resumed /\ (orderly \/ LockUnused))
-----------------------------------------------------------------------------
(* t7xx_dpmaif_napi_rx_poll().                                               *)

Goes(c, next) == pollPc' = [pollPc EXCEPT ![c] = next]

NotPolls == UNCHANGED <<resumed, awake, dsAck, que_started, irqOn, pathVars, irqPc, batPc, pc, pm,
                        disturbances>>

PollBegin(c) ==
    /\ listed = c /\ pollPc[c] = "idle"
    /\ Goes(c, "begin")
    /\ listed' = "none" /\ rx_processing' = TRUE
    /\ NotPolls
    /\ UNCHANGED <<useVars, sched, missed, disabling, sleep_lock_pending, devVars, refs, batQueued>>

(* A poll that finds the queue stopped returns without napi_complete_done() *)
PollStopped(c) ==
    /\ pollPc[c] = "begin" /\ ~que_started
    /\ Goes(c, "idle")
    /\ rx_processing' = FALSE /\ refs' = refs - 1
    /\ NotPolls
    /\ UNCHANGED <<useVars, napiVars, sleep_lock_pending, devVars, batQueued>>

(* The poll counts itself, unless an earlier one has been told to come again. *)
(* On another processor that one may still be about to, and then relies on    *)
(* the same count.                                                           *)
PollLock(c) ==
    /\ pollPc[c] = "begin" /\ que_started
    /\ Goes(c, "try")
    /\ IF sleep_lock_pending
       THEN UNCHANGED countVars /\ orderly' = (orderly /\ \A d \in CPUs : pollPc[d] \notin Trying)
       ELSE TakesLock
    /\ NotPolls
    /\ UNCHANGED <<napiVars, rx_processing, sleep_lock_pending, devVars, refs, batQueued>>

PollAcquired(c) ==
    /\ pollPc[c] = "try" /\ sleep_lock_acquire
    /\ Goes(c, "collect")
    /\ sleep_lock_pending' = FALSE
    /\ NotPolls
    /\ UNCHANGED <<useVars, napiVars, rx_processing, devVars, refs, batQueued>>

PollNotYet(c) ==
    /\ pollPc[c] = "try" /\ ~sleep_lock_acquire
    /\ Goes(c, "again")
    /\ napi_complete_done(c)
    /\ NotPolls
    /\ UNCHANGED <<useVars, rx_processing, sleep_lock_pending, devVars, refs, batQueued>>

(* Faulty variant: the reference is put although another poll is scheduled *)
PollAgainPuts(c) ==
    /\ pollPc[c] = "again"
    /\ Goes(c, "idle")
    /\ sleep_lock_pending' = TRUE /\ refs' = refs - 1
    /\ napi_schedule(c)
    /\ NotPolls
    /\ UNCHANGED <<useVars, rx_processing, devVars, batQueued>>

PollAgain(c) ==
    /\ pollPc[c] = "again"
    /\ Goes(c, "idle")
    /\ sleep_lock_pending' = TRUE
    /\ napi_schedule(c)
    /\ NotPolls
    /\ UNCHANGED <<useVars, rx_processing, devVars, refs, batQueued>>

(* How many packets a poll can fetch, and whether it comes to one that is     *)
(* announced and not written (once_more)                                     *)
Fetchable == LET there == IF late THEN data - 1 ELSE data
             IN IF ~que_started THEN 0 ELSE IF there < Budget THEN there ELSE Budget
MeetsLate == que_started /\ late /\ Fetchable < Budget

(* t7xx_dpmaif_napi_rx_data_collect() until nothing is left, the budget is   *)
(* used up, or a packet is not written yet (bound: once found, it is written *)
(* at once). It queues the BAT work, unless it gave up on a packet.          *)
CollectAll(c) ==
    /\ data' = data - Fetchable
    /\ late' = (late /\ ~MeetsLate) /\ done' = (done \/ MeetsLate)
    /\ stranded' = (stranded /\ ~MeetsLate /\ data > Fetchable)
    /\ batQueued' = (batQueued \/ (Fetchable > 0 /\ ~MeetsLate))
    /\ Goes(c, IF MeetsLate \/ Fetchable = Budget THEN "full" ELSE "complete")

(* The same with an error: the last packet of the round has no payload, or    *)
(* giving back PITs fails, for which rounds stop anywhere. The poll then      *)
(* completes whatever is left, and a round that got no notify queues no work. *)
CollectFails(c) ==
    /\ "bad" \in Disturbers
    /\ \E taken \in 1 .. Fetchable :
          /\ data' = data - taken
          /\ stranded' = (stranded \/ (data > taken /\ ~done))
          /\ batQueued' \in IF taken = Fetchable /\ ~MeetsLate THEN {batQueued, TRUE} ELSE {TRUE}
    /\ Goes(c, "complete")
    /\ UNCHANGED <<late, done>>

PollCollect(c) ==
    /\ pollPc[c] = "collect"
    /\ CollectAll(c) \/ CollectFails(c)
    /\ NotPolls
    /\ UNCHANGED <<useVars, napiVars, rx_processing, sleep_lock_pending, received, masked, refs>>

(* A poll that returns its whole budget is polled again, unless the instance *)
(* is being disabled                                                         *)
PollFull(c) ==
    /\ pollPc[c] = "full"
    /\ Goes(c, "idle")
    /\ IF disabling THEN napi_complete_done(c)
                    ELSE listed' = c /\ UNCHANGED <<sched, missed, disabling>>
    /\ NotPolls
    /\ UNCHANGED <<useVars, rx_processing, sleep_lock_pending, devVars, refs, batQueued>>

PollComplete(c) ==
    /\ pollPc[c] = "complete"
    /\ Goes(c, "unmask")
    /\ napi_complete_done(c)
    /\ NotPolls
    /\ UNCHANGED <<useVars, rx_processing, sleep_lock_pending, devVars, refs, batQueued>>

(* Faulty variant: what has been signalled meanwhile is cleared *)
PollUnmaskClears(c) ==
    /\ pollPc[c] = "unmask"
    /\ Goes(c, "unlock")
    /\ masked' = FALSE /\ done' = FALSE
    /\ NotPolls
    /\ UNCHANGED <<useVars, napiVars, rx_processing, sleep_lock_pending, ringVars, received, refs,
                   batQueued>>

PollUnmask(c) ==
    /\ pollPc[c] = "unmask"
    /\ Goes(c, "unlock")
    /\ masked' = FALSE
    /\ NotPolls
    /\ UNCHANGED <<useVars, napiVars, rx_processing, sleep_lock_pending, ringVars, received, done,
                   refs, batQueued>>

PollUnlock(c) ==
    /\ pollPc[c] = "unlock"
    /\ Goes(c, "put")
    /\ t7xx_pci_enable_sleep /\ UNCHANGED orderly
    /\ NotPolls
    /\ UNCHANGED <<napiVars, rx_processing, sleep_lock_pending, devVars, refs, batQueued>>

PollPut(c) ==
    /\ pollPc[c] = "put"
    /\ Goes(c, "idle")
    /\ refs' = refs - 1 /\ rx_processing' = FALSE
    /\ NotPolls
    /\ UNCHANGED <<useVars, napiVars, sleep_lock_pending, devVars, batQueued>>

Poll(c) ==
    \/ PollBegin(c) \/ PollStopped(c)
    \/ PollLock(c) \/ PollAcquired(c) \/ PollNotYet(c) \/ PollAgain(c)
    \/ PollCollect(c) \/ PollFull(c)
    \/ PollComplete(c) \/ PollUnmask(c) \/ PollUnlock(c) \/ PollPut(c)
-----------------------------------------------------------------------------
(* The device and the interrupt of the queue.                                *)

NotDevice == UNCHANGED <<queueVars, pathVars, pollPc, batVars, pc, pm, disturbances>>

(* A packet: the device moves its write index, then the packet gets written *)
(* and the interrupt is raised                                               *)
DeviceReceives ==
    /\ powered /\ pm.at = "active" /\ ~late
    /\ received < MaxPackets /\ received' = received + 1
    /\ data' = data + 1
    /\ late' \in BOOLEAN
    /\ done' = (done \/ ~late') /\ stranded' = (stranded /\ late')
    /\ awake' = TRUE
    /\ NotDevice /\ UNCHANGED <<resumed, useVars, dsAck, napiVars, masked, irqOn, refs, irqPc>>

DeviceWrites ==
    /\ late
    /\ late' = FALSE /\ done' = TRUE /\ stranded' = FALSE
    /\ NotDevice
    /\ UNCHANGED <<lockVars, orderly, napiVars, data, received, masked, irqOn, refs, irqPc>>

Device ==
    /\ DeviceSleeps \/ DeviceLocks \/ LockAcknowledged
    /\ UNCHANGED orderly
    /\ NotDevice /\ UNCHANGED <<napiVars, devVars, irqOn, refs, irqPc>>

(* The handler; the queue shares it with interrupts that are left out *)
t7xx_dpmaif_isr_handler ==
    /\ irqPc = "off" /\ irqOn /\ done /\ ~masked /\ powered
    /\ irqPc' = "read" /\ irqOn' = FALSE
    /\ NotDevice /\ UNCHANGED <<lockVars, orderly, napiVars, devVars, refs>>

(* t7xx_dpmaif_hw_get_intr_cnt(); that masking the interrupt may fail is left *)
(* out                                                                       *)
t7xx_dpmaif_hw_get_intr_cnt ==
    /\ irqPc = "read"
    /\ IF done /\ ~masked
       THEN irqPc' = "get" /\ masked' = TRUE /\ done' = FALSE
       ELSE irqPc' = "end" /\ UNCHANGED <<masked, done>>
    /\ NotDevice /\ UNCHANGED <<lockVars, orderly, napiVars, ringVars, received, irqOn, refs>>

(* Faulty variant: no reference is taken if a poll is scheduled anyhow *)
IrqGetSkips ==
    /\ irqPc = "get"
    /\ irqPc' = "schedule"
    /\ IF sched THEN UNCHANGED refs ELSE pm_runtime_resume_and_get
    /\ NotDevice /\ UNCHANGED <<lockVars, orderly, napiVars, devVars, irqOn>>

(* t7xx_dpmaif_irq_rx_done(); a device that cannot be resumed is left out *)
IrqGet ==
    /\ irqPc = "get"
    /\ irqPc' = "schedule"
    /\ pm_runtime_resume_and_get
    /\ NotDevice /\ UNCHANGED <<lockVars, orderly, napiVars, devVars, irqOn>>

IrqSchedule(c) ==
    /\ irqPc = "schedule"
    /\ irqPc' = "end"
    /\ napi_schedule(c)
    /\ NotDevice /\ UNCHANGED <<lockVars, orderly, devVars, irqOn, refs>>

IrqEnd ==
    /\ irqPc = "end"
    /\ irqPc' = "off" /\ irqOn' = TRUE
    /\ NotDevice /\ UNCHANGED <<lockVars, orderly, napiVars, devVars, refs>>

Interrupt ==
    \/ t7xx_dpmaif_isr_handler \/ t7xx_dpmaif_hw_get_intr_cnt \/ IrqGet \/ IrqEnd
    \/ \E c \in CPUs : IrqSchedule(c)
-----------------------------------------------------------------------------
(* t7xx_dpmaif_bat_release_work(), as a user of the lock                     *)

NotBat == UNCHANGED <<resumed, awake, dsAck, napiVars, queueVars, devVars, irqOn, pathVars, pollPc,
                      irqPc, pc, pm, disturbances>>

BatLock ==
    /\ batQueued /\ batPc = "off"
    /\ batQueued' = FALSE /\ batPc' = "wait"
    /\ pm_runtime_resume_and_get /\ TakesLock
    /\ NotBat

BatAcquired ==
    /\ batPc = "wait"
    /\ sleep_lock_acquire
    /\ batPc' = "use"
    /\ NotBat /\ UNCHANGED <<useVars, batQueued, refs>>

BatUnlock ==
    /\ batPc = "use"
    /\ batPc' = "off"
    /\ refs' = refs - 1 /\ t7xx_pci_enable_sleep /\ UNCHANGED orderly
    /\ NotBat /\ UNCHANGED batQueued

Bat == BatLock \/ BatAcquired \/ BatUnlock
-----------------------------------------------------------------------------
(* Suspend and resume.                                                       *)

NotPm == UNCHANGED <<useVars, napiVars, rx_processing, sleep_lock_pending, ringVars, received, done,
                     pathVars, refs, pollPc, irqPc, batVars, pc>>

(* t7xx_dpmaif_suspend() up to t7xx_dpmaif_rx_stop(). The device is          *)
(* suspended at run time only if nobody holds a reference.                   *)
Suspend ==
    /\ pm.at = "active"
    /\ \/ /\ refs = 0 /\ UNCHANGED disturbances
          /\ pm' = [at |-> "stopping", kind |-> "runtime"]
       \/ /\ Disturbs("system")
          /\ pm' = [at |-> "stopping", kind |-> "system"]
    /\ resumed' = FALSE /\ irqOn' = FALSE
    /\ awake' \in {awake, TRUE}
    /\ NotPm /\ UNCHANGED <<dsAck, que_started, masked>>

(* t7xx_dpmaif_rx_stop() waits for a poll at work, then marks the queue. That *)
(* it gives up after 100 ms is left out.                                     *)
SuspendWait ==
    /\ pm.at = "stopping" /\ ~rx_processing
    /\ pm' = [pm EXCEPT !.at = "marking"]
    /\ NotPm /\ UNCHANGED <<resumed, awake, dsAck, que_started, irqOn, masked, disturbances>>

SuspendMark ==
    /\ pm.at = "marking"
    /\ que_started' = FALSE
    /\ pm' = [pm EXCEPT !.at = "asleep"]
    /\ NotPm /\ UNCHANGED <<resumed, awake, dsAck, irqOn, masked, disturbances>>

(* t7xx_dpmaif_resume() *)
Resume ==
    /\ pm.at = "asleep"
    /\ pm' = [pm EXCEPT !.at = "active"]
    /\ que_started' = TRUE /\ irqOn' = TRUE /\ masked' = FALSE
    /\ resumed' = TRUE /\ awake' = TRUE
    /\ NotPm /\ UNCHANGED <<dsAck, disturbances>>
-----------------------------------------------------------------------------
(* The interface is opened and closed, and the FSM thread stops and starts   *)
(* the data path. Both enable and disable NAPI.                              *)

To(t, next) == pc' = [pc EXCEPT ![t] = next]

NotControl == UNCHANGED <<lockVars, orderly, rx_processing, sleep_lock_pending, received, pollPc,
                          irqPc, batVars, pm>>
PathKept   == UNCHANGED <<que_started, ringVars, done, masked, irqOn, powered, napi_usr_refcnt,
                          disturbances>>

(* t7xx_ccmni_open(), t7xx_ccmni_close() *)
Open ==
    /\ pc["user"] = "idle" /\ napi_usr_refcnt = 0 /\ refs < MaxRefs
    /\ To("user", "enable")
    /\ napi_usr_refcnt' = 1
    /\ NotControl
    /\ UNCHANGED <<napiVars, que_started, ringVars, done, masked, irqOn, powered, is_napi_en, refs,
                   disturbances>>

Close ==
    /\ pc["user"] = "idle" /\ napi_usr_refcnt = 1 /\ Disturbs("close")
    /\ To("user", "disable")
    /\ napi_usr_refcnt' = 0
    /\ NotControl
    /\ UNCHANGED <<napiVars, que_started, ringVars, done, masked, irqOn, powered, is_napi_en, refs>>

(* t7xx_ccmni_enable_napi() *)
EnableBegin(t) ==
    /\ pc[t] = "enable"
    /\ To(t, IF is_napi_en THEN "idle" ELSE "get")
    /\ NotControl /\ PathKept /\ UNCHANGED <<napiVars, is_napi_en, refs>>

EnableGet(t) ==
    /\ pc[t] = "get"
    /\ To(t, "on")
    /\ pm_runtime_resume_and_get
    /\ NotControl /\ PathKept /\ UNCHANGED <<napiVars, is_napi_en>>

(* napi_enable() of an enabled instance brings the kernel down *)
EnableOn(t) ==
    /\ pc[t] = "on"
    /\ To(t, IF sched THEN "schedule" ELSE "oops")
    /\ sched' = FALSE
    /\ NotControl /\ PathKept /\ UNCHANGED <<missed, disabling, listed, is_napi_en, refs>>

EnableSchedule(t, c) ==
    /\ pc[t] = "schedule"
    /\ To(t, "idle")
    /\ napi_schedule(c) /\ is_napi_en' = TRUE
    /\ NotControl /\ PathKept /\ UNCHANGED refs

(* t7xx_ccmni_disable_napi(): napi_synchronize() waits for the polls to end, *)
(* napi_disable() keeps new ones away and waits once more                    *)
DisableBegin(t) ==
    /\ pc[t] = "disable"
    /\ To(t, IF is_napi_en THEN "sync" ELSE "idle")
    /\ NotControl /\ PathKept /\ UNCHANGED <<napiVars, is_napi_en, refs>>

DisableSync(t) ==
    /\ pc[t] = "sync" /\ ~sched
    /\ To(t, "off")
    /\ NotControl /\ PathKept /\ UNCHANGED <<napiVars, is_napi_en, refs>>

DisableOff(t) ==
    /\ pc[t] = "off"
    /\ To(t, "wait")
    /\ disabling' = TRUE
    /\ NotControl /\ PathKept /\ UNCHANGED <<sched, missed, listed, is_napi_en, refs>>

DisableWait(t) ==
    /\ pc[t] = "wait" /\ ~sched
    /\ To(t, "idle")
    /\ sched' = TRUE /\ disabling' = FALSE /\ is_napi_en' = FALSE
    /\ NotControl /\ PathKept /\ UNCHANGED <<missed, listed, refs>>

NapiSwitch(t) ==
    \/ EnableBegin(t) \/ EnableGet(t) \/ EnableOn(t)
    \/ \E c \in CPUs : EnableSchedule(t, c)
    \/ DisableBegin(t) \/ DisableSync(t) \/ DisableOff(t) \/ DisableWait(t)

(* t7xx_dpmaif_stop(), then t7xx_ccmni_post_stop() *)
StopPath ==
    /\ pc["fsm"] = "idle" /\ powered /\ Disturbs("stop")
    /\ To("fsm", "rx_stop")
    /\ irqOn' = FALSE /\ powered' = FALSE
    /\ NotControl
    /\ UNCHANGED <<napiVars, que_started, ringVars, done, masked, napi_usr_refcnt, is_napi_en, refs>>

StopWait ==
    /\ pc["fsm"] = "rx_stop" /\ ~rx_processing
    /\ To("fsm", "rx_mark")
    /\ NotControl /\ PathKept /\ UNCHANGED <<napiVars, is_napi_en, refs>>

StopMark ==
    /\ pc["fsm"] = "rx_mark"
    /\ To("fsm", "rx_clear")
    /\ que_started' = FALSE
    /\ NotControl
    /\ UNCHANGED <<napiVars, ringVars, done, masked, irqOn, powered, napi_usr_refcnt, is_napi_en,
                   refs, disturbances>>

(* t7xx_dpmaif_rx_clear() *)
StopClear ==
    /\ pc["fsm"] = "rx_clear"
    /\ To("fsm", IF napi_usr_refcnt > 0 THEN "disable" ELSE "idle")
    /\ que_started' = FALSE /\ data' = 0 /\ late' = FALSE /\ stranded' = FALSE
    /\ NotControl
    /\ UNCHANGED <<napiVars, done, masked, irqOn, powered, napi_usr_refcnt, is_napi_en, refs,
                   disturbances>>

(* t7xx_dpmaif_start(), and t7xx_ccmni_start() once the modem is ready *)
StartPath ==
    /\ pc["fsm"] = "idle" /\ ~powered /\ refs < MaxRefs
    /\ To("fsm", "post")
    /\ que_started' = TRUE /\ data' = 0 /\ late' = FALSE /\ stranded' = FALSE
    /\ done' = FALSE /\ masked' = FALSE
    /\ powered' = TRUE /\ irqOn' = TRUE
    /\ NotControl /\ UNCHANGED <<napiVars, napi_usr_refcnt, is_napi_en, refs, disturbances>>

StartReady ==
    /\ pc["fsm"] = "post"
    /\ To("fsm", IF napi_usr_refcnt > 0 THEN "enable" ELSE "idle")
    /\ NotControl /\ PathKept /\ UNCHANGED <<napiVars, is_napi_en, refs>>

Control ==
    \/ Open \/ Close \/ StopPath \/ StopWait \/ StopMark \/ StopClear \/ StartPath \/ StartReady
    \/ \E t \in Threads : NapiSwitch(t)

Next ==
    \/ \E c \in CPUs : Poll(c)
    \/ DeviceReceives \/ DeviceWrites \/ Device
    \/ Interrupt \/ Bat
    \/ Suspend \/ SuspendWait \/ SuspendMark \/ Resume
    \/ Control

(* Threads, softirqs and work items are run when they can go on. The device  *)
(* finishes a packet it has announced, answers DS_LOCK, and wakes the host    *)
(* for packets. Nobody has to receive, open, close, stop or suspend.         *)
Wanted == irqPc = "get" \/ batQueued \/ data > 0 \/ \E t \in Threads : pc[t] = "get"

Fairness ==
    /\ \A c \in CPUs : WF_vars(Poll(c))
    /\ SF_vars(Interrupt) /\ SF_vars(Bat)
    /\ WF_vars(DeviceWrites) /\ WF_vars(Device /\ ~DeviceSleeps)
    /\ WF_vars(SuspendWait \/ SuspendMark) /\ WF_vars(Wanted /\ Resume)
    /\ \A t \in Threads : SF_vars(NapiSwitch(t))
    /\ WF_vars(StopWait \/ StopMark \/ StopClear \/ StartReady)

Spec == Init /\ [][Next]_vars /\ Fairness
-----------------------------------------------------------------------------
(* A device that is suspended, or being suspended, at run time has no poll   *)
(* scheduled or at work and no BAT work, whatever was missed, stopped or      *)
(* disabled before: each of them has a reference that t7xx_dpmaif_irq_rx_done(), *)
(* t7xx_ccmni_enable_napi() or the work has taken for it.                    *)
PollHoldsPower ==
    pm.kind = "runtime" /\ pm.at # "active" =>
        listed = "none" /\ batPc = "off" /\ \A c \in CPUs : pollPc[c] = "idle"

(* Polls and the BAT work access registers of the device only while it is out *)
(* of deep sleep: what t7xx_pci_disable_sleep() and the completion ensure, on *)
(* any number of processors and across every kind of sleep, for users that   *)
(* have asked for the device and do not share a count (orderly).             *)
AwakeWhenUsed ==
    orderly /\ (batPc = "use" \/ \E c \in CPUs : pollPc[c] \in {"collect", "unmask"}) => awake

(* Once the polls and the BAT work are done, sleep_disable_count is back at  *)
(* zero: t7xx_pci_enable_sleep() has let the device sleep.                   *)
LockCounts ==
    (batPc = "off" /\ ~sleep_lock_pending /\ listed = "none" /\ \A c \in CPUs : pollPc[c] = "idle")
        => sleep_disable_count = 0

(* Received packets are fetched as long as NAPI is enabled: no packet is left *)
(* over by the masking and unmasking of the interrupt and by the polls. Only  *)
(* a poll that ends with an error may leave packets, and those too are        *)
(* fetched once the device signals another one.                              *)
RxServed == data > 0 /\ is_napi_en ~> data = 0 \/ ~is_napi_en \/ stranded
=============================================================================
