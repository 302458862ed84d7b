------------------------------- MODULE T7xxPm -------------------------------
(***************************************************************************)
(* Power management of the mtk_t7xx driver (t7xx_pci.c): suspend, resume   *)
(* and the re-probe of a modem that did not survive the sleep, together    *)
(* with what shares their state:                                           *)
(*   - the PM core's thread, which runs one callback at a time;            *)
(*   - the MHCCIF interrupt thread, which completes pm_sr_ack;             *)
(*   - the FSM thread (T7xxFsm gives its details), which calls             *)
(*     t7xx_pci_pm_init_late() and t7xx_pci_pm_exp_detected();             *)
(*   - threads that run t7xx_reset_device(): the RGU interrupt thread and  *)
(*     writers of the t7xx_mode attribute.                                 *)
(* t7xx_wait_pm_config() always succeeds and only delays.                  *)
(***************************************************************************)
EXTENDS Naturals, Sequences, FiniteSets

CONSTANTS
    Resetters,        \* threads that may run t7xx_reset_device(); "rgu" is the RGU thread
    FailingEntities,  \* PM entities whose suspend callback may return an error: none does today
    ResumeStates,     \* what the device may report when it is resumed
    Kinds,            \* kinds of sleep the PM core may ask for
    BootsUnasked,     \* whether a modem may announce a boot while the FSM is stopped
    MaxReprobes,      \* MAX_RESUME_REPROBE_ATTEMPTS
    MaxResets,        \* bound: number of calls of t7xx_reset_device()
    MaxQueue          \* bound: no sleep or reset begins with more commands queued

(* md_pm_entities in the order of registration: t7xx_ccmni_init() first, then *)
(* the CLDMA interfaces of the modem and the application core                 *)
md_pm_entities == <<"DATA", "CTRL1", "CTRL2">>
Entities       == {"DATA", "CTRL1", "CTRL2"}
Requests       == {"SUSPEND", "SUSPEND_AP", "RESUME", "RESUME_AP"}

(* T7XX_PCIE_PM_RESUME_STATE; INIT_LOST is INIT with an address translation   *)
(* register that is zero or invalid                                           *)
Lost      == {"L3", "INIT_LOST"}
Rebooted  == {"INIT", "INIT_LOST"}
AllResumeStates == Lost \cup {"INIT", "L1", "L2", "EXP", "L2_EXP", "OTHER"}

Callers == Resetters \cup {"pm"}

ASSUME PmCallersAssumption == {"pm", "nobody"} \cap Resetters = {}
ASSUME PmSetsAssumption    == /\ FailingEntities \subseteq Entities
                              /\ ResumeStates \subseteq AllResumeStates
                              /\ Kinds \subseteq {"runtime", "system", "hibernate"}
                              /\ BootsUnasked \in BOOLEAN
ASSUME PmBoundsAssumption  == MaxReprobes \in Nat /\ MaxResets \in Nat /\ MaxQueue \in Nat

VARIABLES
    \* struct t7xx_pci_dev
    md_pm_state, mode, rgu_pci_irq_en, resume_reprobe_count,
    pm_sr_ack,     \* the completion's count
    usage,         \* the runtime-PM usage count the driver holds
    rguInt,        \* SAP_RGU_INT is enabled
    macInts,       \* t7xx_pcie_mac_interrupts_en()
    portEnum,      \* the PORT_ENUM interrupt is not masked
    active,        \* entities that send
    \* the FSM thread and its queue
    fsm, command_queue,
    \* the device: requests it has not answered, and answers the host has not seen
    requests, acks,
    \* the PM thread
    pmPc,
    kind,          \* the kind of sleep it is in
    prev_state,    \* what the resume under way has read
    next,          \* the entity it suspends next
    \* threads that stop the FSM
    resetPc, reply,
    resets,
    overlapped     \* history: a reset or an unasked boot has met a sleep or may

pciVars   == <<md_pm_state, mode, rgu_pci_irq_en, resume_reprobe_count, usage, rguInt, macInts,
               portEnum, active>>
fsmVars   == <<fsm, command_queue, reply>>
devVars   == <<requests, acks>>
pmVars    == <<pmPc, kind, prev_state, next>>
resetVars == <<resetPc, resets, overlapped>>

vars == <<pciVars, pm_sr_ack, fsmVars, devVars, pmVars, resetVars>>

PmStates  == {"EXCEPTION", "INIT", "SUSPENDED", "RESUMED"}
UpToInit  == {"EXCEPTION", "INIT"}                   \* <= MTK_PM_INIT
Fastboot  == {"FASTBOOT_DOWNLOAD", "FASTBOOT_DUMP"}
Modes     == {"UNKNOWN", "READY", "RESET", "FASTBOOT_SWITCHING"} \cup Fastboot
FsmStates == {"stopped", "starting", "prestart", "ready", "exception"}
PmPcs     == {"idle", "entities", "s_md", "s_ap", "asleep", "noirq", "r_md", "r_ap", "r_lost",
              "r_stop", "r_unknown"}
ResetPcs  == {"idle", "delay", "stop", "reprobe"}
Commands  == [id : {"START", "STOP"}, by : Callers \cup {"nobody"}]
Replies   == {"none", "0", "EINVAL"}

START   == [id |-> "START", by |-> "nobody"]
STOP(t) == [id |-> "STOP", by |-> t]

(* Every variable keeps its type; the counter of re-probes never passes the  *)
(* cap it is compared with.                                                  *)
TypeOK ==
    /\ md_pm_state \in PmStates /\ mode \in Modes
    /\ rgu_pci_irq_en \in BOOLEAN /\ rguInt \in BOOLEAN
    /\ macInts \in BOOLEAN /\ portEnum \in BOOLEAN
    /\ resume_reprobe_count \in 0 .. MaxReprobes
    /\ pm_sr_ack \in Nat /\ usage \in Nat
    /\ active \subseteq Entities
    /\ fsm \in FsmStates
    /\ command_queue \in Seq(Commands)
    /\ reply \in [Callers -> Replies]
    /\ requests \subseteq Requests /\ acks \subseteq Requests
    /\ pmPc \in PmPcs /\ kind \in Kinds \cup {"none"}
    /\ prev_state \in AllResumeStates \cup {"none"}
    /\ next \in 1 .. Len(md_pm_entities)
    /\ resetPc \in [Resetters -> ResetPcs]
    /\ resets \in 0 .. MaxResets /\ overlapped \in BOOLEAN

(* After t7xx_pci_probe(): the FSM has begun to start the modem, and the     *)
(* reference the PCI core took for the probe is still held.                  *)
Init ==
    /\ md_pm_state = "INIT" /\ mode = "UNKNOWN"
    /\ rgu_pci_irq_en = TRUE /\ rguInt = TRUE
    /\ macInts = TRUE /\ portEnum = TRUE
    /\ resume_reprobe_count = 0 /\ pm_sr_ack = 0 /\ usage = 1
    /\ active = {}
    /\ fsm = "starting" /\ command_queue = <<>>
    /\ reply = [t \in Callers |-> "none"]
    /\ requests = {} /\ acks = {}
    /\ pmPc = "idle" /\ kind = "none" /\ prev_state = "none" /\ next = 1
    /\ resetPc = [t \in Resetters |-> "idle"]
    /\ resets = 0 /\ overlapped = FALSE
-----------------------------------------------------------------------------
(* The device and the MHCCIF interrupt thread.                               *)

(* t7xx_send_pm_request(), up to its wait *)
t7xx_send_pm_request(r) ==
    /\ pm_sr_ack' = 0
    /\ requests' = requests \cup {r}

(* Faulty variant: the wait has no timeout *)
TimedOutNever == FALSE

(* The end of that wait, by completion or after PM_ACK_TIMEOUT_MS *)
Acked    == pm_sr_ack > 0
TimedOut == pm_sr_ack = 0

DeviceAck(r) ==
    /\ r \in requests
    /\ requests' = requests \ {r}
    /\ acks' = acks \cup {r}
    /\ UNCHANGED <<pciVars, pm_sr_ack, fsmVars, pmVars, resetVars>>

(* t7xx_mhccif_isr_thread(): any of the four acknowledgements, or several at *)
(* once, completes pm_sr_ack once.                                           *)
t7xx_mhccif_isr_thread ==
    /\ macInts /\ acks # {}
    /\ acks' = {}
    /\ pm_sr_ack' = pm_sr_ack + 1
    /\ UNCHANGED <<pciVars, fsmVars, requests, pmVars, resetVars>>

(* A device that restarts forgets what it was asked *)
DeviceRestarts == requests' = {} /\ acks' = {}
-----------------------------------------------------------------------------
(* The FSM thread.                                                           *)

(* What a suspend callback asks for first *)
SuspendAllowed == md_pm_state \notin UpToInit /\ mode = "READY"
ResetUnderWay  == \E t \in Resetters : resetPc[t] \in {"stop", "reprobe"}

Released(n) == IF n > 0 THEN n - 1 ELSE 0             \* pm_runtime_put_noidle()

Replied(r, t, result) == IF t \in Callers THEN [r EXCEPT ![t] = result] ELSE r

(* A STOP flushes the queue, except in a fastboot mode *)
FsmStop ==
    /\ fsm # "starting" /\ command_queue # <<>> /\ Head(command_queue).id = "STOP"
    /\ LET done == Head(command_queue).by
           rest == Tail(command_queue)
           flushed == [t \in Callers |-> IF \E i \in DOMAIN rest : rest[i].by = t THEN "EINVAL"
                                                                              ELSE reply[t]]
       IN \/ /\ fsm = "stopped"
             /\ reply' = Replied(reply, done, "EINVAL")
             /\ command_queue' = rest
             /\ UNCHANGED <<fsm, active>>
          \/ /\ fsm # "stopped" /\ mode \in Fastboot
             /\ fsm' = "stopped"
             /\ reply' = Replied(reply, done, "0")
             /\ command_queue' = rest
             /\ UNCHANGED active
          \/ /\ fsm # "stopped" /\ mode \notin Fastboot
             /\ fsm' = "stopped"
             /\ reply' = Replied(flushed, done, "0")
             /\ command_queue' = <<>>
             /\ active' = {}
    /\ UNCHANGED <<md_pm_state, mode, rgu_pci_irq_en, resume_reprobe_count, usage, rguInt, macInts,
                   portEnum, pm_sr_ack, devVars, pmVars, resetVars>>

(* A START is refused by an FSM that is neither stopped nor still waiting *)
FsmStart ==
    /\ fsm # "starting" /\ command_queue # <<>> /\ Head(command_queue).id = "START"
    /\ command_queue' = Tail(command_queue)
    /\ \/ fsm \in {"stopped", "prestart"} /\ fsm' = "starting" /\ portEnum' = TRUE
       \/ fsm \notin {"stopped", "prestart"} /\ UNCHANGED <<fsm, portEnum>>
    /\ UNCHANGED <<md_pm_state, mode, rgu_pci_irq_en, resume_reprobe_count, usage, rguInt, macInts,
                   active, pm_sr_ack, reply, devVars, pmVars, resetVars>>

(* The modem has not come up: the wait for its stage timed out, the stage    *)
(* needs nothing yet, or it is one of the fastboot stages.                   *)
FsmNotYet ==
    /\ fsm = "starting"
    /\ fsm' = "prestart"
    /\ mode' \in {mode, "UNKNOWN"} \cup Fastboot
    /\ UNCHANGED <<md_pm_state, rgu_pci_irq_en, resume_reprobe_count, usage, rguInt, macInts,
                   portEnum, active, pm_sr_ack, command_queue, reply, devVars, pmVars, resetVars>>

(* A PORT_ENUM interrupt, from a modem that has booted, brings another START *)
FsmPortEnum ==
    /\ fsm = "prestart" \/ (fsm = "stopped" /\ BootsUnasked)
    /\ macInts /\ portEnum /\ Len(command_queue) <= MaxQueue
    /\ command_queue' = Append(command_queue, START)
    /\ overlapped' = (overlapped \/ (fsm = "stopped" /\ (SuspendAllowed \/ pmPc # "idle")))
    /\ UNCHANGED <<pciVars, pm_sr_ack, fsm, reply, devVars, pmVars, resetPc, resets>>

(* The handshake with both cores, which their interrupts begin, succeeds and *)
(* t7xx_pci_pm_init_late() runs                                              *)
FsmReady ==
    /\ fsm = "starting" /\ macInts
    /\ fsm' = "ready"
    /\ active' = Entities
    /\ md_pm_state' = "RESUMED"
    /\ usage' = Released(usage)
    /\ mode' = "READY"
    /\ portEnum' = FALSE
    /\ overlapped' = (overlapped /\ (pmPc # "idle" \/ ResetUnderWay))
    /\ UNCHANGED <<rgu_pci_irq_en, resume_reprobe_count, rguInt, macInts, pm_sr_ack, command_queue,
                   reply, devVars, pmVars, resetPc, resets>>

FsmHandshakeFailed ==
    /\ fsm = "starting"
    /\ fsm' = "exception"
    /\ mode' = "UNKNOWN"
    /\ portEnum' = FALSE
    /\ UNCHANGED <<md_pm_state, rgu_pci_irq_en, resume_reprobe_count, usage, rguInt, macInts,
                   active, pm_sr_ack, command_queue, reply, devVars, pmVars, resetVars>>

(* An exception the modem reported: the data path is stopped, CLDMA is       *)
(* restarted, and t7xx_pci_pm_exp_detected() runs.                           *)
FsmException ==
    /\ fsm = "ready"
    /\ fsm' = "exception"
    /\ md_pm_state' = "EXCEPTION"
    /\ active' = {"CTRL1", "CTRL2"}
    /\ UNCHANGED <<mode, rgu_pci_irq_en, resume_reprobe_count, usage, rguInt, macInts, portEnum,
                   pm_sr_ack, command_queue, reply, devVars, pmVars, resetVars>>

FsmThread ==
    \/ FsmStop \/ FsmStart \/ FsmNotYet \/ FsmPortEnum \/ FsmReady \/ FsmHandshakeFailed
    \/ FsmException
-----------------------------------------------------------------------------
(* t7xx_pci_reprobe_early() and t7xx_pci_reprobe().                          *)

(* t7xx_pci_reprobe_early() up to the wait for the STOP command *)
t7xx_pci_reprobe_early(t) ==
    /\ command_queue' = Append(command_queue, STOP(t))
    /\ usage' = IF mode = "FASTBOOT_DOWNLOAD" THEN Released(usage) ELSE usage

(* The wait of thread t is over; without a result it has given up after 2 s  *)
(* and its command stays queued                                              *)
Abandoned(c, t) == IF c.by = t THEN [c EXCEPT !.by = "nobody"] ELSE c

StopWaitEnds(t) == reply' = [reply EXCEPT ![t] = "none"]
StillQueued(t)  == [i \in DOMAIN command_queue |-> Abandoned(command_queue[i], t)]

(* Faulty variant: the PM state is left as it is *)
PmReinitReferenceOnly ==
    /\ UNCHANGED md_pm_state
    /\ usage' = usage + 1

t7xx_pci_pm_reinit ==
    /\ md_pm_state' = "INIT"
    /\ usage' = usage + 1

(* t7xx_pci_reprobe(), queue being the commands queued before it: interrupts *)
(* and PM are set up again and START is queued. pcim_enable_device() may     *)
(* fail before anything has happened.                                        *)
t7xx_pci_reprobe(queue) ==
    \/ /\ macInts' = TRUE
       /\ t7xx_pci_pm_reinit
       /\ rgu_pci_irq_en' = TRUE /\ rguInt' = TRUE
       /\ command_queue' = Append(queue, START)
    \/ /\ command_queue' = queue
       /\ UNCHANGED <<macInts, md_pm_state, usage, rgu_pci_irq_en, rguInt>>
-----------------------------------------------------------------------------
(* __t7xx_pci_pm_suspend().                                                  *)

(* A runtime suspend needs the usage count to be zero. A callback that is    *)
(* refused changes nothing.                                                  *)
SuspendBegin(k) ==
    /\ pmPc = "idle" /\ Len(command_queue) <= MaxQueue
    /\ k = "runtime" => usage = 0
    /\ SuspendAllowed
    /\ md_pm_state' = "SUSPENDED"
    /\ rguInt' = FALSE /\ rgu_pci_irq_en' = FALSE
    /\ kind' = k /\ next' = 1
    /\ pmPc' = "entities"
    /\ overlapped' = (overlapped \/ ResetUnderWay)
    /\ UNCHANGED <<mode, resume_reprobe_count, usage, macInts, portEnum, active, pm_sr_ack,
                   fsmVars, devVars, prev_state, resetPc, resets>>

SuspendEntity ==
    /\ pmPc = "entities"
    /\ active' = active \ {md_pm_entities[next]}
    /\ portEnum' = (portEnum /\ md_pm_entities[next] # "CTRL1")
    /\ \/ /\ next < Len(md_pm_entities)
          /\ next' = next + 1
          /\ UNCHANGED <<pmPc, requests, pm_sr_ack>>
       \/ /\ next = Len(md_pm_entities)
          /\ t7xx_send_pm_request("SUSPEND")
          /\ pmPc' = "s_md" /\ next' = 1
    /\ UNCHANGED <<md_pm_state, mode, rgu_pci_irq_en, resume_reprobe_count, usage, rguInt, macInts,
                   fsmVars, acks, kind, prev_state, resetVars>>

(* abort_suspend: the entities before the one that failed are resumed, all   *)
(* of them when it was the modem that did not answer. The RGU interrupt is   *)
(* enabled again, rgu_pci_irq_en is not.                                     *)
AbortSuspend(resumed) ==
    /\ active' = active \cup resumed
    /\ portEnum' = (portEnum \/ "CTRL1" \in resumed)
    /\ md_pm_state' = "RESUMED"
    /\ rguInt' = TRUE
    /\ pmPc' = "idle" /\ kind' = "none" /\ next' = 1
    /\ UNCHANGED <<mode, rgu_pci_irq_en, resume_reprobe_count, usage, macInts, fsmVars, devVars,
                   pm_sr_ack, prev_state, resetVars>>

SuspendedBefore(n) == {md_pm_entities[i] : i \in 1 .. n - 1}

SuspendEntityFails ==
    /\ pmPc = "entities" /\ md_pm_entities[next] \in FailingEntities
    /\ AbortSuspend(SuspendedBefore(next))

(* Faulty variant: the modem's silence is taken for the last entity's error *)
SuspendMdTimeoutPartly ==
    /\ pmPc = "s_md" /\ TimedOut
    /\ AbortSuspend(SuspendedBefore(Len(md_pm_entities)))

SuspendMdTimeout == pmPc = "s_md" /\ TimedOut /\ AbortSuspend(Entities)

SuspendMdAcked ==
    /\ pmPc = "s_md" /\ Acked
    /\ t7xx_send_pm_request("SUSPEND_AP")
    /\ pmPc' = "s_ap"
    /\ UNCHANGED <<pciVars, fsmVars, acks, kind, prev_state, next, resetVars>>

(* The application core's acknowledgement is waited for and not needed *)
SuspendDone ==
    /\ pmPc = "s_ap"
    /\ pmPc' = "asleep"
    /\ pm_sr_ack' = IF Acked THEN pm_sr_ack - 1 ELSE 0
    /\ UNCHANGED <<pciVars, fsmVars, devVars, kind, prev_state, next, resetVars>>

(* t7xx_pci_pm_resume_noirq(), on the way out of a system sleep *)
t7xx_pci_pm_resume_noirq ==
    /\ pmPc = "asleep" /\ kind # "runtime"
    /\ macInts' = FALSE
    /\ pmPc' = "noirq"
    /\ UNCHANGED <<md_pm_state, mode, rgu_pci_irq_en, resume_reprobe_count, usage, rguInt,
                   portEnum, active, pm_sr_ack, fsmVars, devVars, kind, prev_state, next,
                   resetVars>>
-----------------------------------------------------------------------------
(* __t7xx_pci_pm_resume(); thaw after hibernation does not check the state.  *)

(* t7xx_pci_pm_thaw() has no noirq callback, restore and resume have one *)
Waking ==
    \/ pmPc = "asleep" /\ kind \in {"runtime", "hibernate"}
    \/ pmPc = "noirq"

Thaw  == pmPc = "asleep" /\ kind = "hibernate"
Awake == pmPc' = "idle" /\ prev_state' = "none"      \* the callback returns

ResumeSkipped ==
    /\ Waking /\ md_pm_state \in UpToInit
    /\ Awake /\ kind' = "none"
    /\ UNCHANGED <<pciVars, pm_sr_ack, fsmVars, devVars, next, resetVars>>

(* Faulty variant: the interrupts stay disabled *)
ReadsQuietly(states) ==
    /\ Waking /\ md_pm_state \notin UpToInit
    /\ states \cap ResumeStates # {}
    /\ UNCHANGED macInts /\ kind' = "none"

(* Otherwise the interrupts are enabled and the state of the device is read *)
Reads(states) ==
    /\ Waking /\ md_pm_state \notin UpToInit
    /\ states \cap ResumeStates # {}
    /\ macInts' = TRUE /\ kind' = "none"

(* A modem that has lost its state is stopped and re-probed *)
ResumeLost ==
    /\ Reads(Lost) /\ ~Thaw
    /\ DeviceRestarts
    /\ t7xx_pci_reprobe_early("pm")
    /\ pmPc' = "r_lost"
    /\ UNCHANGED <<md_pm_state, mode, rgu_pci_irq_en, resume_reprobe_count, rguInt, portEnum,
                   active, pm_sr_ack, fsm, reply, prev_state, next, resetVars>>

ResumeException ==
    /\ Reads({"EXP", "L2_EXP"}) /\ ~Thaw
    /\ Awake /\ portEnum' = TRUE
    /\ md_pm_state' = "SUSPENDED" /\ rgu_pci_irq_en' = TRUE /\ rguInt' = TRUE
    /\ UNCHANGED <<mode, resume_reprobe_count, usage, active, pm_sr_ack, fsmVars, devVars, next,
                   resetVars>>

(* t7xx_pcie_reinit() fails after L2 *)
ResumeReinitFails ==
    /\ Reads({"L2", "L2_EXP"}) /\ ~Thaw
    /\ Awake
    /\ UNCHANGED <<md_pm_state, mode, rgu_pci_irq_en, resume_reprobe_count, usage, rguInt,
                   portEnum, active, pm_sr_ack, fsmVars, devVars, next, resetVars>>

ResumeUnknown ==
    /\ Reads({"OTHER"}) /\ ~Thaw
    /\ command_queue' = Append(command_queue, STOP("pm"))
    /\ pmPc' = "r_unknown"
    /\ UNCHANGED <<md_pm_state, mode, rgu_pci_irq_en, resume_reprobe_count, usage, rguInt,
                   portEnum, active, pm_sr_ack, fsm, reply, devVars, prev_state, next, resetVars>>

(* The handshake path; a device that has rebooted may have kept its address  *)
(* translation and take it too                                               *)
ResumeHandshake(state) ==
    /\ Reads({state}) /\ (Thaw \/ state \in {"L1", "L2", "INIT"})
    /\ prev_state' = state
    /\ pm_sr_ack' = 0
    /\ \/ /\ state \in Rebooted \cup Lost
          /\ requests' = {"RESUME"}
          /\ acks' = {}
       \/ /\ state \notin Rebooted \cup Lost
          /\ requests' = requests \cup {"RESUME"}
          /\ UNCHANGED acks
    /\ pmPc' = "r_md"
    /\ UNCHANGED <<md_pm_state, mode, rgu_pci_irq_en, resume_reprobe_count, usage, rguInt,
                   portEnum, active, fsmVars, next, resetVars>>

(* Faulty variant: the attempts are not counted *)
MayReprobeUncounted ==
    /\ resume_reprobe_count < MaxReprobes
    /\ UNCHANGED resume_reprobe_count

(* Faulty variant: the cap is tested after the increment *)
MayReprobeOnceMore ==
    /\ resume_reprobe_count <= MaxReprobes
    /\ resume_reprobe_count' = resume_reprobe_count + 1

(* One of the attempts to re-probe after a failed handshake *)
MayReprobe ==
    /\ resume_reprobe_count < MaxReprobes
    /\ resume_reprobe_count' = resume_reprobe_count + 1

ResumeReprobe ==
    /\ MayReprobe
    /\ t7xx_pci_reprobe_early("pm")
    /\ pmPc' = "r_stop"
    /\ UNCHANGED <<md_pm_state, mode, rgu_pci_irq_en, rguInt, macInts, portEnum, active, pm_sr_ack,
                   fsm, reply, devVars, kind, prev_state, next, resetVars>>

ResumeMdTimeout ==
    /\ pmPc = "r_md" /\ TimedOut
    /\ \/ ResumeReprobe
       \/ /\ resume_reprobe_count >= MaxReprobes
          /\ Awake
          /\ UNCHANGED <<pciVars, pm_sr_ack, fsmVars, devVars, kind, next, resetVars>>

ResumeMdAcked ==
    /\ pmPc = "r_md" /\ Acked
    /\ t7xx_send_pm_request("RESUME_AP")
    /\ pmPc' = "r_ap"
    /\ UNCHANGED <<pciVars, fsmVars, acks, kind, prev_state, next, resetVars>>

(* The application core of a modem that has rebooted does not answer *)
ResumeApTimeout == pmPc = "r_ap" /\ TimedOut /\ prev_state \in Rebooted /\ ResumeReprobe

ResumeDone ==
    /\ pmPc = "r_ap"
    /\ Acked \/ prev_state \notin Rebooted \/ resume_reprobe_count >= MaxReprobes
    /\ active' = Entities /\ portEnum' = TRUE
    /\ rgu_pci_irq_en' = TRUE /\ rguInt' = TRUE
    /\ md_pm_state' = "RESUMED"
    /\ resume_reprobe_count' = 0
    /\ pm_sr_ack' = IF Acked THEN pm_sr_ack - 1 ELSE 0
    /\ Awake
    /\ UNCHANGED <<mode, usage, macInts, fsmVars, devVars, kind, next, resetVars>>

(* The STOP command of the PM thread has a result, or its wait timed out *)
ResumeStopped ==
    /\ pmPc \in {"r_lost", "r_stop"}
    /\ StopWaitEnds("pm")
    /\ Awake
    /\ \/ reply["pm"] = "0" /\ t7xx_pci_reprobe(StillQueued("pm"))
       \/ /\ reply["pm"] # "0"
          /\ command_queue' = StillQueued("pm")
          /\ UNCHANGED <<macInts, md_pm_state, usage, rgu_pci_irq_en, rguInt>>
    /\ UNCHANGED <<mode, resume_reprobe_count, portEnum, active, pm_sr_ack, fsm, devVars, kind,
                   next, resetVars>>

ResumeUnknownStopped ==
    /\ pmPc = "r_unknown"
    /\ StopWaitEnds("pm")
    /\ Awake
    /\ md_pm_state' = IF reply["pm"] = "0" THEN "SUSPENDED" ELSE md_pm_state
    /\ command_queue' = StillQueued("pm")
    /\ UNCHANGED <<mode, rgu_pci_irq_en, resume_reprobe_count, usage, rguInt, macInts, portEnum,
                   active, pm_sr_ack, fsm, devVars, kind, next, resetVars>>

Resume ==
    \/ ResumeSkipped \/ ResumeLost \/ ResumeException \/ ResumeReinitFails \/ ResumeUnknown
    \/ \E state \in ResumeStates : ResumeHandshake(state)

PmProgress ==
    \/ SuspendEntity \/ SuspendEntityFails \/ SuspendMdTimeout \/ SuspendMdAcked \/ SuspendDone
    \/ ResumeMdTimeout \/ ResumeMdAcked \/ ResumeApTimeout \/ ResumeDone \/ ResumeStopped
    \/ ResumeUnknownStopped

PmThread ==
    \/ \E k \in Kinds : SuspendBegin(k)
    \/ t7xx_pci_pm_resume_noirq
    \/ Resume
    \/ PmProgress
-----------------------------------------------------------------------------
(* t7xx_reset_device().                                                      *)

(* t7xx_rgu_isr_handler() wakes the thread only if rgu_pci_irq_en is set *)
t7xx_rgu_isr_handler ==
    /\ "rgu" \in Resetters /\ resetPc["rgu"] = "idle"
    /\ macInts /\ rguInt /\ rgu_pci_irq_en
    /\ rguInt' = FALSE
    /\ resetPc' = [resetPc EXCEPT !["rgu"] = "delay"]
    /\ UNCHANGED <<md_pm_state, mode, rgu_pci_irq_en, resume_reprobe_count, usage, macInts,
                   portEnum, active, pm_sr_ack, fsmVars, devVars, pmVars, resets, overlapped>>

(* The RGU thread finds no reset asked for *)
RguNothing ==
    /\ "rgu" \in Resetters /\ resetPc["rgu"] = "delay"
    /\ resetPc' = [resetPc EXCEPT !["rgu"] = "idle"]
    /\ UNCHANGED <<pciVars, pm_sr_ack, fsmVars, devVars, pmVars, resets, overlapped>>

(* t7xx_mode_store() resumes the device first and may switch the mode *)
ResetBegin(t) ==
    /\ IF t = "rgu" THEN resetPc[t] = "delay" ELSE resetPc[t] = "idle" /\ pmPc = "idle"
    /\ resets < MaxResets /\ resets' = resets + 1
    /\ Len(command_queue) <= MaxQueue
    /\ t7xx_pci_reprobe_early(t)
    /\ \/ (t = "rgu" \/ mode # "RESET") /\ UNCHANGED mode
       \/ /\ t # "rgu" /\ mode \notin {"FASTBOOT_SWITCHING", "FASTBOOT_DOWNLOAD"}
          /\ mode' = "FASTBOOT_SWITCHING"
    /\ resetPc' = [resetPc EXCEPT ![t] = "stop"]
    /\ overlapped' = (overlapped \/ pmPc # "idle")
    /\ UNCHANGED <<md_pm_state, rgu_pci_irq_en, resume_reprobe_count, rguInt, macInts, portEnum,
                   active, pm_sr_ack, fsm, reply, devVars, pmVars>>

(* The result of STOP is ignored; the ACPI reset may fail *)
ResetStopped(t) ==
    /\ resetPc[t] = "stop"
    /\ StopWaitEnds(t)
    /\ command_queue' = StillQueued(t)
    /\ mode' = "RESET"
    /\ \/ DeviceRestarts /\ resetPc' = [resetPc EXCEPT ![t] = "reprobe"]
       \/ resetPc' = [resetPc EXCEPT ![t] = "idle"] /\ UNCHANGED devVars
    /\ UNCHANGED <<md_pm_state, rgu_pci_irq_en, resume_reprobe_count, usage, rguInt, macInts,
                   portEnum, active, pm_sr_ack, fsm, pmVars, resets, overlapped>>

ResetReprobe(t) ==
    /\ resetPc[t] = "reprobe"
    /\ t7xx_pci_reprobe(command_queue)
    /\ resetPc' = [resetPc EXCEPT ![t] = "idle"]
    /\ UNCHANGED <<mode, resume_reprobe_count, portEnum, active, pm_sr_ack, fsm, reply, devVars,
                   pmVars, resets, overlapped>>

Resetting(t) == ResetBegin(t) \/ ResetStopped(t) \/ ResetReprobe(t)
-----------------------------------------------------------------------------
Next ==
    \/ PmThread
    \/ FsmThread
    \/ t7xx_mhccif_isr_thread
    \/ \E r \in Requests : DeviceAck(r)
    \/ t7xx_rgu_isr_handler \/ RguNothing
    \/ \E t \in Resetters : Resetting(t)

(* A PM callback that has begun goes on, and a command that is queued is     *)
(* taken. Nobody has to put the device to sleep, wake it or reset it.        *)
Fairness ==
    /\ WF_vars(PmProgress)
    /\ WF_vars(FsmStop \/ FsmStart \/ FsmNotYet \/ FsmReady \/ FsmHandshakeFailed)
    /\ WF_vars(t7xx_mhccif_isr_thread)

Spec == Init /\ [][Next]_vars /\ Fairness
-----------------------------------------------------------------------------
(* Properties.                                                               *)

(* While the driver takes the modem for resumed and running, every PM entity *)
(* sends: whichever callback failed, abort_suspend has resumed exactly what  *)
(* had been suspended, and no early return of a resume leaves a queue off    *)
(* with MTK_PM_RESUMED set. (What a reset that met a sleep has upset is       *)
(* right again when the modem is next ready with neither under way.)         *)
EntitiesMatch ==
    ~overlapped /\ pmPc = "idle" /\ md_pm_state = "RESUMED" /\ fsm = "ready" => active = Entities

(* t7xx_pci_pm_resume_noirq() disables the interrupts of the device; when    *)
(* the PM core believes the device awake and the driver does not take it for *)
(* booting or dead, they are enabled again.                                  *)
InterruptsBack == pmPc = "idle" /\ md_pm_state \notin UpToInit => macInts

(* No sleep interrupts the start of the modem: from t7xx_pci_pm_reinit() to  *)
(* t7xx_pci_pm_init_late() every suspend callback is refused, although mode  *)
(* still says READY; and so it is in the boots of resets. (Not if a reset has *)
(* met a sleep, or a modem that could be put to sleep boots unasked.)        *)
BootUndisturbed == ~overlapped /\ fsm \in {"starting", "prestart"} => pmPc = "idle"

(* A PM callback that has begun returns: every wait in it has a timeout *)
CallbackReturns == pmPc \notin {"idle", "asleep", "noirq"} ~> pmPc \in {"idle", "asleep"}

(* A modem whose resume handshake fails is not re-probed for ever: after     *)
(* MAX_RESUME_REPROBE_ATTEMPTS attempts there is a resume that succeeds, or  *)
(* no further attempt.                                                       *)
RetriesEnd == []<>(pmPc = "r_stop") => []<><<ResumeDone>>_vars
=============================================================================
