------------------------------- MODULE T7xxFsm -------------------------------
(***************************************************************************)
(* The modem state monitor of the mtk_t7xx driver (t7xx_state_monitor.c)   *)
(* together with the parts of t7xx_modem_ops.c, t7xx_mhccif.c and          *)
(* t7xx_port_ctrl_msg.c that feed it:                                      *)
(*   - the FSM kernel thread, which takes commands off command_queue;      *)
(*   - the threaded MHCCIF interrupt handler, which turns device           *)
(*     interrupts into commands and handshake work;                        *)
(*   - the two handshake work items (modem core and application core);     *)
(*   - the control-port threads, which append events to event_queue;       *)
(*   - threads that reset the device and the thread that runs t7xx_md_exit.*)
(* A step is what one of these threads does between two points where       *)
(* another one can observe it: a lock, a sleep or a wait.                  *)
(***************************************************************************)
EXTENDS Naturals, Sequences, FiniteSets, SequencesExt

CONSTANTS
    Resetters,      \* threads that call t7xx_reset_device()
    MaxResets,      \* bound: number of calls of t7xx_reset_device()
    MaxExceptions,  \* bound: number of exceptions the modem raises
    BootStages,     \* what the device may report once it has booted
    Bursts,         \* sets of interrupts the device raises together
    MayExit         \* whether the driver may be unloaded or the machine shut down

Core == {"md", "ap"}

(* Values of T7XX_PCIE_MISC_DEV_STATUS: the boot stage, and in the LK stage *)
(* the LK event field.                                                      *)
LkStages   == {"LK_NORMAL", "LK_DUMP", "LK_DL"}
DevStages  == {"INIT", "LINUX"} \cup LkStages

ASSUME ResettersAssumption == "exit" \notin Resetters /\ "nobody" \notin Resetters
ASSUME BoundsAssumption    == MaxResets \in Nat /\ MaxExceptions \in Nat
ASSUME ExitAssumption      == MayExit \in BOOLEAN
ASSUME StagesAssumption    == BootStages \subseteq {"LINUX"} \cup LkStages

VARIABLES
    \* The device, as far as the host can see it
    stage,       \* T7XX_PCIE_MISC_DEV_STATUS
    sts,         \* REG_EP2RC_SW_INT_STS: D2H interrupts raised and not acknowledged
    raised,      \* D2H interrupts this boot of the device has raised
    hs1,         \* cores whose HS1 message the device has and has not answered
    hs2,         \* cores whose HS2 answer sits in the control port's rx_skb_list
    h2d,         \* H2D exception acknowledgements the device has received
    exMsgs,      \* how many exception messages the modem has sent
    \* struct t7xx_fsm_ctl
    curr_state, md_state, command_queue, event_queue, exp_flg, status,
    fsmPc,       \* where the FSM thread is
    cmd,         \* the command it is handling
    \* struct t7xx_modem
    exp_id,      \* D2H interrupts recorded and not consumed
    mask,        \* masked D2H interrupts
    ready, handshake_ongoing,   \* cores for which the t7xx_sys_info flag is set
    queued,      \* cores whose handshake work is pending
    workPc,      \* where the handshake work of each core is
    hif,         \* state of each core's CLDMA interface
    \* struct t7xx_pci_dev
    mode,
    \* threads
    isrPc, isr,  \* the MHCCIF thread and the interrupts it will acknowledge
    callerPc, reply,
    resets, exceptions,  \* how many have happened, for the bounds
    caught       \* history: a stop has caught the modem core's work before its HS1

devVars    == <<stage, sts, raised, hs1, hs2, h2d, exMsgs, exceptions>>
ctlVars    == <<curr_state, md_state, exp_flg, status, mode>>
queueVars  == <<command_queue, event_queue>>
threadVars == <<fsmPc, cmd>>
workVars   == <<ready, handshake_ongoing, queued, workPc, hif, caught>>
intVars    == <<exp_id, mask>>
isrVars    == <<isrPc, isr>>
callerVars == <<callerPc, reply, resets>>

vars == <<devVars, ctlVars, queueVars, threadVars, workVars, intVars, isrVars, callerVars>>

HandshakeInts == {"PORT_ENUM", "ASYNC_MD_HK", "ASYNC_AP_HK"}
ExceptionInts == {"EX_INIT", "EX_INIT_DONE", "EX_CLEARQ_DONE", "EX_ALLQ_RESET"}
Ints          == HandshakeInts \cup ExceptionInts   \* D2H_SW_INT_MASK

ASSUME BurstsAssumption == Bursts \subseteq SUBSET Ints

FsmStates == {"INIT", "PRE_START", "STARTING", "READY", "EXCEPTION", "STOPPING", "STOPPED"}
MdStates  == {"INVALID", "WAITING_FOR_HS1", "WAITING_FOR_HS2", "READY", "EXCEPTION",
              "WAITING_TO_STOP", "STOPPED"}
Fastboot  == {"FASTBOOT_DOWNLOAD", "FASTBOOT_DUMP"}
Modes     == {"UNKNOWN", "READY", "RESET", "FASTBOOT_SWITCHING"} \cup Fastboot
HS2(c)      == IF c = "md" THEN "MD_HS2" ELSE "AP_HS2"
HS2_EXIT(c) == IF c = "md" THEN "MD_HS2_EXIT" ELSE "AP_HS2_EXIT"
ExMsgs      == <<"MD_EX", "MD_EX_REC_OK", "MD_EX_PASS">>
Events      == {"MD_HS2", "AP_HS2", "MD_HS2_EXIT", "AP_HS2_EXIT",
                "MD_EX", "MD_EX_REC_OK", "MD_EX_PASS"}

Callers == Resetters \cup {"exit"}
CmdIds  == {"START", "EXCEPTION", "PRE_STOP", "STOP"}
(* struct t7xx_fsm_command. "wait" is FSM_CMD_FLAG_WAIT_FOR_COMPLETION and  *)
(* "irq" FSM_CMD_FLAG_IN_INTERRUPT; by is the thread that holds a reference *)
(* to the completion, "nobody" once it has given up.                        *)
Command == [id   : CmdIds,
            flag : {"none", "irq", "wait"},
            by   : Callers \cup {"nobody"}]
NoCmd   == [id |-> "STOP", flag |-> "none", by |-> "nobody"]
Cmd(id, flag)     == [id |-> id, flag |-> flag, by |-> "nobody"]
WaitCmd(id, who)  == [id |-> id, flag |-> "wait", by |-> who]

FsmPcs    == {"idle", "poll", "starting", "hs_wait", "ex_init_done", "ex_clearq_done",
              "ex_allq_reset", "ex_rec_ok", "ex_pass", "stopping", "exited"}
WorkPcs   == {"idle", "setup", "wait", "parse"}
HifStates == {"released", "stopped", "rx_only", "running"}
CallerPcs == {"idle", "wait", "reset", "start", "uninit", "join", "destroy", "gone"}
Replies   == {"none", "0", "EINVAL"}

DevTypeOK ==
    /\ stage \in DevStages
    /\ sts \subseteq Ints /\ raised \subseteq Ints
    /\ hs1 \subseteq Core /\ hs2 \subseteq Core
    /\ h2d \subseteq {"EXCEPTION_ACK", "EXCEPTION_CLEARQ_ACK"}
    /\ exMsgs \in 0 .. 3
    /\ exceptions \in Nat

CtlTypeOK ==
    /\ curr_state \in FsmStates
    /\ md_state \in MdStates
    /\ exp_flg \in BOOLEAN
    /\ status \in DevStages
    /\ mode \in Modes
    /\ fsmPc \in FsmPcs

CmdTypeOK ==
    /\ command_queue \in Seq(Command)
    /\ cmd \in Command
    /\ callerPc \in [Callers -> CallerPcs]
    /\ reply \in [Callers -> Replies]
    /\ resets \in 0 .. MaxResets

ModemTypeOK ==
    /\ exp_id \subseteq Ints /\ mask \subseteq Ints
    /\ ready \subseteq Core /\ handshake_ongoing \subseteq Core
    /\ queued \subseteq Core
    /\ workPc \in [Core -> WorkPcs]
    /\ hif \in [Core -> HifStates]
    /\ caught \in BOOLEAN
    /\ isrPc \in {"idle", "handle", "ack"}
    /\ isr \subseteq Ints

(* Every variable of the driver and the device keeps its type: the enums of  *)
(* t7xx_state_monitor.h and t7xx_pci.h, the interrupt bits, the two lists.   *)
TypeOK ==
    /\ DevTypeOK /\ CtlTypeOK /\ CmdTypeOK /\ ModemTypeOK
    /\ event_queue \in Seq(Events)

(***************************************************************************)
(* The state after t7xx_md_init(): the FSM thread runs, START is queued,   *)
(* and t7xx_md_sys_sw_init() has masked everything but PORT_ENUM.          *)
(***************************************************************************)
Init ==
    /\ stage = "INIT" /\ sts = {} /\ raised = {} /\ hs1 = {} /\ hs2 = {}
    /\ h2d = {} /\ exMsgs = 0
    /\ curr_state = "INIT" /\ md_state = "INVALID"
    /\ command_queue = <<Cmd("START", "none")>> /\ event_queue = <<>>
    /\ exp_flg = FALSE /\ status = "INIT"
    /\ fsmPc = "idle" /\ cmd = NoCmd
    /\ exp_id = {} /\ mask = Ints \ {"PORT_ENUM"}
    /\ ready = {} /\ handshake_ongoing = {} /\ queued = {}
    /\ workPc = [c \in Core |-> "idle"]
    /\ hif = [c \in Core |-> "released"] /\ caught = FALSE
    /\ mode = "UNKNOWN"
    /\ isrPc = "idle" /\ isr = {}
    /\ callerPc = [t \in Callers |-> "idle"]
    /\ reply = [t \in Callers |-> "none"]
    /\ resets = 0 /\ exceptions = 0
-----------------------------------------------------------------------------
(* The FSM thread.                                                         *)

(* Faulty variant: the wait-for-completion flag is not tested *)
CompletedAlways(r, c, result) ==
    [t \in Callers \cup {c.by} |-> IF t = c.by THEN result ELSE r[t]]

(* complete_all() on the command's completion; nothing once its caller has *)
(* given up.                                                               *)
Completed(r, c, result) ==
    IF c.by \in Callers THEN [r EXCEPT ![c.by] = result] ELSE r

fsm_finish_command(result) ==
    /\ reply' = Completed(reply, cmd, result)
    /\ cmd' = NoCmd
    /\ fsmPc' = "idle"

(* Faulty variant: flushed commands are freed without completing them *)
FlushedSilently(r, q) == r

(* The completions fsm_flush_event_cmd_qs() signals for the queued commands *)
Flushed(r, q) ==
    [t \in Callers |-> IF \E i \in DOMAIN q : q[i].by = t THEN "EINVAL" ELSE r[t]]

(* cldma_stop(), cldma_start(): nothing happens to rings that were released *)
Hif(s) == [c \in Core |-> IF hif[c] = "released" THEN "released" ELSE s]

(* t7xx_md_reset() with t7xx_fsm_reset(), t7xx_cldma_reset() and            *)
(* t7xx_core_reset(). It resets the flags of the modem core only.           *)
t7xx_md_reset(done, rest) ==
    /\ exp_id' = {}
    /\ command_queue' = <<>>
    /\ reply' = Completed(Flushed(reply, rest), done, "0")
    /\ exp_flg' = FALSE
    /\ status' = "INIT"
    /\ hif' = [c \in Core |-> "released"]
    /\ ready' = ready \ {"md"}
    /\ event_queue' = IF "md" \in handshake_ongoing THEN <<"MD_HS2_EXIT">> ELSE <<>>
    /\ handshake_ongoing' = handshake_ongoing \ {"md"}
    /\ caught' = (workPc["md"] = "setup" /\ "md" \notin handshake_ongoing)

(* Faulty variant: a switch to fastboot keeps the session as well *)
KeepsSessionSwitching == mode \in Fastboot \cup {"FASTBOOT_SWITCHING"}

(* Stopping in fastboot leaves the ports and the modem state alone *)
KeepsSession == mode \in Fastboot

(* fsm_stopped_handler() and the fsm_finish_command() that follows it, for  *)
(* the command done with the commands rest still queued                     *)
fsm_stopped_handler(done, rest) ==
    /\ curr_state' = "STOPPED"
    /\ fsmPc' = "idle" /\ cmd' = NoCmd
    /\ \/ /\ KeepsSession
          /\ command_queue' = rest
          /\ reply' = Completed(reply, done, "0")
          /\ UNCHANGED <<md_state, exp_id, event_queue, exp_flg, status, hif, ready,
                         handshake_ongoing, caught>>
       \/ /\ ~KeepsSession
          /\ md_state' = "STOPPED"
          /\ t7xx_md_reset(done, rest)
    /\ UNCHANGED <<mode, mask, queued, workPc>>

StopRequested == callerPc["exit"] = "join"     \* kthread_should_stop()

(* fsm_main_thread() takes the first command. A routine refuses it in the   *)
(* wrong state: fsm_routine_start(), fsm_routine_exception(),               *)
(* fsm_routine_stopping(), fsm_routine_stopped().                           *)
Accepts ==
    [START     |-> {"INIT", "PRE_START", "STOPPED"},
     EXCEPTION |-> {"READY", "STARTING"},
     PRE_STOP  |-> FsmStates \ {"STOPPED", "STOPPING"},
     STOP      |-> FsmStates \ {"STOPPED"}]

Take(id) ==
    /\ fsmPc = "idle" /\ ~StopRequested /\ command_queue # <<>>
    /\ Head(command_queue).id = id
    /\ command_queue' = Tail(command_queue)

TakeAccepted(id) == Take(id) /\ curr_state \in Accepts[id]

FsmReject ==
    /\ \E id \in CmdIds : Take(id) /\ curr_state \notin Accepts[id]
    /\ reply' = Completed(reply, Head(command_queue), "EINVAL")
    /\ UNCHANGED <<devVars, ctlVars, event_queue, threadVars, workVars, intVars, isrVars, callerPc,
                   resets>>

FsmStop ==
    /\ fsmPc = "idle" /\ ~StopRequested /\ command_queue # <<>>
    /\ Head(command_queue).id = "STOP" /\ curr_state \in Accepts["STOP"]
    /\ fsm_stopped_handler(Head(command_queue), Tail(command_queue))
    /\ UNCHANGED <<devVars, isrVars, callerPc, resets>>

(* fsm_routine_stopping(): stop the modem core's CLDMA, tell the device and *)
(* sleep; fsm_stopped_handler() runs after the delay.                       *)
FsmStopping ==
    /\ TakeAccepted("PRE_STOP")
    /\ cmd' = Head(command_queue)
    /\ curr_state' = "STOPPING"
    /\ md_state' = "WAITING_TO_STOP"
    /\ hif' = [hif EXCEPT !["md"] = Hif("stopped")["md"]]
    /\ caught' = (caught \/ workPc["md"] = "setup")
    /\ fsmPc' = "stopping"
    /\ UNCHANGED <<devVars, exp_flg, status, mode, event_queue, ready, handshake_ongoing, queued,
                   workPc, intVars, isrVars, callerVars>>

FsmStopped ==
    /\ fsmPc = "stopping"
    /\ fsm_stopped_handler(cmd, command_queue)
    /\ UNCHANGED <<devVars, isrVars, callerPc, resets>>

(* fsm_routine_start() up to the poll of the device stage *)
FsmPreStart ==
    /\ TakeAccepted("START")
    /\ cmd' = Head(command_queue)
    /\ curr_state' = "PRE_START"
    /\ mask' = mask \ HandshakeInts
    /\ fsmPc' = "poll"
    /\ UNCHANGED <<devVars, md_state, exp_flg, status, mode, event_queue, workVars, exp_id, isrVars,
                   callerVars>>

(* wait_for_expected_dev_stage() gives up after 60 s *)
FsmPollTimeout ==
    /\ fsmPc = "poll" /\ stage = "INIT"
    /\ mode' = "UNKNOWN"
    /\ fsm_finish_command("EINVAL")
    /\ UNCHANGED <<devVars, curr_state, md_state, exp_flg, status, queueVars, workVars, intVars,
                   isrVars, callerPc, resets>>

(* The device reports a stage that needs no handling: the same status again *)
(* to a command without flags, or Linux to a command without flags (the     *)
(* PORT_ENUM interrupt will bring the next START).                          *)
FsmNothingToStart ==
    /\ fsmPc = "poll" /\ cmd.flag = "none"
    /\ stage = "LINUX" \/ (stage = status /\ stage # "INIT")
    /\ mask' = IF stage = "LINUX" THEN mask \ HandshakeInts ELSE mask
    /\ status' = stage
    /\ fsm_finish_command("0")
    /\ UNCHANGED <<devVars, curr_state, md_state, exp_flg, mode, queueVars, workVars, exp_id,
                   isrVars, callerPc, resets>>

(* The LK stage: t7xx_port_proxy_set_cfg(EARLY), which empties the ports,   *)
(* then t7xx_lk_stage_event_handling().                                     *)
FsmLkStage ==
    /\ fsmPc = "poll" /\ stage \in LkStages
    /\ stage # status \/ cmd.flag # "none"
    /\ hs2' = {}
    /\ hif' = IF stage = "LK_NORMAL" THEN hif ELSE [hif EXCEPT !["ap"] = "running"]
    /\ \/ stage = "LK_NORMAL" /\ mode' = mode
       \/ stage = "LK_DL"     /\ mode' = "FASTBOOT_DOWNLOAD"
       \/ stage = "LK_DUMP"   /\ mode' = "FASTBOOT_DUMP"
    /\ status' = stage
    /\ fsm_finish_command("0")
    /\ UNCHANGED <<stage, sts, raised, hs1, h2d, exMsgs, exceptions, curr_state, md_state,
                   exp_flg, queueVars, ready, handshake_ongoing, queued, workPc, caught, intVars,
                   isrVars, callerPc, resets>>

(* The Linux stage after a PORT_ENUM interrupt: both CLDMA interfaces are   *)
(* re-initialised, the normal ports replace the old ones, and               *)
(* fsm_routine_starting() announces WAITING_FOR_HS1.                        *)
FsmStarting ==
    /\ fsmPc = "poll" /\ stage = "LINUX" /\ cmd.flag = "irq"
    /\ mask' = mask \ HandshakeInts
    /\ hs2' = {}
    /\ curr_state' = "STARTING"
    /\ md_state' = "WAITING_FOR_HS1"
    /\ fsmPc' = "starting"
    /\ UNCHANGED <<stage, sts, raised, hs1, h2d, exMsgs, exceptions, exp_flg, status, mode,
                   queueVars, cmd, workVars, exp_id, isrVars, callerVars>>

(* t7xx_md_event_notify(FSM_START) *)
HandshakeInt(c) == IF c = "md" THEN "ASYNC_MD_HK" ELSE "ASYNC_AP_HK"

FsmStartNotify ==
    /\ fsmPc = "starting"
    /\ LET pending == exp_id \cup sts
           start   == {c \in Core : HandshakeInt(c) \in pending}
       IN \/ /\ "EX_INIT" \in pending \/ exp_flg
             /\ exp_flg' = TRUE
             /\ exp_id' = pending \ {"EX_INIT", "ASYNC_MD_HK", "ASYNC_AP_HK"}
             /\ mask' = (mask \cup {"PORT_ENUM"}) \ ExceptionInts
             /\ UNCHANGED <<queued, sts>>
          \/ /\ "EX_INIT" \notin pending /\ ~exp_flg
             /\ queued' = queued \cup start
             /\ exp_id' = pending \ {HandshakeInt(c) : c \in start}
             /\ sts' = sts \ {HandshakeInt(c) : c \in start}
             /\ mask' = (mask \cup {"PORT_ENUM"} \cup {HandshakeInt(c) : c \in start})
                            \ ExceptionInts
             /\ UNCHANGED exp_flg
    /\ fsmPc' = "hs_wait"
    /\ UNCHANGED <<stage, raised, hs1, hs2, h2d, exMsgs, exceptions, curr_state, md_state,
                   status, mode, queueVars, cmd, ready, handshake_ongoing, workPc, hif, caught,
                   isrVars, callerVars>>

(* Faulty variant: READY is announced whatever the modem state *)
BroadcastReadyAlways == md_state' = "READY"

t7xx_fsm_broadcast_ready_state ==
    md_state' = IF md_state = "WAITING_FOR_HS2" THEN "READY" ELSE md_state

(* fsm_routine_starting() after its wait: both cores are ready, so PM is    *)
(* initialised and fsm_routine_ready() runs.                                *)
FsmReady ==
    /\ fsmPc = "hs_wait" /\ ready = Core
    /\ curr_state' = "READY"
    /\ t7xx_fsm_broadcast_ready_state
    /\ mode' = "READY"
    /\ mask' = mask \cup {"ASYNC_MD_HK", "ASYNC_AP_HK"}
    /\ status' = "LINUX"
    /\ fsm_finish_command("0")
    /\ UNCHANGED <<devVars, exp_flg, queueVars, workVars, exp_id, isrVars, callerPc, resets>>

(* fsm_routine_starting() with a core that is not ready: only the first one *)
(* found is told to give up, and only if its handshake is under way.        *)
HandshakeFailure ==
    /\ LET c == IF "md" \notin ready THEN "md" ELSE "ap"
       IN event_queue' = IF c \in handshake_ongoing THEN Append(event_queue, HS2_EXIT(c))
                                                    ELSE event_queue
    /\ curr_state' = "EXCEPTION"
    /\ mode' = "UNKNOWN"
    /\ status' = "LINUX"
    /\ fsm_finish_command("EINVAL")
    /\ UNCHANGED <<devVars, md_state, exp_flg, command_queue, workVars, intVars, isrVars, callerPc,
                   resets>>

(* Faulty variant: the wait has no timeout *)
FsmHandshakeFailedOnException ==
    fsmPc = "hs_wait" /\ ready # Core /\ exp_flg /\ HandshakeFailure

(* The wait ends because of an exception or after 60 s *)
FsmHandshakeFailed ==
    fsmPc = "hs_wait" /\ ready # Core /\ HandshakeFailure

(* fsm_routine_exception(EXCEPTION_EVENT): broadcast, PM, then the HIF      *)
(* exception handshake of t7xx_md_exception_handshake(). Each stage waits   *)
(* for its interrupt and goes on without it after a timeout.                *)
FsmException ==
    /\ TakeAccepted("EXCEPTION")
    /\ cmd' = Head(command_queue)
    /\ curr_state' = "EXCEPTION"
    /\ md_state' = "EXCEPTION"
    /\ hif' = [c \in Core |-> IF hif[c] = "running" THEN "rx_only" ELSE hif[c]]
    /\ h2d' = h2d \cup {"EXCEPTION_ACK"}
    /\ fsmPc' = "ex_init_done"
    /\ UNCHANGED <<stage, sts, raised, hs1, hs2, exMsgs, exceptions, exp_flg, status, mode,
                   event_queue, ready, handshake_ongoing, queued, workPc, caught, intVars, isrVars,
                   callerVars>>

(* EX_INIT_DONE, or 5 s without it, changes nothing on the host *)
FsmExInitDone ==
    /\ fsmPc = "ex_init_done"
    /\ fsmPc' = "ex_clearq_done"
    /\ UNCHANGED <<devVars, ctlVars, queueVars, cmd, workVars, intVars, isrVars, callerVars>>

(* EX_CLEARQ_DONE or its timeout: ports and CLDMA are stopped and cleared *)
FsmExClearqDone ==
    /\ fsmPc = "ex_clearq_done"
    /\ hif' = Hif("stopped")
    /\ h2d' = h2d \cup {"EXCEPTION_CLEARQ_ACK"}
    /\ fsmPc' = "ex_allq_reset"
    /\ UNCHANGED <<stage, sts, raised, hs1, hs2, exMsgs, exceptions, ctlVars, queueVars, cmd,
                   ready, handshake_ongoing, queued, workPc, caught, intVars, isrVars, callerVars>>

(* EX_ALLQ_RESET or its timeout: CLDMA is started again *)
FsmExAllqReset ==
    /\ fsmPc = "ex_allq_reset"
    /\ hif' = Hif("running")
    /\ fsmPc' = "ex_rec_ok"
    /\ UNCHANGED <<devVars, ctlVars, queueVars, cmd, ready, handshake_ongoing, queued, workPc,
                   caught, intVars, isrVars, callerVars>>

(* fsm_wait_for_event(): only the first event is looked at. An expected or  *)
(* ignored event is removed; any other stays, and the wait goes on until    *)
(* its retries are used up or the thread has to stop.                       *)
Consume(event) ==
    /\ ~StopRequested /\ event_queue # <<>> /\ Head(event_queue) = event
    /\ event_queue' = Tail(event_queue)

FsmExRecOk ==
    /\ fsmPc = "ex_rec_ok"
    /\ \/ Consume("MD_EX") /\ UNCHANGED fsmPc
       \/ Consume("MD_EX_REC_OK") /\ fsmPc' = "ex_pass"
       \/ UNCHANGED event_queue /\ fsmPc' = "ex_pass"
    /\ UNCHANGED <<devVars, ctlVars, command_queue, cmd, workVars, intVars, isrVars, callerVars>>

FsmExPass ==
    /\ fsmPc = "ex_pass"
    /\ Consume("MD_EX_PASS") \/ UNCHANGED event_queue
    /\ fsm_finish_command("0")
    /\ UNCHANGED <<devVars, ctlVars, command_queue, workVars, intVars, isrVars, callerPc, resets>>

(* Faulty variant: the thread wants the queue to be empty before it stops *)
FsmExitWhenDrained ==
    /\ fsmPc = "idle" /\ StopRequested /\ command_queue = <<>>
    /\ fsmPc' = "exited"
    /\ UNCHANGED <<devVars, ctlVars, queueVars, cmd, workVars, intVars, isrVars, callerVars>>

(* kthread_stop() *)
FsmExit ==
    /\ fsmPc = "idle" /\ StopRequested
    /\ fsmPc' = "exited"
    /\ UNCHANGED <<devVars, ctlVars, queueVars, cmd, workVars, intVars, isrVars, callerVars>>

FsmThread ==
    \/ FsmReject \/ FsmStop \/ FsmStopping \/ FsmStopped \/ FsmPreStart
    \/ FsmPollTimeout \/ FsmNothingToStart \/ FsmLkStage \/ FsmStarting \/ FsmStartNotify
    \/ FsmReady \/ FsmHandshakeFailed \/ FsmException \/ FsmExInitDone \/ FsmExClearqDone
    \/ FsmExAllqReset \/ FsmExRecOk \/ FsmExPass \/ FsmExit
-----------------------------------------------------------------------------
(* The MHCCIF interrupt thread: t7xx_mhccif_isr_thread() reads the status,   *)
(* t7xx_pci_mhccif_isr() reads it again under exp_lock and handles every bit *)
(* that is set by then, and only the bits of the first read are acknowledged *)
(* afterwards.                                                               *)
ExceptionStates == {"INVALID", "WAITING_FOR_HS1", "WAITING_FOR_HS2", "READY"}

(* Faulty variant: an exception is flagged but not queued *)
RecvPortEnumOnly(id) ==
    command_queue' = IF id = "START" THEN Append(command_queue, Cmd(id, "irq"))
                                     ELSE command_queue

t7xx_fsm_recv_md_intr(id) == command_queue' = Append(command_queue, Cmd(id, "irq"))

IsrException(pending) ==
    /\ "EX_INIT" \in pending
    /\ \/ /\ md_state \in ExceptionStates
          /\ exp_id' = pending \ {"EX_INIT"}
          /\ exp_flg' = TRUE
          /\ t7xx_fsm_recv_md_intr("EXCEPTION")
       \/ /\ md_state \notin ExceptionStates
          /\ exp_id' = pending
          /\ UNCHANGED <<exp_flg, command_queue>>
    /\ UNCHANGED queued

IsrPortEnum(pending) ==
    /\ "EX_INIT" \notin pending /\ "PORT_ENUM" \in pending
    /\ exp_id' = pending \ {"PORT_ENUM"}
    /\ \/ curr_state \in Accepts["START"] /\ t7xx_fsm_recv_md_intr("START")
       \/ curr_state \notin Accepts["START"] /\ UNCHANGED command_queue
    /\ UNCHANGED <<exp_flg, queued>>

IsrHandshake(pending) ==
    /\ pending \cap {"EX_INIT", "PORT_ENUM"} = {}
    /\ \/ /\ md_state = "WAITING_FOR_HS1" /\ "ASYNC_MD_HK" \in pending \ mask
          /\ exp_id' = pending \ {"ASYNC_MD_HK"}
          /\ queued' = queued \cup {"md"}
       \/ /\ md_state # "WAITING_FOR_HS1" \/ "ASYNC_MD_HK" \notin pending \ mask
          /\ exp_id' = pending
          /\ UNCHANGED queued
    /\ UNCHANGED <<exp_flg, command_queue>>

t7xx_mhccif_isr_thread ==
    /\ isrPc = "idle" /\ sts \ mask # {}
    /\ isr' = sts
    /\ isrPc' = "handle"
    /\ UNCHANGED <<devVars, ctlVars, queueVars, threadVars, workVars, intVars, callerVars>>

t7xx_pci_mhccif_isr ==
    /\ isrPc = "handle"
    /\ isrPc' = "ack"
    /\ LET pending == exp_id \cup sts
       IN IsrException(pending) \/ IsrPortEnum(pending) \/ IsrHandshake(pending)
    /\ UNCHANGED <<devVars, curr_state, md_state, status, mode, event_queue, threadVars, ready,
                   handshake_ongoing, workPc, hif, caught, mask, isr, callerVars>>

t7xx_mhccif_clear_interrupts ==
    /\ isrPc = "ack"
    /\ sts' = sts \ isr
    /\ isr' = {} /\ isrPc' = "idle"
    /\ UNCHANGED <<stage, raised, hs1, hs2, h2d, exMsgs, exceptions, ctlVars, queueVars,
                   threadVars, workVars, intVars, callerVars>>

IsrThread == t7xx_mhccif_isr_thread \/ t7xx_pci_mhccif_isr \/ t7xx_mhccif_clear_interrupts
-----------------------------------------------------------------------------
(* The handshake work items: t7xx_md_hk_wq(), t7xx_ap_hk_wq() and            *)
(* t7xx_core_hk_handler(). A work item that is queued again while it runs    *)
(* runs once more.                                                           *)

(* Every such event goes, the others stay in their order. Stated as a        *)
(* relation, since the proofs cannot look into SelectSeq.                    *)
t7xx_fsm_clr_event(event) ==
    \E n \in 0 .. Len(event_queue) : \E stays \in [1 .. n -> DOMAIN event_queue] :
        /\ {stays[k] : k \in 1 .. n} = {i \in DOMAIN event_queue : event_queue[i] # event}
        /\ \A k, l \in 1 .. n : k < l => stays[k] < stays[l]
        /\ event_queue' = [k \in 1 .. n |-> event_queue[stays[k]]]

(* Up to t7xx_cldma_switch_cfg() and t7xx_cldma_start() *)
HkStart(c) ==
    /\ c \in queued /\ workPc[c] = "idle"
    /\ queued' = queued \ {c}
    /\ t7xx_fsm_clr_event(HS2_EXIT(c))
    /\ hif' = [hif EXCEPT ![c] = "running"]
    /\ caught' = (caught /\ c # "md")
    /\ workPc' = [workPc EXCEPT ![c] = "setup"]
    /\ UNCHANGED <<devVars, ctlVars, command_queue, threadVars, ready, handshake_ongoing, intVars,
                   isrVars, callerVars>>

(* The modem core's work announces WAITING_FOR_HS2; both send HS1, whose     *)
(* failure t7xx_prepare_host_rt_data_query() ignores.                        *)
HkSendHs1(c) ==
    /\ workPc[c] = "setup"
    /\ md_state' = IF c = "md" THEN "WAITING_FOR_HS2" ELSE md_state
    /\ handshake_ongoing' = handshake_ongoing \cup {c}
    /\ hs1' = IF hif[c] = "running" /\ stage = "LINUX" THEN hs1 \cup {c} ELSE hs1
    /\ workPc' = [workPc EXCEPT ![c] = "wait"]
    /\ UNCHANGED <<stage, sts, raised, hs2, h2d, exMsgs, exceptions, curr_state, exp_flg, status,
                   mode, queueVars, threadVars, ready, queued, hif, caught, intVars, isrVars,
                   callerVars>>

(* The first of HS2 and HS2_EXIT in the event queue is taken. Nothing but an *)
(* event ends this wait: kthread_should_stop() is never true in a work item. *)
HkEvent(c) ==
    /\ workPc[c] = "wait"
    /\ \E i \in DOMAIN event_queue :
          /\ event_queue[i] \in {HS2(c), HS2_EXIT(c)}
          /\ \A j \in 1 .. i - 1 : event_queue[j] \notin {HS2(c), HS2_EXIT(c)}
          /\ event_queue' = RemoveAt(event_queue, i)
          /\ workPc' = [workPc EXCEPT ![c] =
                           IF event_queue[i] = HS2(c) /\ ~exp_flg THEN "parse" ELSE "idle"]
    /\ UNCHANGED <<devVars, ctlVars, command_queue, threadVars, ready, handshake_ongoing, queued,
                   hif, caught, intVars, isrVars, callerVars>>

(* t7xx_parse_host_rt_data() and t7xx_prepare_device_rt_data() may refuse    *)
(* the device's data, and an exception may have been flagged.                *)
HkParse(c) ==
    /\ workPc[c] = "parse"
    /\ workPc' = [workPc EXCEPT ![c] = "idle"]
    /\ \/ UNCHANGED <<ready, handshake_ongoing>>
       \/ /\ ~exp_flg
          /\ ready' = ready \cup {c}
          /\ handshake_ongoing' = handshake_ongoing \ {c}
    /\ UNCHANGED <<devVars, ctlVars, queueVars, threadVars, queued, hif, caught, intVars, isrVars,
                   callerVars>>

HandshakeWork(c) == HkStart(c) \/ HkSendHs1(c) \/ HkEvent(c) \/ HkParse(c)

(* The control port's thread, control_msg_handler(): HS2 becomes an event *)
CtrlPort(c) ==
    /\ c \in hs2
    /\ hs2' = hs2 \ {c}
    /\ event_queue' = Append(event_queue, HS2(c))
    /\ UNCHANGED <<stage, sts, raised, hs1, h2d, exMsgs, exceptions, ctlVars, command_queue,
                   threadVars, workVars, intVars, isrVars, callerVars>>

(* fsm_ee_message_handler(): the next exception message arrives at the modem *)
(* core's control port; outside MD_STATE_EXCEPTION it is dropped.            *)
CtrlPortException ==
    /\ "EXCEPTION_ACK" \in h2d /\ exMsgs < Len(ExMsgs) /\ hif["md"] = "running"
    /\ exMsgs' = exMsgs + 1
    /\ event_queue' = IF md_state = "EXCEPTION" THEN Append(event_queue, ExMsgs[exMsgs'])
                                                ELSE event_queue
    /\ UNCHANGED <<stage, sts, raised, hs1, hs2, h2d, exceptions, ctlVars, command_queue,
                   threadVars, workVars, intVars, isrVars, callerVars>>
-----------------------------------------------------------------------------
(* The device, known only from what the driver expects of it.                *)

DeviceBoot ==
    /\ stage \in {"INIT", "LK_NORMAL"}
    /\ stage' \in IF stage = "INIT" THEN BootStages ELSE {"LINUX"}
    /\ UNCHANGED <<sts, raised, hs1, hs2, h2d, exMsgs, exceptions, ctlVars, queueVars, threadVars,
                   workVars, intVars, isrVars, callerVars>>

(* Each interrupt is raised at most once per boot; several may be raised     *)
(* before the host reads the status register.                                *)
DeviceMayRaise(int) ==
    \/ int \in HandshakeInts /\ stage = "LINUX"
    \/ int = "EX_INIT" /\ stage = "LINUX" /\ exceptions < MaxExceptions
    \/ int \in {"EX_INIT_DONE", "EX_CLEARQ_DONE"} /\ "EXCEPTION_ACK" \in h2d
    \/ int = "EX_ALLQ_RESET" /\ "EXCEPTION_CLEARQ_ACK" \in h2d

DeviceRaise(ints) ==
    /\ ints \cap raised = {} /\ \A int \in ints : DeviceMayRaise(int)
    /\ raised' = raised \cup ints
    /\ sts' = sts \cup ints
    /\ exceptions' = IF "EX_INIT" \in ints THEN exceptions + 1 ELSE exceptions
    /\ UNCHANGED <<stage, hs1, hs2, h2d, exMsgs, ctlVars, queueVars, threadVars, workVars, intVars,
                   isrVars, callerVars>>

DeviceAnswer(c) ==
    /\ c \in hs1 /\ hif[c] = "running"
    /\ hs1' = hs1 \ {c}
    /\ hs2' = hs2 \cup {c}
    /\ UNCHANGED <<stage, sts, raised, h2d, exMsgs, exceptions, ctlVars, queueVars, threadVars,
                   workVars, intVars, isrVars, callerVars>>

Device ==
    \/ DeviceBoot
    \/ \E ints \in Bursts : DeviceRaise(ints)
    \/ \E c \in Core : DeviceAnswer(c)
-----------------------------------------------------------------------------
(* Threads that queue commands and wait.                                     *)

(* t7xx_fsm_append_cmd() with FSM_CMD_FLAG_WAIT_FOR_COMPLETION, up to the wait *)
AppendAndWait(t, id) ==
    /\ command_queue' = Append(command_queue, WaitCmd(id, t))
    /\ callerPc' = [callerPc EXCEPT ![t] = "wait"]
    /\ UNCHANGED reply

(* The caller has gone: its reference to the command is dropped *)
Abandoned(c, t) == IF c.by = t THEN [c EXCEPT !.by = "nobody"] ELSE c

(* The end of wait_for_completion_timeout(), by completion or after 2 s *)
WaitEnds(t, next) ==
    /\ callerPc[t] = "wait"
    /\ callerPc' = [callerPc EXCEPT ![t] = next]
    /\ reply' = [reply EXCEPT ![t] = "none"]
    /\ \/ reply[t] # "none" /\ UNCHANGED <<command_queue, cmd>>
       \/ /\ reply[t] = "none"
          /\ command_queue' = [i \in DOMAIN command_queue |-> Abandoned(command_queue[i], t)]
          /\ cmd' = Abandoned(cmd, t)
    /\ UNCHANGED <<devVars, ctlVars, event_queue, fsmPc, workVars, intVars, isrVars, resets>>

(* t7xx_reset_device(), from the RGU interrupt thread or t7xx_mode_store();  *)
(* the latter asks for fastboot by entering FASTBOOT_SWITCHING first.        *)
ResetRequest(t) ==
    /\ callerPc[t] = "idle" /\ callerPc["exit"] = "idle"
    /\ resets < MaxResets /\ resets' = resets + 1
    /\ \/ UNCHANGED mode
       \/ mode \notin {"FASTBOOT_SWITCHING", "FASTBOOT_DOWNLOAD"} /\ mode' = "FASTBOOT_SWITCHING"
    /\ AppendAndWait(t, "STOP")
    /\ UNCHANGED <<devVars, curr_state, md_state, exp_flg, status, event_queue, threadVars,
                   workVars, intVars, isrVars>>

(* The result of the STOP command is ignored *)
ResetStopped(t) == WaitEnds(t, "reset")

(* The device goes down and starts to boot again; if t7xx_acpi_reset() fails *)
(* nothing happens to it and the caller gives up.                            *)
ResetDevice(t) ==
    /\ callerPc[t] = "reset"
    /\ mode' = "RESET"
    /\ \/ /\ stage' = "INIT"
          /\ sts' = {} /\ raised' = {} /\ hs1' = {} /\ h2d' = {} /\ exMsgs' = 0
          /\ callerPc' = [callerPc EXCEPT ![t] = "start"]
       \/ /\ callerPc' = [callerPc EXCEPT ![t] = "idle"]
          /\ UNCHANGED <<stage, sts, raised, hs1, h2d, exMsgs>>
    /\ UNCHANGED <<hs2, exceptions, curr_state, md_state, exp_flg, status, queueVars, threadVars,
                   workVars, intVars, isrVars, reply, resets>>

(* t7xx_pci_reprobe() *)
ResetStart(t) ==
    /\ callerPc[t] = "start"
    /\ command_queue' = Append(command_queue, Cmd("START", "none"))
    /\ callerPc' = [callerPc EXCEPT ![t] = "idle"]
    /\ UNCHANGED <<devVars, ctlVars, event_queue, threadVars, workVars, intVars, isrVars, reply,
                   resets>>

Resetter(t) == ResetRequest(t) \/ ResetStopped(t) \/ ResetDevice(t) \/ ResetStart(t)

(* t7xx_md_exit(), from t7xx_pci_remove() and t7xx_pci_shutdown(), past its   *)
(* test of md_init_finish: t7xx_md_init() has set it before the model begins, *)
(* and t7xx_md_reset(), which clears and sets it again, is not in the model.  *)
ExitBegin ==
    /\ MayExit /\ callerPc["exit"] = "idle"
    /\ \/ mode \notin {"RESET", "UNKNOWN"} /\ AppendAndWait("exit", "PRE_STOP")
       \/ /\ mode \in {"RESET", "UNKNOWN"}
          /\ callerPc' = [callerPc EXCEPT !["exit"] = "uninit"]
          /\ UNCHANGED <<command_queue, reply>>
    /\ UNCHANGED <<devVars, ctlVars, event_queue, threadVars, workVars, intVars, isrVars, resets>>

ExitStopped == WaitEnds("exit", "uninit")

(* t7xx_port_proxy_uninit(), t7xx_cldma_exit() for both cores *)
ExitUninit ==
    /\ callerPc["exit"] = "uninit"
    /\ hs2' = {}
    /\ hif' = [c \in Core |-> "released"]
    /\ callerPc' = [callerPc EXCEPT !["exit"] = "join"]
    /\ UNCHANGED <<stage, sts, raised, hs1, h2d, exMsgs, exceptions, ctlVars, queueVars,
                   threadVars, ready, handshake_ongoing, queued, workPc, caught, intVars, isrVars, reply,
                   resets>>

(* t7xx_fsm_uninit(): kthread_stop() returns, then the queues are flushed *)
ExitFlush ==
    /\ callerPc["exit"] = "join" /\ fsmPc = "exited"
    /\ reply' = Flushed(reply, command_queue)
    /\ command_queue' = <<>> /\ event_queue' = <<>>
    /\ callerPc' = [callerPc EXCEPT !["exit"] = "destroy"]
    /\ UNCHANGED <<devVars, ctlVars, threadVars, workVars, intVars, isrVars, resets>>

(* destroy_workqueue(handshake_wq) waits for the work items to end *)
ExitDestroy ==
    /\ callerPc["exit"] = "destroy"
    /\ queued = {} /\ \A c \in Core : workPc[c] = "idle"
    /\ callerPc' = [callerPc EXCEPT !["exit"] = "gone"]
    /\ UNCHANGED <<devVars, ctlVars, queueVars, threadVars, workVars, intVars, isrVars, reply, resets>>

ExitWork == ExitStopped \/ ExitUninit \/ ExitFlush \/ ExitDestroy
-----------------------------------------------------------------------------
Next ==
    \/ FsmThread
    \/ IsrThread
    \/ \E c \in Core : HandshakeWork(c) \/ CtrlPort(c)
    \/ CtrlPortException
    \/ Device
    \/ \E t \in Resetters : Resetter(t)
    \/ ExitBegin \/ ExitWork

(* Runnable kernel threads, work items and interrupt threads are scheduled;  *)
(* the device promises nothing, and nobody has to reset it or unload the     *)
(* driver.                                                                   *)
Fairness ==
    /\ WF_vars(FsmThread)
    /\ WF_vars(IsrThread)
    /\ \A c \in Core : WF_vars(HandshakeWork(c)) /\ WF_vars(CtrlPort(c))
    /\ \A t \in Resetters : WF_vars(ResetStopped(t) \/ ResetDevice(t) \/ ResetStart(t))
    /\ WF_vars(ExitWork)

Spec == Init /\ [][Next]_vars /\ Fairness
-----------------------------------------------------------------------------
(* Properties.                                                               *)

ExitPassed(pcs) == callerPc["exit"] \in pcs

(* While the driver announces MD_STATE_READY to its ports and notifiers, the *)
(* FSM is in FSM_STATE_READY and the mode is not a fastboot one, so that any *)
(* STOP goes through t7xx_md_reset() and takes the announcement back.        *)
ReadyBroadcast ==
    md_state = "READY" => curr_state = "READY" /\ mode \notin Fastboot

(* While MD_STATE_READY is announced, and until t7xx_md_exit() has released  *)
(* it, the modem core's CLDMA has rings and runs: a send does not meet the   *)
(* NULL rings t7xx_cldma_reset() leaves behind, however late the handshake   *)
(* work of an earlier session finishes. The code provides for one case less: *)
(* a stop that catches the work between starting CLDMA and sending HS1, with *)
(* no earlier handshake under way, queues no MD_HS2_EXIT for it (caught).    *)
MdReadyUsable ==
    md_state = "READY" /\ ~caught /\ ~ExitPassed({"join", "destroy", "gone"}) => hif["md"] = "running"

(* A thread asleep in t7xx_fsm_append_cmd() that has no result yet is        *)
(* remembered: the FSM thread is handling its command or has it queued. No   *)
(* flush, reset or exit drops a command without completing it.               *)
WaiterNotForgotten ==
    \A t \in Callers :
        callerPc[t] = "wait" /\ reply[t] = "none" =>
            cmd.by = t \/ \E i \in DOMAIN command_queue : command_queue[i].by = t

(* fsm_routine_starting() and fsm_routine_stopping() always come to an end:  *)
(* the handshake succeeds or is declared failed, whatever the device does.   *)
FsmSettles ==
    curr_state \in {"STARTING", "STOPPING"} ~> curr_state \in {"READY", "EXCEPTION", "STOPPED"}

(* An exception flagged while the FSM is ready is acted upon: the FSM leaves *)
(* FSM_STATE_READY unless the driver is unloaded first.                      *)
ExceptionHandled ==
    exp_flg /\ curr_state = "READY" ~> curr_state # "READY" \/ fsmPc = "exited"

(* kthread_stop() in t7xx_fsm_uninit() returns: the FSM thread gets out of   *)
(* every wait it can be in.                                                  *)
ExitJoins == ExitPassed({"join"}) ~> ExitPassed({"destroy"})

(* README.md says that t7xx_md_exit() prevents the poweroff hang: once it    *)
(* has begun, it returns. It does not when a handshake work item waits for   *)
(* an HS2 that no longer comes: destroy_workqueue() waits for the work item. *)
ExitEnds == ExitPassed({"wait", "uninit"}) ~> ExitPassed({"gone"})
=============================================================================
