---------------------------- MODULE T7xxFsmProofs ----------------------------
(* Proofs about the state monitor, for every set of resetting threads and    *)
(* every bound.                                                              *)
EXTENDS T7xxFsm, TLAPS

(***************************************************************************)
(* READY is announced only by the FSM thread at the end of a handshake and *)
(* taken back by the same thread. The inductive invariant says where the   *)
(* thread is in each state it goes through, which keeps a fastboot mode    *)
(* (entered from the poll of the device stage only) apart from READY.      *)
(***************************************************************************)
PcState ==
    /\ fsmPc = "poll" => curr_state = "PRE_START"
    /\ fsmPc \in {"starting", "hs_wait"} => curr_state = "STARTING"

ReadyInv ==
    /\ PcState
    /\ curr_state = "READY" => mode \notin Fastboot
    /\ md_state = "READY" => curr_state = "READY"

LEMMA ReadyInvInit == Init => ReadyInv
BY DEF Init, ReadyInv, PcState

LEMMA ReadyInvFsm == ReadyInv /\ FsmThread => ReadyInv'
<1> SUFFICES ASSUME ReadyInv, FsmThread PROVE ReadyInv'
    OBVIOUS
<1> USE DEF ReadyInv, PcState, Fastboot
<1>1. CASE FsmReject
  BY <1>1 DEF FsmReject, threadVars, ctlVars
<1>2. CASE FsmStop
  BY <1>2 DEF FsmStop, fsm_stopped_handler, KeepsSession
<1>3. CASE FsmStopping
  BY <1>3 DEF FsmStopping
<1>4. CASE FsmStopped
  BY <1>4 DEF FsmStopped, fsm_stopped_handler, KeepsSession
<1>5. CASE FsmPreStart
  BY <1>5 DEF FsmPreStart, TakeAccepted, Take, Accepts
<1>6. CASE FsmPollTimeout
  BY <1>6 DEF FsmPollTimeout, fsm_finish_command
<1>7. CASE FsmNothingToStart
  BY <1>7 DEF FsmNothingToStart, fsm_finish_command
<1>8. CASE FsmLkStage
  BY <1>8 DEF FsmLkStage, fsm_finish_command
<1>9. CASE FsmStarting
  BY <1>9 DEF FsmStarting
<1>10. CASE FsmStartNotify
  BY <1>10 DEF FsmStartNotify
<1>11. CASE FsmReady
  BY <1>11 DEF FsmReady, t7xx_fsm_broadcast_ready_state, fsm_finish_command
<1>12. CASE FsmHandshakeFailed
  BY <1>12 DEF FsmHandshakeFailed, HandshakeFailure, fsm_finish_command
<1>13. CASE FsmException
  BY <1>13 DEF FsmException
<1>14. CASE FsmExInitDone
  BY <1>14 DEF FsmExInitDone, ctlVars
<1>15. CASE FsmExClearqDone
  BY <1>15 DEF FsmExClearqDone, ctlVars
<1>16. CASE FsmExAllqReset
  BY <1>16 DEF FsmExAllqReset, ctlVars
<1>17. CASE FsmExRecOk
  BY <1>17 DEF FsmExRecOk, ctlVars
<1>18. CASE FsmExPass
  BY <1>18 DEF FsmExPass, fsm_finish_command, ctlVars
<1>19. CASE FsmExit
  BY <1>19 DEF FsmExit, ctlVars
<1> QED
  BY <1>1, <1>2, <1>3, <1>4, <1>5, <1>6, <1>7, <1>8, <1>9, <1>10, <1>11, <1>12, <1>13, <1>14,
     <1>15, <1>16, <1>17, <1>18, <1>19 DEF FsmThread

(* No other thread touches the FSM thread's state; a handshake work item     *)
(* announces WAITING_FOR_HS2 and a reset enters RESET or FASTBOOT_SWITCHING. *)
LEMMA ReadyInvOthers ==
    ASSUME ReadyInv, [Next]_vars, ~FsmThread PROVE ReadyInv'
<1> USE DEF ReadyInv, PcState, Fastboot
<1>1. CASE IsrThread
  BY <1>1 DEF IsrThread, t7xx_mhccif_isr_thread, t7xx_pci_mhccif_isr, t7xx_mhccif_clear_interrupts,
     threadVars, ctlVars
<1>2. ASSUME NEW c \in Core, HandshakeWork(c) PROVE ReadyInv'
  BY <1>2 DEF HandshakeWork, HkStart, HkSendHs1, HkEvent, HkParse, threadVars, ctlVars
<1>3. ASSUME NEW c \in Core, CtrlPort(c) PROVE ReadyInv'
  BY <1>3 DEF CtrlPort, threadVars, ctlVars
<1>4. CASE CtrlPortException
  BY <1>4 DEF CtrlPortException, threadVars, ctlVars
<1>5. CASE Device
  BY <1>5 DEF Device, DeviceBoot, DeviceRaise, DeviceAnswer, threadVars, ctlVars
<1>6. ASSUME NEW t \in Resetters, Resetter(t) PROVE ReadyInv'
  BY <1>6 DEF Resetter, ResetRequest, ResetStopped, WaitEnds, ResetDevice, ResetStart, threadVars,
     ctlVars
<1>7. CASE ExitBegin \/ ExitWork
  BY <1>7 DEF ExitBegin, ExitWork, ExitStopped, WaitEnds, ExitUninit, ExitFlush, ExitDestroy,
     threadVars, ctlVars
<1>8. CASE UNCHANGED vars
  BY <1>8 DEF vars, threadVars, ctlVars
<1> QED
  BY <1>1, <1>2, <1>3, <1>4, <1>5, <1>6, <1>7, <1>8 DEF Next

(* MD_STATE_READY is only announced while the FSM is in FSM_STATE_READY, and *)
(* never in a fastboot mode: the announcement of                             *)
(* t7xx_fsm_broadcast_ready_state() is taken back by every way out of READY. *)
THEOREM ReadyBroadcastHolds == Spec => []ReadyBroadcast
<1>1. ReadyInv => ReadyBroadcast
  BY DEF ReadyInv, ReadyBroadcast
<1> QED
  BY <1>1, ReadyInvInit, ReadyInvFsm, ReadyInvOthers, PTL DEF Spec
-----------------------------------------------------------------------------
(* The device and what it has sent *)
LEMMA DevTypeOKStep ==
    ASSUME DevTypeOK, CtlTypeOK, CmdTypeOK, ModemTypeOK, [Next]_vars PROVE DevTypeOK'
<1> USE DEF DevTypeOK, DevStages, LkStages, Core, Ints, HandshakeInts, ExceptionInts, ExMsgs
<1>1. CASE FsmLkStage
  BY <1>1 DEF FsmLkStage, fsm_finish_command, Completed
<1>2. CASE FsmStarting
  BY <1>2 DEF FsmStarting
<1>3. CASE FsmStartNotify
  BY <1>3 DEF FsmStartNotify, HandshakeInt
<1>4. CASE FsmException
  BY <1>4 DEF FsmException, TakeAccepted, Take
<1>5. CASE FsmExClearqDone
  BY <1>5 DEF FsmExClearqDone, Hif
<1>6. CASE t7xx_mhccif_clear_interrupts
  BY <1>6 DEF t7xx_mhccif_clear_interrupts
<1>7. ASSUME NEW c \in Core, HkSendHs1(c) PROVE DevTypeOK'
  BY <1>7 DEF HkSendHs1
<1>8. ASSUME NEW c \in Core, CtrlPort(c) PROVE DevTypeOK'
  BY <1>8 DEF CtrlPort
<1>9. CASE CtrlPortException
  BY <1>9 DEF CtrlPortException
<1>10. CASE DeviceBoot
  BY <1>10, StagesAssumption DEF DeviceBoot
<1>11. ASSUME NEW ints \in Bursts, DeviceRaise(ints) PROVE DevTypeOK'
  BY <1>11, BurstsAssumption DEF DeviceRaise, DeviceMayRaise
<1>12. ASSUME NEW c \in Core, DeviceAnswer(c) PROVE DevTypeOK'
  BY <1>12 DEF DeviceAnswer
<1>13. ASSUME NEW t \in Resetters, ResetDevice(t) PROVE DevTypeOK'
  <2>1. exMsgs' \in 0 .. 3
    BY <1>13 DEF ResetDevice
  <2>2. stage' \in DevStages
    BY <1>13, Zenon DEF ResetDevice
  <2> QED
    BY <1>13, <2>1, <2>2 DEF ResetDevice
<1>14. CASE ExitUninit
  BY <1>14 DEF ExitUninit
<1>15. CASE FsmReject \/ FsmStop \/ FsmStopping \/ FsmStopped \/ FsmPreStart \/ FsmPollTimeout \/
           FsmNothingToStart \/ FsmReady \/ FsmHandshakeFailed \/ FsmExInitDone \/ FsmExAllqReset
           \/ FsmExRecOk \/ FsmExPass \/ FsmExit \/ t7xx_mhccif_isr_thread \/ t7xx_pci_mhccif_isr
           \/ ExitBegin \/ ExitStopped \/ ExitFlush \/ ExitDestroy
  BY <1>15 DEF FsmReject, Take, Completed, devVars, FsmStop, fsm_stopped_handler, t7xx_md_reset,
     Flushed, FsmStopping, TakeAccepted, Hif, FsmStopped, FsmPreStart, FsmPollTimeout,
     fsm_finish_command, FsmNothingToStart, FsmReady, t7xx_fsm_broadcast_ready_state,
     FsmHandshakeFailed, HandshakeFailure, FsmExInitDone, FsmExAllqReset, FsmExRecOk, Consume,
     FsmExPass, FsmExit, t7xx_mhccif_isr_thread, t7xx_pci_mhccif_isr, IsrException,
     t7xx_fsm_recv_md_intr, IsrPortEnum, IsrHandshake, ExitBegin, AppendAndWait, ExitStopped,
     WaitEnds, ExitFlush, ExitDestroy
<1>16. ASSUME NEW c \in Core, HkStart(c) \/ HkEvent(c) \/ HkParse(c) PROVE DevTypeOK'
  BY <1>16 DEF HkStart, devVars, HkEvent, HkParse
<1>17. ASSUME NEW t \in Resetters, ResetRequest(t) \/ ResetStopped(t) \/ ResetStart(t) PROVE
           DevTypeOK'
  BY <1>17 DEF ResetRequest, AppendAndWait, devVars, ResetStopped, WaitEnds, ResetStart
<1>18. CASE UNCHANGED vars
  BY <1>18 DEF vars, devVars
<1> QED
  BY <1>1, <1>2, <1>3, <1>4, <1>5, <1>6, <1>7, <1>8, <1>9, <1>10, <1>11, <1>12, <1>13, <1>14,
     <1>15, <1>16, <1>17, <1>18 DEF Next, FsmThread, IsrThread, HandshakeWork, Device, Resetter,
     ExitWork

(* The states of the FSM and of its thread *)
LEMMA CtlTypeOKStep ==
    ASSUME DevTypeOK, CtlTypeOK, CmdTypeOK, ModemTypeOK, [Next]_vars PROVE CtlTypeOK'
<1> USE DEF CtlTypeOK, FsmStates, MdStates, DevStages, LkStages, Modes, Fastboot, FsmPcs
<1>1. CASE FsmStop
  BY <1>1 DEF FsmStop, fsm_stopped_handler, Completed, t7xx_md_reset, Flushed
<1>2. CASE FsmStopping
  BY <1>2 DEF FsmStopping, TakeAccepted, Take, Hif
<1>3. CASE FsmStopped
  BY <1>3 DEF FsmStopped, fsm_stopped_handler, Completed, t7xx_md_reset, Flushed
<1>4. CASE FsmPreStart
  BY <1>4 DEF FsmPreStart, TakeAccepted, Take
<1>5. CASE FsmPollTimeout
  BY <1>5 DEF FsmPollTimeout, fsm_finish_command, Completed
<1>6. CASE FsmNothingToStart
  BY <1>6 DEF FsmNothingToStart, fsm_finish_command, Completed
<1>7. CASE FsmLkStage
  BY <1>7 DEF FsmLkStage, fsm_finish_command, Completed
<1>8. CASE FsmStarting
  BY <1>8 DEF FsmStarting
<1>9. CASE FsmStartNotify
  <2>1. exp_flg' \in BOOLEAN
    BY <1>9, Zenon DEF FsmStartNotify, HandshakeInt
  <2> QED
    BY <1>9, <2>1 DEF FsmStartNotify, HandshakeInt
<1>10. CASE FsmReady
  BY <1>10 DEF FsmReady, t7xx_fsm_broadcast_ready_state, fsm_finish_command, Completed
<1>11. CASE FsmHandshakeFailed
  BY <1>11 DEF FsmHandshakeFailed, HandshakeFailure, fsm_finish_command, Completed
<1>12. CASE FsmException
  BY <1>12 DEF FsmException, TakeAccepted, Take
<1>13. CASE FsmExInitDone
  BY <1>13 DEF FsmExInitDone, ctlVars
<1>14. CASE FsmExClearqDone
  BY <1>14 DEF FsmExClearqDone, Hif, ctlVars
<1>15. CASE FsmExAllqReset
  BY <1>15 DEF FsmExAllqReset, Hif, ctlVars
<1>16. CASE FsmExRecOk
  BY <1>16 DEF FsmExRecOk, Consume, ctlVars
<1>17. CASE FsmExPass
  BY <1>17 DEF FsmExPass, Consume, fsm_finish_command, Completed, ctlVars
<1>18. CASE FsmExit
  BY <1>18 DEF FsmExit, ctlVars
<1>19. CASE t7xx_pci_mhccif_isr
  <2>1. exp_flg' \in BOOLEAN
    BY <1>19, Zenon DEF t7xx_pci_mhccif_isr, IsrException, t7xx_fsm_recv_md_intr, IsrPortEnum,
       IsrHandshake, threadVars
  <2> QED
    BY <1>19, <2>1 DEF t7xx_pci_mhccif_isr, IsrException, t7xx_fsm_recv_md_intr, IsrPortEnum,
       IsrHandshake, threadVars
<1>20. ASSUME NEW c \in Core, HkSendHs1(c) PROVE CtlTypeOK'
  BY <1>20 DEF HkSendHs1, threadVars
<1>21. ASSUME NEW t \in Resetters, ResetRequest(t) PROVE CtlTypeOK'
  BY <1>21 DEF ResetRequest, AppendAndWait, threadVars
<1>22. ASSUME NEW t \in Resetters, ResetDevice(t) PROVE CtlTypeOK'
  BY <1>22 DEF ResetDevice, threadVars
<1>23. CASE FsmReject \/ t7xx_mhccif_isr_thread \/ t7xx_mhccif_clear_interrupts \/
           CtrlPortException \/ DeviceBoot \/ ExitBegin \/ ExitStopped \/ ExitUninit \/ ExitFlush
           \/ ExitDestroy
  BY <1>23 DEF FsmReject, Take, Completed, ctlVars, threadVars, t7xx_mhccif_isr_thread,
     t7xx_mhccif_clear_interrupts, CtrlPortException, DeviceBoot, ExitBegin, AppendAndWait,
     ExitStopped, WaitEnds, ExitUninit, ExitFlush, Flushed, ExitDestroy
<1>24. ASSUME NEW c \in Core, HkStart(c) \/ HkEvent(c) \/ HkParse(c) \/ CtrlPort(c) \/
           DeviceAnswer(c) PROVE CtlTypeOK'
  BY <1>24 DEF HkStart, ctlVars, threadVars, HkEvent, HkParse, CtrlPort, DeviceAnswer
<1>25. ASSUME NEW ints \in Bursts, DeviceRaise(ints) PROVE CtlTypeOK'
  BY <1>25 DEF DeviceRaise, DeviceMayRaise, ctlVars, threadVars
<1>26. ASSUME NEW t \in Resetters, ResetStopped(t) \/ ResetStart(t) PROVE CtlTypeOK'
  BY <1>26 DEF ResetStopped, WaitEnds, ctlVars, ResetStart, threadVars
<1>27. CASE UNCHANGED vars
  BY <1>27 DEF vars, ctlVars, threadVars
<1> QED
  BY <1>1, <1>2, <1>3, <1>4, <1>5, <1>6, <1>7, <1>8, <1>9, <1>10, <1>11, <1>12, <1>13, <1>14,
     <1>15, <1>16, <1>17, <1>18, <1>19, <1>20, <1>21, <1>22, <1>23, <1>24, <1>25, <1>26, <1>27
     DEF Next, FsmThread, IsrThread, HandshakeWork, Device, Resetter, ExitWork

(* Interrupt bookkeeping, handshake work and CLDMA *)
LEMMA ModemTypeOKStep ==
    ASSUME DevTypeOK, CtlTypeOK, CmdTypeOK, ModemTypeOK, [Next]_vars PROVE ModemTypeOK'
<1> USE DEF ModemTypeOK, DevTypeOK, Ints, HandshakeInts, ExceptionInts, Core, WorkPcs, HifStates
<1>1. CASE FsmStop
  BY <1>1 DEF FsmStop, fsm_stopped_handler, Completed, t7xx_md_reset, Flushed, isrVars
<1>2. CASE FsmStopping
  BY <1>2 DEF FsmStopping, TakeAccepted, Take, Hif, intVars, isrVars
<1>3. CASE FsmStopped
  BY <1>3 DEF FsmStopped, fsm_stopped_handler, Completed, t7xx_md_reset, Flushed, isrVars
<1>4. CASE FsmPreStart
  BY <1>4 DEF FsmPreStart, TakeAccepted, Take, workVars, isrVars
<1>5. CASE FsmNothingToStart
  BY <1>5 DEF FsmNothingToStart, fsm_finish_command, Completed, workVars, isrVars
<1>6. CASE FsmLkStage
  BY <1>6 DEF FsmLkStage, fsm_finish_command, Completed, intVars, isrVars
<1>7. CASE FsmStarting
  BY <1>7 DEF FsmStarting, workVars, isrVars
<1>8. CASE FsmStartNotify
  BY <1>8 DEF FsmStartNotify, HandshakeInt, isrVars
<1>9. CASE FsmReady
  BY <1>9 DEF FsmReady, t7xx_fsm_broadcast_ready_state, fsm_finish_command, Completed, workVars,
     isrVars
<1>10. CASE FsmException
  BY <1>10 DEF FsmException, TakeAccepted, Take, intVars, isrVars
<1>11. CASE FsmExClearqDone
  BY <1>11 DEF FsmExClearqDone, Hif, intVars, isrVars
<1>12. CASE FsmExAllqReset
  BY <1>12 DEF FsmExAllqReset, Hif, intVars, isrVars
<1>13. CASE t7xx_mhccif_isr_thread
  BY <1>13 DEF t7xx_mhccif_isr_thread, workVars, intVars
<1>14. CASE t7xx_pci_mhccif_isr
  BY <1>14 DEF t7xx_pci_mhccif_isr, IsrException, t7xx_fsm_recv_md_intr, IsrPortEnum,
     IsrHandshake
<1>15. CASE t7xx_mhccif_clear_interrupts
  BY <1>15 DEF t7xx_mhccif_clear_interrupts, workVars, intVars
<1>16. ASSUME NEW c \in Core, HkStart(c) PROVE ModemTypeOK'
  BY <1>16 DEF HkStart, intVars, isrVars
<1>17. ASSUME NEW c \in Core, HkSendHs1(c) PROVE ModemTypeOK'
  BY <1>17 DEF HkSendHs1, intVars, isrVars
<1>18. ASSUME NEW c \in Core, HkEvent(c) PROVE ModemTypeOK'
  BY <1>18 DEF HkEvent, intVars, isrVars
<1>19. ASSUME NEW c \in Core, HkParse(c) PROVE ModemTypeOK'
  BY <1>19 DEF HkParse, intVars, isrVars
<1>20. CASE ExitUninit
  BY <1>20 DEF ExitUninit, intVars, isrVars
<1>21. CASE FsmReject \/ FsmPollTimeout \/ FsmHandshakeFailed \/ FsmExInitDone \/ FsmExRecOk \/
           FsmExPass \/ FsmExit \/ CtrlPortException \/ DeviceBoot \/ ExitBegin \/ ExitStopped \/
           ExitFlush \/ ExitDestroy
  BY <1>21 DEF FsmReject, Take, Completed, workVars, intVars, isrVars, FsmPollTimeout,
     fsm_finish_command, FsmHandshakeFailed, HandshakeFailure, FsmExInitDone, FsmExRecOk,
     Consume, FsmExPass, FsmExit, CtrlPortException, DeviceBoot, ExitBegin, AppendAndWait,
     ExitStopped, WaitEnds, ExitFlush, Flushed, ExitDestroy
<1>22. ASSUME NEW c \in Core, CtrlPort(c) \/ DeviceAnswer(c) PROVE ModemTypeOK'
  BY <1>22 DEF CtrlPort, workVars, intVars, isrVars, DeviceAnswer
<1>23. ASSUME NEW ints \in Bursts, DeviceRaise(ints) PROVE ModemTypeOK'
  BY <1>23 DEF DeviceRaise, DeviceMayRaise, workVars, intVars, isrVars
<1>24. ASSUME NEW t \in Resetters, ResetRequest(t) \/ ResetStopped(t) \/ ResetDevice(t) \/
           ResetStart(t) PROVE ModemTypeOK'
  BY <1>24 DEF ResetRequest, AppendAndWait, workVars, intVars, isrVars, ResetStopped, WaitEnds,
     ResetDevice, ResetStart
<1>25. CASE UNCHANGED vars
  BY <1>25 DEF vars, workVars, intVars, isrVars
<1> QED
  BY <1>1, <1>2, <1>3, <1>4, <1>5, <1>6, <1>7, <1>8, <1>9, <1>10, <1>11, <1>12, <1>13, <1>14,
     <1>15, <1>16, <1>17, <1>18, <1>19, <1>20, <1>21, <1>22, <1>23, <1>24, <1>25 DEF Next,
     FsmThread, IsrThread, HandshakeWork, Device, Resetter, ExitWork

LEMMA QueueHead ==
    ASSUME command_queue \in Seq(Command), command_queue # <<>>
    PROVE  Head(command_queue) \in Command /\ Tail(command_queue) \in Seq(Command)
OBVIOUS

LEMMA Commands ==
    /\ NoCmd \in Command
    /\ \A id \in CmdIds, flag \in {"none", "irq"} : Cmd(id, flag) \in Command
    /\ \A id \in CmdIds, t \in Callers : WaitCmd(id, t) \in Command
    /\ \A c \in Command, t \in Callers : Abandoned(c, t) \in Command
BY DEF NoCmd, Cmd, WaitCmd, Abandoned, Command, CmdIds

LEMMA CompletedType ==
    ASSUME NEW r \in [Callers -> Replies], NEW c \in Command, NEW result \in Replies
    PROVE  Completed(r, c, result) \in [Callers -> Replies]
BY DEF Completed

LEMMA FlushedType ==
    ASSUME NEW r \in [Callers -> Replies], NEW q PROVE Flushed(r, q) \in [Callers -> Replies]
BY DEF Flushed, Replies

(* Commands, and the threads that wait for them *)
LEMMA CmdTypeOKStep ==
    ASSUME DevTypeOK, CtlTypeOK, CmdTypeOK, ModemTypeOK, [Next]_vars PROVE CmdTypeOK'
<1> USE DEF CmdTypeOK
<1>r. {"0", "EINVAL", "none"} \subseteq Replies
  BY DEF Replies
<1>c. "exit" \in Callers /\ Resetters \subseteq Callers
  BY DEF Callers
<1>1. CASE FsmReject
  <2>1. Completed(reply, Head(command_queue), "EINVAL") \in [Callers -> Replies]
    BY <1>1, <1>r, QueueHead, CompletedType DEF FsmReject, Take
  <2> QED
    BY <1>1, <2>1, QueueHead DEF FsmReject, Take, threadVars
<1>2. ASSUME NEW done \in Command, NEW rest \in Seq(Command), fsm_stopped_handler(done, rest),
             UNCHANGED <<callerPc, resets>>
      PROVE  CmdTypeOK'
  <2>1. Completed(reply, done, "0") \in [Callers -> Replies]
    BY <1>r, CompletedType
  <2>2. Completed(Flushed(reply, rest), done, "0") \in [Callers -> Replies]
    BY <1>r, CompletedType, FlushedType
  <2>3. command_queue' = rest \/ command_queue' = <<>>
    BY <1>2, Zenon DEF fsm_stopped_handler, t7xx_md_reset
  <2>4. \/ reply' = Completed(reply, done, "0")
        \/ reply' = Completed(Flushed(reply, rest), done, "0")
    BY <1>2, Zenon DEF fsm_stopped_handler, t7xx_md_reset
  <2>5. cmd' = NoCmd /\ callerPc' = callerPc /\ resets' = resets
    BY <1>2, Zenon DEF fsm_stopped_handler
  <2>6. command_queue' \in Seq(Command)
    <3>1. <<>> \in Seq(Command)
      OBVIOUS
    <3> QED
      BY <2>3, <3>1, Zenon
  <2>7. reply' \in [Callers -> Replies]
    BY <2>1, <2>2, <2>4, Zenon
  <2> QED
    BY <2>5, <2>6, <2>7, Commands
<1>3. CASE FsmStop
  BY <1>2, <1>3, QueueHead DEF FsmStop
<1>4. CASE FsmStopped
  BY <1>2, <1>4 DEF FsmStopped
<1>5. CASE FsmStopping \/ FsmPreStart \/ FsmException
  BY <1>5, QueueHead DEF FsmStopping, FsmPreStart, FsmException, TakeAccepted, Take, callerVars
<1>6. ASSUME NEW result \in Replies, fsm_finish_command(result),
             UNCHANGED <<command_queue, callerPc, resets>>
      PROVE  CmdTypeOK'
  BY <1>6, CompletedType, Commands DEF fsm_finish_command
<1>7. CASE FsmPollTimeout \/ FsmNothingToStart \/ FsmLkStage \/ FsmReady \/ FsmHandshakeFailed
           \/ FsmExPass
  BY <1>6, <1>7, <1>r DEF FsmPollTimeout, FsmNothingToStart, FsmLkStage, FsmReady,
     FsmHandshakeFailed, HandshakeFailure, FsmExPass, queueVars
<1>8. CASE FsmStarting \/ FsmStartNotify \/ FsmExInitDone \/ FsmExClearqDone \/ FsmExAllqReset
           \/ FsmExRecOk \/ FsmExit
  BY <1>8 DEF FsmStarting, FsmStartNotify, FsmExInitDone, FsmExClearqDone, FsmExAllqReset,
     FsmExRecOk, FsmExit, queueVars, callerVars
<1>9. CASE t7xx_pci_mhccif_isr
  <2>1. Cmd("EXCEPTION", "irq") \in Command /\ Cmd("START", "irq") \in Command
    BY Commands DEF CmdIds
  <2>2. \/ command_queue' = Append(command_queue, Cmd("EXCEPTION", "irq"))
        \/ command_queue' = Append(command_queue, Cmd("START", "irq"))
        \/ command_queue' = command_queue
    BY <1>9, Zenon DEF t7xx_pci_mhccif_isr, IsrException, IsrPortEnum, IsrHandshake,
       t7xx_fsm_recv_md_intr
  <2> QED
    BY <1>9, <2>1, <2>2 DEF t7xx_pci_mhccif_isr, threadVars, callerVars
<1>10. CASE t7xx_mhccif_isr_thread \/ t7xx_mhccif_clear_interrupts \/ CtrlPortException
            \/ DeviceBoot
  BY <1>10 DEF t7xx_mhccif_isr_thread, t7xx_mhccif_clear_interrupts, CtrlPortException, DeviceBoot,
     queueVars, threadVars, callerVars
<1>11. ASSUME NEW c \in Core, HandshakeWork(c) \/ CtrlPort(c) \/ DeviceAnswer(c)
       PROVE  CmdTypeOK'
  BY <1>11 DEF HandshakeWork, HkStart, HkSendHs1, HkEvent, HkParse, CtrlPort, DeviceAnswer,
     queueVars, threadVars, callerVars
<1>12. ASSUME NEW ints \in Bursts, DeviceRaise(ints) PROVE CmdTypeOK'
  BY <1>12 DEF DeviceRaise, queueVars, threadVars, callerVars
<1>13. ASSUME NEW t \in Callers, NEW next \in CallerPcs, WaitEnds(t, next) PROVE CmdTypeOK'
  <2>1. [i \in DOMAIN command_queue |-> Abandoned(command_queue[i], t)] \in Seq(Command)
    BY Commands
  <2> QED
    BY <1>13, <1>r, <2>1, Commands DEF WaitEnds
<1>14. ASSUME NEW t \in Callers, NEW id \in CmdIds, AppendAndWait(t, id), UNCHANGED cmd,
              resets' \in 0 .. MaxResets
       PROVE  CmdTypeOK'
  BY <1>14, Commands DEF AppendAndWait, CallerPcs
<1>15. ASSUME NEW t \in Resetters, Resetter(t) PROVE CmdTypeOK'
  <2>1. CASE ResetRequest(t)
    <3>1. resets' \in 0 .. MaxResets
      BY <2>1, BoundsAssumption DEF ResetRequest
    <3> QED
      BY <1>14, <1>c, <2>1, <3>1 DEF ResetRequest, CmdIds, threadVars
  <2>2. CASE ResetStopped(t)
    BY <1>13, <1>c, <2>2 DEF ResetStopped, CallerPcs
  <2>3. CASE ResetDevice(t)
    BY <1>c, <2>3 DEF ResetDevice, CallerPcs, queueVars, threadVars
  <2>4. CASE ResetStart(t)
    <3>1. Cmd("START", "none") \in Command
      BY Commands DEF CmdIds
    <3> QED
      BY <1>c, <2>4, <3>1 DEF ResetStart, CallerPcs, threadVars
  <2> QED
    BY <1>15, <2>1, <2>2, <2>3, <2>4 DEF Resetter
<1>16. CASE ExitBegin
  <2>1. CASE AppendAndWait("exit", "PRE_STOP")
    BY <1>14, <1>16, <1>c, <2>1 DEF ExitBegin, CmdIds, threadVars
  <2>2. CASE ~AppendAndWait("exit", "PRE_STOP")
    BY <1>16, <1>c, <2>2 DEF ExitBegin, CallerPcs, threadVars
  <2> QED
    BY <2>1, <2>2
<1>17. CASE ExitStopped
  BY <1>13, <1>17, <1>c DEF ExitStopped, CallerPcs
<1>18. CASE ExitUninit \/ ExitDestroy
  BY <1>18, <1>c DEF ExitUninit, ExitDestroy, CallerPcs, queueVars, threadVars
<1>19. CASE ExitFlush
  BY <1>19, <1>c, FlushedType DEF ExitFlush, CallerPcs, threadVars
<1>20. CASE UNCHANGED vars
  BY <1>20 DEF vars, queueVars, threadVars, callerVars
<1> QED
  BY <1>1, <1>3, <1>4, <1>5, <1>7, <1>8, <1>9, <1>10, <1>11, <1>12, <1>15, <1>16, <1>17, <1>18,
     <1>19, <1>20 DEF Next, FsmThread, IsrThread, Device, ExitWork

LEMMA TypeInit == Init => DevTypeOK /\ CtlTypeOK /\ CmdTypeOK /\ ModemTypeOK
<1> SUFFICES ASSUME Init PROVE DevTypeOK /\ CtlTypeOK /\ CmdTypeOK /\ ModemTypeOK
  OBVIOUS
<1> USE DEF Init
<1>1. DevTypeOK
  BY DEF DevTypeOK, DevStages
<1>2. CtlTypeOK
  BY DEF CtlTypeOK, FsmStates, MdStates, DevStages, Modes, FsmPcs
<1>3. CmdTypeOK
  BY Commands, BoundsAssumption DEF CmdTypeOK, CallerPcs, Replies, CmdIds
<1>4. ModemTypeOK
  BY DEF ModemTypeOK, WorkPcs, HifStates, Ints, HandshakeInts, ExceptionInts
<1> QED
  BY <1>1, <1>2, <1>3, <1>4

LEMMA TypesHold == Spec => [](DevTypeOK /\ CtlTypeOK /\ CmdTypeOK /\ ModemTypeOK)
<1> DEFINE Types == DevTypeOK /\ CtlTypeOK /\ CmdTypeOK /\ ModemTypeOK
<1>1. Init => Types
  BY TypeInit
<1>2. Types /\ [Next]_vars => Types'
  BY DevTypeOKStep, CtlTypeOKStep, CmdTypeOKStep, ModemTypeOKStep
<1> QED
  BY <1>1, <1>2, PTL DEF Spec
-----------------------------------------------------------------------------
(***************************************************************************)
(* The waiters. An idle FSM thread holds no command, so what it takes off  *)
(* the queue replaces nothing; WaiterNotForgotten alone does not say so,   *)
(* and a thread that took a second command would forget the first.         *)
(***************************************************************************)
Waits(t) == callerPc[t] = "wait" /\ reply[t] = "none"
Queued(t) == \E i \in DOMAIN command_queue : command_queue[i].by = t

WaiterInv ==
    /\ \A t \in Callers : Waits(t) => cmd.by = t \/ Queued(t)
    /\ fsmPc \in {"idle", "exited"} => cmd.by = "nobody"

LEMMA NobodyIsNoCaller == "nobody" \notin Callers
BY ResettersAssumption DEF Callers

LEMMA WaiterInvInit == Init => WaiterInv
BY DEF Init, WaiterInv, Waits, NoCmd

(* What leaves the head of the queue is all a step forgets *)
LEMMA TailKeeps ==
    ASSUME CmdTypeOK, command_queue # <<>>, command_queue' = Tail(command_queue),
           NEW t, Queued(t), Head(command_queue).by # t
    PROVE  Queued(t)'
<1>1. PICK i \in DOMAIN command_queue : command_queue[i].by = t
  BY DEF Queued
<1>2. i # 1 /\ i - 1 \in DOMAIN Tail(command_queue) /\ Tail(command_queue)[i - 1] = command_queue[i]
  BY <1>1 DEF CmdTypeOK
<1> QED
  BY <1>1, <1>2 DEF Queued

LEMMA AppendKeeps ==
    ASSUME CmdTypeOK, NEW c, command_queue' = Append(command_queue, c), NEW t, Queued(t) \/ c.by = t
    PROVE  Queued(t)'
<1>1. CASE Queued(t)
  <2>1. PICK i \in DOMAIN command_queue : command_queue[i].by = t
    BY <1>1 DEF Queued
  <2>2. i \in DOMAIN command_queue' /\ command_queue'[i] = command_queue[i]
    BY <2>1 DEF CmdTypeOK
  <2> QED
    BY <2>1, <2>2 DEF Queued
<1>2. CASE c.by = t
  <2>1. /\ Len(command_queue) + 1 \in DOMAIN command_queue'
        /\ command_queue'[Len(command_queue) + 1] = c
    BY DEF CmdTypeOK
  <2> QED
    BY <1>2, <2>1 DEF Queued
<1> QED
  BY <1>1, <1>2

(* Finishing a command tells its caller *)
LEMMA FinishTells ==
    ASSUME CmdTypeOK, NEW r \in [Callers -> Replies], NEW c \in Command,
           NEW result \in {"0", "EINVAL"}, NEW t \in Callers,
           Completed(r, c, result)[t] = "none"
    PROVE  c.by # t /\ r[t] = "none"
BY DEF Completed

LEMMA FlushTells ==
    ASSUME NEW r \in [Callers -> Replies], NEW q, NEW t \in Callers, Flushed(r, q)[t] = "none"
    PROVE  r[t] = "none" /\ ~\E i \in DOMAIN q : q[i].by = t
BY DEF Flushed

LEMMA WaiterInvStep ==
    ASSUME CmdTypeOK, WaiterInv, [Next]_vars PROVE WaiterInv'
<1> USE DEF WaiterInv, Waits
<1>q. CmdTypeOK => reply \in [Callers -> Replies] /\ cmd \in Command /\ command_queue \in Seq(Command)
                   /\ callerPc \in [Callers -> CallerPcs]
  BY DEF CmdTypeOK
<1>n. NoCmd.by = "nobody" /\ "exit" \in Callers /\ Resetters \subseteq Callers
  BY DEF NoCmd, Callers
<1>1. CASE FsmReject
  <2>1. /\ command_queue # <<>> /\ command_queue' = Tail(command_queue)
        /\ reply' = Completed(reply, Head(command_queue), "EINVAL")
        /\ cmd' = cmd /\ fsmPc' = fsmPc /\ callerPc' = callerPc
    BY <1>1 DEF FsmReject, Take, threadVars
  <2>2. Head(command_queue) \in Command
    BY <1>q, <2>1, QueueHead
  <2>3. ASSUME NEW t \in Callers, Waits(t)' PROVE cmd'.by = t \/ Queued(t)'
    <3>1. Head(command_queue).by # t /\ reply[t] = "none"
      BY <1>q, <2>1, <2>2, <2>3, FinishTells
    <3> QED
      BY <2>1, <2>3, <3>1, TailKeeps
  <2> QED
    BY <2>1, <2>3
<1>2. CASE FsmStop
  <2>1. /\ command_queue # <<>> /\ fsmPc = "idle" /\ callerPc' = callerPc /\ cmd' = NoCmd
        /\ fsm_stopped_handler(Head(command_queue), Tail(command_queue))
    BY <1>2, Zenon DEF FsmStop, fsm_stopped_handler
  <2>2. Head(command_queue) \in Command /\ Tail(command_queue) \in Seq(Command)
    BY <1>q, <2>1, QueueHead
  <2>3. ASSUME NEW t \in Callers, Waits(t)' PROVE Queued(t)'
    <3>0. callerPc[t] = "wait" /\ reply'[t] = "none" /\ cmd.by # t
      BY <2>1, <2>3, NobodyIsNoCaller
    <3>1. CASE /\ command_queue' = Tail(command_queue)
               /\ reply' = Completed(reply, Head(command_queue), "0")
      BY <1>q, <2>1, <2>2, <3>0, <3>1, FinishTells, TailKeeps
    <3>2. CASE reply' = Completed(Flushed(reply, Tail(command_queue)), Head(command_queue), "0")
      <4>1. Flushed(reply, Tail(command_queue)) \in [Callers -> Replies]
        BY <1>q, FlushedType
      <4>2. Head(command_queue).by # t /\ Flushed(reply, Tail(command_queue))[t] = "none"
        BY <2>2, <3>0, <3>2, <4>1, FinishTells
      <4>3. reply[t] = "none" /\ ~\E i \in DOMAIN Tail(command_queue) : Tail(command_queue)[i].by = t
        BY <1>q, <4>2, FlushTells
      <4>4. PICK i \in DOMAIN command_queue : command_queue[i].by = t
        BY <3>0, <4>3 DEF Queued
      <4>5. i # 1 /\ i - 1 \in DOMAIN Tail(command_queue)
              /\ Tail(command_queue)[i - 1] = command_queue[i]
        BY <1>q, <2>1, <4>2, <4>4
      <4> QED
        BY <4>3, <4>4, <4>5
    <3> QED
      BY <2>1, <3>1, <3>2, Zenon DEF fsm_stopped_handler, t7xx_md_reset
  <2> QED
    BY <1>n, <2>1, <2>3
<1>3. CASE FsmStopped
  <2>1. /\ callerPc' = callerPc /\ cmd' = NoCmd /\ fsm_stopped_handler(cmd, command_queue)
    BY <1>3, Zenon DEF FsmStopped, fsm_stopped_handler
  <2>2. ASSUME NEW t \in Callers, Waits(t)' PROVE Queued(t)'
    <3>0. callerPc[t] = "wait" /\ reply'[t] = "none"
      BY <2>1, <2>2
    <3>1. CASE command_queue' = command_queue /\ reply' = Completed(reply, cmd, "0")
      BY <1>q, <3>0, <3>1, FinishTells DEF Queued
    <3>2. CASE reply' = Completed(Flushed(reply, command_queue), cmd, "0")
      <4>1. Flushed(reply, command_queue) \in [Callers -> Replies]
        BY <1>q, FlushedType
      <4>2. cmd.by # t /\ Flushed(reply, command_queue)[t] = "none"
        BY <1>q, <3>0, <3>2, <4>1, FinishTells
      <4> QED
        BY <1>q, <3>0, <4>2, FlushTells DEF Queued
    <3> QED
      BY <2>1, <3>1, <3>2, Zenon DEF fsm_stopped_handler, t7xx_md_reset
  <2> QED
    BY <1>n, <2>1, <2>2
<1>4. CASE FsmStopping \/ FsmPreStart \/ FsmException
  <2>1. /\ fsmPc = "idle" /\ command_queue # <<>> /\ command_queue' = Tail(command_queue)
        /\ cmd' = Head(command_queue) /\ reply' = reply /\ callerPc' = callerPc
        /\ fsmPc' \notin {"idle", "exited"}
    BY <1>4 DEF FsmStopping, FsmPreStart, FsmException, TakeAccepted, Take, callerVars
  <2>2. ASSUME NEW t \in Callers, Waits(t)' PROVE cmd'.by = t \/ Queued(t)'
    <3>1. cmd.by # t
      BY <2>1, NobodyIsNoCaller
    <3> QED
      BY <2>1, <2>2, <3>1, TailKeeps
  <2> QED
    BY <2>1, <2>2
<1>5. ASSUME NEW result \in {"0", "EINVAL"}, fsm_finish_command(result),
             UNCHANGED <<command_queue, callerPc>>
      PROVE  WaiterInv'
  <2>1. /\ reply' = Completed(reply, cmd, result) /\ cmd' = NoCmd
        /\ callerPc' = callerPc /\ command_queue' = command_queue
    BY <1>5 DEF fsm_finish_command
  <2>2. ASSUME NEW t \in Callers, Waits(t)' PROVE Queued(t)'
    BY <1>q, <2>1, <2>2, FinishTells DEF Queued
  <2> QED
    BY <1>n, <2>1, <2>2
<1>6. CASE FsmPollTimeout \/ FsmNothingToStart \/ FsmLkStage \/ FsmReady \/ FsmHandshakeFailed
           \/ FsmExPass
  BY <1>5, <1>6 DEF FsmPollTimeout, FsmNothingToStart, FsmLkStage, FsmReady, FsmHandshakeFailed,
     HandshakeFailure, FsmExPass, queueVars
<1>7. CASE FsmStarting \/ FsmStartNotify \/ FsmExInitDone \/ FsmExClearqDone \/ FsmExAllqReset
           \/ FsmExRecOk \/ FsmExit
  BY <1>7 DEF FsmStarting, FsmStartNotify, FsmExInitDone, FsmExClearqDone, FsmExAllqReset,
     FsmExRecOk, FsmExit, queueVars, callerVars, Queued
<1>8. ASSUME NEW c, command_queue' = Append(command_queue, c),
             UNCHANGED <<cmd, fsmPc, callerPc, reply>>
      PROVE  WaiterInv'
  BY <1>8, AppendKeeps
<1>9. ASSUME UNCHANGED <<cmd, fsmPc, callerPc, reply, command_queue>> PROVE WaiterInv'
  BY <1>9 DEF Queued
<1>10. CASE IsrThread
  BY <1>8, <1>9, <1>10 DEF IsrThread, t7xx_mhccif_isr_thread, t7xx_pci_mhccif_isr,
     t7xx_mhccif_clear_interrupts, IsrException, IsrPortEnum, IsrHandshake, t7xx_fsm_recv_md_intr,
     queueVars, threadVars, callerVars
<1>11. ASSUME NEW c \in Core, HandshakeWork(c) \/ CtrlPort(c) \/ DeviceAnswer(c) PROVE WaiterInv'
  BY <1>9, <1>11 DEF HandshakeWork, HkStart, HkSendHs1, HkEvent, HkParse, CtrlPort, DeviceAnswer,
     queueVars, threadVars, callerVars
<1>12. CASE CtrlPortException \/ DeviceBoot \/ \E ints \in Bursts : DeviceRaise(ints)
  BY <1>9, <1>12 DEF CtrlPortException, DeviceBoot, DeviceRaise, queueVars, threadVars, callerVars
<1>13. ASSUME NEW t \in Callers, NEW next \in CallerPcs \ {"wait"}, WaitEnds(t, next)
       PROVE  WaiterInv'
  <2>1. /\ callerPc' = [callerPc EXCEPT ![t] = next] /\ fsmPc' = fsmPc
        /\ reply' = [reply EXCEPT ![t] = "none"]
        /\ \/ command_queue' = command_queue /\ cmd' = cmd
           \/ /\ command_queue' = [i \in DOMAIN command_queue |-> Abandoned(command_queue[i], t)]
              /\ cmd' = Abandoned(cmd, t)
    BY <1>13 DEF WaitEnds
  <2>2. ASSUME NEW u \in Callers, Waits(u)' PROVE cmd'.by = u \/ Queued(u)'
    <3>1. u # t /\ Waits(u)
      BY <1>q, <1>13, <2>1, <2>2
    <3>2. cmd.by = u \/ Queued(u)
      BY <3>1
    <3>3. CASE cmd.by = u
      BY <1>q, <2>1, <3>1, <3>3 DEF Abandoned
    <3>4. CASE Queued(u)
      BY <1>q, <2>1, <3>1, <3>4 DEF Abandoned, Queued
    <3> QED
      BY <3>2, <3>3, <3>4
  <2>3. cmd.by = "nobody" => cmd'.by = "nobody"
    BY <2>1, NobodyIsNoCaller DEF Abandoned
  <2> QED
    BY <2>1, <2>2, <2>3
<1>14. ASSUME NEW t \in Callers, NEW id, AppendAndWait(t, id), UNCHANGED <<cmd, fsmPc>>
       PROVE  WaiterInv'
  <2>1. /\ command_queue' = Append(command_queue, WaitCmd(id, t))
        /\ callerPc' = [callerPc EXCEPT ![t] = "wait"] /\ reply' = reply
    BY <1>14 DEF AppendAndWait
  <2>2. WaitCmd(id, t).by = t
    BY DEF WaitCmd
  <2>3. ASSUME NEW u \in Callers, Waits(u)' PROVE cmd'.by = u \/ Queued(u)'
    <3>1. CASE u = t
      BY <2>1, <2>2, <3>1, AppendKeeps
    <3>2. CASE u # t
      <4>1. Waits(u)
        BY <1>q, <2>1, <2>3, <3>2
      <4> QED
        BY <1>14, <2>1, <4>1, AppendKeeps
    <3> QED
      BY <3>1, <3>2
  <2> QED
    BY <1>14, <2>3
<1>15. ASSUME NEW t \in Callers, NEW next \in CallerPcs \ {"wait"},
              callerPc' = [callerPc EXCEPT ![t] = next], UNCHANGED <<cmd, fsmPc, reply>>,
              command_queue' = command_queue \/ \E c : command_queue' = Append(command_queue, c)
       PROVE  WaiterInv'
  <2>1. ASSUME NEW u \in Callers, Waits(u)' PROVE Waits(u)
    BY <1>q, <1>15, <2>1
  <2>2. ASSUME NEW u, Queued(u) PROVE Queued(u)'
    <3>1. CASE command_queue' = command_queue
      BY <2>2, <3>1 DEF Queued
    <3> QED
      BY <1>15, <2>2, <3>1, AppendKeeps
  <2> QED
    BY <1>15, <2>1, <2>2
<1>16. ASSUME NEW t \in Resetters, Resetter(t) PROVE WaiterInv'
  <2>1. CASE ResetRequest(t)
    BY <1>n, <1>14, <2>1 DEF ResetRequest, threadVars
  <2>2. CASE ResetStopped(t)
    BY <1>n, <1>13, <2>2 DEF ResetStopped, CallerPcs
  <2>3. CASE ResetDevice(t)
    BY <1>n, <1>15, <2>3 DEF ResetDevice, CallerPcs, queueVars, threadVars
  <2>4. CASE ResetStart(t)
    BY <1>n, <1>15, <2>4 DEF ResetStart, CallerPcs, threadVars
  <2> QED
    BY <1>16, <2>1, <2>2, <2>3, <2>4 DEF Resetter
<1>17. CASE ExitBegin
  BY <1>n, <1>14, <1>15, <1>17 DEF ExitBegin, CallerPcs, threadVars
<1>18. CASE ExitStopped
  BY <1>n, <1>13, <1>18 DEF ExitStopped, CallerPcs
<1>19. CASE ExitUninit \/ ExitDestroy
  BY <1>n, <1>15, <1>19 DEF ExitUninit, ExitDestroy, CallerPcs, queueVars, threadVars
<1>20. CASE ExitFlush
  <2>1. /\ fsmPc = "exited" /\ reply' = Flushed(reply, command_queue) /\ UNCHANGED <<cmd, fsmPc>>
        /\ callerPc' = [callerPc EXCEPT !["exit"] = "destroy"]
    BY <1>20 DEF ExitFlush, threadVars
  <2>2. ASSUME NEW u \in Callers, Waits(u)' PROVE FALSE
    <3>1. callerPc[u] = "wait"
      BY <1>q, <1>n, <2>1, <2>2
    <3>2. reply[u] = "none" /\ ~Queued(u)
      BY <1>q, <2>1, <2>2, FlushTells DEF Queued
    <3> QED
      BY <2>1, <3>1, <3>2, NobodyIsNoCaller
  <2> QED
    BY <2>1, <2>2
<1>21. CASE UNCHANGED vars
  BY <1>9, <1>21 DEF vars, queueVars, threadVars, callerVars
<1> QED
  BY <1>1, <1>2, <1>3, <1>4, <1>6, <1>7, <1>10, <1>11, <1>12, <1>16, <1>17, <1>18, <1>19, <1>20,
     <1>21 DEF Next, FsmThread, Device, ExitWork

(* No thread asleep in t7xx_fsm_append_cmd() is forgotten: whichever thread  *)
(* resets, exits or flushes, for any number of resetting threads.            *)
THEOREM WaiterNotForgottenHolds == Spec => []WaiterNotForgotten
<1> DEFINE Types == DevTypeOK /\ CtlTypeOK /\ CmdTypeOK /\ ModemTypeOK
<1>1. WaiterInv => WaiterNotForgotten
  BY DEF WaiterInv, WaiterNotForgotten, Waits, Queued
<1>2. Types /\ WaiterInv /\ [Next]_vars => WaiterInv'
  BY WaiterInvStep
<1> QED
  BY <1>1, <1>2, TypesHold, WaiterInvInit, PTL DEF Spec
-----------------------------------------------------------------------------
(***************************************************************************)
(* The event queue, and the rings behind MD_STATE_READY.                   *)
(***************************************************************************)
LEMMA ClearedType ==
    ASSUME NEW e, event_queue \in Seq(Events), t7xx_fsm_clr_event(e)
    PROVE  event_queue' \in Seq(Events)
<1>1. PICK n \in 0 .. Len(event_queue) : \E stays \in [1 .. n -> DOMAIN event_queue] :
          event_queue' = [k \in 1 .. n |-> event_queue[stays[k]]]
  BY DEF t7xx_fsm_clr_event
<1>n. PICK stays \in [1 .. n -> DOMAIN event_queue] : event_queue' = [k \in 1 .. n |-> event_queue[stays[k]]]
  BY <1>1
<1>2. n \in Nat /\ \A k \in 1 .. n : event_queue[stays[k]] \in Events
  BY <1>n
<1> QED
  BY <1>n, <1>2

LEMMA Joined ==
    ASSUME NEW a \in Seq(Events), NEW b \in Seq(Events)
    PROVE  /\ a \o b \in Seq(Events) /\ Len(a \o b) = Len(a) + Len(b)
           /\ \A j \in 1 .. Len(a) + Len(b) : (a \o b)[j] = IF j <= Len(a) THEN a[j] ELSE b[j - Len(a)]
OBVIOUS

LEMMA RemovedType ==
    ASSUME event_queue \in Seq(Events), NEW i \in DOMAIN event_queue
    PROVE  /\ RemoveAt(event_queue, i) \in Seq(Events)
           /\ Len(RemoveAt(event_queue, i)) = Len(event_queue) - 1
           /\ \A j \in 1 .. Len(event_queue) - 1 :
                  RemoveAt(event_queue, i)[j] = IF j < i THEN event_queue[j] ELSE event_queue[j + 1]
<1> DEFINE front == SubSeq(event_queue, 1, i - 1)
           back  == SubSeq(event_queue, i + 1, Len(event_queue))
<1>1. front \in Seq(Events) /\ Len(front) = i - 1 /\ \A j \in 1 .. i - 1 : front[j] = event_queue[j]
  OBVIOUS
<1>2. /\ back \in Seq(Events) /\ Len(back) = Len(event_queue) - i
      /\ \A j \in 1 .. Len(event_queue) - i : back[j] = event_queue[i + j]
  OBVIOUS
<1>3. RemoveAt(event_queue, i) = front \o back
  BY DEF RemoveAt
<1> HIDE DEF front, back
<1>n. i \in Nat /\ i >= 1 /\ i <= Len(event_queue) /\ Len(event_queue) \in Nat
  OBVIOUS
<1>4. /\ front \o back \in Seq(Events) /\ Len(front \o back) = Len(front) + Len(back)
      /\ \A j \in 1 .. Len(front) + Len(back) :
             (front \o back)[j] = IF j <= Len(front) THEN front[j] ELSE back[j - Len(front)]
  BY <1>1, <1>2, Joined
<1>5. ASSUME NEW j \in 1 .. Len(event_queue) - 1
      PROVE  (front \o back)[j] = IF j < i THEN event_queue[j] ELSE event_queue[j + 1]
  <2>n. j \in Nat /\ j >= 1 /\ j <= Len(event_queue) - 1
    BY <1>n
  <2>c. Len(front) = i - 1 /\ j \in 1 .. Len(front) + Len(back)
    BY <1>n, <1>1, <1>2, <2>n
  <2>d. (front \o back)[j] = IF j <= Len(front) THEN front[j] ELSE back[j - Len(front)]
    BY <1>4, <2>c
  <2>1. CASE j < i
    <3>1. j <= Len(front) /\ j \in 1 .. i - 1
      BY <1>n, <2>n, <2>c, <2>1
    <3> QED
      BY <1>1, <2>d, <2>1, <3>1
  <2>2. CASE ~(j < i)
    <3>1. ~(j <= Len(front)) /\ j - Len(front) \in 1 .. Len(event_queue) - i /\ i + (j - Len(front)) = j + 1
      BY <1>n, <2>n, <2>c, <2>2
    <3>2. back[j - Len(front)] = event_queue[i + (j - Len(front))]
      BY <1>2, <3>1
    <3> QED
      BY <2>d, <2>2, <3>1, <3>2
  <2> QED
    BY <2>1, <2>2
<1>6. Len(front) + Len(back) = Len(event_queue) - 1
  BY <1>n, <1>1, <1>2
<1> QED
  BY <1>3, <1>4, <1>5, <1>6
-----------------------------------------------------------------------------
LEMMA EventTypeStep ==
    ASSUME TypeOK, [Next]_vars PROVE event_queue' \in Seq(Events)
<1>q. /\ event_queue \in Seq(Events) /\ <<>> \in Seq(Events)
      /\ \A e \in Events : Append(event_queue, e) \in Seq(Events)
      /\ event_queue # <<>> => Tail(event_queue) \in Seq(Events)
  BY DEF TypeOK
<1>e. \A c \in Core : HS2(c) \in Events /\ HS2_EXIT(c) \in Events
  BY DEF HS2, HS2_EXIT, Events
<1>1. ASSUME NEW done, NEW rest, fsm_stopped_handler(done, rest) PROVE event_queue' \in Seq(Events)
  <2>1. <<"MD_HS2_EXIT">> \in Seq(Events)
    BY DEF Events
  <2> QED
    BY <1>q, <1>1, <2>1 DEF fsm_stopped_handler, t7xx_md_reset
<1>2. CASE FsmStop \/ FsmStopped
  BY <1>1, <1>2 DEF FsmStop, FsmStopped
<1>3. CASE FsmHandshakeFailed
  BY <1>q, <1>e, <1>3 DEF FsmHandshakeFailed, HandshakeFailure, Core
<1>4. CASE FsmExRecOk \/ FsmExPass
  BY <1>q, <1>4 DEF FsmExRecOk, FsmExPass, Consume
<1>5. CASE FsmReject \/ FsmStopping \/ FsmPreStart \/ FsmPollTimeout \/ FsmNothingToStart \/ FsmLkStage
           \/ FsmStarting \/ FsmStartNotify \/ FsmReady \/ FsmException \/ FsmExInitDone
           \/ FsmExClearqDone \/ FsmExAllqReset \/ FsmExit
  BY <1>q, <1>5 DEF FsmReject, FsmStopping, FsmPreStart, FsmPollTimeout, FsmNothingToStart, FsmLkStage,
     FsmStarting, FsmStartNotify, FsmReady, FsmException, FsmExInitDone, FsmExClearqDone, FsmExAllqReset,
     FsmExit, queueVars
<1>6. CASE IsrThread
  BY <1>q, <1>6 DEF IsrThread, t7xx_mhccif_isr_thread, t7xx_pci_mhccif_isr,
     t7xx_mhccif_clear_interrupts, queueVars
<1>7. ASSUME NEW c \in Core, HandshakeWork(c) PROVE event_queue' \in Seq(Events)
  <2>1. CASE HkStart(c)
    BY <1>q, <2>1, ClearedType DEF HkStart
  <2>2. CASE HkEvent(c)
    BY <1>q, <2>2, RemovedType DEF HkEvent
  <2> QED
    BY <1>q, <1>7, <2>1, <2>2 DEF HandshakeWork, HkSendHs1, HkParse, queueVars
<1>8. ASSUME NEW c \in Core, CtrlPort(c) PROVE event_queue' \in Seq(Events)
  BY <1>q, <1>e, <1>8 DEF CtrlPort
<1>9. CASE CtrlPortException
  <2>1. \A k \in 1 .. 3 : ExMsgs[k] \in Events
    BY DEF ExMsgs, Events
  <2>2. exMsgs' \in 1 .. 3
    BY <1>9 DEF CtrlPortException, TypeOK, DevTypeOK, ExMsgs
  <2> QED
    BY <1>q, <1>9, <2>1, <2>2 DEF CtrlPortException
<1>10. CASE Device
  BY <1>q, <1>10 DEF Device, DeviceBoot, DeviceRaise, DeviceAnswer, queueVars
<1>11. ASSUME NEW t \in Resetters, Resetter(t) PROVE event_queue' \in Seq(Events)
  BY <1>q, <1>11 DEF Resetter, ResetRequest, ResetStopped, WaitEnds, ResetDevice, ResetStart, queueVars
<1>12. CASE ExitBegin \/ ExitWork
  BY <1>q, <1>12 DEF ExitBegin, ExitWork, ExitStopped, WaitEnds, ExitUninit, ExitFlush, ExitDestroy, queueVars
<1>13. CASE UNCHANGED vars
  BY <1>q, <1>13 DEF vars, queueVars
<1> QED
  BY <1>2, <1>3, <1>4, <1>5, <1>6, <1>7, <1>8, <1>9, <1>10, <1>11, <1>12, <1>13 DEF Next, FsmThread

(* Every variable keeps its type, for every set of threads that reset the    *)
(* device and every bound: what is queued, flushed, cleared or taken out of  *)
(* turn, the two lists of t7xx_fsm_ctl hold commands of known threads and    *)
(* events of t7xx_fsm_event_state.                                           *)
THEOREM TypeCorrect == Spec => []TypeOK
<1>1. Init => TypeOK
  BY TypeInit DEF Init, TypeOK
<1>2. TypeOK /\ [Next]_vars => TypeOK'
  BY DevTypeOKStep, CtlTypeOKStep, CmdTypeOKStep, ModemTypeOKStep, EventTypeStep DEF TypeOK
<1> QED
  BY <1>1, <1>2, PTL DEF Spec
-----------------------------------------------------------------------------
(***************************************************************************)
(* While the rings are not running and no exception handshake is about to  *)
(* start them again (Late), the handshake work cannot bring the modem      *)
(* state back to READY: it has been told to give up before any HS2 it      *)
(* might take for an answer (ExitFirst), and ready has been taken back.    *)
(***************************************************************************)
ExChain == {"ex_init_done", "ex_clearq_done", "ex_allq_reset"}
Gone    == ExitPassed({"join", "destroy", "gone"})
Late    == hif["md"] = "released" \/ (hif["md"] # "running" /\ fsmPc \notin ExChain)

ExitFirst ==
    \E i \in DOMAIN event_queue :
        event_queue[i] = "MD_HS2_EXIT" /\ \A j \in 1 .. i - 1 : event_queue[j] # "MD_HS2"

Overtaken ==
    /\ md_state # "READY"
    /\ workPc["md"] = "setup" => ExitFirst /\ "md" \notin ready
    /\ md_state = "WAITING_FOR_HS2" =>
          "md" \notin ready /\ workPc["md"] # "parse" /\ (workPc["md"] = "wait" => ExitFirst)

UsableInv ==
    /\ md_state = "READY" => fsmPc \notin ExChain
    /\ ~caught /\ ~Gone /\ Late => Overtaken

LEMMA FirstStays ==
    ASSUME TypeOK, ExitFirst,
           \/ \E e \in Events : event_queue' = Append(event_queue, e)
           \/ t7xx_fsm_clr_event("AP_HS2_EXIT")
           \/ \E i \in DOMAIN event_queue :
                 /\ event_queue' = RemoveAt(event_queue, i)
                 /\ event_queue[i] # "MD_HS2_EXIT"
           \/ event_queue' = event_queue
    PROVE  ExitFirst'
<1>t. event_queue \in Seq(Events) /\ Len(event_queue) \in Nat /\ DOMAIN event_queue = 1 .. Len(event_queue)
  BY DEF TypeOK
<1>w. PICK w \in 1 .. Len(event_queue) :
         event_queue[w] = "MD_HS2_EXIT" /\ \A j \in 1 .. w - 1 : event_queue[j] # "MD_HS2"
  BY <1>t DEF ExitFirst
<1>1. ASSUME NEW e \in Events, event_queue' = Append(event_queue, e) PROVE ExitFirst'
  <2>1. /\ w \in DOMAIN event_queue' /\ event_queue'[w] = event_queue[w]
        /\ \A j \in 1 .. w - 1 : event_queue'[j] = event_queue[j]
    <3>1. w \in Nat /\ w <= Len(event_queue) /\ 1 .. w - 1 \subseteq 1 .. Len(event_queue)
      BY <1>t
    <3>2. /\ DOMAIN Append(event_queue, e) = 1 .. Len(event_queue) + 1
          /\ \A j \in 1 .. Len(event_queue) : Append(event_queue, e)[j] = event_queue[j]
      BY <1>t
    <3>3. \A j \in 1 .. Len(event_queue) : j \in DOMAIN event_queue' /\ event_queue'[j] = event_queue[j]
      <4>1. event_queue' = Append(event_queue, e)
        BY <1>1
      <4>2. \A j \in 1 .. Len(event_queue) : j \in 1 .. Len(event_queue) + 1
        BY <1>t
      <4> QED
        BY <3>2, <4>1, <4>2, Zenon
    <3> QED
      BY <3>1, <3>3
  <2> QED
    BY <1>w, <2>1 DEF ExitFirst
<1>2. CASE t7xx_fsm_clr_event("AP_HS2_EXIT")
  <2>1. PICK n \in 0 .. Len(event_queue) : \E stays \in [1 .. n -> DOMAIN event_queue] :
            /\ {stays[k] : k \in 1 .. n} = {i \in DOMAIN event_queue : event_queue[i] # "AP_HS2_EXIT"}
            /\ \A k, l \in 1 .. n : k < l => stays[k] < stays[l]
            /\ event_queue' = [k \in 1 .. n |-> event_queue[stays[k]]]
    BY <1>2 DEF t7xx_fsm_clr_event
  <2>2. PICK stays \in [1 .. n -> DOMAIN event_queue] :
            /\ {stays[k] : k \in 1 .. n} = {i \in DOMAIN event_queue : event_queue[i] # "AP_HS2_EXIT"}
            /\ \A k, l \in 1 .. n : k < l => stays[k] < stays[l]
            /\ event_queue' = [k \in 1 .. n |-> event_queue[stays[k]]]
    BY <2>1
  <2>3. PICK k \in 1 .. n : stays[k] = w
    BY <1>t, <1>w, <2>2
  <2>4. DOMAIN event_queue' = 1 .. n /\ \A j \in 1 .. n : event_queue'[j] = event_queue[stays[j]]
    BY <2>2
  <2>5. ASSUME NEW j \in 1 .. k - 1 PROVE event_queue'[j] # "MD_HS2"
    <3>1. n \in Nat /\ j \in 1 .. n /\ j < k
      BY <1>t
    <3>2. stays[j] < w /\ stays[j] \in 1 .. Len(event_queue)
      BY <1>t, <2>2, <2>3, <3>1
    <3>3. stays[j] \in 1 .. w - 1
      BY <1>t, <3>2
    <3> QED
      BY <1>w, <2>4, <3>1, <3>3
  <2> QED
    BY <1>w, <2>3, <2>4, <2>5 DEF ExitFirst
<1>3. ASSUME NEW i \in DOMAIN event_queue, event_queue' = RemoveAt(event_queue, i),
             event_queue[i] # "MD_HS2_EXIT"
      PROVE  ExitFirst'
  <2>1. /\ event_queue' \in Seq(Events) /\ Len(event_queue') = Len(event_queue) - 1
        /\ \A j \in 1 .. Len(event_queue) - 1 :
               event_queue'[j] = IF j < i THEN event_queue[j] ELSE event_queue[j + 1]
    BY <1>t, <1>3, RemovedType
  <2>2. DOMAIN event_queue' = 1 .. Len(event_queue) - 1
    BY <2>1
  <2>3. i \in 1 .. Len(event_queue) /\ i # w
    BY <1>t, <1>w, <1>3
  <2>4. CASE w < i
    <3>1. w \in 1 .. Len(event_queue) - 1 /\ \A j \in 1 .. w - 1 : j \in 1 .. Len(event_queue) - 1 /\ j < i
      BY <1>t, <2>3, <2>4
    <3> QED
      BY <1>w, <2>1, <2>2, <2>4, <3>1 DEF ExitFirst
  <2>5. CASE i < w
    <3>1. w - 1 \in 1 .. Len(event_queue) - 1 /\ ~(w - 1 < i) /\ (w - 1) + 1 = w
      BY <1>t, <2>3, <2>5
    <3>2. event_queue'[w - 1] = "MD_HS2_EXIT"
      BY <1>w, <2>1, <3>1
    <3>3. ASSUME NEW j \in 1 .. (w - 1) - 1 PROVE event_queue'[j] # "MD_HS2"
      <4>1. j \in 1 .. Len(event_queue) - 1 /\ j \in 1 .. w - 1 /\ j + 1 \in 1 .. w - 1
        BY <1>t
      <4> QED
        BY <1>w, <2>1, <4>1
    <3> QED
      BY <2>2, <3>1, <3>2, <3>3 DEF ExitFirst
  <2> QED
    BY <1>t, <2>3, <2>4, <2>5
<1>4. CASE event_queue' = event_queue
  BY <1>4 DEF ExitFirst
<1> QED
  BY <1>1, <1>2, <1>3, <1>4

LEMMA UsableFrame ==
    ASSUME UsableInv, UNCHANGED <<caught, md_state, hif, workPc, event_queue>>,
           Gone => Gone', ready' \cap {"md"} \subseteq ready,
           fsmPc' = fsmPc \/ (fsmPc' \notin ExChain /\ fsmPc \notin ExChain)
    PROVE  UsableInv'
BY DEF UsableInv, Late, Overtaken, ExitFirst

LEMMA UsableFsm == ASSUME TypeOK, UsableInv, FsmThread PROVE UsableInv'
<1> USE DEF UsableInv, Late, Overtaken, ExChain, Gone, ExitPassed
<1>t. hif \in [Core -> HifStates] /\ {"md", "ap"} = Core
  BY DEF TypeOK, ModemTypeOK, Core
<1>1. ASSUME NEW done, NEW rest, fsm_stopped_handler(done, rest), UNCHANGED callerPc, fsmPc \notin ExChain
      PROVE  UsableInv'
  <2>1. CASE KeepsSession /\ UNCHANGED <<md_state, event_queue, hif, ready, caught>>
    BY <1>1, <2>1 DEF fsm_stopped_handler, ExitFirst
  <2>2. CASE md_state' = "STOPPED" /\ t7xx_md_reset(done, rest)
    <3>1. workPc' = workPc /\ fsmPc' = "idle" /\ "md" \notin ready'
      BY <1>1, <2>2 DEF fsm_stopped_handler, t7xx_md_reset
    <3>2. ASSUME ~caught', workPc["md"] = "setup" PROVE ExitFirst'
      <4>1. event_queue' = <<"MD_HS2_EXIT">>
        BY <2>2, <3>2 DEF t7xx_md_reset
      <4>2. 1 \in DOMAIN event_queue' /\ event_queue'[1] = "MD_HS2_EXIT" /\ 1 .. 1 - 1 = {}
        BY <4>1
      <4> QED
        BY <4>2 DEF ExitFirst
    <3> QED
      BY <2>2, <3>1, <3>2
  <2> QED
    BY <1>1, <2>1, <2>2 DEF fsm_stopped_handler
<1>2. CASE FsmStop \/ FsmStopped
  BY <1>1, <1>2 DEF FsmStop, FsmStopped
<1>3. CASE FsmStopping
  BY <1>t, <1>3 DEF FsmStopping, TakeAccepted, Take, callerVars, ExitFirst, Hif
<1>4. CASE FsmReject \/ FsmPreStart \/ FsmPollTimeout \/ FsmNothingToStart \/ FsmStartNotify \/ FsmExit
  BY <1>4, UsableFrame DEF FsmReject, FsmPreStart, FsmPollTimeout, FsmNothingToStart, FsmStartNotify,
     FsmExit, TakeAccepted, Take, fsm_finish_command, workVars, queueVars, ctlVars, threadVars, callerVars
<1>5. CASE FsmLkStage
  BY <1>t, <1>5 DEF FsmLkStage, fsm_finish_command, queueVars, ExitFirst
<1>6. CASE FsmStarting
  BY <1>6 DEF FsmStarting, workVars, queueVars, callerVars, ExitFirst
<1>7. CASE FsmReady
  BY <1>t, <1>7 DEF FsmReady, t7xx_fsm_broadcast_ready_state, fsm_finish_command, workVars, queueVars, ExitFirst
<1>8. CASE FsmHandshakeFailed
  <2>1. ExitFirst => ExitFirst'
    BY <1>8, FirstStays DEF FsmHandshakeFailed, HandshakeFailure, HS2_EXIT, Events
  <2> QED
    BY <1>8, <2>1 DEF FsmHandshakeFailed, HandshakeFailure, fsm_finish_command, workVars
<1>9. CASE FsmException
  BY <1>t, <1>9 DEF FsmException, TakeAccepted, Take, callerVars, ExitFirst
<1>10. CASE FsmExInitDone
  BY <1>10 DEF FsmExInitDone, workVars, queueVars, ctlVars, callerVars, ExitFirst
<1>11. CASE FsmExClearqDone
  BY <1>t, <1>11 DEF FsmExClearqDone, Hif, queueVars, ctlVars, callerVars, ExitFirst
<1>12. CASE FsmExAllqReset
  BY <1>t, <1>12 DEF FsmExAllqReset, Hif, queueVars, ctlVars, callerVars, ExitFirst
<1>13. CASE FsmExRecOk \/ FsmExPass
  <2>1. ASSUME NEW e, e # "MD_HS2_EXIT", e # "MD_HS2", Consume(e), ExitFirst PROVE ExitFirst'
    <3>1. event_queue \in Seq(Events) /\ event_queue # <<>> /\ event_queue[1] = e /\ event_queue' = Tail(event_queue)
      BY <2>1 DEF Consume, TypeOK
    <3>2. PICK w \in 1 .. Len(event_queue) :
             event_queue[w] = "MD_HS2_EXIT" /\ \A j \in 1 .. w - 1 : event_queue[j] # "MD_HS2"
      BY <2>1, <3>1 DEF ExitFirst
    <3>3. /\ DOMAIN event_queue' = 1 .. Len(event_queue) - 1
          /\ \A j \in 1 .. Len(event_queue) - 1 : event_queue'[j] = event_queue[j + 1]
      BY <3>1
    <3>4. w \in Nat /\ w > 1 /\ w - 1 \in 1 .. Len(event_queue) - 1 /\ (w - 1) + 1 = w
      BY <2>1, <3>1, <3>2
    <3>5. ASSUME NEW j \in 1 .. (w - 1) - 1 PROVE event_queue'[j] # "MD_HS2"
      <4>1. j \in 1 .. Len(event_queue) - 1 /\ j + 1 \in 1 .. w - 1
        BY <3>2, <3>4
      <4> QED
        BY <3>2, <3>3, <4>1
    <3> QED
      BY <3>2, <3>3, <3>4, <3>5 DEF ExitFirst
  <2>2. ExitFirst => ExitFirst'
    <3>1. event_queue' = event_queue => (ExitFirst => ExitFirst')
      BY DEF ExitFirst
    <3> QED
      BY <1>13, <2>1, <3>1 DEF FsmExRecOk, FsmExPass
  <2> QED
    BY <1>13, <2>2 DEF FsmExRecOk, FsmExPass, fsm_finish_command, workVars, ctlVars, callerVars
<1> QED
  BY <1>2, <1>3, <1>4, <1>5, <1>6, <1>7, <1>8, <1>9, <1>10, <1>11, <1>12, <1>13 DEF FsmThread

LEMMA UsableWork == ASSUME TypeOK, UsableInv, NEW c \in Core, HandshakeWork(c) PROVE UsableInv'
<1> USE DEF UsableInv, Late, Overtaken
<1>t. /\ hif \in [Core -> HifStates] /\ workPc \in [Core -> WorkPcs] /\ Core = {"md", "ap"}
      /\ event_queue \in Seq(Events)
  BY DEF TypeOK, ModemTypeOK, Core
<1>g. Gone' <=> Gone
  BY DEF Gone, ExitPassed, HandshakeWork, HkStart, HkSendHs1, HkEvent, HkParse, callerVars
<1>1. CASE HkStart(c)
  <2>1. CASE c = "md"
    BY <1>t, <1>1, <2>1 DEF HkStart, ctlVars, threadVars, ExChain
  <2>2. CASE c = "ap"
    <3>1. ExitFirst => ExitFirst'
      BY <1>1, <2>2, FirstStays DEF HkStart, HS2_EXIT
    <3> QED
      BY <1>t, <1>g, <1>1, <2>2, <3>1 DEF HkStart, ctlVars, threadVars
  <2> QED
    BY <1>t, <2>1, <2>2
<1>2. CASE HkSendHs1(c)
  <2>1. ExitFirst' <=> ExitFirst
    BY <1>2 DEF HkSendHs1, queueVars, ExitFirst
  <2> QED
    BY <1>t, <1>g, <1>2, <2>1 DEF HkSendHs1, threadVars
<1>3. CASE HkEvent(c)
  <2>1. PICK i \in DOMAIN event_queue :
            /\ event_queue[i] \in {HS2(c), HS2_EXIT(c)}
            /\ \A j \in 1 .. i - 1 : event_queue[j] \notin {HS2(c), HS2_EXIT(c)}
            /\ event_queue' = RemoveAt(event_queue, i)
            /\ workPc' = [workPc EXCEPT ![c] = IF event_queue[i] = HS2(c) /\ ~exp_flg THEN "parse" ELSE "idle"]
    BY <1>3 DEF HkEvent
  <2>2. CASE c = "ap"
    <3>1. ExitFirst => ExitFirst'
      BY <2>1, <2>2, FirstStays DEF HS2, HS2_EXIT
    <3> QED
      BY <1>t, <1>g, <1>3, <2>1, <2>2, <3>1 DEF HkEvent, ctlVars, threadVars
  <2>3. CASE c = "md"
    <3>1. ASSUME ExitFirst PROVE event_queue[i] # "MD_HS2"
      <4>1. PICK w \in DOMAIN event_queue :
               event_queue[w] = "MD_HS2_EXIT" /\ \A j \in 1 .. w - 1 : event_queue[j] # "MD_HS2"
        BY <3>1 DEF ExitFirst
      <4>2. w \notin 1 .. i - 1
        BY <2>1, <2>3, <4>1 DEF HS2, HS2_EXIT
      <4>3. w = i \/ i \in 1 .. w - 1
        BY <1>t, <4>2
      <4> QED
        BY <4>1, <4>3
    <3>2. workPc'["md"] \in {"parse", "idle"} /\ (ExitFirst => workPc'["md"] = "idle")
      BY <1>t, <2>1, <2>3, <3>1 DEF HS2
    <3> QED
      BY <1>t, <1>g, <1>3, <2>3, <3>2 DEF HkEvent, ctlVars, threadVars
  <2> QED
    BY <1>t, <2>2, <2>3
<1>4. CASE HkParse(c)
  <2>1. ExitFirst' <=> ExitFirst
    BY <1>4 DEF HkParse, queueVars, ExitFirst
  <2> QED
    BY <1>t, <1>g, <1>4, <2>1 DEF HkParse, ctlVars, threadVars
<1> QED
  BY <1>1, <1>2, <1>3, <1>4 DEF HandshakeWork

LEMMA UsableStep == ASSUME TypeOK, UsableInv, [Next]_vars PROVE UsableInv'
<1>1. ASSUME ExitFirst => ExitFirst', UNCHANGED <<caught, md_state, hif, workPc, ready, fsmPc>>, Gone => Gone'
      PROVE  UsableInv'
  BY <1>1 DEF UsableInv, Late, Overtaken
<1>u. ASSUME UNCHANGED <<event_queue, caught, md_state, hif, workPc, ready, fsmPc>>, Gone => Gone'
      PROVE  UsableInv'
  <2>1. ExitFirst => ExitFirst'
    BY <1>u DEF ExitFirst
  <2> QED
    BY <1>1, <1>u, <2>1
<1>c. UNCHANGED callerPc => (Gone => Gone')
  BY DEF Gone, ExitPassed
<1>2. CASE IsrThread
  BY <1>2, <1>u, <1>c DEF IsrThread, t7xx_mhccif_isr_thread, t7xx_pci_mhccif_isr,
     t7xx_mhccif_clear_interrupts, queueVars, workVars, ctlVars, threadVars, callerVars
<1>3. ASSUME NEW c \in Core, CtrlPort(c) PROVE UsableInv'
  <2>1. ExitFirst => ExitFirst'
    BY <1>3, FirstStays DEF CtrlPort, HS2, Events
  <2> QED
    BY <1>1, <1>3, <2>1 DEF CtrlPort, workVars, ctlVars, threadVars, callerVars, Gone, ExitPassed
<1>4. CASE CtrlPortException
  <2>1. exMsgs' \in 1 .. 3
    BY <1>4 DEF CtrlPortException, TypeOK, DevTypeOK, ExMsgs
  <2>2. ExMsgs[exMsgs'] \in Events
    BY <2>1 DEF ExMsgs, Events
  <2>3. ExitFirst => ExitFirst'
    BY <1>4, <2>2, FirstStays DEF CtrlPortException
  <2> QED
    BY <1>1, <1>4, <2>3 DEF CtrlPortException, workVars, ctlVars, threadVars, callerVars, Gone, ExitPassed
<1>5. CASE Device
  BY <1>5, <1>u, <1>c DEF Device, DeviceBoot, DeviceRaise, DeviceAnswer, queueVars, workVars, ctlVars,
     threadVars, callerVars
<1>6. ASSUME NEW t \in Resetters, Resetter(t) PROVE UsableInv'
  <2>1. callerPc'["exit"] = callerPc["exit"]
    BY <1>6, ResettersAssumption DEF TypeOK, CmdTypeOK, Callers, Resetter, ResetRequest, AppendAndWait,
       ResetStopped, WaitEnds, ResetDevice, ResetStart
  <2> QED
    <3>1. Gone => Gone'
      BY <2>1 DEF Gone, ExitPassed
    <3> QED
      BY <1>6, <1>u, <3>1 DEF Resetter, ResetRequest, AppendAndWait, ResetStopped, WaitEnds,
         ResetDevice, ResetStart, queueVars, workVars, ctlVars, threadVars
<1>7. CASE ExitBegin
  <2>1. ~Gone
    BY <1>7 DEF ExitBegin, Gone, ExitPassed
  <2> QED
    BY <1>7, <1>u, <2>1 DEF ExitBegin, AppendAndWait, workVars, ctlVars, threadVars
<1>8. CASE ExitStopped
  <2>1. ~Gone
    BY <1>8 DEF ExitStopped, WaitEnds, Gone, ExitPassed
  <2> QED
    BY <1>8, <1>u, <2>1 DEF ExitStopped, WaitEnds, workVars, ctlVars
<1>9. CASE ExitUninit \/ ExitFlush \/ ExitDestroy
  <2>1. Gone'
    BY <1>9 DEF ExitUninit, ExitFlush, ExitDestroy, Gone, ExitPassed, TypeOK, CmdTypeOK, Callers
  <2> QED
    BY <1>9, <2>1 DEF ExitUninit, ExitFlush, ExitDestroy, ctlVars, threadVars, UsableInv
<1>10. CASE UNCHANGED vars
  BY <1>10, <1>u, <1>c DEF vars, queueVars, workVars, ctlVars, threadVars, callerVars
<1> QED
  BY <1>2, <1>3, <1>4, <1>5, <1>6, <1>7, <1>8, <1>9, <1>10, UsableFsm, UsableWork DEF Next, ExitWork

(* MD_STATE_READY has running rings behind it, whatever resets, exceptions,  *)
(* late handshake work and an unload do, except after the case the code does *)
(* not provide for (caught).                                                 *)
THEOREM MdReadyUsableHolds == Spec => []MdReadyUsable
<1>1. Init => UsableInv
  <2>1. Init => md_state = "INVALID" /\ workPc["md"] = "idle"
    BY DEF Init, Core
  <2> QED
    BY <2>1 DEF UsableInv, Overtaken
<1>2. TypeOK /\ UsableInv => MdReadyUsable
  BY DEF UsableInv, Late, Overtaken, MdReadyUsable, Gone
<1>3. TypeOK /\ UsableInv /\ [Next]_vars => UsableInv'
  BY UsableStep
<1> QED
  BY <1>1, <1>2, <1>3, TypeCorrect, PTL DEF Spec
=============================================================================
