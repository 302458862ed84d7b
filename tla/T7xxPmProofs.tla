---------------------------- MODULE T7xxPmProofs ----------------------------
(* Proofs about the power management, for every set of resetting threads,    *)
(* every cap on the re-probes and every bound.                               *)
EXTENDS T7xxPm, TLAPS

(***************************************************************************)
(* Interrupts. Only t7xx_pci_pm_resume_noirq() disables them, and only a   *)
(* resume that is skipped leaves them so. The invariant adds to            *)
(* InterruptsBack that no callback runs with interrupts disabled, which is *)
(* what its early returns rest on.                                         *)
(***************************************************************************)
InterruptsInv ==
    /\ pmPc \notin {"idle", "noirq"} => macInts
    /\ pmPc = "idle" /\ md_pm_state \notin UpToInit => macInts

LEMMA InterruptsInit == Init => InterruptsInv
BY DEF Init, InterruptsInv, UpToInit

LEMMA InterruptsSuspend ==
    ASSUME InterruptsInv,
           (\E k \in Kinds : SuspendBegin(k)) \/ SuspendEntity \/ SuspendEntityFails
             \/ SuspendMdTimeout \/ SuspendMdAcked \/ SuspendDone \/ t7xx_pci_pm_resume_noirq
    PROVE  InterruptsInv'
<1> USE DEF InterruptsInv, UpToInit
<1>1. ASSUME NEW k \in Kinds, SuspendBegin(k) PROVE InterruptsInv'
  BY <1>1 DEF SuspendBegin, SuspendAllowed
<1>2. CASE SuspendEntity
  BY <1>2 DEF SuspendEntity
<1>3. CASE SuspendEntityFails \/ SuspendMdTimeout
  BY <1>3 DEF SuspendEntityFails, SuspendMdTimeout, AbortSuspend
<1>4. CASE SuspendMdAcked \/ SuspendDone
  BY <1>4 DEF SuspendMdAcked, SuspendDone, pciVars
<1>5. CASE t7xx_pci_pm_resume_noirq
  BY <1>5 DEF t7xx_pci_pm_resume_noirq
<1> QED
  BY <1>1, <1>2, <1>3, <1>4, <1>5

LEMMA InterruptsResume ==
    ASSUME InterruptsInv,
           Resume \/ ResumeMdTimeout \/ ResumeMdAcked \/ ResumeApTimeout \/ ResumeDone
             \/ ResumeStopped \/ ResumeUnknownStopped
    PROVE  InterruptsInv'
<1> USE DEF InterruptsInv, UpToInit
<1>1. CASE ResumeSkipped
  BY <1>1 DEF ResumeSkipped, Awake, pciVars, UpToInit
<1>2. CASE Resume /\ ~ResumeSkipped
  BY <1>2 DEF Resume, ResumeLost, ResumeException, ResumeReinitFails, ResumeUnknown,
     ResumeHandshake, Reads
<1>3. CASE ResumeMdTimeout \/ ResumeMdAcked \/ ResumeApTimeout \/ ResumeDone
  BY <1>3 DEF ResumeMdTimeout, ResumeMdAcked, ResumeApTimeout, ResumeDone, ResumeReprobe, pciVars
<1>4. CASE ResumeStopped \/ ResumeUnknownStopped
  BY <1>4 DEF ResumeStopped, ResumeUnknownStopped, t7xx_pci_reprobe
<1> QED
  BY <1>1, <1>2, <1>3, <1>4

LEMMA InterruptsOthers ==
    ASSUME InterruptsInv, [Next]_vars, ~PmThread PROVE InterruptsInv'
<1> USE DEF InterruptsInv, UpToInit
<1>1. CASE FsmThread
  BY <1>1 DEF FsmThread, FsmStop, FsmStart, FsmNotYet, FsmPortEnum, FsmReady, FsmHandshakeFailed,
     FsmException, pciVars, pmVars
<1>2. CASE t7xx_mhccif_isr_thread \/ (\E r \in Requests : DeviceAck(r)) \/ UNCHANGED vars
  BY <1>2 DEF t7xx_mhccif_isr_thread, DeviceAck, vars, pciVars, pmVars
<1>3. CASE t7xx_rgu_isr_handler \/ RguNothing
  BY <1>3 DEF t7xx_rgu_isr_handler, RguNothing, pciVars, pmVars
<1>4. ASSUME NEW t \in Resetters, Resetting(t) PROVE InterruptsInv'
  BY <1>4 DEF Resetting, ResetBegin, ResetStopped, ResetReprobe, t7xx_pci_reprobe,
     t7xx_pci_pm_reinit, pmVars
<1> QED
  BY <1>1, <1>2, <1>3, <1>4 DEF Next

(* A resume always gives the interrupts back that                            *)
(* t7xx_pci_pm_resume_noirq() took away, unless the driver takes the modem   *)
(* for booting or dead; also with resets and failing callbacks.              *)
THEOREM InterruptsBackHolds == Spec => []InterruptsBack
<1>1. InterruptsInv => InterruptsBack
  BY DEF InterruptsInv, InterruptsBack
<1>2. InterruptsInv /\ [Next]_vars => InterruptsInv'
  BY InterruptsSuspend, InterruptsResume, InterruptsOthers DEF PmThread, PmProgress
<1> QED
  BY <1>1, <1>2, InterruptsInit, PTL DEF Spec

(***************************************************************************)
(* Types. The flags are kept apart: their proof needs no arithmetic.       *)
(***************************************************************************)
HistoryType == overlapped \in BOOLEAN

FlagTypes == rgu_pci_irq_en \in BOOLEAN /\ rguInt \in BOOLEAN /\ macInts \in BOOLEAN
             /\ portEnum \in BOOLEAN

PciTypes ==
    /\ md_pm_state \in PmStates /\ mode \in Modes
    /\ resume_reprobe_count \in 0 .. MaxReprobes
    /\ pm_sr_ack \in Nat /\ usage \in Nat
    /\ active \subseteq Entities
    /\ fsm \in FsmStates
    /\ requests \subseteq Requests /\ acks \subseteq Requests

ThreadTypes ==
    /\ pmPc \in PmPcs /\ kind \in Kinds \cup {"none"}
    /\ prev_state \in AllResumeStates \cup {"none"}
    /\ next \in 1 .. Len(md_pm_entities)
    /\ resetPc \in [Resetters -> ResetPcs]
    /\ resets \in 0 .. MaxResets

QueueTypes == command_queue \in Seq(Commands) /\ reply \in [Callers -> Replies]

LEMMA TypeParts == TypeOK <=> FlagTypes /\ HistoryType /\ PciTypes /\ ThreadTypes /\ QueueTypes
BY DEF TypeOK, FlagTypes, HistoryType, PciTypes, ThreadTypes, QueueTypes

LEMMA TypeInit == Init => TypeOK
<1> SUFFICES ASSUME Init PROVE FlagTypes /\ HistoryType /\ PciTypes /\ ThreadTypes /\ QueueTypes
  BY TypeParts
<1>1. FlagTypes /\ HistoryType
  BY Zenon DEF Init, FlagTypes, HistoryType
<1>2. PciTypes
  BY PmBoundsAssumption DEF Init, PciTypes, PmStates, Modes, FsmStates
<1>3. ThreadTypes
  BY PmBoundsAssumption DEF Init, ThreadTypes, PmPcs, ResetPcs, md_pm_entities
<1>4. QueueTypes
  BY DEF Init, QueueTypes, Replies
<1> QED
  BY <1>1, <1>2, <1>3, <1>4

(* The queue and the results: STOP and START are appended, taken or flushed, *)
(* and a thread that gives up leaves its command behind.                     *)
LEMMA QueueSteps ==
    ASSUME QueueTypes, [Next]_vars PROVE QueueTypes'
<1> USE DEF QueueTypes
<1>1. \A t \in Callers : STOP(t) \in Commands /\ \A c \in Commands : Abandoned(c, t) \in Commands
  BY DEF STOP, Abandoned, Commands
<1>2. START \in Commands /\ "pm" \in Callers /\ Resetters \subseteq Callers
  BY DEF START, Commands, Callers
<1>3. \A t \in Callers : StillQueued(t) \in Seq(Commands)
  BY <1>1 DEF StillQueued
<1>4. \A t \in Callers : StopWaitEnds(t) => reply' \in [Callers -> Replies]
  BY DEF StopWaitEnds, Replies
<1>5. ASSUME FsmStop PROVE QueueTypes'
  <2> DEFINE rest == Tail(command_queue)
             flushed == [t \in Callers |-> IF \E i \in DOMAIN rest : rest[i].by = t THEN "EINVAL"
                                                                                  ELSE reply[t]]
  <2>1. flushed \in [Callers -> Replies]
    BY DEF Replies
  <2>2. \A r \in [Callers -> Replies], v \in Replies :
           Replied(r, Head(command_queue).by, v) \in [Callers -> Replies]
    BY DEF Replied
  <2>3. command_queue' \in {rest, <<>>} /\ rest \in Seq(Commands) /\ <<>> \in Seq(Commands)
    BY <1>5 DEF FsmStop
  <2>4. /\ reply' \in {Replied(reply, Head(command_queue).by, "EINVAL"),
                       Replied(reply, Head(command_queue).by, "0"),
                       Replied(flushed, Head(command_queue).by, "0")}
        /\ "0" \in Replies /\ "EINVAL" \in Replies
    BY <1>5 DEF FsmStop, Replies
  <2> QED
    BY <2>1, <2>2, <2>3, <2>4
<1>6. ASSUME FsmThread, ~FsmStop PROVE QueueTypes'
  BY <1>2, <1>6 DEF FsmThread, FsmStart, FsmNotYet, FsmPortEnum, FsmReady, FsmHandshakeFailed,
     FsmException
<1>7. ASSUME (\E k \in Kinds : SuspendBegin(k)) \/ SuspendEntity \/ SuspendEntityFails
               \/ SuspendMdTimeout \/ SuspendMdAcked \/ SuspendDone \/ t7xx_pci_pm_resume_noirq
      PROVE  QueueTypes'
  BY <1>7 DEF SuspendBegin, SuspendEntity, SuspendEntityFails, SuspendMdTimeout, AbortSuspend,
     SuspendMdAcked, SuspendDone, t7xx_pci_pm_resume_noirq, fsmVars
<1>s. Append(command_queue, STOP("pm")) \in Seq(Commands)
  BY <1>1, <1>2
<1>8. ASSUME Resume PROVE QueueTypes'
  BY <1>s, <1>8 DEF Resume, ResumeSkipped, ResumeLost, ResumeException, ResumeReinitFails,
     ResumeUnknown, ResumeHandshake, t7xx_pci_reprobe_early, fsmVars
<1>9. ASSUME ResumeMdTimeout \/ ResumeMdAcked \/ ResumeApTimeout \/ ResumeDone PROVE QueueTypes'
  BY <1>s, <1>9 DEF ResumeMdTimeout, ResumeMdAcked, ResumeApTimeout, ResumeDone,
     ResumeReprobe, t7xx_pci_reprobe_early, fsmVars
<1>10. ASSUME ResumeStopped \/ ResumeUnknownStopped PROVE QueueTypes'
  <2>1. reply' \in [Callers -> Replies]
    BY <1>2, <1>4, <1>10 DEF ResumeStopped, ResumeUnknownStopped
  <2>2. command_queue' \in {StillQueued("pm"), Append(StillQueued("pm"), START)}
    BY <1>10 DEF ResumeStopped, ResumeUnknownStopped, t7xx_pci_reprobe
  <2>3. StillQueued("pm") \in Seq(Commands)
    BY <1>2, <1>3
  <2> QED
    BY <1>2, <2>1, <2>2, <2>3
<1>11. ASSUME NEW t \in Resetters, Resetting(t) PROVE QueueTypes'
  <2>0. t \in Callers /\ STOP(t) \in Commands /\ StillQueued(t) \in Seq(Commands)
    BY <1>1, <1>2, <1>3
  <2>1. CASE ResetBegin(t)
    BY <2>0, <2>1 DEF ResetBegin, t7xx_pci_reprobe_early
  <2>2. CASE ResetStopped(t)
    BY <1>4, <2>0, <2>2 DEF ResetStopped
  <2>3. CASE ResetReprobe(t)
    BY <1>2, <2>3 DEF ResetReprobe, t7xx_pci_reprobe
  <2> QED
    BY <1>11, <2>1, <2>2, <2>3 DEF Resetting
<1>12. ASSUME t7xx_rgu_isr_handler \/ RguNothing \/ t7xx_mhccif_isr_thread
                \/ (\E r \in Requests : DeviceAck(r)) \/ UNCHANGED vars
       PROVE  QueueTypes'
  BY <1>12 DEF t7xx_rgu_isr_handler, RguNothing, t7xx_mhccif_isr_thread, DeviceAck, vars, fsmVars
<1> QED
  BY <1>5, <1>6, <1>7, <1>8, <1>9, <1>10, <1>11, <1>12 DEF Next, PmThread, PmProgress

LEMMA FlagSteps ==
    ASSUME FlagTypes, [Next]_vars PROVE FlagTypes'
<1>1. ASSUME PmThread PROVE FlagTypes'
  <2>1. CASE (\E k \in Kinds : SuspendBegin(k)) \/ SuspendMdAcked \/ SuspendDone
               \/ t7xx_pci_pm_resume_noirq
    BY <2>1, Zenon DEF FlagTypes, SuspendBegin, SuspendMdAcked, SuspendDone,
       t7xx_pci_pm_resume_noirq, pciVars
  <2>2. CASE SuspendEntity
    BY <2>2, Zenon DEF FlagTypes, SuspendEntity
  <2>3. CASE SuspendEntityFails \/ SuspendMdTimeout
    BY <2>3, Zenon DEF FlagTypes, SuspendEntityFails, SuspendMdTimeout, AbortSuspend
  <2>4. CASE Resume
    <3>1. CASE ResumeSkipped \/ ResumeLost \/ ResumeException
      BY <3>1, Zenon DEF FlagTypes, ResumeSkipped, ResumeLost, ResumeException, Reads, pciVars
    <3>2. CASE ResumeReinitFails \/ ResumeUnknown \/ \E state \in ResumeStates : ResumeHandshake(state)
      BY <3>2, Zenon DEF FlagTypes, ResumeReinitFails, ResumeUnknown, ResumeHandshake, Reads
    <3> QED
      BY <2>4, <3>1, <3>2, Zenon DEF Resume
  <2>5. CASE ResumeMdTimeout \/ ResumeMdAcked \/ ResumeApTimeout
    BY <2>5, Zenon DEF FlagTypes, ResumeMdTimeout, ResumeMdAcked, ResumeApTimeout, ResumeReprobe,
       pciVars
  <2>6. CASE ResumeDone
    BY <2>6, Zenon DEF FlagTypes, ResumeDone
  <2>7. CASE ResumeStopped
    BY <2>7, Zenon DEF FlagTypes, ResumeStopped, t7xx_pci_reprobe
  <2>8. CASE ResumeUnknownStopped
    BY <2>8, Zenon DEF FlagTypes, ResumeUnknownStopped
  <2> QED
    BY <1>1, <2>1, <2>2, <2>3, <2>4, <2>5, <2>6, <2>7, <2>8, Zenon DEF PmThread, PmProgress
<1>2. ASSUME FsmThread PROVE FlagTypes'
  <2>1. CASE FsmStop
    BY <2>1, Zenon DEF FlagTypes, FsmStop
  <2>2. CASE FsmStart \/ FsmNotYet \/ FsmPortEnum
    BY <2>2, Zenon DEF FlagTypes, FsmStart, FsmNotYet, FsmPortEnum, pciVars
  <2>3. CASE FsmReady \/ FsmHandshakeFailed \/ FsmException
    BY <2>3, Zenon DEF FlagTypes, FsmReady, FsmHandshakeFailed, FsmException
  <2> QED
    BY <1>2, <2>1, <2>2, <2>3, Zenon DEF FsmThread
<1>3. ASSUME NEW t \in Resetters, Resetting(t) PROVE FlagTypes'
  BY <1>3, Zenon DEF FlagTypes, Resetting, ResetBegin, ResetStopped, ResetReprobe, t7xx_pci_reprobe
<1>4. ASSUME t7xx_rgu_isr_handler \/ RguNothing \/ t7xx_mhccif_isr_thread
               \/ (\E r \in Requests : DeviceAck(r)) \/ UNCHANGED vars
      PROVE  FlagTypes'
  BY <1>4, Zenon DEF FlagTypes, t7xx_rgu_isr_handler, RguNothing, t7xx_mhccif_isr_thread,
     DeviceAck, vars, pciVars
<1> QED
  BY <1>1, <1>2, <1>3, <1>4, Zenon DEF Next

(* The history of resets that met a sleep *)
LEMMA HistorySteps ==
    ASSUME HistoryType, [Next]_vars PROVE HistoryType'
<1> USE DEF HistoryType, resetVars
<1>1. CASE FsmPortEnum \/ FsmReady \/ \E k \in Kinds : SuspendBegin(k)
  BY <1>1 DEF FsmPortEnum, FsmReady, SuspendBegin
<1>2. CASE FsmThread /\ ~FsmPortEnum /\ ~FsmReady
  BY <1>2 DEF FsmThread, FsmStop, FsmStart, FsmNotYet, FsmHandshakeFailed, FsmException
<1>3. CASE PmProgress \/ t7xx_pci_pm_resume_noirq
  BY <1>3 DEF PmProgress, SuspendEntity, SuspendEntityFails, SuspendMdTimeout, AbortSuspend,
     SuspendMdAcked, SuspendDone, ResumeMdTimeout, ResumeMdAcked, ResumeApTimeout, ResumeReprobe,
     ResumeDone, ResumeStopped, ResumeUnknownStopped, t7xx_pci_pm_resume_noirq
<1>4. CASE Resume
  BY <1>4 DEF Resume, ResumeSkipped, ResumeLost, ResumeException, ResumeReinitFails,
     ResumeUnknown, ResumeHandshake
<1>5. ASSUME NEW t \in Resetters, Resetting(t) PROVE HistoryType'
  BY <1>5 DEF Resetting, ResetBegin, ResetStopped, ResetReprobe
<1>6. CASE t7xx_rgu_isr_handler \/ RguNothing \/ t7xx_mhccif_isr_thread
             \/ (\E r \in Requests : DeviceAck(r)) \/ UNCHANGED vars
  BY <1>6 DEF t7xx_rgu_isr_handler, RguNothing, t7xx_mhccif_isr_thread, DeviceAck, vars
<1> QED
  BY <1>1, <1>2, <1>3, <1>4, <1>5, <1>6 DEF Next, PmThread

LEMMA PciSteps ==
    ASSUME PciTypes, ThreadTypes, [Next]_vars PROVE PciTypes'
<1> USE PmBoundsAssumption DEF PciTypes, PmStates, Modes, Fastboot, FsmStates
<1>0. Entities \ {md_pm_entities[next]} \subseteq Entities /\ usage + 1 \in Nat
       /\ pm_sr_ack + 1 \in Nat /\ Released(usage) \in Nat
  BY DEF Released
<1>r. \A r \in Requests : t7xx_send_pm_request(r) => pm_sr_ack' \in Nat /\ requests' \subseteq Requests
  BY DEF t7xx_send_pm_request
<1>1. CASE \E k \in Kinds : SuspendBegin(k)
  BY <1>1 DEF SuspendBegin, devVars, fsmVars
<1>2. CASE SuspendEntity
  <2>1. UNCHANGED <<md_pm_state, mode, resume_reprobe_count, usage, fsm, acks>>
         /\ active' \subseteq Entities
    BY <1>2 DEF SuspendEntity, fsmVars
  <2>2. UNCHANGED <<requests, pm_sr_ack>> \/ t7xx_send_pm_request("SUSPEND")
    BY <1>2 DEF SuspendEntity
  <2>3. pm_sr_ack' \in Nat /\ requests' \subseteq Requests
    BY <1>r, <2>2 DEF Requests
  <2> QED
    BY <2>1, <2>3
<1>3. CASE SuspendEntityFails \/ SuspendMdTimeout
  <2>1. SuspendedBefore(next) \subseteq Entities
    BY DEF SuspendedBefore, ThreadTypes, md_pm_entities, Entities
  <2>2. active' \subseteq Entities
    BY <1>3, <2>1 DEF SuspendEntityFails, SuspendMdTimeout, AbortSuspend
  <2>3. md_pm_state' = "RESUMED" /\ UNCHANGED <<mode, resume_reprobe_count, usage, pm_sr_ack, fsm,
                                               requests, acks>>
    BY <1>3 DEF SuspendEntityFails, SuspendMdTimeout, AbortSuspend, fsmVars, devVars
  <2> QED
    BY <2>2, <2>3
<1>4. CASE SuspendMdAcked \/ ResumeMdAcked
  <2>1. UNCHANGED <<md_pm_state, mode, resume_reprobe_count, usage, active, fsm, acks>>
    BY <1>4 DEF SuspendMdAcked, ResumeMdAcked, pciVars, fsmVars
  <2>2. pm_sr_ack' \in Nat /\ requests' \subseteq Requests
    BY <1>r, <1>4 DEF SuspendMdAcked, ResumeMdAcked, Requests
  <2> QED
    BY <2>1, <2>2
<1>13. CASE SuspendDone \/ t7xx_pci_pm_resume_noirq
  BY <1>13 DEF SuspendDone, t7xx_pci_pm_resume_noirq, pciVars, fsmVars, devVars, Acked
<1>5. CASE ResumeSkipped \/ ResumeLost \/ ResumeException \/ ResumeReinitFails \/ ResumeUnknown
  BY <1>0, <1>5 DEF ResumeSkipped, ResumeLost, ResumeException, ResumeReinitFails, ResumeUnknown,
     t7xx_pci_reprobe_early, DeviceRestarts, pciVars, fsmVars, devVars
<1>6. CASE \E state \in ResumeStates : ResumeHandshake(state)
  <2>1. UNCHANGED <<md_pm_state, mode, resume_reprobe_count, usage, active, fsm>>
         /\ pm_sr_ack' = 0
    BY <1>6 DEF ResumeHandshake, fsmVars
  <2>2. requests' \in {{"RESUME"}, requests \cup {"RESUME"}} /\ acks' \in {{}, acks}
    BY <1>6 DEF ResumeHandshake
  <2>3. "RESUME" \in Requests
    BY DEF Requests
  <2>4. requests' \subseteq Requests /\ acks' \subseteq Requests
    BY <2>2, <2>3
  <2> QED
    BY <2>1, <2>4
<1>7. CASE ResumeMdTimeout \/ ResumeApTimeout
  BY <1>0, <1>7 DEF ResumeMdTimeout, ResumeApTimeout, ResumeReprobe, MayReprobe,
     t7xx_pci_reprobe_early, pciVars, fsmVars, devVars
<1>8. CASE ResumeDone
  BY <1>8 DEF ResumeDone, Acked, fsmVars, devVars
<1>9. CASE ResumeStopped \/ ResumeUnknownStopped
  BY <1>0, <1>9 DEF ResumeStopped, ResumeUnknownStopped, t7xx_pci_reprobe, t7xx_pci_pm_reinit,
     devVars
<1>10. CASE FsmThread
  BY <1>0, <1>10 DEF FsmThread, FsmStop, FsmStart, FsmNotYet, FsmPortEnum, FsmReady,
     FsmHandshakeFailed, FsmException, Entities, pciVars, devVars
<1>11. ASSUME NEW t \in Resetters, Resetting(t) PROVE PciTypes'
  BY <1>0, <1>11 DEF Resetting, ResetBegin, ResetStopped, ResetReprobe, t7xx_pci_reprobe_early,
     t7xx_pci_reprobe, t7xx_pci_pm_reinit, DeviceRestarts, devVars
<1>12. CASE t7xx_rgu_isr_handler \/ RguNothing \/ t7xx_mhccif_isr_thread
                \/ (\E r \in Requests : DeviceAck(r)) \/ UNCHANGED vars
  BY <1>0, <1>12 DEF t7xx_rgu_isr_handler, RguNothing, t7xx_mhccif_isr_thread, DeviceAck, vars,
     pciVars, fsmVars, devVars
<1> QED
  BY <1>1, <1>2, <1>3, <1>4, <1>5, <1>6, <1>7, <1>8, <1>9, <1>10, <1>11, <1>12, <1>13
     DEF Next, PmThread, PmProgress, Resume

LEMMA ThreadSteps ==
    ASSUME ThreadTypes, [Next]_vars PROVE ThreadTypes'
<1> USE PmBoundsAssumption DEF ThreadTypes, PmPcs, ResetPcs, pmVars, resetVars
<1>0. Len(md_pm_entities) = 3
  BY DEF md_pm_entities
<1>1. CASE (\E k \in Kinds : SuspendBegin(k)) \/ SuspendEntity
  BY <1>0, <1>1 DEF SuspendBegin, SuspendEntity
<1>2. CASE SuspendEntityFails \/ SuspendMdTimeout \/ SuspendMdAcked \/ SuspendDone
             \/ t7xx_pci_pm_resume_noirq
  BY <1>0, <1>2 DEF SuspendEntityFails, SuspendMdTimeout, AbortSuspend, SuspendMdAcked, SuspendDone,
     t7xx_pci_pm_resume_noirq
<1>3. CASE ResumeSkipped \/ ResumeLost \/ ResumeException \/ ResumeReinitFails \/ ResumeUnknown
  BY <1>3 DEF ResumeSkipped, ResumeLost, ResumeException, ResumeReinitFails, ResumeUnknown, Reads,
     Awake
<1>4. CASE \E state \in ResumeStates : ResumeHandshake(state)
  BY <1>4, PmSetsAssumption DEF ResumeHandshake, Reads
<1>5. CASE ResumeMdTimeout \/ ResumeMdAcked \/ ResumeApTimeout \/ ResumeDone \/ ResumeStopped
             \/ ResumeUnknownStopped
  BY <1>5 DEF ResumeMdTimeout, ResumeMdAcked, ResumeApTimeout, ResumeDone, ResumeStopped,
     ResumeUnknownStopped, ResumeReprobe, Awake
<1>6. CASE FsmThread
  BY <1>6 DEF FsmThread, FsmStop, FsmStart, FsmNotYet, FsmPortEnum, FsmReady, FsmHandshakeFailed,
     FsmException
<1>7. ASSUME NEW t \in Resetters, Resetting(t) PROVE ThreadTypes'
  BY <1>7 DEF Resetting, ResetBegin, ResetStopped, ResetReprobe
<1>8. CASE t7xx_rgu_isr_handler \/ RguNothing
  BY <1>8 DEF t7xx_rgu_isr_handler, RguNothing
<1>9. CASE t7xx_mhccif_isr_thread \/ (\E r \in Requests : DeviceAck(r)) \/ UNCHANGED vars
  BY <1>9 DEF t7xx_mhccif_isr_thread, DeviceAck, vars
<1> QED
  BY <1>1, <1>2, <1>3, <1>4, <1>5, <1>6, <1>7, <1>8, <1>9 DEF Next, PmThread, PmProgress, Resume

(* Every variable keeps its type, with resets and failing callbacks too; in  *)
(* particular the counter of re-probes stays within its cap.                 *)
THEOREM PmTypeCorrect == Spec => []TypeOK
<1>1. TypeOK /\ [Next]_vars => TypeOK'
  <2> SUFFICES ASSUME TypeOK, [Next]_vars PROVE TypeOK'
    OBVIOUS
  <2>1. FlagTypes' /\ HistoryType' /\ PciTypes' /\ ThreadTypes' /\ QueueTypes'
    BY TypeParts, FlagSteps, HistorySteps, PciSteps, ThreadSteps, QueueSteps
  <2> QED
    BY <2>1 DEF TypeOK, FlagTypes, HistoryType, PciTypes, ThreadTypes, QueueTypes
<1> QED
  BY <1>1, TypeInit, PTL DEF Spec

(***************************************************************************)
(* Boots and sleeps, with any resets and boots nobody asked for. A modem   *)
(* Boots from the START that will be obeyed until it is ready. As long as  *)
(* no reset has met a sleep:                                               *)
(*   - a callback that runs keeps the driver out of MTK_PM_RESUMED until   *)
(*     it returns, and is alone: no reset is under way;                    *)
(*   - a modem that boots is not put to sleep: no callback runs, and none  *)
(*     would begin. This also holds of a stopped FSM that has a START      *)
(*     queued, since every re-probe sets MTK_PM_INIT first.                *)
(* A queue is flushed by every STOP of a running modem, because no         *)
(* fastboot mode outlives a boot: what was queued before cannot start a    *)
(* modem that sleeps.                                                      *)
(***************************************************************************)
Booting     == {"starting", "prestart"}
HasStart(q) == \E i \in DOMAIN q : q[i].id = "START"
Boots       == fsm \in Booting \/ (fsm = "stopped" /\ HasStart(command_queue))

NoFastboot    == fsm \notin Booting \cup {"stopped"} => mode \notin Fastboot
CallbackAlone ==
    ~overlapped /\ pmPc # "idle" => md_pm_state \in {"SUSPENDED", "EXCEPTION"} /\ ~ResetUnderWay
BootAlone     == ~overlapped /\ Boots => pmPc = "idle" /\ ~SuspendAllowed

BootInv == QueueTypes /\ NoFastboot /\ CallbackAlone /\ BootAlone

LEMMA BootInit == Init => BootInv
BY TypeInit, TypeParts DEF Init, BootInv, NoFastboot, Booting, CallbackAlone, BootAlone,
   SuspendAllowed, UpToInit

(* The commands of a queue: a STOP that is appended and a thread that gives  *)
(* up bring no START, and taking a command or flushing leaves none behind    *)
(* that was not there.                                                       *)
LEMMA HasStartAppend ==
    ASSUME NEW q \in Seq(Commands), NEW t \in Callers, HasStart(Append(q, STOP(t)))
    PROVE  HasStart(q)
<1>1. PICK i \in DOMAIN Append(q, STOP(t)) : Append(q, STOP(t))[i].id = "START"
  BY DEF HasStart
<1>2. STOP(t) \in Commands /\ STOP(t).id = "STOP"
  BY DEF STOP, Commands
<1>3. i \in DOMAIN q /\ Append(q, STOP(t))[i] = q[i]
  BY <1>1, <1>2
<1> QED
  BY <1>1, <1>3 DEF HasStart

LEMMA HasStartQueued ==
    ASSUME command_queue \in Seq(Commands), NEW t \in Callers, HasStart(StillQueued(t))
    PROVE  HasStart(command_queue)
<1>1. \A c \in Commands : Abandoned(c, t).id = c.id
  BY DEF Abandoned, Commands
<1> QED
  BY <1>1 DEF HasStart, StillQueued

LEMMA HasStartTail ==
    ASSUME NEW q \in Seq(Commands), q # <<>>, HasStart(Tail(q)) PROVE HasStart(q)
<1>1. PICK i \in DOMAIN Tail(q) : Tail(q)[i].id = "START"
  BY DEF HasStart
<1>2. i + 1 \in DOMAIN q /\ Tail(q)[i] = q[i + 1]
  BY <1>1
<1> QED
  BY <1>1, <1>2 DEF HasStart

LEMMA HasStartNone == ~HasStart(<<>>)
BY DEF HasStart

(* Steps that move neither the FSM nor a reset, bring no START and leave the *)
(* driver out of MTK_PM_RESUMED while a callback goes on                     *)
LEMMA BootKept ==
    ASSUME BootInv, QueueTypes',
           UNCHANGED <<mode, fsm, overlapped, resetPc>>,
           HasStart(command_queue') => HasStart(command_queue),
           pmPc' = "idle" \/ (pmPc # "idle" /\ md_pm_state' \in {md_pm_state, "SUSPENDED"}),
           pmPc' = "idle" /\ pmPc = "idle" => md_pm_state' = md_pm_state
    PROVE  BootInv'
<1> USE DEF BootInv, NoFastboot, CallbackAlone, BootAlone, Boots, ResetUnderWay, SuspendAllowed
<1>1. NoFastboot' /\ CallbackAlone'
  OBVIOUS
<1>2. ASSUME Boots', ~overlapped' PROVE pmPc' = "idle" /\ ~SuspendAllowed'
  <2>1. Boots
    BY <1>2
  <2> QED
    BY <1>2, <2>1
<1> QED
  BY <1>1, <1>2

LEMMA BootSuspend ==
    ASSUME BootInv, QueueTypes',
           (\E k \in Kinds : SuspendBegin(k)) \/ SuspendEntity \/ SuspendEntityFails
             \/ SuspendMdTimeout \/ SuspendMdAcked \/ SuspendDone \/ t7xx_pci_pm_resume_noirq
    PROVE  BootInv'
<1>1. ASSUME NEW k \in Kinds, SuspendBegin(k) PROVE BootInv'
  <2>1. /\ SuspendAllowed /\ pmPc = "idle" /\ pmPc' = "entities" /\ md_pm_state' = "SUSPENDED"
        /\ UNCHANGED <<mode, fsm, command_queue, resetPc>>
        /\ overlapped' = (overlapped \/ ResetUnderWay)
    BY <1>1 DEF SuspendBegin, fsmVars
  <2> QED
    BY <2>1 DEF BootInv, NoFastboot, CallbackAlone, BootAlone, Boots, ResetUnderWay
<1>2. CASE SuspendEntity
  BY <1>2, BootKept DEF SuspendEntity, fsmVars, resetVars
<1>3. CASE SuspendEntityFails \/ SuspendMdTimeout
  BY <1>3, BootKept DEF SuspendEntityFails, SuspendMdTimeout, AbortSuspend, fsmVars, resetVars
<1>4. CASE SuspendMdAcked \/ SuspendDone
  BY <1>4, BootKept DEF SuspendMdAcked, SuspendDone, pciVars, fsmVars, resetVars
<1>5. CASE t7xx_pci_pm_resume_noirq
  BY <1>5, BootKept DEF t7xx_pci_pm_resume_noirq, fsmVars, resetVars
<1> QED
  BY <1>1, <1>2, <1>3, <1>4, <1>5

(* A resume decides what to do, or waits for the modem *)
LEMMA BootResume ==
    ASSUME BootInv, QueueTypes',
           Resume \/ ResumeMdTimeout \/ ResumeMdAcked \/ ResumeApTimeout \/ ResumeDone
    PROVE  BootInv'
<1>1. HasStart(Append(command_queue, STOP("pm"))) => HasStart(command_queue)
  BY HasStartAppend DEF BootInv, QueueTypes, Callers
<1>2. Waking => pmPc # "idle"
  BY DEF Waking
<1> USE DEF fsmVars, resetVars, pciVars, Awake
<1>3. CASE ResumeSkipped
  BY <1>2, <1>3, BootKept DEF ResumeSkipped
<1>4. CASE ResumeLost \/ ResumeUnknown
  BY <1>1, <1>2, <1>4, BootKept DEF ResumeLost, ResumeUnknown, Reads, t7xx_pci_reprobe_early
<1>5. CASE ResumeException \/ ResumeReinitFails
  BY <1>2, <1>5, BootKept DEF ResumeException, ResumeReinitFails, Reads
<1>6. CASE \E state \in ResumeStates : ResumeHandshake(state)
  BY <1>2, <1>6, BootKept DEF ResumeHandshake, Reads
<1>7. CASE pmPc \in {"r_md", "r_ap"} /\ ResumeReprobe
  BY <1>1, <1>7, BootKept DEF ResumeReprobe, t7xx_pci_reprobe_early
<1>8. CASE ResumeMdTimeout /\ ~ResumeReprobe
  BY <1>8, BootKept DEF ResumeMdTimeout
<1>9. CASE ResumeMdAcked \/ ResumeDone
  BY <1>9, BootKept DEF ResumeMdAcked, ResumeDone
<1> QED
  BY <1>3, <1>4, <1>5, <1>6, <1>7, <1>8, <1>9 DEF Resume, ResumeMdTimeout, ResumeApTimeout

(* The wait for the PM thread's STOP ends; a re-probe sets MTK_PM_INIT *)
LEMMA BootStopped ==
    ASSUME BootInv, QueueTypes', ResumeStopped \/ ResumeUnknownStopped PROVE BootInv'
<1>1. HasStart(StillQueued("pm")) => HasStart(command_queue)
  BY HasStartQueued DEF BootInv, QueueTypes, Callers
<1>2. pmPc # "idle" /\ pmPc' = "idle" /\ UNCHANGED <<mode, fsm, overlapped, resetPc>>
  BY DEF ResumeStopped, ResumeUnknownStopped, Awake, resetVars
<1>3. CASE command_queue' = StillQueued("pm")
  BY <1>1, <1>2, <1>3, BootKept
<1>4. CASE md_pm_state' = "INIT"
  BY <1>2, <1>4 DEF BootInv, NoFastboot, CallbackAlone, BootAlone, SuspendAllowed, UpToInit
<1> QED
  BY <1>3, <1>4 DEF ResumeStopped, ResumeUnknownStopped, t7xx_pci_reprobe, t7xx_pci_pm_reinit

LEMMA BootFsmStop == ASSUME BootInv, QueueTypes', FsmStop PROVE BootInv'
<1>1. HasStart(Tail(command_queue)) => HasStart(command_queue)
  BY HasStartTail DEF BootInv, QueueTypes, FsmStop
<1>2. UNCHANGED <<md_pm_state, mode, pmPc, overlapped, resetPc>>
  BY DEF FsmStop, pmVars, resetVars
<1>3. CASE UNCHANGED fsm /\ command_queue' = Tail(command_queue)
  BY <1>1, <1>2, <1>3, BootKept
<1>4. CASE fsm # "stopped" /\ mode \in Fastboot /\ fsm' = "stopped"
  <2>1. fsm = "prestart"
    BY <1>4 DEF BootInv, NoFastboot, Booting, FsmStop
  <2>2. ~SuspendAllowed'
    BY <1>2, <1>4 DEF SuspendAllowed, Fastboot
  <2> QED
    BY <1>2, <1>4, <2>1, <2>2 DEF BootInv, NoFastboot, CallbackAlone, BootAlone, Boots,
       Booting, ResetUnderWay
<1>5. CASE fsm' = "stopped" /\ command_queue' = <<>>
  BY <1>2, <1>5, HasStartNone DEF BootInv, NoFastboot, CallbackAlone, BootAlone, Boots, Booting,
     ResetUnderWay
<1> QED
  BY <1>3, <1>4, <1>5 DEF FsmStop

LEMMA BootFsm ==
    ASSUME BootInv, QueueTypes', FsmThread, ~FsmStop PROVE BootInv'
<1> USE DEF BootInv, NoFastboot, CallbackAlone, BootAlone, Boots, Booting, ResetUnderWay, Fastboot,
       pmVars, resetVars
<1>1. CASE FsmStart
  <2>1. HasStart(command_queue)
    BY <1>1 DEF FsmStart, HasStart, QueueTypes
  <2>2. HasStart(Tail(command_queue)) => HasStart(command_queue)
    BY <2>1
  <2>3. UNCHANGED <<md_pm_state, mode, pmPc, overlapped, resetPc>>
         /\ command_queue' = Tail(command_queue)
    BY <1>1 DEF FsmStart
  <2>4. CASE fsm \in {"stopped", "prestart"} /\ fsm' = "starting"
    BY <2>1, <2>3, <2>4 DEF SuspendAllowed
  <2>5. CASE UNCHANGED fsm
    BY <2>2, <2>3, <2>5, BootKept
  <2> QED
    BY <1>1, <2>4, <2>5 DEF FsmStart
<1>2. CASE FsmNotYet
  BY <1>2 DEF FsmNotYet, SuspendAllowed
<1>3. CASE FsmPortEnum
  <2>1. UNCHANGED <<md_pm_state, mode, fsm, pmPc, resetPc>>
    BY <1>3 DEF FsmPortEnum, pciVars
  <2>2. CASE fsm = "prestart"
    BY <1>3, <2>1, <2>2 DEF FsmPortEnum, SuspendAllowed
  <2>3. CASE fsm = "stopped"
    BY <1>3, <2>1, <2>3 DEF FsmPortEnum, SuspendAllowed
  <2> QED
    BY <1>3, <2>2, <2>3 DEF FsmPortEnum
<1>4. CASE FsmReady
  BY <1>4 DEF FsmReady
<1>5. CASE FsmHandshakeFailed
  BY <1>5 DEF FsmHandshakeFailed
<1>6. CASE FsmException
  BY <1>6 DEF FsmException
<1> QED
  BY <1>1, <1>2, <1>3, <1>4, <1>5, <1>6 DEF FsmThread

LEMMA BootReset ==
    ASSUME BootInv, QueueTypes', NEW t \in Resetters, Resetting(t) PROVE BootInv'
<1> USE DEF BootInv, NoFastboot, CallbackAlone, BootAlone, Boots, Booting, ResetUnderWay, Fastboot,
       pmVars
<1>1. /\ HasStart(Append(command_queue, STOP(t))) => HasStart(command_queue)
      /\ HasStart(StillQueued(t)) => HasStart(command_queue)
  BY HasStartAppend, HasStartQueued DEF QueueTypes, Callers
<1>2. CASE ResetBegin(t)
  <2>1. /\ UNCHANGED <<md_pm_state, fsm, pmPc>>
        /\ overlapped' = (overlapped \/ pmPc # "idle")
        /\ mode' \in {mode, "FASTBOOT_SWITCHING"}
        /\ HasStart(command_queue') => HasStart(command_queue)
    BY <1>1, <1>2 DEF ResetBegin, t7xx_pci_reprobe_early
  <2> QED
    BY <2>1 DEF SuspendAllowed
<1>3. CASE ResetStopped(t)
  <2>1. /\ UNCHANGED <<md_pm_state, fsm, pmPc, overlapped>> /\ mode' = "RESET" /\ ResetUnderWay
        /\ HasStart(command_queue') => HasStart(command_queue)
    BY <1>1, <1>3 DEF ResetStopped
  <2> QED
    BY <2>1 DEF SuspendAllowed
<1>4. CASE ResetReprobe(t)
  <2>1. /\ UNCHANGED <<mode, fsm, pmPc, overlapped>> /\ ResetUnderWay
        /\ md_pm_state' = "INIT" \/ UNCHANGED <<md_pm_state, command_queue>>
    BY <1>4 DEF ResetReprobe, t7xx_pci_reprobe, t7xx_pci_pm_reinit
  <2> QED
    BY <2>1 DEF SuspendAllowed, UpToInit
<1> QED
  BY <1>2, <1>3, <1>4 DEF Resetting

LEMMA BootStep ==
    ASSUME BootInv, ThreadTypes, [Next]_vars PROVE BootInv'
<1>1. QueueTypes'
  BY QueueSteps DEF BootInv
<1>2. CASE PmThread
  BY <1>1, <1>2, BootSuspend, BootResume, BootStopped DEF PmThread, PmProgress
<1>3. CASE FsmThread
  BY <1>1, <1>3, BootFsmStop, BootFsm
<1>4. CASE t7xx_mhccif_isr_thread \/ (\E r \in Requests : DeviceAck(r)) \/ UNCHANGED vars
  BY <1>1, <1>4, BootKept DEF t7xx_mhccif_isr_thread, DeviceAck, vars, pciVars, fsmVars, pmVars,
     resetVars
<1>5. CASE t7xx_rgu_isr_handler \/ RguNothing
  <2>1. UNCHANGED <<md_pm_state, mode, fsm, command_queue, pmPc, overlapped>>
    BY <1>5 DEF t7xx_rgu_isr_handler, RguNothing, pciVars, fsmVars, pmVars
  <2>2. resetPc' \in {[resetPc EXCEPT !["rgu"] = "delay"], [resetPc EXCEPT !["rgu"] = "idle"]}
    BY <1>5 DEF t7xx_rgu_isr_handler, RguNothing
  <2>3. ResetUnderWay' => ResetUnderWay
    BY <2>2 DEF ResetUnderWay, ThreadTypes
  <2> QED
    BY <1>1, <2>1, <2>3 DEF BootInv, NoFastboot, CallbackAlone, BootAlone, Boots, SuspendAllowed
<1> QED
  BY <1>1, <1>2, <1>3, <1>4, <1>5, BootReset DEF Next

(* A modem that boots is never put to sleep, whichever threads reset it and  *)
(* even if it may boot unasked, unless a reset has met a sleep               *)
THEOREM BootUndisturbedHolds == Spec => []BootUndisturbed
<1>1. BootInv => BootUndisturbed
  BY DEF BootInv, BootAlone, Boots, BootUndisturbed, Booting
<1>2. Init => BootInv /\ ThreadTypes
  BY BootInit, TypeInit, TypeParts
<1>3. BootInv /\ ThreadTypes /\ [Next]_vars => (BootInv /\ ThreadTypes)'
  BY BootStep, ThreadSteps
<1> QED
  BY <1>1, <1>2, <1>3, PTL DEF Spec

(***************************************************************************)
(* Entities. No suspend callback of today's entities returns an error; the *)
(* abort after such an error, of entities that an earlier resume had left  *)
(* suspended, would not bring all of them back.                            *)
(***************************************************************************)
NoEntityFails == FailingEntities = {}

(* One step: the modem becomes ready with every entity sending, and what     *)
(* sets MTK_PM_RESUMED otherwise is a callback that has resumed them all     *)
LEMMA EntitiesStep ==
    ASSUME NoEntityFails, BootInv, PciTypes, EntitiesMatch, [Next]_vars PROVE EntitiesMatch'
<1> USE DEF EntitiesMatch
<1>1. CASE (\E k \in Kinds : SuspendBegin(k)) \/ SuspendEntity
  BY <1>1 DEF SuspendBegin, SuspendEntity
<1>2. CASE SuspendEntityFails
  BY <1>2 DEF SuspendEntityFails, NoEntityFails
<1>3. CASE SuspendMdTimeout
  <2>1. active' = active \cup Entities
    BY <1>3 DEF SuspendMdTimeout, AbortSuspend
  <2> QED
    BY <2>1 DEF PciTypes
<1>4. CASE SuspendMdAcked \/ SuspendDone \/ t7xx_pci_pm_resume_noirq \/ ResumeMdAcked
  BY <1>4 DEF SuspendMdAcked, SuspendDone, t7xx_pci_pm_resume_noirq, ResumeMdAcked
<1>5. CASE Resume \/ ResumeMdTimeout \/ ResumeApTimeout
  <2>1. pmPc # "idle" /\ UNCHANGED <<overlapped, fsm, active>>
         /\ md_pm_state' \in {md_pm_state, "SUSPENDED"}
    BY <1>5 DEF Resume, ResumeSkipped, ResumeLost, ResumeException, ResumeReinitFails,
       ResumeUnknown, ResumeHandshake, Reads, Waking, ResumeMdTimeout, ResumeApTimeout,
       ResumeReprobe, pciVars, fsmVars, resetVars
  <2> QED
    BY <2>1 DEF BootInv, CallbackAlone
<1>6. CASE ResumeDone
  BY <1>6 DEF ResumeDone
<1>7. CASE ResumeStopped \/ ResumeUnknownStopped
  <2>1. pmPc # "idle" /\ UNCHANGED <<overlapped, fsm, active>>
         /\ md_pm_state' \in {md_pm_state, "SUSPENDED", "INIT"}
    BY <1>7 DEF ResumeStopped, ResumeUnknownStopped, t7xx_pci_reprobe, t7xx_pci_pm_reinit, resetVars
  <2> QED
    BY <2>1 DEF BootInv, CallbackAlone
<1>8. CASE FsmStop \/ FsmStart \/ FsmPortEnum
  BY <1>8 DEF FsmStop, FsmStart, FsmPortEnum, pciVars, pmVars, resetVars
<1>9. CASE FsmNotYet \/ FsmReady \/ FsmHandshakeFailed \/ FsmException
  BY <1>9 DEF FsmNotYet, FsmReady, FsmHandshakeFailed, FsmException
<1>10. CASE t7xx_mhccif_isr_thread \/ (\E r \in Requests : DeviceAck(r)) \/ t7xx_rgu_isr_handler
              \/ RguNothing \/ UNCHANGED vars
  BY <1>10 DEF t7xx_mhccif_isr_thread, DeviceAck, t7xx_rgu_isr_handler, RguNothing, vars, pciVars,
     fsmVars, pmVars, resetVars
<1>11. ASSUME NEW t \in Resetters, Resetting(t) PROVE EntitiesMatch'
  BY <1>11 DEF Resetting, ResetBegin, ResetStopped, ResetReprobe, t7xx_pci_reprobe,
     t7xx_pci_pm_reinit, pmVars
<1> QED
  BY <1>1, <1>2, <1>3, <1>4, <1>5, <1>6, <1>7, <1>8, <1>9, <1>10, <1>11
     DEF Next, PmThread, PmProgress, FsmThread

(* After every callback that leaves the driver in MTK_PM_RESUMED with a      *)
(* running modem all entities send: with any resets and unasked boots (a     *)
(* reset that met a sleep counts as over at the next boot), for every cap on *)
(* the re-probes, every set of resume states and every bound on the queue.   *)
THEOREM EntitiesMatchHolds == NoEntityFails /\ Spec => []EntitiesMatch
<1> DEFINE EntitiesInv == BootInv /\ PciTypes /\ ThreadTypes /\ EntitiesMatch
<1>1. Init => EntitiesInv
  BY BootInit, TypeInit, TypeParts DEF Init, EntitiesMatch
<1>2. NoEntityFails /\ EntitiesInv /\ [Next]_vars => EntitiesInv'
  BY BootStep, PciSteps, ThreadSteps, EntitiesStep
<1>3. CASE NoEntityFails
  BY <1>1, <1>2, <1>3, PTL DEF Spec
<1> QED
  BY <1>3
=============================================================================
