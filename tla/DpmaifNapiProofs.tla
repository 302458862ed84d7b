-------------------------- MODULE DpmaifNapiProofs --------------------------
(***************************************************************************)
(* Proofs about DpmaifNapi for every number of packets, any processors and *)
(* whatever disturbs. First, the runtime-PM references are counted, and    *)
(* RefsCover says that one is held for every poll that is at work,         *)
(* scheduled, missed or about to be scheduled, and for the BAT work. Then, *)
(* the counts of the deep-sleep lock cover its users, and the device is    *)
(* awake for them.                                                         *)
(***************************************************************************)
EXTENDS DpmaifNapi, FiniteSetTheorems, TLAPS

One(b) == IF b THEN 1 ELSE 0

Polling == {c \in CPUs : pollPc[c] # "idle"}

Promised == One(listed # "none") + One(missed)

(* The threads that have taken the reference of a poll they will schedule *)
Handing(t) == One(pc[t] \in {"on", "schedule"})
Handed     == One(irqPc = "schedule") + Handing("user") + Handing("fsm")

RefsCover == refs >= Cardinality(Polling) + Promised + Handed + One(batPc # "off")

Suspended == (pm.kind = "runtime" /\ pm.at # "active") => refs = 0

NapiInv == TypeOK /\ RefsCover /\ Suspended
-----------------------------------------------------------------------------
(* The polls can be counted *)
LEMMA PollingFinite == IsFiniteSet(Polling) /\ Cardinality(Polling) \in Nat
<1>1. Polling \in SUBSET CPUs
  BY DEF Polling
<1>2. IsFiniteSet(Polling)
  BY <1>1, NapiCpusAssumption, FS_Subset
<1>3. QED
  BY <1>2, FS_CardinalityType

(* A poll that begins is one more *)
LEMMA PollCounts ==
    ASSUME pollPc \in [CPUs -> PollPcs], NEW c \in CPUs, NEW next, Goes(c, next),
           pollPc[c] = "idle", next # "idle"
    PROVE  Cardinality(Polling) \in Nat /\ Cardinality(Polling') = Cardinality(Polling) + 1
<1>1. Polling' = Polling \cup {c} /\ c \notin Polling
  BY DEF Polling, Goes
<1>2. QED
  BY <1>1, PollingFinite, FS_AddElement

(* A poll that goes on is still one *)
LEMMA PollStays ==
    ASSUME pollPc \in [CPUs -> PollPcs], NEW c \in CPUs, NEW next, Goes(c, next),
           pollPc[c] # "idle", next # "idle"
    PROVE  Polling' = Polling
BY DEF Polling, Goes

(* A poll that ends was one *)
LEMMA PollEnds ==
    ASSUME pollPc \in [CPUs -> PollPcs], NEW c \in CPUs, pollPc[c] # "idle", Goes(c, "idle")
    PROVE  Cardinality(Polling) \in Nat \ {0} /\ Cardinality(Polling') = Cardinality(Polling) - 1
<1>1. Polling' = Polling \ {c} /\ c \in Polling
  BY DEF Polling, Goes
<1>2. Cardinality(Polling) # 0
  BY <1>1, PollingFinite, FS_EmptySet
<1>3. QED
  BY <1>1, <1>2, PollingFinite, FS_RemoveElement

(* napi_schedule() promises at most one poll more: it lists it or notes it missed *)
LEMMA ScheduleCounts ==
    ASSUME NapiTypeOK, NEW c \in CPUs, napi_schedule(c)
    PROVE  NapiTypeOK' /\ Promised \in Nat /\ Promised' \in Nat /\ Promised' <= Promised + 1
<1>1. sched \in BOOLEAN /\ missed \in BOOLEAN /\ disabling \in BOOLEAN /\ listed \in CPUs \cup {"none"}
  BY DEF NapiTypeOK
<1>2. sched' \in BOOLEAN /\ missed' \in BOOLEAN /\ disabling' \in BOOLEAN
  BY <1>1, Zenon DEF napi_schedule
<1>3. listed' \in CPUs \cup {"none"}
  BY <1>1 DEF napi_schedule
<1>4. (listed' = listed) \/ (missed' <=> missed)
  BY <1>1 DEF napi_schedule
<1>5. QED
  BY <1>1, <1>2, <1>3, <1>4 DEF NapiTypeOK, Promised, One

(* napi_complete_done() promises none *)
LEMMA CompleteCounts ==
    ASSUME NapiTypeOK, NEW c \in CPUs, napi_complete_done(c)
    PROVE  NapiTypeOK' /\ Promised \in Nat /\ Promised' \in Nat /\ Promised' <= Promised
<1>1. sched \in BOOLEAN /\ missed \in BOOLEAN /\ disabling \in BOOLEAN /\ listed \in CPUs \cup {"none"}
  BY DEF NapiTypeOK
<1>2. sched' \in BOOLEAN /\ missed' \in BOOLEAN /\ ~missed' /\ disabling' \in BOOLEAN
  BY <1>1, Zenon DEF napi_complete_done
<1>3. listed' \in CPUs \cup {"none"} /\ (listed' # "none" => missed)
  BY <1>1 DEF napi_complete_done
<1>4. NapiTypeOK'
  BY <1>2, <1>3, Zenon DEF NapiTypeOK
<1>5. Promised \in Nat /\ Promised' \in Nat /\ Promised' <= Promised
  BY <1>2, <1>3 DEF Promised, One
<1>6. QED
  BY <1>4, <1>5

(* The lock keeps its types *)
LEMMA LockCountsType ==
    ASSUME LockTypeOK, UNCHANGED <<resumed, awake, dsAck>>,
           t7xx_pci_disable_sleep \/ t7xx_pci_enable_sleep \/ UNCHANGED countVars
    PROVE  LockTypeOK'
<1>1. sleep_disable_count' \in Int
  BY DEF LockTypeOK, t7xx_pci_disable_sleep, t7xx_pci_enable_sleep, countVars
<1>2. sleepDis' \in BOOLEAN /\ sleep_lock_acquire' \in BOOLEAN /\ dsLock' \in BOOLEAN
  <2>1. CASE t7xx_pci_disable_sleep
    BY <2>1, Zenon DEF LockTypeOK, t7xx_pci_disable_sleep
  <2>2. CASE t7xx_pci_enable_sleep
    BY <2>2, Zenon DEF LockTypeOK, t7xx_pci_enable_sleep
  <2>3. CASE UNCHANGED countVars
    BY <2>3, Zenon DEF LockTypeOK, countVars
  <2>4. QED
    BY <2>1, <2>2, <2>3
<1>3. resumed' \in BOOLEAN /\ awake' \in BOOLEAN /\ dsAck' \in BOOLEAN
  BY Zenon DEF LockTypeOK
<1>4. QED
  BY <1>1, <1>2, <1>3, Zenon DEF LockTypeOK

LEMMA NapiInit == Init => NapiInv
<1> SUFFICES ASSUME Init PROVE NapiInv
  OBVIOUS
<1>1. TypeOK
  <2>1. LockTypeOK
    <3>1. 0 \in Int
      OBVIOUS
    <3>2. QED
      BY <3>1, Zenon DEF Init, LockInit, LockTypeOK
  <2>2. NapiTypeOK /\ QueueTypeOK /\ DeviceTypeOK /\ PathTypeOK /\ refs \in Nat
    <3>1. 0 \in 0 .. MaxPackets /\ 0 \in 0 .. 1 /\ 0 \in Int /\ 0 \in Nat
      BY NapiBoundAssumption
    <3>2. QED
      BY <3>1, Zenon DEF Init, NapiTypeOK, QueueTypeOK, DeviceTypeOK, PathTypeOK
  <2>3. ThreadTypeOK
    BY DEF Init, ThreadTypeOK, PollPcs, IrqPcs, BatPcs, CtlPcs, PmStates
  <2>4. HistoryTypeOK
    BY NapiBoundAssumption DEF Init, HistoryTypeOK
  <2>5. QED
    BY <2>1, <2>2, <2>3, <2>4 DEF TypeOK
<1>2. Polling = {}
  BY DEF Init, Polling
<1>3. RefsCover
  BY <1>2, FS_EmptySet DEF Init, RefsCover, Promised, Handed, Handing, Threads, One
<1>4. Suspended
  BY DEF Init, Suspended
<1>5. QED
  BY <1>1, <1>3, <1>4 DEF NapiInv
-----------------------------------------------------------------------------
(* The history and the bound keep their types *)
LEMMA HistorySteps == ASSUME TypeOK, [Next]_vars PROVE HistoryTypeOK'
<1>1. HistoryTypeOK /\ disturbances \in 0 .. MaxDisturbances /\ MaxDisturbances \in Nat
  BY NapiBoundAssumption DEF TypeOK, HistoryTypeOK
<1> USE <1>1 DEF HistoryTypeOK
<1>2. ASSUME NEW c \in CPUs, Poll(c) PROVE HistoryTypeOK'
  <2>1. UNCHANGED disturbances
    BY <1>2, Zenon DEF Poll, NotPolls, PollBegin, PollStopped, PollLock, PollAcquired, PollNotYet,
       PollAgain, PollCollect, PollFull, PollComplete, PollUnmask, PollUnlock, PollPut
  <2>2. CASE PollLock(c)
    BY <2>1, <2>2 DEF PollLock, TakesLock
  <2>3. CASE ~PollLock(c)
    <3>1. UNCHANGED orderly
      BY <1>2, <2>3, Zenon DEF Poll, useVars, PollBegin, PollStopped, PollAcquired, PollNotYet,
         PollAgain, PollCollect, PollFull, PollComplete, PollUnmask, PollUnlock, PollPut
    <3>2. QED
      BY <2>1, <3>1
  <2>4. QED
    BY <2>2, <2>3
<1>3. CASE DeviceReceives \/ DeviceWrites \/ Device \/ Interrupt
  <2>1. UNCHANGED <<orderly, disturbances>>
    BY <1>3, Zenon DEF DeviceReceives, DeviceWrites, Device, Interrupt, NotDevice, useVars,
       t7xx_dpmaif_isr_handler, t7xx_dpmaif_hw_get_intr_cnt, IrqGet, IrqSchedule, IrqEnd
  <2>2. QED
    BY <2>1
<1>4. CASE Bat
  <2>1. UNCHANGED disturbances
    BY <1>4, Zenon DEF Bat, NotBat, BatLock, BatAcquired, BatUnlock
  <2>2. QED
    BY <1>4, <2>1 DEF Bat, BatLock, BatAcquired, BatUnlock, TakesLock, useVars
<1>5. CASE Suspend \/ SuspendWait \/ SuspendMark \/ Resume
  <2>1. UNCHANGED orderly /\ (UNCHANGED disturbances \/ Disturbs("system"))
    BY <1>5, Zenon DEF Suspend, SuspendWait, SuspendMark, Resume, NotPm, useVars
  <2>2. QED
    BY <2>1 DEF Disturbs
<1>6. CASE Control
  <2>1. UNCHANGED orderly
    BY <1>6, Zenon DEF Control, NapiSwitch, Open, Close, StopPath, StopWait, StopMark, StopClear,
       StartPath, StartReady, EnableBegin, EnableGet, EnableOn, EnableSchedule, DisableBegin,
       DisableSync, DisableOff, DisableWait, NotControl
  <2>2. UNCHANGED disturbances \/ Disturbs("close") \/ Disturbs("stop")
    BY <1>6, Zenon DEF Control, NapiSwitch, Open, Close, StopPath, StopWait, StopMark, StopClear,
       StartPath, StartReady, EnableBegin, EnableGet, EnableOn, EnableSchedule, DisableBegin,
       DisableSync, DisableOff, DisableWait, PathKept
  <2>3. QED
    BY <2>1, <2>2 DEF Disturbs
<1>7. CASE UNCHANGED vars
  BY <1>7 DEF vars
<1>8. QED
  BY <1>2, <1>3, <1>4, <1>5, <1>6, <1>7 DEF Next

(* The lock, the queue, the device and the path keep their types in a poll *)
LEMMA PollTypes ==
    ASSUME TypeOK, NEW c \in CPUs, Poll(c)
    PROVE  LockTypeOK' /\ QueueTypeOK' /\ DeviceTypeOK' /\ PathTypeOK'
<1> USE DEF Poll, NotPolls
<1>1. LockTypeOK'
  <2>1. UNCHANGED <<resumed, awake, dsAck>>
        /\ (t7xx_pci_disable_sleep \/ t7xx_pci_enable_sleep \/ UNCHANGED countVars)
    BY Zenon DEF useVars, TakesLock, PollBegin, PollStopped, PollLock, PollAcquired, PollNotYet,
       PollAgain, PollCollect, PollFull, PollComplete, PollUnmask, PollUnlock, PollPut
  <2>2. QED
    BY <2>1, LockCountsType DEF TypeOK
<1>2. QueueTypeOK'
  BY Zenon DEF TypeOK, QueueTypeOK, PollBegin, PollStopped, PollLock, PollAcquired, PollNotYet,
     PollAgain, PollCollect, PollFull, PollComplete, PollUnmask, PollUnlock, PollPut
<1>3. DeviceTypeOK'
  <2>1. CASE PollCollect(c)
    <3>1. UNCHANGED <<received, masked, irqOn>> /\ (CollectAll(c) \/ CollectFails(c))
      BY <2>1 DEF PollCollect
    <3>2. Fetchable \in Int
      BY NapiBoundAssumption DEF TypeOK, DeviceTypeOK, Fetchable
    <3>3. data' \in Int
      <4>1. data \in Int
        BY DEF TypeOK, DeviceTypeOK
      <4>2. CASE CollectAll(c)
        BY <3>2, <4>1, <4>2 DEF CollectAll
      <4>3. CASE CollectFails(c)
        <5>1. PICK taken \in 1 .. Fetchable : data' = data - taken
          BY <4>3 DEF CollectFails
        <5>2. taken \in Int
          BY <3>2
        <5>3. QED
          BY <4>1, <5>1, <5>2
      <4>4. QED
        BY <3>1, <4>2, <4>3
    <3>4. late' \in BOOLEAN /\ done' \in BOOLEAN /\ stranded' \in BOOLEAN
      <4>1. CASE CollectAll(c)
        BY <4>1 DEF TypeOK, DeviceTypeOK, CollectAll
      <4>2. CASE CollectFails(c)
        BY <4>2 DEF TypeOK, DeviceTypeOK, CollectFails
      <4>3. QED
        BY <3>1, <4>1, <4>2
    <3>5. QED
      BY <3>1, <3>3, <3>4, Zenon DEF TypeOK, DeviceTypeOK
  <2>2. CASE PollUnmask(c)
    BY <2>2, Zenon DEF TypeOK, DeviceTypeOK, PollUnmask, devVars, ringVars
  <2>3. CASE UNCHANGED <<devVars, irqOn>>
    BY <2>3, Zenon DEF TypeOK, DeviceTypeOK, devVars, ringVars
  <2>4. QED
    BY <2>1, <2>2, <2>3, Zenon DEF PollBegin, PollStopped, PollLock, PollAcquired, PollNotYet,
       PollAgain, PollFull, PollComplete, PollUnlock, PollPut
<1>4. PathTypeOK'
  BY Zenon DEF TypeOK, PathTypeOK, pathVars, PollBegin, PollStopped, PollLock, PollAcquired,
     PollNotYet, PollAgain, PollCollect, PollFull, PollComplete, PollUnmask, PollUnlock, PollPut
<1>5. QED
  BY <1>1, <1>2, <1>3, <1>4

(* A step of a poll leaves as many polls to come as references to put *)
LEMMA PollStep ==
    ASSUME TypeOK, NEW c \in CPUs, Poll(c)
    PROVE  /\ NapiTypeOK' /\ ThreadTypeOK'
           /\ Cardinality(Polling) \in Nat /\ Cardinality(Polling') \in Nat
           /\ Promised \in Nat /\ Promised' \in Nat
           /\ refs' \in {refs, refs - 1}
           /\ Cardinality(Polling') + Promised' - refs' <= Cardinality(Polling) + Promised - refs
<1> DEFINE P == Cardinality(Polling)
<1>1. /\ NapiTypeOK /\ ThreadTypeOK /\ pollPc \in [CPUs -> PollPcs] /\ batQueued \in BOOLEAN
      /\ P \in Nat /\ Promised \in Nat /\ refs \in Nat
  BY PollingFinite DEF TypeOK, NapiTypeOK, ThreadTypeOK, Promised, One
<1>2. ASSUME NEW next \in PollPcs, Goes(c, next), batQueued' \in BOOLEAN, NotPolls
      PROVE  ThreadTypeOK'
  <2>1. pollPc' \in [CPUs -> PollPcs]
    BY <1>1, <1>2 DEF Goes
  <2>2. QED
    BY <1>1, <1>2, <2>1, Zenon DEF ThreadTypeOK, NotPolls
<1>3. UNCHANGED napiVars => NapiTypeOK' /\ Promised' = Promised
  BY <1>1, Zenon DEF NapiTypeOK, Promised, napiVars
<1>4. CASE PollBegin(c)
  <2>1. NapiTypeOK' /\ listed # "none" /\ listed' = "none" /\ missed' = missed
    BY <1>1, <1>4, NapiCpusAssumption DEF PollBegin, NapiTypeOK
  <2>2. Promised' = Promised - 1 /\ Promised' \in Nat
    BY <2>1, <1>1 DEF Promised, One
  <2>3. P \in Nat /\ Cardinality(Polling') = P + 1 /\ refs' = refs
    BY <1>4, <1>1, PollCounts DEF PollBegin
  <2>4. ThreadTypeOK'
    BY <1>4, <1>2, <1>1 DEF PollBegin, PollPcs
  <2>5. QED
    BY <1>1, <2>1, <2>2, <2>3, <2>4
<1>5. CASE PollStopped(c) \/ PollPut(c)
  <2>1. pollPc[c] # "idle" /\ Goes(c, "idle") /\ NotPolls /\ refs' = refs - 1
        /\ UNCHANGED napiVars /\ batQueued' \in BOOLEAN
    BY <1>1, <1>5 DEF PollStopped, PollPut
  <2>2. P \in Nat \ {0} /\ Cardinality(Polling') = P - 1
    BY <1>1, <2>1, PollEnds
  <2>3. ThreadTypeOK'
    BY <1>2, <2>1 DEF PollPcs
  <2>4. QED
    BY <1>1, <1>3, <2>1, <2>2, <2>3
<1>6. CASE PollLock(c) \/ PollAcquired(c) \/ PollCollect(c) \/ PollUnmask(c) \/ PollUnlock(c)
  <2>1. PICK next \in PollPcs : Goes(c, next) /\ next # "idle"
    BY <1>6 DEF PollLock, PollAcquired, PollCollect, CollectAll, CollectFails, PollUnmask,
       PollUnlock, PollPcs
  <2>2. pollPc[c] # "idle" /\ NotPolls /\ refs' = refs /\ UNCHANGED napiVars
    BY <1>6 DEF PollLock, PollAcquired, PollCollect, PollUnmask, PollUnlock
  <2>3. batQueued' \in BOOLEAN
    <3>1. CASE PollCollect(c) /\ CollectAll(c)
      BY <1>1, <3>1 DEF CollectAll
    <3>2. CASE PollCollect(c) /\ CollectFails(c)
      BY <1>1, <3>2 DEF CollectFails
    <3>3. CASE UNCHANGED batQueued
      BY <1>1, <3>3
    <3>4. QED
      BY <1>6, <3>1, <3>2, <3>3, Zenon DEF PollLock, PollAcquired, PollCollect, PollUnmask,
         PollUnlock
  <2>4. Polling' = Polling /\ ThreadTypeOK'
    BY <1>1, <1>2, <2>1, <2>2, <2>3, PollStays
  <2>5. QED
    BY <1>1, <1>3, <2>2, <2>4
<1>7. CASE PollNotYet(c) \/ PollComplete(c)
  <2>1. PICK next \in PollPcs : Goes(c, next) /\ next # "idle"
    BY <1>7 DEF PollNotYet, PollComplete, PollPcs
  <2>2. pollPc[c] # "idle" /\ NotPolls /\ refs' = refs /\ batQueued' \in BOOLEAN /\ napi_complete_done(c)
    BY <1>1, <1>7 DEF PollNotYet, PollComplete
  <2>3. Polling' = Polling /\ ThreadTypeOK'
    BY <1>1, <1>2, <2>1, <2>2, PollStays
  <2>4. QED
    BY <1>1, <2>2, <2>3, CompleteCounts
<1>8. CASE PollAgain(c)
  <2>1. pollPc[c] # "idle" /\ Goes(c, "idle") /\ NotPolls /\ refs' = refs /\ batQueued' \in BOOLEAN
        /\ napi_schedule(c)
    BY <1>1, <1>8 DEF PollAgain
  <2>2. P \in Nat \ {0} /\ Cardinality(Polling') = P - 1 /\ ThreadTypeOK'
    BY <1>1, <1>2, <2>1, PollEnds DEF PollPcs
  <2>3. QED
    BY <1>1, <2>1, <2>2, ScheduleCounts
<1>9. CASE PollFull(c)
  <2>1. pollPc[c] # "idle" /\ Goes(c, "idle") /\ NotPolls /\ refs' = refs /\ batQueued' \in BOOLEAN
    BY <1>1, <1>9 DEF PollFull
  <2>2. P \in Nat \ {0} /\ Cardinality(Polling') = P - 1 /\ ThreadTypeOK'
    BY <1>1, <1>2, <2>1, PollEnds DEF PollPcs
  <2>3. CASE disabling
    <3>1. NapiTypeOK' /\ Promised' \in Nat /\ Promised' <= Promised
      BY <1>1, <1>9, <2>3, CompleteCounts DEF PollFull
    <3>2. QED
      BY <1>1, <2>1, <2>2, <3>1
  <2>4. CASE ~disabling
    <3>1. listed' = c /\ UNCHANGED <<sched, missed, disabling>>
      BY <1>9, <2>4 DEF PollFull
    <3>2. NapiTypeOK' /\ Promised' \in Nat /\ Promised' <= Promised + 1
      BY <1>1, <3>1 DEF NapiTypeOK, Promised, One
    <3>3. QED
      BY <1>1, <2>1, <2>2, <3>2
  <2>5. QED
    BY <2>3, <2>4
<1>10. QED
  BY <1>4, <1>5, <1>6, <1>7, <1>8, <1>9 DEF Poll

(* The counts are numbers *)
LEMMA CountsType ==
    ASSUME TypeOK
    PROVE  /\ Cardinality(Polling) \in Nat /\ Promised \in Nat /\ Handed \in Nat
           /\ One(batPc # "off") \in Nat /\ refs \in Nat
BY PollingFinite DEF TypeOK, Promised, Handed, Handing, One

LEMMA PollInv == ASSUME NapiInv, HistoryTypeOK', NEW c \in CPUs, Poll(c) PROVE NapiInv'
<1>1. TypeOK /\ RefsCover /\ Suspended
  BY DEF NapiInv
<1>2. UNCHANGED <<irqPc, batPc, pc, pm>>
  BY Zenon DEF Poll, NotPolls, PollBegin, PollStopped, PollLock, PollAcquired, PollNotYet,
     PollAgain, PollCollect, PollFull, PollComplete, PollUnmask, PollUnlock, PollPut
<1>3. Handed' = Handed /\ One(batPc # "off")' = One(batPc # "off")
  BY <1>2 DEF Handed, Handing
<1>4. RefsCover' /\ refs' \in Nat /\ refs' <= refs
  BY <1>1, <1>3, PollStep, CountsType DEF RefsCover
<1>5. TypeOK'
  BY <1>1, <1>4, PollTypes, PollStep DEF TypeOK
<1>6. Suspended'
  BY <1>1, <1>2, <1>4, CountsType DEF Suspended
<1>7. QED
  BY <1>4, <1>5, <1>6 DEF NapiInv
-----------------------------------------------------------------------------
(* The device and its interrupt *)
LEMMA DeviceInv ==
    ASSUME NapiInv, HistoryTypeOK', DeviceReceives \/ DeviceWrites \/ Device
    PROVE  NapiInv'
<1>1. TypeOK /\ RefsCover /\ Suspended
  BY DEF NapiInv
<1>2. UNCHANGED <<napiVars, queueVars, pathVars, irqOn, refs, pollPc, irqPc, batVars, pc, pm>>
  BY Zenon DEF DeviceReceives, DeviceWrites, Device, NotDevice
<1>3. NapiTypeOK' /\ QueueTypeOK' /\ PathTypeOK' /\ ThreadTypeOK' /\ refs' \in Nat
  BY <1>1, <1>2, Zenon DEF TypeOK, NapiTypeOK, QueueTypeOK, PathTypeOK, ThreadTypeOK, napiVars,
     queueVars, pathVars, batVars
<1>4. LockTypeOK'
  <2>1. CASE DeviceReceives \/ DeviceWrites
    BY <1>1, <2>1, Zenon DEF TypeOK, LockTypeOK, DeviceReceives, DeviceWrites, lockVars, useVars,
       countVars
  <2>2. CASE Device
    BY <1>1, <2>2, Zenon DEF TypeOK, LockTypeOK, Device, DeviceSleeps, DeviceLocks,
       LockAcknowledged, countVars
  <2>3. QED
    BY <2>1, <2>2
<1>5. DeviceTypeOK'
  <2>1. CASE DeviceReceives
    <3>1. data' \in Int /\ received' \in 0 .. MaxPackets
      BY <1>1, <2>1, NapiBoundAssumption DEF TypeOK, DeviceTypeOK, DeviceReceives
    <3>2. QED
      BY <1>1, <2>1, <3>1, Zenon DEF TypeOK, DeviceTypeOK, DeviceReceives
  <2>2. CASE DeviceWrites
    BY <1>1, <2>2, Zenon DEF TypeOK, DeviceTypeOK, DeviceWrites
  <2>3. CASE Device
    BY <1>1, <2>3, Zenon DEF TypeOK, DeviceTypeOK, Device, devVars, ringVars
  <2>4. QED
    BY <2>1, <2>2, <2>3
<1>6. RefsCover' /\ Suspended'
  BY <1>1, <1>2 DEF RefsCover, Suspended, Polling, Promised, Handed, Handing, napiVars, batVars
<1>7. QED
  BY <1>3, <1>4, <1>5, <1>6 DEF NapiInv, TypeOK

LEMMA InterruptInv == ASSUME NapiInv, HistoryTypeOK', Interrupt PROVE NapiInv'
<1>1. TypeOK /\ RefsCover /\ Suspended
  BY DEF NapiInv
<1>2. UNCHANGED <<lockVars, queueVars, pathVars, pollPc, batVars, pc, pm>>
  BY Zenon DEF Interrupt, t7xx_dpmaif_isr_handler, t7xx_dpmaif_hw_get_intr_cnt, IrqGet, IrqSchedule,
     IrqEnd, NotDevice
<1>3. LockTypeOK' /\ QueueTypeOK' /\ PathTypeOK'
  BY <1>1, <1>2, Zenon DEF TypeOK, LockTypeOK, QueueTypeOK, PathTypeOK, lockVars, countVars,
     queueVars, pathVars
<1>4. irqPc' \in IrqPcs
  BY DEF Interrupt, t7xx_dpmaif_isr_handler, t7xx_dpmaif_hw_get_intr_cnt, IrqGet, IrqSchedule,
     IrqEnd, IrqPcs
<1>5. ThreadTypeOK'
  BY <1>1, <1>2, <1>4, Zenon DEF TypeOK, ThreadTypeOK, batVars
<1>6. DeviceTypeOK'
  BY <1>1, Zenon DEF TypeOK, DeviceTypeOK, devVars, ringVars, Interrupt, t7xx_dpmaif_isr_handler,
     t7xx_dpmaif_hw_get_intr_cnt,
     IrqGet, IrqSchedule, IrqEnd
<1>7. Polling' = Polling /\ UNCHANGED <<batPc, pc, pm>>
  BY <1>2 DEF Polling, batVars
<1>8. NapiTypeOK' /\ refs' \in Nat /\ RefsCover' /\ Suspended'
  <2>1. CASE \E c \in CPUs : IrqSchedule(c)
    <3>1. PICK c \in CPUs : IrqSchedule(c)
      BY <2>1
    <3>2. Handed' = Handed - 1 /\ refs' = refs
      BY <1>7, <3>1 DEF IrqSchedule, Handed, Handing, One
    <3>3. NapiTypeOK' /\ Promised' \in Nat /\ Promised' <= Promised + 1
      BY <1>1, <3>1, ScheduleCounts DEF TypeOK, IrqSchedule
    <3>4. RefsCover'
      BY <1>1, <1>7, <3>2, <3>3, CountsType DEF RefsCover
    <3>5. QED
      BY <1>1, <1>7, <3>2, <3>3, <3>4 DEF TypeOK, Suspended
  <2>2. CASE IrqGet
    <3>1. UNCHANGED napiVars /\ refs' = refs + 1 /\ irqPc = "get" /\ irqPc' = "schedule"
          /\ (pm.at = "active" \/ pm.kind = "system")
      BY <2>2 DEF IrqGet, pm_runtime_resume_and_get
    <3>2. NapiTypeOK' /\ Promised' = Promised
      BY <1>1, <3>1, Zenon DEF TypeOK, NapiTypeOK, Promised, napiVars
    <3>3. Handed' = Handed + 1
      BY <1>7, <3>1, CountsType, <1>1 DEF Handed, Handing, One
    <3>4. RefsCover' /\ refs' \in Nat
      BY <1>1, <1>7, <3>1, <3>2, <3>3, CountsType DEF RefsCover
    <3>5. QED
      BY <1>1, <1>7, <3>1, <3>2, <3>4 DEF Suspended
  <2>3. CASE t7xx_dpmaif_isr_handler \/ t7xx_dpmaif_hw_get_intr_cnt \/ IrqEnd
    <3>1. UNCHANGED napiVars /\ refs' = refs
      BY <2>3, Zenon DEF t7xx_dpmaif_isr_handler, t7xx_dpmaif_hw_get_intr_cnt, IrqEnd
    <3>2. irqPc # "schedule" /\ irqPc' # "schedule"
      BY <2>3 DEF t7xx_dpmaif_isr_handler, t7xx_dpmaif_hw_get_intr_cnt, IrqEnd
    <3>3. NapiTypeOK' /\ Promised' = Promised
      BY <1>1, <3>1, Zenon DEF TypeOK, NapiTypeOK, Promised, napiVars
    <3>4. Handed' = Handed
      BY <1>7, <3>2 DEF Handed, Handing, One
    <3>5. QED
      BY <1>1, <1>7, <3>1, <3>3, <3>4 DEF TypeOK, RefsCover, Suspended
  <2>4. QED
    BY <2>1, <2>2, <2>3 DEF Interrupt
<1>9. QED
  BY <1>3, <1>5, <1>6, <1>8 DEF NapiInv, TypeOK

LEMMA BatInv == ASSUME NapiInv, HistoryTypeOK', Bat PROVE NapiInv'
<1>1. TypeOK /\ RefsCover /\ Suspended
  BY DEF NapiInv
<1>2. UNCHANGED <<resumed, awake, dsAck, napiVars, queueVars, devVars, irqOn, pathVars, pollPc, irqPc, pc,
   pm>>
  BY Zenon DEF Bat, BatLock, BatAcquired, BatUnlock, NotBat
<1>3. NapiTypeOK' /\ QueueTypeOK' /\ DeviceTypeOK' /\ PathTypeOK'
  <2>1. NapiTypeOK' /\ QueueTypeOK'
    BY <1>1, <1>2, Zenon DEF TypeOK, NapiTypeOK, QueueTypeOK, napiVars, queueVars
  <2>2. DeviceTypeOK' /\ PathTypeOK'
    BY <1>1, <1>2, Zenon DEF TypeOK, DeviceTypeOK, PathTypeOK, devVars, ringVars, pathVars
  <2>3. QED
    BY <2>1, <2>2
<1>4. LockTypeOK'
  <2>1. t7xx_pci_disable_sleep \/ t7xx_pci_enable_sleep \/ UNCHANGED countVars
    BY Zenon DEF Bat, BatLock, BatAcquired, BatUnlock, TakesLock, useVars
  <2>2. QED
    BY <1>1, <1>2, <2>1, LockCountsType DEF TypeOK
<1>5. batPc' \in BatPcs /\ batQueued' \in BOOLEAN
  BY <1>1 DEF Bat, BatLock, BatAcquired, BatUnlock, BatPcs, TypeOK, ThreadTypeOK
<1>6. ThreadTypeOK'
  BY <1>1, <1>2, <1>5, Zenon DEF TypeOK, ThreadTypeOK
<1>7. Polling' = Polling /\ Promised' = Promised /\ Handed' = Handed
  BY <1>2 DEF Polling, Promised, Handed, Handing, napiVars
<1>8. refs' \in Nat /\ RefsCover' /\ Suspended'
  <2>1. CASE BatLock
    <3>1. batPc = "off" /\ batPc' = "wait" /\ refs' = refs + 1 /\ (pm.at = "active" \/ pm.kind = "system")
      BY <2>1 DEF BatLock, pm_runtime_resume_and_get
    <3>2. QED
      BY <1>1, <1>2, <1>7, <3>1, CountsType DEF RefsCover, Suspended, One
  <2>2. CASE BatAcquired
    <3>1. batPc = "wait" /\ batPc' = "use" /\ refs' = refs
      BY <2>2 DEF BatAcquired
    <3>2. QED
      BY <1>1, <1>2, <1>7, <3>1, CountsType DEF RefsCover, Suspended, One
  <2>3. CASE BatUnlock
    <3>1. batPc = "use" /\ batPc' = "off" /\ refs' = refs - 1
      BY <2>3 DEF BatUnlock
    <3>2. QED
      BY <1>1, <1>2, <1>7, <3>1, CountsType DEF RefsCover, Suspended, One
  <2>4. QED
    BY <2>1, <2>2, <2>3 DEF Bat
<1>9. QED
  BY <1>3, <1>4, <1>6, <1>8 DEF NapiInv, TypeOK
-----------------------------------------------------------------------------
LEMMA SleepInv ==
    ASSUME NapiInv, HistoryTypeOK', Suspend \/ SuspendWait \/ SuspendMark \/ Resume
    PROVE  NapiInv'
<1>1. TypeOK /\ RefsCover /\ Suspended
  BY DEF NapiInv
<1>2. NotPm
  BY Zenon DEF Suspend, SuspendWait, SuspendMark, Resume
<1>3. NapiTypeOK' /\ PathTypeOK' /\ refs' \in Nat
  BY <1>1, <1>2, Zenon DEF NotPm, TypeOK, NapiTypeOK, PathTypeOK, napiVars, pathVars
<1>4. LockTypeOK' /\ QueueTypeOK' /\ DeviceTypeOK'
  <2>1. LockTypeOK'
    <3>1. UNCHANGED <<countVars, dsAck>> /\ resumed' \in BOOLEAN /\ awake' \in BOOLEAN
      <4>1. UNCHANGED <<countVars, dsAck>>
        BY Zenon DEF NotPm, useVars, Suspend, SuspendWait, SuspendMark, Resume
      <4>2. resumed' \in BOOLEAN /\ awake' \in BOOLEAN
        BY <1>1 DEF TypeOK, LockTypeOK, Suspend, SuspendWait, SuspendMark, Resume
      <4>3. QED
        BY <4>1, <4>2
    <3>2. QED
      BY <1>1, <3>1, Zenon DEF TypeOK, LockTypeOK, countVars
  <2>2. QueueTypeOK'
    BY <1>1, Zenon DEF NotPm, TypeOK, QueueTypeOK, Suspend, SuspendWait, SuspendMark, Resume
  <2>3. DeviceTypeOK'
    BY <1>1, Zenon DEF NotPm, TypeOK, DeviceTypeOK, ringVars, Suspend, SuspendWait, SuspendMark,
       Resume
  <2>4. QED
    BY <2>1, <2>2, <2>3
<1>5. pm' \in PmStates /\ (pm'.kind = "runtime" /\ pm'.at # "active" =>
                             refs = 0 \/ (pm.kind = "runtime" /\ pm.at # "active"))
  <2>1. pm \in PmStates
    BY <1>1 DEF TypeOK, ThreadTypeOK
  <2>2. CASE Suspend
    <3>1. CASE refs = 0 /\ pm' = [at |-> "stopping", kind |-> "runtime"]
      BY <3>1 DEF PmStates
    <3>2. CASE pm' = [at |-> "stopping", kind |-> "system"]
      BY <3>2 DEF PmStates
    <3>3. QED
      BY <2>2, <3>1, <3>2, Zenon DEF Suspend
  <2>3. CASE SuspendWait \/ SuspendMark \/ Resume
    <3>1. PICK at \in {"marking", "asleep", "active"} :
             pm' = [pm EXCEPT !.at = at] /\ (pm.at = "active" => at = "active")
      BY <2>3 DEF SuspendWait, SuspendMark, Resume
    <3>2. QED
      BY <2>1, <3>1 DEF PmStates
  <2>4. QED
    BY <2>2, <2>3
<1>6. ThreadTypeOK'
  BY <1>1, <1>2, <1>5, Zenon DEF NotPm, TypeOK, ThreadTypeOK, batVars
<1>7. RefsCover'
  BY <1>1, <1>2 DEF NotPm, RefsCover, Polling, Promised, Handed, Handing, napiVars, batVars
<1>8. Suspended'
  BY <1>1, <1>2, <1>5 DEF NotPm, Suspended
<1>9. QED
  BY <1>3, <1>4, <1>6, <1>7, <1>8 DEF NapiInv, TypeOK
-----------------------------------------------------------------------------
(* A thread's step and the references it hands over *)
LEMMA HandCounts ==
    ASSUME TypeOK, NEW t \in Threads, NEW next \in CtlPcs, To(t, next), UNCHANGED irqPc
    PROVE  /\ pc' \in [Threads -> CtlPcs]
           /\ Handed' = Handed - Handing(t) + One(next \in {"on", "schedule"})
<1>1. pc \in [Threads -> CtlPcs]
  BY DEF TypeOK, ThreadTypeOK
<1>2. pc' \in [Threads -> CtlPcs] /\ pc'[t] = next /\ \A u \in Threads \ {t} : pc'[u] = pc[u]
  BY <1>1 DEF To
<1>3. CASE t = "user"
  BY <1>2, <1>3 DEF Handed, Handing, One, Threads
<1>4. CASE t = "fsm"
  BY <1>2, <1>4 DEF Handed, Handing, One, Threads
<1>5. QED
  BY <1>2, <1>3, <1>4 DEF Threads

(* What every step of a thread leaves alone *)
LEMMA ControlFrame ==
    ASSUME NapiInv, NEW t \in Threads, NEW next \in CtlPcs, To(t, next), NotControl
    PROVE  /\ LockTypeOK' /\ ThreadTypeOK'
           /\ Polling' = Polling /\ One(batPc # "off")' = One(batPc # "off") /\ pm' = pm
           /\ Handed' = Handed - Handing(t) + One(next \in {"on", "schedule"})
<1>1. TypeOK
  BY DEF NapiInv
<1>2. Handed' = Handed - Handing(t) + One(next \in {"on", "schedule"}) /\ pc' \in [Threads -> CtlPcs]
  BY <1>1, HandCounts DEF NotControl
<1>3. LockTypeOK' /\ ThreadTypeOK'
  BY <1>1, <1>2, Zenon DEF TypeOK, LockTypeOK, ThreadTypeOK, NotControl, lockVars, countVars,
     batVars
<1>4. QED
  BY <1>2, <1>3 DEF Polling, NotControl, batVars

(* Steps of the threads that neither take a reference nor touch NAPI *)
LEMMA ControlQuiet ==
    ASSUME NapiInv, HistoryTypeOK', NEW t \in Threads, NEW next \in CtlPcs, To(t, next), NotControl,
           pc[t] \notin {"on", "schedule"}, next \notin {"on", "schedule"},
           UNCHANGED <<listed, missed, refs>>,
           NapiTypeOK', QueueTypeOK', DeviceTypeOK', PathTypeOK'
    PROVE  NapiInv'
<1>1. TypeOK /\ RefsCover /\ Suspended
  BY DEF NapiInv
<1>2. Promised' = Promised /\ Handed' = Handed
  BY <1>1, ControlFrame, CountsType DEF Promised, Handing, One
<1>3. RefsCover' /\ Suspended' /\ refs' \in Nat
  BY <1>1, <1>2, ControlFrame, CountsType DEF RefsCover, Suspended
<1>4. QED
  BY <1>3, ControlFrame DEF NapiInv, TypeOK

LEMMA SwitchInv == ASSUME NapiInv, HistoryTypeOK', NEW t \in Threads, NapiSwitch(t) PROVE NapiInv'
<1>1. TypeOK /\ RefsCover /\ Suspended
  BY DEF NapiInv
<1>2. PathKept /\ NotControl
  BY Zenon DEF NapiSwitch, EnableBegin, EnableGet, EnableOn, EnableSchedule, DisableBegin,
     DisableSync, DisableOff, DisableWait
<1>3. is_napi_en' \in BOOLEAN
  BY <1>1, Zenon DEF TypeOK, PathTypeOK, NapiSwitch, EnableBegin, EnableGet, EnableOn,
     EnableSchedule, DisableBegin, DisableSync, DisableOff, DisableWait
<1>4. QueueTypeOK' /\ PathTypeOK'
  BY <1>1, <1>2, <1>3, Zenon DEF PathKept, NotControl, TypeOK, QueueTypeOK, PathTypeOK
<1>5. DeviceTypeOK'
  BY <1>1, <1>2, Zenon DEF PathKept, NotControl, TypeOK, DeviceTypeOK, ringVars
<1>6. CASE EnableBegin(t) \/ DisableBegin(t) \/ DisableSync(t) \/ DisableOff(t) \/ DisableWait(t)
  <2>1. pc[t] \notin {"on", "schedule"} /\ UNCHANGED <<listed, missed, refs>>
    BY <1>6 DEF EnableBegin, DisableBegin, DisableSync, DisableOff, DisableWait, napiVars
  <2>2. PICK next \in CtlPcs : To(t, next) /\ next \notin {"on", "schedule"}
    BY <1>6 DEF EnableBegin, DisableBegin, DisableSync, DisableOff, DisableWait, CtlPcs
  <2>3. NapiTypeOK'
    BY <1>1, <1>6, Zenon DEF TypeOK, NapiTypeOK, napiVars, EnableBegin, DisableBegin, DisableSync,
       DisableOff, DisableWait
  <2>4. QED
    BY <1>2, <1>4, <1>5, <2>1, <2>2, <2>3, ControlQuiet
<1>7. CASE EnableGet(t)
  <2>1. pc[t] = "get" /\ To(t, "on") /\ UNCHANGED napiVars /\ refs' = refs + 1
        /\ (pm.at = "active" \/ pm.kind = "system")
    BY <1>7 DEF EnableGet, pm_runtime_resume_and_get
  <2>2. NapiTypeOK' /\ Promised' = Promised
    BY <1>1, <2>1, Zenon DEF TypeOK, NapiTypeOK, Promised, napiVars
  <2>3. LockTypeOK' /\ ThreadTypeOK' /\ Polling' = Polling /\ pm' = pm
        /\ One(batPc # "off")' = One(batPc # "off") /\ Handed' = Handed + 1
    BY <1>1, <1>2, <2>1, ControlFrame, CountsType DEF Handing, One, CtlPcs
  <2>4. RefsCover' /\ refs' \in Nat /\ Suspended'
    BY <1>1, <2>1, <2>2, <2>3, CountsType DEF RefsCover, Suspended
  <2>5. QED
    BY <1>4, <1>5, <2>2, <2>3, <2>4 DEF NapiInv, TypeOK
<1>8. CASE EnableOn(t)
  <2>1. PICK next \in {"schedule", "oops"} : pc[t] = "on" /\ To(t, next) /\ UNCHANGED <<missed, disabling,
     listed, refs>>
    BY <1>8 DEF EnableOn
  <2>2. NapiTypeOK' /\ Promised' = Promised
    BY <1>1, <1>8, Zenon DEF TypeOK, NapiTypeOK, Promised, EnableOn
  <2>3. LockTypeOK' /\ ThreadTypeOK' /\ Polling' = Polling /\ pm' = pm
        /\ One(batPc # "off")' = One(batPc # "off") /\ Handed' <= Handed /\ Handed' \in Int
    BY <1>1, <1>2, <2>1, ControlFrame, CountsType DEF Handing, One, CtlPcs
  <2>4. RefsCover' /\ refs' \in Nat /\ Suspended'
    BY <1>1, <2>1, <2>2, <2>3, CountsType DEF RefsCover, Suspended
  <2>5. QED
    BY <1>4, <1>5, <2>2, <2>3, <2>4 DEF NapiInv, TypeOK
<1>9. CASE \E c \in CPUs : EnableSchedule(t, c)
  <2>1. PICK c \in CPUs : EnableSchedule(t, c)
    BY <1>9
  <2>2. pc[t] = "schedule" /\ To(t, "idle") /\ napi_schedule(c) /\ refs' = refs
    BY <2>1 DEF EnableSchedule
  <2>3. NapiTypeOK' /\ Promised' \in Nat /\ Promised' <= Promised + 1
    BY <1>1, <2>2, ScheduleCounts DEF TypeOK
  <2>4. LockTypeOK' /\ ThreadTypeOK' /\ Polling' = Polling /\ pm' = pm
        /\ One(batPc # "off")' = One(batPc # "off") /\ Handed' = Handed - 1
    BY <1>1, <1>2, <2>2, ControlFrame, CountsType DEF Handing, One, CtlPcs
  <2>5. RefsCover' /\ refs' \in Nat /\ Suspended'
    BY <1>1, <2>2, <2>3, <2>4, CountsType DEF RefsCover, Suspended
  <2>6. QED
    BY <1>4, <1>5, <2>3, <2>4, <2>5 DEF NapiInv, TypeOK
<1>10. QED
  BY <1>6, <1>7, <1>8, <1>9 DEF NapiSwitch

LEMMA ControlInv ==
    ASSUME NapiInv, HistoryTypeOK',
           \/ Open \/ Close \/ StopPath \/ StopWait
           \/ StopMark \/ StopClear \/ StartPath \/ StartReady
    PROVE  NapiInv'
<1> USE DEF Open, Close, StopPath, StopWait, StopMark, StopClear, StartPath, StartReady
<1>1. TypeOK
  BY DEF NapiInv
<1>2. NotControl /\ UNCHANGED <<napiVars, refs>>
  BY Zenon
<1>3. NapiTypeOK' /\ UNCHANGED <<listed, missed>>
  BY <1>1, <1>2, Zenon DEF TypeOK, NapiTypeOK, napiVars
<1>4. QueueTypeOK'
  BY <1>1, <1>2, Zenon DEF TypeOK, QueueTypeOK, NotControl, PathKept
<1>5. napi_usr_refcnt' \in 0 .. 1 /\ data' \in Int
  BY <1>1 DEF TypeOK, PathTypeOK, DeviceTypeOK, PathKept, ringVars
<1>6. DeviceTypeOK'
  BY <1>1, <1>2, <1>5, Zenon DEF TypeOK, DeviceTypeOK, NotControl, PathKept, ringVars
<1>7. PathTypeOK'
  BY <1>1, <1>2, <1>5, Zenon DEF TypeOK, PathTypeOK, NotControl, PathKept
<1>8. PICK t \in Threads, next \in CtlPcs :
         To(t, next) /\ pc[t] \notin {"on", "schedule"} /\ next \notin {"on", "schedule"}
  BY DEF Threads, CtlPcs
<1>9. QED
  BY <1>2, <1>3, <1>4, <1>6, <1>7, <1>8, ControlQuiet
-----------------------------------------------------------------------------
(* Every step keeps the invariant *)
LEMMA NapiNext == NapiInv /\ [Next]_vars => NapiInv'
<1> SUFFICES ASSUME NapiInv, [Next]_vars PROVE NapiInv'
  OBVIOUS
<1>0. HistoryTypeOK'
  BY HistorySteps DEF NapiInv
<1>1. CASE \E c \in CPUs : Poll(c)
  BY <1>0, <1>1, PollInv
<1>2. CASE DeviceReceives \/ DeviceWrites \/ Device
  BY <1>0, <1>2, DeviceInv
<1>3. CASE Interrupt
  BY <1>0, <1>3, InterruptInv
<1>4. CASE Bat
  BY <1>0, <1>4, BatInv
<1>5. CASE Suspend \/ SuspendWait \/ SuspendMark \/ Resume
  BY <1>0, <1>5, SleepInv
<1>6. CASE Control
  BY <1>0, <1>6, ControlInv, SwitchInv DEF Control
<1>7. CASE UNCHANGED vars
  <2>1. TypeOK'
    <3>1. LockTypeOK'
      BY <1>7, Zenon DEF NapiInv, vars, TypeOK, LockTypeOK, lockVars, countVars
    <3>2. NapiTypeOK' /\ QueueTypeOK'
      BY <1>7, Zenon DEF NapiInv, vars, TypeOK, NapiTypeOK, QueueTypeOK, napiVars, queueVars
    <3>3. DeviceTypeOK' /\ PathTypeOK' /\ ThreadTypeOK' /\ refs' \in Nat
      BY <1>7, Zenon DEF NapiInv, vars, TypeOK, DeviceTypeOK, PathTypeOK, ThreadTypeOK, devVars,
         ringVars, pathVars, batVars
    <3>4. QED
      BY <1>0, <3>1, <3>2, <3>3 DEF TypeOK
  <2>2. RefsCover' /\ Suspended'
    BY <1>7 DEF NapiInv, vars, RefsCover, Suspended, Polling, Promised, Handed, Handing,
       napiVars, batVars
  <2>3. QED
    BY <2>1, <2>2 DEF NapiInv
<1>8. QED
  BY <1>1, <1>2, <1>3, <1>4, <1>5, <1>6, <1>7 DEF Next

LEMMA NapiInvariant == Spec => []NapiInv
BY NapiInit, NapiNext, PTL DEF Spec

(* Every variable keeps its type in every reachable state: in particular the *)
(* polls and the BAT work never put a runtime-PM reference nobody took.      *)
THEOREM NapiTypeCorrect == Spec => []TypeOK
<1>1. NapiInv => TypeOK
  BY DEF NapiInv
<1>2. QED
  BY <1>1, NapiInvariant, PTL

(* However many processors run polls, and whatever is missed, stopped,       *)
(* disabled or put to sleep: a device that is suspended at run time has no   *)
(* poll scheduled or at work and no BAT work under way.                      *)
THEOREM PollHoldsPowerCorrect == Spec => []PollHoldsPower
<1>1. ASSUME NapiInv, pm.kind = "runtime", pm.at # "active"
      PROVE  listed = "none" /\ batPc = "off" /\ \A c \in CPUs : pollPc[c] = "idle"
  <2>1. TypeOK /\ RefsCover /\ refs = 0
    BY <1>1 DEF NapiInv, Suspended
  <2>2. Cardinality(Polling) = 0 /\ Promised = 0 /\ One(batPc # "off") = 0
    BY <2>1, CountsType DEF RefsCover
  <2>3. Polling = {}
    BY <2>2, PollingFinite, FS_EmptySet
  <2>4. QED
    BY <2>2, <2>3 DEF Polling, Promised, One
<1>2. NapiInv => PollHoldsPower
  BY <1>1 DEF PollHoldsPower
<1>3. QED
  BY <1>2, NapiInvariant, PTL
-----------------------------------------------------------------------------
(* The deep-sleep lock, on any number of processors and across every kind of *)
(* sleep, for users that have asked for the device and do not share a count. *)
(* Count says how many polls are at certain places. A poll that used up its  *)
(* budget has left its count behind, so sleep_disable_count may be more than *)
(* those who use the lock or wait for it.                                    *)
Count(places) == Cardinality({c \in CPUs : pollPc[c] \in places})

WithWaiting == Count(Locked) + Count(Trying) + One(batPc # "off")
WithPending == Count(Locked) + One(sleep_lock_pending) + One(batPc # "off")

(* Who uses the lock or waits for it is counted, and so is the poll that has *)
(* been told to come again, which one waiting poll may have become; who has  *)
(* the lock has seen the completion, which is for the present lock: no       *)
(* DS_LOCK is under way then.                                                *)
Counted   == sleep_disable_count >= WithWaiting /\ sleep_disable_count >= WithPending
Forbids   == sleep_disable_count > 0 => sleepDis
HasSeen   == batPc = "use" \/ Count(Locked) > 0 => sleep_lock_acquire
UnderWay  == dsLock \/ dsAck => ~(dsLock /\ dsAck) /\ ~sleep_lock_acquire /\ sleep_disable_count > 0
KeptAwake == (sleep_lock_acquire \/ dsAck) /\ sleep_disable_count > 0 => awake

LockInv == Counted /\ Forbids /\ HasSeen /\ UnderWay /\ KeptAwake

SleepLockInv == NapiInv /\ (orderly => LockInv)

LEMMA CountType ==
    ASSUME NEW places
    PROVE  Count(places) \in Nat /\ (Count(places) = 0 <=> \A c \in CPUs : pollPc[c] \notin places)
<1> DEFINE at == {c \in CPUs : pollPc[c] \in places}
<1>1. IsFiniteSet(at)
  <2>1. at \in SUBSET CPUs
    OBVIOUS
  <2>2. QED
    BY <2>1, NapiCpusAssumption, FS_Subset
<1>2. Cardinality(at) \in Nat /\ (Cardinality(at) = 0 <=> at = {})
  BY <1>1, FS_CardinalityType, FS_EmptySet
<1>3. QED
  BY <1>2 DEF Count

(* A poll that moves is counted where it goes and no more where it was *)
LEMMA CountMoves ==
    ASSUME pollPc \in [CPUs -> PollPcs], NEW c \in CPUs, NEW next, Goes(c, next), NEW places
    PROVE  /\ Count(places) \in Nat /\ Count(places)' \in Nat
           /\ Count(places)' = Count(places) - One(pollPc[c] \in places) + One(next \in places)
<1> DEFINE at == {d \in CPUs : pollPc[d] \in places}
           then == {d \in CPUs : pollPc'[d] \in places}
<1>1. IsFiniteSet(at) /\ Cardinality(at) \in Nat
  <2>1. at \in SUBSET CPUs
    OBVIOUS
  <2>2. QED
    BY <2>1, NapiCpusAssumption, FS_Subset, FS_CardinalityType
<1>2. pollPc'[c] = next /\ \A d \in CPUs \ {c} : pollPc'[d] = pollPc[d]
  BY DEF Goes
<1>3. Count(places) = Cardinality(at) /\ Count(places)' = Cardinality(then)
  BY DEF Count
<1>4. CASE pollPc[c] \in places /\ next \notin places
  <2>1. then = at \ {c} /\ c \in at
    BY <1>2, <1>4
  <2>2. Cardinality(at) # 0
    BY <1>1, <2>1, FS_EmptySet
  <2>3. Cardinality(at \ {c}) = Cardinality(at) - 1
    BY <1>1, <2>1, FS_RemoveElement
  <2>4. One(pollPc[c] \in places) = 1 /\ One(next \in places) = 0
    BY <1>4 DEF One
  <2>5. Count(places) \in Nat \ {0} /\ Count(places)' = Count(places) - 1
    BY <1>1, <1>3, <2>1, <2>2, <2>3
  <2>6. QED
    BY <2>4, <2>5
<1>5. CASE pollPc[c] \notin places /\ next \in places
  <2>1. then = at \cup {c} /\ c \notin at
    BY <1>2, <1>5
  <2>2. Cardinality(at \cup {c}) = Cardinality(at) + 1
    BY <1>1, <2>1, FS_AddElement
  <2>3. One(pollPc[c] \in places) = 0 /\ One(next \in places) = 1
    BY <1>5 DEF One
  <2>4. Count(places) \in Nat /\ Count(places)' = Count(places) + 1
    BY <1>1, <1>3, <2>1, <2>2
  <2>5. QED
    BY <2>3, <2>4
<1>6. CASE pollPc[c] \in places <=> next \in places
  <2>1. then = at
    BY <1>2, <1>6
  <2>2. One(pollPc[c] \in places) = One(next \in places) /\ One(next \in places) \in Nat
    BY <1>6 DEF One
  <2>3. QED
    BY <1>1, <1>3, <2>1, <2>2
<1>7. QED
  BY <1>4, <1>5, <1>6, Zenon

LEMMA LockNumbers ==
    ASSUME TypeOK
    PROVE  /\ sleep_disable_count \in Int /\ Count(Locked) \in Nat /\ Count(Trying) \in Nat
           /\ One(batPc # "off") \in Nat /\ One(sleep_lock_pending) \in Nat
           /\ WithWaiting \in Nat /\ WithPending \in Nat
BY CountType DEF TypeOK, LockTypeOK, One, WithWaiting, WithPending

(* What counting up does, while the device is resumed *)
LEMMA DisableSleeps ==
    ASSUME Forbids, UnderWay, KeptAwake, resumed, sleep_disable_count \in Nat,
           t7xx_pci_disable_sleep, UNCHANGED <<resumed, awake, dsAck>>
    PROVE  /\ sleep_disable_count' = sleep_disable_count + 1 /\ sleepDis'
           /\ sleep_disable_count > 0 => (sleep_lock_acquire' <=> sleep_lock_acquire)
           /\ UnderWay' /\ KeptAwake'
<1>1. sleep_disable_count' = sleep_disable_count + 1 /\ sleep_disable_count' > 0
  BY DEF t7xx_pci_disable_sleep
<1>2. CASE sleep_disable_count = 0
  <2>1. First
    BY <1>2 DEF First
  <2>2. sleepDis' /\ (sleep_lock_acquire' <=> awake) /\ (dsLock' <=> dsLock \/ ~awake)
    BY <2>1, Zenon DEF t7xx_pci_disable_sleep
  <2>3. ~dsLock /\ ~dsAck /\ ~dsAck' /\ (awake' <=> awake)
    BY <1>2 DEF UnderWay
  <2>4. QED
    BY <1>1, <1>2, <2>2, <2>3 DEF UnderWay, KeptAwake
<1>3. CASE sleep_disable_count > 0
  <2>1. ~First /\ sleepDis
    BY <1>3 DEF First, Forbids
  <2>2. sleepDis' /\ (sleep_lock_acquire' <=> sleep_lock_acquire) /\ (dsLock' <=> dsLock)
    BY <2>1, Zenon DEF t7xx_pci_disable_sleep
  <2>3. QED
    BY <1>1, <1>3, <2>2 DEF UnderWay, KeptAwake
<1>4. QED
  BY <1>1, <1>2, <1>3

(* A new lock begins with a count of its own *)
LEMMA LockBegins ==
    ASSUME TypeOK, LockUnused, resumed, t7xx_pci_disable_sleep, UNCHANGED <<resumed, awake, dsAck>>,
           WithWaiting' <= 1, WithPending' <= 1, batPc' # "use", Count(Locked)' = 0
    PROVE  LockInv'
<1>1. sleep_disable_count = 0 /\ sleep_disable_count \in Nat /\ Forbids /\ UnderWay /\ KeptAwake
  BY DEF LockUnused, Forbids, UnderWay, KeptAwake
<1>2. sleep_disable_count' = 1 /\ sleepDis' /\ UnderWay' /\ KeptAwake'
  BY <1>1, DisableSleeps
<1>3. Counted' /\ Forbids'
  BY <1>2 DEF Counted, Forbids
<1>4. HasSeen'
  BY DEF HasSeen
<1>5. QED
  BY <1>2, <1>3, <1>4 DEF LockInv

(* One more user of a lock that is counted as it should be *)
LEMMA LockGrows ==
    ASSUME TypeOK, LockInv, resumed, t7xx_pci_disable_sleep, UNCHANGED <<resumed, awake, dsAck>>,
           WithWaiting' \in Int, WithPending' \in Int,
           WithWaiting' <= WithWaiting + 1, WithPending' <= WithPending + 1,
           batPc' = "use" => batPc = "use", Count(Locked)' = Count(Locked)
    PROVE  LockInv'
<1>1. /\ sleep_disable_count \in Nat /\ WithWaiting \in Nat /\ WithPending \in Nat
      /\ Counted /\ Forbids /\ HasSeen /\ UnderWay /\ KeptAwake
  BY LockNumbers DEF LockInv, Counted
<1>2. /\ sleep_disable_count' = sleep_disable_count + 1 /\ sleepDis' /\ UnderWay' /\ KeptAwake'
      /\ sleep_disable_count > 0 => (sleep_lock_acquire' <=> sleep_lock_acquire)
  BY <1>1, DisableSleeps
<1>3. Counted' /\ Forbids'
  BY <1>1, <1>2 DEF Counted, Forbids
<1>4. HasSeen'
  <2>1. batPc = "use" \/ Count(Locked) > 0 => sleep_disable_count > 0
    BY <1>1, LockNumbers DEF Counted, WithWaiting, One
  <2>2. QED
    BY <1>1, <1>2, <2>1 DEF HasSeen
<1>5. QED
  BY <1>2, <1>3, <1>4 DEF LockInv

(* One user less, who has seen the completion *)
LEMMA LockShrinks ==
    ASSUME TypeOK, LockInv, sleep_lock_acquire, t7xx_pci_enable_sleep,
           UNCHANGED <<resumed, awake, dsAck>>,
           WithWaiting' \in Int, WithPending' \in Int, WithWaiting > 0,
           WithWaiting' <= WithWaiting - 1, WithPending' <= WithPending - 1
    PROVE  LockInv'
<1>1. /\ sleep_disable_count \in Nat /\ WithWaiting \in Nat /\ WithPending \in Nat
      /\ Counted /\ Forbids /\ HasSeen /\ UnderWay /\ KeptAwake
  BY LockNumbers DEF LockInv, Counted
<1>2. sleep_disable_count' = sleep_disable_count - 1 /\ sleep_disable_count > 0
  BY <1>1 DEF t7xx_pci_enable_sleep, Counted
<1>3. sleep_lock_acquire' /\ ~dsLock' /\ ~dsAck' /\ awake'
  BY <1>1, <1>2 DEF t7xx_pci_enable_sleep, UnderWay, KeptAwake
<1>4. Forbids'
  <2>1. sleepDis /\ (sleep_disable_count # 1 => sleepDis')
    BY <1>1, <1>2 DEF t7xx_pci_enable_sleep, Forbids
  <2>2. QED
    BY <1>1, <1>2, <2>1 DEF Forbids
<1>5. Counted'
  BY <1>1, <1>2 DEF Counted
<1>6. QED
  BY <1>3, <1>4, <1>5 DEF LockInv, HasSeen, UnderWay, KeptAwake

(* Steps that do not count, and let nobody go on who has not seen the        *)
(* completion                                                                *)
LEMMA LockKept ==
    ASSUME TypeOK, LockInv, UNCHANGED <<countVars, dsAck>>, awake => awake',
           WithWaiting' \in Int, WithPending' \in Int,
           WithWaiting' <= WithWaiting \/ WithWaiting' <= WithPending,
           WithPending' <= WithWaiting \/ WithPending' <= WithPending,
           batPc' = "use" \/ Count(Locked)' > 0 => sleep_lock_acquire
    PROVE  LockInv'
<1>1. sleep_disable_count' = sleep_disable_count /\ sleep_disable_count \in Int
      /\ WithWaiting \in Nat /\ WithPending \in Nat
  BY LockNumbers DEF countVars
<1>2. (sleep_lock_acquire' <=> sleep_lock_acquire) /\ (sleepDis' <=> sleepDis) /\ (dsLock' <=> dsLock)
      /\ (dsAck' <=> dsAck)
  BY DEF countVars
<1>3. Counted'
  BY <1>1 DEF LockInv, Counted
<1>4. HasSeen'
  BY <1>2 DEF HasSeen
<1>5. Forbids' /\ UnderWay' /\ KeptAwake'
  BY <1>1, <1>2 DEF LockInv, Forbids, UnderWay, KeptAwake
<1>6. QED
  BY <1>3, <1>4, <1>5 DEF LockInv

LEMMA PollLockInv ==
    ASSUME SleepLockInv, NEW c \in CPUs, Poll(c), orderly'
    PROVE  LockInv'
<1>1. TypeOK /\ (orderly => LockInv) /\ pollPc \in [CPUs -> PollPcs]
  BY DEF SleepLockInv, NapiInv, TypeOK, ThreadTypeOK
<1>2. UNCHANGED <<resumed, awake, dsAck, batPc>>
  BY Zenon DEF Poll, NotPolls, PollBegin, PollStopped, PollLock, PollAcquired, PollNotYet,
     PollAgain, PollCollect, PollFull, PollComplete, PollUnmask, PollUnlock, PollPut
<1>3. /\ Count(Locked) \in Nat /\ Count(Trying) \in Nat
      /\ One(batPc # "off") \in Nat /\ One(sleep_lock_pending) \in Nat
      /\ One(batPc # "off")' = One(batPc # "off")
  BY <1>1, <1>2, LockNumbers
<1>4. ASSUME NEW next, Goes(c, next)
      PROVE  /\ Count(Locked)' \in Nat /\ Count(Trying)' \in Nat
             /\ Count(Locked)' = Count(Locked) - One(pollPc[c] \in Locked) + One(next \in Locked)
             /\ Count(Trying)' = Count(Trying) - One(pollPc[c] \in Trying) + One(next \in Trying)
  BY <1>1, <1>4, CountMoves
<1>5. CASE PollBegin(c) \/ PollStopped(c) \/ PollNotYet(c) \/ PollCollect(c) \/ PollFull(c)
             \/ PollComplete(c) \/ PollUnmask(c) \/ PollPut(c)
  <2>1. UNCHANGED <<countVars, orderly, sleep_lock_pending>>
    BY <1>5, Zenon DEF PollBegin, PollStopped, PollNotYet, PollCollect, PollFull, PollComplete,
       PollUnmask, PollPut, useVars
  <2>2. PICK next : /\ Goes(c, next)
                    /\ next \in Trying => pollPc[c] \in Trying
                    /\ next \in Locked => pollPc[c] \in Locked
    <3>1. CASE PollNotYet(c)
      BY <3>1 DEF Trying, Locked, PollNotYet
    <3>2. CASE PollCollect(c)
      <4>1. Goes(c, "full") \/ Goes(c, "complete")
        BY <3>2 DEF PollCollect, CollectAll, CollectFails
      <4>2. QED
        BY <3>2, <4>1 DEF Trying, Locked, PollCollect
    <3>3. CASE PollComplete(c)
      BY <3>3 DEF Trying, Locked, PollComplete
    <3>4. CASE PollUnmask(c)
      BY <3>4 DEF Trying, Locked, PollUnmask
    <3>5. CASE Goes(c, "begin") \/ Goes(c, "idle")
      BY <3>5 DEF Trying, Locked
    <3>6. QED
      BY <1>5, <3>1, <3>2, <3>3, <3>4, <3>5, Zenon DEF PollBegin, PollStopped, PollFull, PollPut
  <2>3. Count(Locked)' <= Count(Locked) /\ Count(Trying)' <= Count(Trying)
         /\ Count(Locked)' \in Nat /\ Count(Trying)' \in Nat
    BY <1>3, <1>4, <2>2 DEF One
  <2>4. WithWaiting' \in Int /\ WithPending' \in Int
         /\ WithWaiting' <= WithWaiting /\ WithPending' <= WithPending
    BY <1>3, <2>1, <2>3 DEF WithWaiting, WithPending
  <2>5. LockInv /\ (batPc' = "use" \/ Count(Locked)' > 0 => sleep_lock_acquire)
    BY <1>1, <1>2, <1>3, <2>1, <2>3 DEF LockInv, HasSeen
  <2>6. QED
    BY <1>1, <1>2, <2>1, <2>4, <2>5, LockKept
<1>6. CASE PollAcquired(c)
  <2>1. UNCHANGED <<countVars, orderly>> /\ Goes(c, "collect") /\ pollPc[c] = "try"
         /\ sleep_lock_acquire /\ ~sleep_lock_pending'
    BY <1>6 DEF PollAcquired, useVars
  <2>2. Count(Locked)' = Count(Locked) + 1 /\ Count(Trying)' = Count(Trying) - 1
         /\ Count(Trying)' \in Nat
    BY <1>3, <1>4, <2>1 DEF One, Trying, Locked
  <2>3. WithWaiting' \in Int /\ WithPending' \in Int
         /\ WithWaiting' <= WithWaiting /\ WithPending' <= WithWaiting
    BY <1>3, <2>1, <2>2 DEF WithWaiting, WithPending, One
  <2>4. QED
    BY <1>1, <1>2, <2>1, <2>3, LockKept
<1>7. CASE PollAgain(c)
  <2>1. UNCHANGED <<countVars, orderly>> /\ Goes(c, "idle") /\ pollPc[c] = "again" /\ sleep_lock_pending'
    BY <1>7 DEF PollAgain, useVars
  <2>2. Count(Locked)' = Count(Locked) /\ Count(Trying)' = Count(Trying) - 1
         /\ Count(Trying)' \in Nat
    BY <1>3, <1>4, <2>1 DEF One, Trying, Locked
  <2>3. WithWaiting' \in Int /\ WithPending' \in Int
         /\ WithWaiting' <= WithWaiting /\ WithPending' <= WithWaiting
    BY <1>3, <2>1, <2>2 DEF WithWaiting, WithPending, One
  <2>4. LockInv /\ (batPc' = "use" \/ Count(Locked)' > 0 => sleep_lock_acquire)
    BY <1>1, <1>2, <2>1, <2>2 DEF LockInv, HasSeen
  <2>5. QED
    BY <1>1, <1>2, <2>1, <2>3, <2>4, LockKept
<1>8. CASE PollLock(c)
  <2>1. pollPc[c] = "begin" /\ Goes(c, "try") /\ UNCHANGED sleep_lock_pending
    BY <1>8 DEF PollLock
  <2>2. Count(Locked)' = Count(Locked) /\ Count(Trying)' = Count(Trying) + 1
    BY <1>3, <1>4, <2>1 DEF One, Trying, Locked
  <2>3. WithWaiting' \in Int /\ WithPending' \in Int
         /\ WithWaiting' = WithWaiting + 1 /\ WithPending' = WithPending
    BY <1>3, <2>1, <2>2 DEF WithWaiting, WithPending
  <2>4. CASE sleep_lock_pending
    <3>1. UNCHANGED countVars /\ orderly /\ \A d \in CPUs : pollPc[d] \notin Trying
      BY <1>8, <2>4 DEF PollLock
    <3>2. Count(Trying) = 0
      BY <3>1, CountType
    <3>3. WithWaiting' <= WithPending
      BY <1>3, <2>3, <2>4, <3>2 DEF WithWaiting, WithPending, One
    <3>4. LockInv /\ (batPc' = "use" \/ Count(Locked)' > 0 => sleep_lock_acquire)
      BY <1>1, <1>2, <2>2, <3>1 DEF LockInv, HasSeen
    <3>5. QED
      BY <1>1, <1>2, <1>3, <2>3, <3>1, <3>3, <3>4, LockKept DEF WithPending
  <2>5. CASE ~sleep_lock_pending
    <3>1. t7xx_pci_disable_sleep /\ resumed /\ (orderly \/ LockUnused)
      BY <1>8, <2>5 DEF PollLock, TakesLock
    <3>2. CASE orderly
      <4>1. WithWaiting' <= WithWaiting + 1 /\ WithPending' <= WithPending + 1
        BY <1>3, <2>3 DEF WithWaiting, WithPending
      <4>2. QED
        BY <1>1, <1>2, <2>2, <2>3, <3>1, <3>2, <4>1, LockGrows
    <3>3. CASE LockUnused
      <4>1. batPc = "off" /\ Count(Locked) = 0 /\ Count(Trying) = 0 /\ ~sleep_lock_pending
        BY <3>3, CountType DEF LockUnused
      <4>2. WithWaiting' <= 1 /\ WithPending' <= 1
        BY <2>3, <4>1 DEF WithWaiting, WithPending, One
      <4>3. QED
        BY <1>1, <1>2, <2>2, <3>1, <3>3, <4>1, <4>2, LockBegins
    <3>4. QED
      BY <3>1, <3>2, <3>3
  <2>6. QED
    BY <2>4, <2>5
<1>9. CASE PollUnlock(c)
  <2>1. pollPc[c] = "unlock" /\ Goes(c, "put") /\ UNCHANGED <<sleep_lock_pending, orderly>>
         /\ t7xx_pci_enable_sleep
    BY <1>9 DEF PollUnlock
  <2>2. Count(Locked)' = Count(Locked) - 1 /\ Count(Trying)' = Count(Trying) /\ Count(Locked)' \in Nat
    BY <1>3, <1>4, <2>1 DEF One, Trying, Locked
  <2>3. WithWaiting' \in Int /\ WithPending' \in Int /\ WithWaiting > 0
         /\ WithWaiting' <= WithWaiting - 1 /\ WithPending' <= WithPending - 1
    BY <1>3, <2>1, <2>2 DEF WithWaiting, WithPending
  <2>4. LockInv /\ sleep_lock_acquire
    BY <1>1, <1>3, <2>1, <2>2 DEF LockInv, HasSeen
  <2>5. QED
    BY <1>1, <1>2, <2>1, <2>3, <2>4, LockShrinks
<1>10. QED
  BY <1>5, <1>6, <1>7, <1>8, <1>9 DEF Poll

LEMMA BatLockInv ==
    ASSUME SleepLockInv, Bat, orderly'
    PROVE  LockInv'
<1>1. TypeOK /\ (orderly => LockInv)
  BY DEF SleepLockInv, NapiInv
<1>2. UNCHANGED <<resumed, awake, dsAck, pollPc, sleep_lock_pending>>
  BY Zenon DEF Bat, NotBat, BatLock, BatAcquired, BatUnlock, queueVars
<1>3. /\ Count(Locked) \in Nat /\ Count(Trying) \in Nat /\ One(sleep_lock_pending) \in Nat
      /\ Count(Locked)' = Count(Locked) /\ Count(Trying)' = Count(Trying)
      /\ One(sleep_lock_pending)' = One(sleep_lock_pending)
  BY <1>1, <1>2, LockNumbers DEF Count
<1>4. CASE BatLock
  <2>1. batPc = "off" /\ batPc' = "wait" /\ t7xx_pci_disable_sleep /\ resumed /\ (orderly \/ LockUnused)
    BY <1>4 DEF BatLock, TakesLock
  <2>2. WithWaiting' \in Int /\ WithPending' \in Int
         /\ WithWaiting' = WithWaiting + 1 /\ WithPending' = WithPending + 1
    BY <1>3, <2>1 DEF WithWaiting, WithPending, One
  <2>3. CASE orderly
    BY <1>1, <1>2, <1>3, <2>1, <2>2, <2>3, LockGrows DEF WithWaiting, WithPending
  <2>4. CASE LockUnused
    <3>1. Count(Locked) = 0 /\ Count(Trying) = 0 /\ ~sleep_lock_pending
      BY <2>4, CountType DEF LockUnused
    <3>2. WithWaiting' <= 1 /\ WithPending' <= 1
      BY <2>1, <2>2, <3>1 DEF WithWaiting, WithPending, One
    <3>3. QED
      BY <1>1, <1>2, <1>3, <2>1, <2>4, <3>1, <3>2, LockBegins
  <2>5. QED
    BY <2>1, <2>3, <2>4
<1>5. CASE BatAcquired
  <2>1. UNCHANGED <<countVars, orderly>> /\ batPc = "wait" /\ batPc' = "use" /\ sleep_lock_acquire
    BY <1>5 DEF BatAcquired, useVars
  <2>2. WithWaiting' = WithWaiting /\ WithPending' = WithPending
         /\ WithWaiting \in Int /\ WithPending \in Int
    BY <1>1, <1>3, <2>1, LockNumbers DEF WithWaiting, WithPending, One
  <2>3. QED
    BY <1>1, <1>2, <2>1, <2>2, LockKept
<1>6. CASE BatUnlock
  <2>1. batPc = "use" /\ batPc' = "off" /\ UNCHANGED orderly /\ t7xx_pci_enable_sleep
    BY <1>6 DEF BatUnlock
  <2>2. WithWaiting' \in Int /\ WithPending' \in Int /\ WithWaiting > 0
         /\ WithWaiting' <= WithWaiting - 1 /\ WithPending' <= WithPending - 1
    BY <1>3, <2>1 DEF WithWaiting, WithPending, One
  <2>3. LockInv /\ sleep_lock_acquire
    BY <1>1, <2>1 DEF LockInv, HasSeen
  <2>4. QED
    BY <1>1, <1>2, <2>1, <2>2, <2>3, LockShrinks
<1>7. QED
  BY <1>4, <1>5, <1>6 DEF Bat

(* The device, its interrupt, suspending, and the threads do not count *)
LEMMA OthersLockInv ==
    ASSUME SleepLockInv, orderly',
           \/ DeviceReceives \/ DeviceWrites \/ Device \/ Interrupt
           \/ Suspend \/ SuspendWait \/ SuspendMark \/ Resume \/ Control \/ UNCHANGED vars
    PROVE  LockInv'
<1>1. UNCHANGED <<pollPc, sleep_lock_pending, batPc, orderly>>
  <2>1. CASE DeviceReceives \/ DeviceWrites \/ Device \/ Interrupt
    BY <2>1, Zenon DEF DeviceReceives, DeviceWrites, Device, Interrupt, NotDevice, queueVars,
       batVars, t7xx_dpmaif_isr_handler, t7xx_dpmaif_hw_get_intr_cnt, IrqGet, IrqSchedule,
       IrqEnd, useVars
  <2>2. CASE Suspend \/ SuspendWait \/ SuspendMark \/ Resume
    BY <2>2, Zenon DEF Suspend, SuspendWait, SuspendMark, Resume, NotPm, batVars, useVars
  <2>3. CASE Control
    BY <2>3, Zenon DEF Control, NapiSwitch, Open, Close, StopPath, StopWait, StopMark, StopClear,
       StartPath, StartReady, EnableBegin, EnableGet, EnableOn, EnableSchedule, DisableBegin,
       DisableSync, DisableOff, DisableWait, NotControl, batVars
  <2>4. CASE UNCHANGED vars
    BY <2>4, Zenon DEF vars, queueVars, batVars
  <2>5. QED
    BY <2>1, <2>2, <2>3, <2>4
<1>2. TypeOK /\ LockInv
  BY <1>1 DEF SleepLockInv, NapiInv
<1>3. /\ WithWaiting' = WithWaiting /\ WithPending' = WithPending /\ Count(Locked)' = Count(Locked)
      /\ WithWaiting \in Int /\ WithPending \in Int
  BY <1>1, <1>2, LockNumbers DEF WithWaiting, WithPending, Count, One
<1>4. ASSUME UNCHANGED <<countVars, dsAck>>, awake => awake'
      PROVE  LockInv'
  <2>1. batPc' = "use" \/ Count(Locked)' > 0 => sleep_lock_acquire
    BY <1>1, <1>2, <1>3 DEF LockInv, HasSeen
  <2>2. QED
    BY <1>2, <1>3, <1>4, <2>1, LockKept
<1>5. CASE DeviceReceives
  BY <1>4, <1>5 DEF DeviceReceives, useVars
<1>6. CASE DeviceWrites \/ Interrupt
  <2>1. UNCHANGED lockVars
    BY <1>6, Zenon DEF DeviceWrites, Interrupt, NotDevice, t7xx_dpmaif_isr_handler,
       t7xx_dpmaif_hw_get_intr_cnt, IrqGet, IrqSchedule, IrqEnd
  <2>2. QED
    BY <1>4, <2>1 DEF lockVars
<1>7. CASE Suspend \/ SuspendWait \/ SuspendMark \/ Resume
  <2>1. UNCHANGED <<countVars, dsAck>> /\ (awake' = awake \/ awake' = TRUE)
    BY <1>7 DEF Suspend, SuspendWait, SuspendMark, Resume, NotPm, useVars
  <2>2. QED
    BY <1>4, <2>1
<1>8. CASE Control \/ UNCHANGED vars
  <2>1. UNCHANGED lockVars
    BY <1>8, Zenon DEF Control, NapiSwitch, Open, Close, StopPath, StopWait, StopMark, StopClear,
       StartPath, StartReady, EnableBegin, EnableGet, EnableOn, EnableSchedule, DisableBegin,
       DisableSync, DisableOff, DisableWait, NotControl, vars
  <2>2. QED
    BY <1>4, <2>1 DEF lockVars
<1>9. CASE Device
  <2>1. sleep_disable_count' = sleep_disable_count /\ sleep_disable_count \in Int
        /\ (sleepDis' <=> sleepDis) /\ (sleep_lock_acquire => sleep_lock_acquire')
    BY <1>2, <1>9 DEF TypeOK, LockTypeOK, Device, DeviceSleeps, DeviceLocks, LockAcknowledged,
       countVars
  <2>2. Counted' /\ Forbids' /\ HasSeen'
    BY <1>1, <1>2, <1>3, <2>1 DEF LockInv, Counted, Forbids, HasSeen
  <2>3. CASE DeviceSleeps
    BY <1>2, <2>1, <2>2, <2>3 DEF DeviceSleeps, countVars, LockInv, Forbids, UnderWay, KeptAwake
  <2>4. CASE DeviceLocks
    BY <1>2, <2>1, <2>2, <2>4 DEF DeviceLocks, LockInv, UnderWay, KeptAwake
  <2>5. CASE LockAcknowledged
    <3>1. ~dsLock'
      BY <1>2, <2>5 DEF LockAcknowledged, LockInv, UnderWay
    <3>2. QED
      BY <1>2, <2>1, <2>2, <2>5, <3>1 DEF LockAcknowledged, LockInv, UnderWay, KeptAwake
  <2>6. QED
    BY <1>9, <2>3, <2>4, <2>5 DEF Device
<1>10. QED
  BY <1>5, <1>6, <1>7, <1>8, <1>9

(* Polls and the BAT work access registers of the device only while it is    *)
(* out of deep sleep: on any number of processors, however many counts polls *)
(* with a used-up budget have left behind, however the data path is stopped  *)
(* and started, and whatever sleeps the device goes through meanwhile; as    *)
(* long as nobody has taken the lock of a device that is not resumed, or a    *)
(* count that another poll waits with (and again from the next lock on that  *)
(* is taken when none is in use).                                            *)
THEOREM AwakeWhenUsedCorrect == Spec => []AwakeWhenUsed
<1>1. Init => SleepLockInv
  <2> SUFFICES ASSUME Init PROVE SleepLockInv
    OBVIOUS
  <2>1. NapiInv /\ TypeOK
    BY NapiInit DEF NapiInv
  <2>2. Count(Locked) = 0 /\ Count(Trying) = 0
    BY CountType DEF Init, Locked, Trying
  <2>3. WithWaiting = 0 /\ WithPending = 0
    BY <2>2 DEF Init, WithWaiting, WithPending, One
  <2>4. LockInv
    BY <2>2, <2>3 DEF Init, LockInit, LockInv, Counted, Forbids, HasSeen, UnderWay, KeptAwake
  <2>5. QED
    BY <2>1, <2>4 DEF SleepLockInv
<1>2. SleepLockInv /\ [Next]_vars => SleepLockInv'
  <2> SUFFICES ASSUME SleepLockInv, [Next]_vars PROVE SleepLockInv'
    OBVIOUS
  <2>1. NapiInv'
    BY NapiNext DEF SleepLockInv
  <2>2. ASSUME orderly' PROVE LockInv'
    BY <2>2, PollLockInv, BatLockInv, OthersLockInv DEF Next
  <2>3. QED
    BY <2>1, <2>2 DEF SleepLockInv
<1>3. SleepLockInv => AwakeWhenUsed
  <2> SUFFICES ASSUME SleepLockInv, orderly,
                      batPc = "use" \/ \E d \in CPUs : pollPc[d] \in {"collect", "unmask"}
               PROVE  awake
    BY DEF AwakeWhenUsed
  <2>1. TypeOK /\ LockInv
    BY DEF SleepLockInv, NapiInv
  <2>2. batPc = "use" \/ Count(Locked) > 0
    BY CountType DEF Locked
  <2>3. sleep_lock_acquire /\ sleep_disable_count > 0
    BY <2>1, <2>2, LockNumbers DEF LockInv, HasSeen, Counted, WithWaiting, One
  <2>4. QED
    BY <2>1, <2>3 DEF LockInv, KeptAwake
<1>4. QED
  BY <1>1, <1>2, <1>3, PTL DEF Spec
=============================================================================
