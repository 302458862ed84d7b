--------------------------- MODULE CldmaTxProofs ---------------------------
(***************************************************************************)
(* Proofs about CldmaTx for every length of the ring, number of senders    *)
(* and bound.  TxInv is inductive: the bookkeeping of the ring needs the   *)
(* types, and the types need it (the budget stays within the ring because  *)
(* what is collected lies between tr_done and tx_next).                    *)
(***************************************************************************)
EXTENDS CldmaTx, TLAPS

(* The device is active only at a request *)
HwPlaced == hwOn => hwCur # NULL

(* Only an interface that is up has an active queue *)
ActiveUp == txq_active => ctl = "up"

TxInv ==
    /\ TypeOK /\ RingIntact /\ WorkHoldsPower /\ HwPlaced
    /\ OwnedAreKept /\ ActiveUp /\ InterruptLive
-----------------------------------------------------------------------------
(* Going round the ring stays in it *)
LEMMA SuccSlot == \A i \in Slots : Succ(i) \in Slots /\ Pred(i) \in Slots
BY TxRingAssumption DEF Slots, Succ, Pred

LEMMA TxInit == Init => TxInv
<1> SUFFICES ASSUME Init PROVE TxInv
  OBVIOUS
<1>1. RingTypeOK
  BY TxRingAssumption, TxBoundAssumption DEF Init, RingTypeOK, Slots, NULL, NoSkb
<1>2. WorkTypeOK /\ ThreadTypeOK
  BY DEF Init, WorkTypeOK, ThreadTypeOK, NULL, SendPcs, WorkPcs, CtlPcs
<1>3. DeviceTypeOK
  BY DEF Init, DeviceTypeOK, NULL
<1>4. RingIntact /\ OwnedAreKept
  BY DEF Init, RingIntact, OwnedAreKept, NULL, NoSkb
<1>5. WorkHoldsPower
  BY DEF Init, WorkHoldsPower
<1>6. HwPlaced /\ ActiveUp /\ InterruptLive
  BY DEF Init, HwPlaced, ActiveUp, InterruptLive
<1>7. QED
  BY <1>1, <1>2, <1>3, <1>4, <1>5, <1>6 DEF TxInv, TypeOK

(* What putting a packet, or nothing, into the next request does to the ring *)
LEMMA RingPlace ==
    ASSUME TypeOK, RingIntact, tx_next # NULL, Room, budget' = budget - 1, tx_next' = Succ(tx_next),
           UNCHANGED tr_done,
           skb' \in [Slots -> Nat], \A i \in Slots : i # tx_next => skb'[i] = skb[i]
    PROVE  RingIntact' /\ budget' \in 0 .. N
<1>0. /\ N \in Nat /\ N > 0
      /\ tr_done \in Slots /\ tx_next \in Slots /\ budget \in 0 .. N /\ budget > 0
      /\ skb \in [Slots -> Nat]
  BY TxRingAssumption DEF TypeOK, RingTypeOK, RingIntact, Room, NULL, Slots
<1>1. tx_next' # NULL
  BY <1>0 DEF Succ, NULL, Slots
<1>2. /\ tr_done' # NULL
      /\ tr_done' < tx_next' => budget' = N - (tx_next' - tr_done')
      /\ tx_next' < tr_done' => budget' = tr_done' - tx_next'
      /\ tx_next' = tr_done' => budget' \in {0, N}
      /\ budget' \in 0 .. N
  BY <1>0 DEF RingIntact, Succ, NULL, Slots
<1>3. ASSUME NEW i \in Slots, skb'[i] # NoSkb PROVE InUse(i)'
  <2>1. i = tx_next \/ InUse(i)
    BY <1>0, <1>3 DEF RingIntact
  <2>2. QED
    BY <1>0, <2>1 DEF RingIntact, InUse, Succ, NULL, Slots
<1>4. QED
  BY <1>1, <1>2, <1>3 DEF RingIntact, Slots, NULL

(* What collecting a packet does to the ring *)
LEMMA RingCollect ==
    ASSUME TypeOK, RingIntact, Collectable, budget' = budget + 1, tr_done' = Succ(tr_done),
           skb' = [skb EXCEPT ![tr_done] = NoSkb], UNCHANGED tx_next
    PROVE  RingIntact' /\ budget' \in 0 .. N
<1>0. /\ N \in Nat /\ N > 0
      /\ tr_done \in Slots /\ tx_next \in Slots /\ budget \in 0 .. N
      /\ skb \in [Slots -> Nat] /\ skb[tr_done] # NoSkb /\ InUse(tr_done)
  BY TxRingAssumption DEF TypeOK, RingTypeOK, RingIntact, Collectable, NULL, Slots
<1>1. /\ tr_done' # NULL /\ tx_next' # NULL
      /\ tr_done' < tx_next' => budget' = N - (tx_next' - tr_done')
      /\ tx_next' < tr_done' => budget' = tr_done' - tx_next'
      /\ tx_next' = tr_done' => budget' \in {0, N}
      /\ budget' \in 0 .. N
  BY <1>0 DEF RingIntact, InUse, Succ, NULL, Slots
<1>2. ASSUME NEW i \in Slots, skb'[i] # NoSkb PROVE InUse(i)'
  <2>1. i # tr_done /\ InUse(i)
    BY <1>0, <1>2 DEF RingIntact, NoSkb
  <2>2. QED
    BY <1>0, <2>1 DEF RingIntact, InUse, Succ, NULL, Slots
<1>3. QED
  BY <1>1, <1>2 DEF RingIntact, Slots, NULL

(* The start and resume commands leave the device at a request, or inactive *)
LEMMA HwContinues ==
    ASSUME TypeOK, NEW i \in Slots \cup {NULL}, HwContinue(i, txInt)
    PROVE  /\ hwOn' \in BOOLEAN /\ hwCur' \in Slots \cup {NULL} /\ txInt' \subseteq {"done", "empty"}
           /\ HwPlaced'
BY DEF HwContinue, HwPlaced, TypeOK, RingTypeOK, DeviceTypeOK

(* The parts of TxInv rest on few variables *)
LEMMA RingFrame ==
    ASSUME RingTypeOK, RingIntact, OwnedAreKept, UNCHANGED <<ringVars, placed>>
    PROVE  RingTypeOK' /\ RingIntact' /\ OwnedAreKept'
BY DEF RingTypeOK, RingIntact, OwnedAreKept, InUse, ringVars

LEMMA WorkFrame ==
    ASSUME WorkTypeOK, WorkHoldsPower, UNCHANGED <<workVars, refs>>
    PROVE  WorkTypeOK' /\ WorkHoldsPower'
BY DEF WorkTypeOK, WorkHoldsPower, workVars

LEMMA DeviceFrame ==
    ASSUME DeviceTypeOK, HwPlaced, UNCHANGED <<hwVars, intVars>>
    PROVE  DeviceTypeOK' /\ HwPlaced'
BY DEF DeviceTypeOK, HwPlaced, hwVars, intVars

LEMMA InterruptFrame ==
    ASSUME ActiveUp, InterruptLive, UNCHANGED <<txq_active, masked, pending, workPc, ctl>>
    PROVE  ActiveUp' /\ InterruptLive'
BY DEF ActiveUp, InterruptLive
-----------------------------------------------------------------------------
(* A step of a sender *)
LEMMA SendKeeps == ASSUME TxInv, NEW s \in Senders, Send(s) PROVE TxInv'
<1> USE DEF SendPcs
<1>0. /\ RingTypeOK /\ WorkTypeOK /\ DeviceTypeOK /\ ThreadTypeOK /\ TypeOK
      /\ RingIntact /\ WorkHoldsPower /\ HwPlaced /\ OwnedAreKept /\ ActiveUp /\ InterruptLive
  BY DEF TxInv, TypeOK
<1>1. NotSenders
  BY DEF Send, SendBegin, SendPlace, SendKick, SendFull, SendResume, SendWoken, SendGivesUp, SendOops
<1>2. WorkTypeOK' /\ WorkHoldsPower'
  BY <1>0, <1>1, WorkFrame DEF NotSenders
<1>3. ActiveUp' /\ InterruptLive'
  BY <1>0, <1>1, InterruptFrame DEF NotSenders, workVars, intVars
<1>4. RingTypeOK' /\ RingIntact' /\ OwnedAreKept'
  <2>1. CASE SendPlace(s)
    <3>1. tx_next \in Slots /\ N \in Nat /\ placed \in Nat /\ MaxSends \in Nat
      BY <1>0, <2>1, TxRingAssumption, TxBoundAssumption DEF SendPlace, RingTypeOK, Slots
    <3>2. /\ skb' \in [Slots -> Nat] /\ hwo' \in [Slots -> BOOLEAN]
          /\ \A i \in Slots : i # tx_next => skb'[i] = skb[i]
          /\ placed' \in 0 .. MaxSends
      <4>1. CASE t7xx_cldma_gpd_handle_tx_request
        BY <1>0, <2>1, <3>1, <4>1 DEF SendPlace, t7xx_cldma_gpd_handle_tx_request, RingTypeOK, ThreadTypeOK
      <4>2. CASE placed' = placed + 1 /\ UNCHANGED <<skb, hwo>>
        BY <1>0, <2>1, <3>1, <4>2 DEF SendPlace, RingTypeOK
      <4>3. QED
        BY <2>1, <4>1, <4>2 DEF SendPlace
    <3>3. RingIntact' /\ budget' \in 0 .. N
      BY <1>0, <2>1, <3>2, RingPlace DEF SendPlace
    <3>4. RingTypeOK'
      BY <1>0, <2>1, <3>1, <3>2, <3>3, SuccSlot DEF SendPlace, RingTypeOK
    <3>5. OwnedAreKept'
      <4>1. CASE t7xx_cldma_gpd_handle_tx_request
        BY <1>0, <3>1, <4>1 DEF t7xx_cldma_gpd_handle_tx_request, RingTypeOK, OwnedAreKept, NoSkb
      <4>2. CASE UNCHANGED <<skb, hwo>>
        BY <1>0, <4>2 DEF OwnedAreKept
      <4>3. QED
        BY <2>1, <4>1, <4>2 DEF SendPlace
    <3>6. QED
      BY <3>3, <3>4, <3>5
  <2>2. CASE ~ SendPlace(s)
    <3>1. UNCHANGED <<ringVars, placed>>
      BY <2>2 DEF Send, SendBegin, SendKick, SendFull, SendResume, SendWoken, SendGivesUp, SendOops
    <3>2. QED
      BY <1>0, <3>1, RingFrame
  <2>3. QED
    BY <2>1, <2>2
<1>5. DeviceTypeOK' /\ HwPlaced' /\ txq_started' \in BOOLEAN
  <2>1. txq_started \in BOOLEAN /\ UNCHANGED <<irqOn, masked>>
    BY <1>0, <1>1 DEF ThreadTypeOK, NotSenders, intVars
  <2>2. CASE SendKick(s)
    <3>1. CASE t7xx_cldma_hw_start_send(req[s])
      <4>1. req[s] \in Slots \cup {NULL} /\ hwCur \in Slots \cup {NULL} /\ hwStart \in Slots \cup {NULL}
        BY <1>0 DEF ThreadTypeOK, DeviceTypeOK
      <4>2. hwStart' \in Slots \cup {NULL} /\ txq_started' \in BOOLEAN
        BY <2>1, <3>1, <4>1 DEF t7xx_cldma_hw_start_send
      <4>3. \/ UNCHANGED <<hwOn, hwCur, txInt>>
            \/ \E i \in Slots \cup {NULL} : HwContinue(i, txInt)
        BY <3>1, <4>1 DEF t7xx_cldma_hw_start_send, t7xx_cldma_hw_resume_queue, t7xx_cldma_hw_start_queue
      <4>4. CASE UNCHANGED <<hwOn, hwCur, txInt>>
        BY <1>0, <2>1, <4>2, <4>4 DEF DeviceTypeOK, HwPlaced
      <4>5. CASE \E i \in Slots \cup {NULL} : HwContinue(i, txInt)
        BY <1>0, <2>1, <4>2, <4>5, HwContinues DEF DeviceTypeOK
      <4>6. QED
        BY <4>3, <4>4, <4>5
    <3>2. CASE UNCHANGED <<hwVars, txq_started>>
      BY <1>0, <2>1, <3>2, DeviceFrame DEF intVars
    <3>3. QED
      BY <2>2, <3>1, <3>2 DEF SendKick
  <2>3. CASE SendResume(s)
    <3>1. UNCHANGED <<hwStart, txq_started>>
      BY <2>3 DEF SendResume
    <3>2. CASE UNCHANGED <<hwOn, hwCur, txInt>>
      BY <1>0, <2>1, <3>1, <3>2 DEF DeviceTypeOK, HwPlaced
    <3>3. CASE HwContinue(hwCur, txInt)
      BY <1>0, <2>1, <3>1, <3>3, HwContinues DEF DeviceTypeOK
    <3>4. QED
      BY <2>3, <3>2, <3>3 DEF SendResume, t7xx_cldma_hw_resume_queue
  <2>4. CASE ~ SendKick(s) /\ ~ SendResume(s)
    <3>1. UNCHANGED <<hwVars, txq_started>>
      BY <2>4 DEF Send, SendBegin, SendPlace, SendFull, SendWoken, SendGivesUp, SendOops
    <3>2. QED
      BY <1>0, <2>1, <3>1, DeviceFrame DEF intVars
  <2>5. QED
    BY <2>2, <2>3, <2>4
<1>6. orderly' \in BOOLEAN
  BY <1>0 DEF Send, SendBegin, SendPlace, SendKick, SendFull, SendResume, SendWoken, SendGivesUp,
              SendOops, t7xx_cldma_gpd_handle_tx_request, ThreadTypeOK
<1>7. pc' \in [Senders -> SendPcs]
  BY <1>0 DEF Send, SendBegin, SendPlace, SendKick, SendFull, SendResume, SendWoken, SendGivesUp,
              SendOops, Goes, ThreadTypeOK
<1>8. req' \in [Senders -> Slots \cup {NULL}]
  BY <1>0 DEF Send, SendBegin, SendPlace, SendKick, SendFull, SendResume, SendWoken, SendGivesUp,
              SendOops, RingTypeOK, ThreadTypeOK
<1>9. ThreadTypeOK'
  BY <1>0, <1>1, <1>5, <1>6, <1>7, <1>8 DEF NotSenders, ThreadTypeOK
<1>10. QED
  BY <1>2, <1>3, <1>4, <1>5, <1>9 DEF TxInv, TypeOK

(* A step of the device *)
LEMMA DeviceKeeps == ASSUME TxInv, HwSend \/ HwStarve PROVE TxInv'
<1>0. /\ RingTypeOK /\ WorkTypeOK /\ DeviceTypeOK /\ ThreadTypeOK /\ TypeOK
      /\ RingIntact /\ WorkHoldsPower /\ HwPlaced /\ OwnedAreKept /\ ActiveUp /\ InterruptLive
  BY DEF TxInv, TypeOK
<1>1. /\ UNCHANGED <<workVars, ctrlVars, hwStart, intVars, isr, sendVars, ctl, barrier, refs, placed, orderly>>
      /\ UNCHANGED <<skb, tr_done, tx_next, budget>> /\ hwCur \in Slots
  BY <1>0 DEF HwSend, HwStarve, ringVars, HwPlaced, DeviceTypeOK
<1>2. WorkTypeOK' /\ WorkHoldsPower' /\ ActiveUp' /\ InterruptLive'
  BY <1>0, <1>1, WorkFrame, InterruptFrame DEF workVars, ctrlVars, intVars
<1>3. ThreadTypeOK'
  BY <1>0, <1>1 DEF ThreadTypeOK, ctrlVars, sendVars
<1>4. /\ hwo' \in [Slots -> BOOLEAN]
      /\ \A i \in Slots : hwo'[i] => hwo[i]
  BY <1>0, <1>1 DEF HwSend, HwStarve, ringVars, RingTypeOK
<1>5. RingTypeOK' /\ RingIntact' /\ OwnedAreKept'
  BY <1>0, <1>1, <1>4 DEF RingTypeOK, RingIntact, InUse, OwnedAreKept
<1>6. DeviceTypeOK' /\ HwPlaced'
  <2>1. CASE HwSend
    <3>1. hwCur' \in Slots /\ hwOn' \in BOOLEAN
      BY <1>1, <1>4, <2>1, SuccSlot DEF HwSend
    <3>2. hwCur' # NULL
      BY <3>1, TxRingAssumption DEF Slots, NULL
    <3>3. txInt' \subseteq {"done", "empty"}
      BY <1>0, <2>1 DEF HwSend, DeviceTypeOK
    <3>4. QED
      BY <1>0, <1>1, <3>1, <3>2, <3>3 DEF DeviceTypeOK, HwPlaced, intVars
  <2>2. CASE HwStarve
    BY <1>0, <1>1, <2>2, HwContinues DEF HwStarve, t7xx_cldma_hw_resume_queue, DeviceTypeOK, intVars
  <2>3. QED
    BY <2>1, <2>2
<1>7. QED
  BY <1>2, <1>3, <1>5, <1>6 DEF TxInv, TypeOK

(* The handler of an empty queue *)
LEMMA EmptyHandler ==
    ASSUME TypeOK, HwPlaced, t7xx_cldma_txq_empty_hndl \/ UNCHANGED hwVars, UNCHANGED intVars
    PROVE  DeviceTypeOK' /\ HwPlaced'
<1>1. CASE HwContinue(hwCur, txInt) /\ UNCHANGED hwStart
  BY <1>1, HwContinues DEF TypeOK, DeviceTypeOK, intVars
<1>2. CASE UNCHANGED hwVars
  BY <1>2, DeviceFrame DEF TypeOK
<1>3. QED
  BY <1>1, <1>2 DEF t7xx_cldma_txq_empty_hndl, t7xx_cldma_hw_resume_queue, hwVars

(* A step of the interrupt handler *)
LEMMA IsrKeeps == ASSUME TxInv, t7xx_cldma_irq_work_cb \/ IsrEmpty \/ IsrEnd PROVE TxInv'
<1>0. /\ RingTypeOK /\ WorkTypeOK /\ DeviceTypeOK /\ ThreadTypeOK /\ TypeOK
      /\ RingIntact /\ WorkHoldsPower /\ HwPlaced /\ OwnedAreKept /\ ActiveUp /\ InterruptLive
  BY DEF TxInv, TypeOK
<1>1. UNCHANGED <<ringVars, placed, ctrlVars, sendVars, ctl, barrier, workPc, count, l2_tx_int>>
  BY DEF t7xx_cldma_irq_work_cb, IsrEmpty, IsrEnd, workVars
<1>2. RingTypeOK' /\ RingIntact' /\ OwnedAreKept'
  BY <1>0, <1>1, RingFrame
<1>3. ThreadTypeOK'
  <2>1. orderly' \in BOOLEAN
    BY <1>0 DEF t7xx_cldma_irq_work_cb, IsrEmpty, IsrEnd, t7xx_cldma_txq_empty_hndl, ThreadTypeOK
  <2>2. QED
    BY <1>0, <1>1, <2>1 DEF t7xx_cldma_irq_work_cb, IsrEmpty, IsrEnd, ThreadTypeOK, ctrlVars, sendVars
<1>4. CASE t7xx_cldma_irq_work_cb
  <2>1. DeviceTypeOK' /\ HwPlaced'
    BY <1>0, <1>4 DEF t7xx_cldma_irq_work_cb, DeviceTypeOK, HwPlaced
  <2>2. \/ masked' = TRUE /\ refs' = refs + 1 /\ pending' = TRUE
        \/ UNCHANGED <<masked, refs, pending>>
    BY <1>4 DEF t7xx_cldma_irq_work_cb
  <2>3. WorkTypeOK' /\ WorkHoldsPower'
    <3>1. CASE refs' = refs + 1 /\ pending' = TRUE
      BY <1>0, <1>1, <3>1 DEF WorkTypeOK, WorkHoldsPower
    <3>2. CASE UNCHANGED <<refs, pending>>
      BY <1>0, <1>1, <3>2, WorkFrame DEF workVars
    <3>3. QED
      BY <2>2, <3>1, <3>2
  <2>4. ActiveUp' /\ InterruptLive'
    BY <1>0, <1>1, <2>2 DEF ActiveUp, InterruptLive, ctrlVars
  <2>5. QED
    BY <1>2, <1>3, <2>1, <2>3, <2>4 DEF TxInv, TypeOK
<1>5. CASE IsrEmpty \/ IsrEnd
  <2>1. UNCHANGED <<workVars, refs, masked>>
    BY <1>5 DEF IsrEmpty, IsrEnd, intVars
  <2>2. WorkTypeOK' /\ WorkHoldsPower' /\ ActiveUp' /\ InterruptLive'
    BY <1>0, <1>1, <2>1, WorkFrame, InterruptFrame DEF workVars, ctrlVars
  <2>3. DeviceTypeOK' /\ HwPlaced'
    <3>1. CASE IsrEmpty
      BY <1>0, <3>1, EmptyHandler DEF IsrEmpty
    <3>2. CASE IsrEnd
      BY <1>0, <3>2 DEF IsrEnd, DeviceTypeOK, HwPlaced, hwVars
    <3>3. QED
      BY <1>5, <3>1, <3>2
  <2>4. QED
    BY <1>2, <1>3, <2>2, <2>3 DEF TxInv, TypeOK
<1>6. QED
  BY <1>4, <1>5

(* A step of the work item *)
LEMMA WorkKeeps == ASSUME TxInv, Work PROVE TxInv'
<1>0. /\ RingTypeOK /\ WorkTypeOK /\ DeviceTypeOK /\ ThreadTypeOK /\ TypeOK
      /\ RingIntact /\ WorkHoldsPower /\ HwPlaced /\ OwnedAreKept /\ ActiveUp /\ InterruptLive
  BY DEF TxInv, TypeOK
<1>1. UNCHANGED <<placed, ctrlVars, irqOn, isr, req, ctl, tx_next, hwo>>
  BY DEF Work, WorkBegin, WorkCollect, WorkStatus, WorkEmpty, WorkEnd, ringVars, sendVars, intVars
<1>2. ThreadTypeOK'
  <2>1. pc' \in [Senders -> SendPcs]
    BY <1>0 DEF Work, WorkBegin, WorkCollect, WorkStatus, WorkEmpty, WorkEnd, WakeUp, sendVars,
                ThreadTypeOK, SendPcs
  <2>2. barrier' \in {"none", "pending", "running", "done"}
    BY <1>0 DEF Work, WorkBegin, WorkCollect, WorkStatus, WorkEmpty, WorkEnd, ThreadTypeOK
  <2>3. orderly' \in BOOLEAN
    BY <1>0 DEF Work, WorkBegin, WorkCollect, WorkStatus, WorkEmpty, WorkEnd, t7xx_cldma_txq_empty_hndl,
                ThreadTypeOK
  <2>4. QED
    BY <1>0, <1>1, <2>1, <2>2, <2>3 DEF ThreadTypeOK, ctrlVars
<1>3. RingTypeOK' /\ RingIntact' /\ OwnedAreKept'
  <2>1. CASE WorkCollect
    <3>1. tr_done \in Slots
      BY <1>0, <2>1 DEF WorkCollect, Collectable, RingTypeOK
    <3>2. RingIntact' /\ budget' \in 0 .. N
      BY <1>0, <2>1, RingCollect DEF WorkCollect
    <3>3. RingTypeOK'
      BY <1>0, <1>1, <2>1, <3>1, <3>2, SuccSlot DEF WorkCollect, RingTypeOK, NoSkb
    <3>4. OwnedAreKept'
      BY <1>0, <2>1, <3>1 DEF WorkCollect, Collectable, OwnedAreKept, RingTypeOK
    <3>5. QED
      BY <3>2, <3>3, <3>4
  <2>2. CASE ~ WorkCollect
    <3>1. UNCHANGED <<ringVars, placed>>
      BY <2>2 DEF Work, WorkBegin, WorkStatus, WorkEmpty, WorkEnd
    <3>2. QED
      BY <1>0, <3>1, RingFrame
  <2>3. QED
    BY <2>1, <2>2
<1>4. DeviceTypeOK' /\ HwPlaced'
  <2>1. CASE WorkBegin \/ WorkCollect
    BY <1>0, <2>1, DeviceFrame DEF WorkBegin, WorkCollect
  <2>2. CASE WorkStatus
    BY <1>0, <2>2 DEF WorkStatus, DeviceTypeOK, HwPlaced, intVars
  <2>3. CASE WorkEmpty
    BY <1>0, <2>3, EmptyHandler DEF WorkEmpty
  <2>4. CASE WorkEnd
    <3>1. txInt' \subseteq {"done", "empty"} /\ masked' \in BOOLEAN
      BY <1>0, <2>4 DEF WorkEnd, WorkAgain, WorkReturns, DeviceTypeOK
    <3>2. QED
      BY <1>0, <1>1, <2>4, <3>1 DEF WorkEnd, DeviceTypeOK, HwPlaced
  <2>5. QED
    BY <2>1, <2>2, <2>3, <2>4 DEF Work
<1>5. WorkTypeOK' /\ WorkHoldsPower'
  <2>1. CASE WorkBegin
    <3>1. /\ pending /\ workPc = "off" /\ ~pending' /\ workPc' = "collect" /\ count' = 0
          /\ UNCHANGED <<refs, l2_tx_int>>
      BY <2>1 DEF WorkBegin
    <3>2. pending' \in BOOLEAN
      BY <2>1 DEF WorkBegin
    <3>3. WorkTypeOK'
      BY <1>0, <3>1, <3>2 DEF WorkTypeOK, WorkPcs
    <3>4. refs >= 1
      BY <1>0, <3>1 DEF WorkHoldsPower, WorkTypeOK
    <3>5. WorkHoldsPower'
      BY <3>1, <3>4 DEF WorkHoldsPower
    <3>6. QED
      BY <3>3, <3>5
  <2>2. CASE WorkCollect
    BY <1>0, <2>2 DEF WorkCollect, WorkTypeOK, WorkHoldsPower
  <2>3. CASE WorkStatus
    BY <1>0, <2>3 DEF WorkStatus, WorkTypeOK, WorkHoldsPower, WorkPcs, DeviceTypeOK
  <2>4. CASE WorkEmpty
    BY <1>0, <2>4 DEF WorkEmpty, WorkTypeOK, WorkHoldsPower, WorkPcs
  <2>5. CASE WorkEnd
    <3>1. workPc = "end" /\ workPc' = "off" /\ refs >= 1 /\ refs \in Nat
      BY <1>0, <2>5 DEF WorkEnd, WorkTypeOK, WorkHoldsPower
    <3>2. CASE WorkAgain
      BY <1>0, <2>5, <3>1, <3>2 DEF WorkEnd, WorkAgain, WorkTypeOK, WorkHoldsPower, WorkPcs
    <3>3. CASE WorkReturns
      BY <1>0, <2>5, <3>1, <3>3 DEF WorkEnd, WorkReturns, WorkTypeOK, WorkHoldsPower, WorkPcs
    <3>4. QED
      BY <2>5, <3>2, <3>3 DEF WorkEnd
  <2>6. QED
    BY <2>1, <2>2, <2>3, <2>4, <2>5 DEF Work
<1>6. ActiveUp' /\ InterruptLive'
  <2>1. ActiveUp'
    BY <1>0, <1>1 DEF ActiveUp, ctrlVars
  <2>2. CASE WorkBegin \/ WorkCollect \/ WorkStatus \/ WorkEmpty
    <3>1. workPc' # "off"
      BY <2>2 DEF WorkBegin, WorkCollect, WorkStatus, WorkEmpty
    <3>2. QED
      BY <2>1, <3>1 DEF InterruptLive
  <2>3. CASE WorkEnd
    <3>1. CASE WorkAgain
      <4>1. pending'
        BY <3>1 DEF WorkAgain
      <4>2. QED
        BY <2>1, <4>1 DEF InterruptLive
    <3>2. CASE WorkReturns
      <4>1. txq_active' = txq_active /\ masked' = (masked /\ ~txq_active)
        BY <1>1, <3>2 DEF WorkReturns, ctrlVars
      <4>2. QED
        BY <2>1, <4>1 DEF InterruptLive
    <3>3. QED
      BY <2>3, <3>1, <3>2 DEF WorkEnd
  <2>4. QED
    BY <2>1, <2>2, <2>3 DEF Work
<1>7. QED
  BY <1>2, <1>3, <1>4, <1>5, <1>6 DEF TxInv, TypeOK
-----------------------------------------------------------------------------
(* A new or cleared ring *)
LEMMA RingReset ==
    ASSUME RingTypeOK, NoPackets, t7xx_cldma_q_reset, UNCHANGED placed
    PROVE  RingTypeOK' /\ RingIntact' /\ OwnedAreKept'
BY TxRingAssumption DEF NoPackets, t7xx_cldma_q_reset, RingTypeOK, RingIntact, OwnedAreKept, InUse, Slots,
                        NULL, NoSkb

(* A step of the threads that control the interface *)
LEMMA ControlKeeps == ASSUME TxInv, Control PROVE TxInv'
<1>0. /\ RingTypeOK /\ WorkTypeOK /\ DeviceTypeOK /\ ThreadTypeOK /\ TypeOK
      /\ RingIntact /\ WorkHoldsPower /\ HwPlaced /\ OwnedAreKept /\ ActiveUp /\ InterruptLive
  BY DEF TxInv, TypeOK
<1> USE DEF Control, t7xx_cldma_switch_cfg, t7xx_cldma_late_init, Start, t7xx_cldma_start, ExStopTx, ExClearTx,
            t7xx_cldma_stop, Flushed, Suspend, Resume, t7xx_cldma_resume_early, ResetBegin, ResetQueue
<1>1. ThreadTypeOK'
  <2>1. UNCHANGED <<isr, pc, req>>
    BY DEF sendVars
  <2>2. txq_active' \in BOOLEAN /\ txq_started' \in BOOLEAN /\ is_late_init' \in BOOLEAN
    BY <1>0 DEF ThreadTypeOK, ctrlVars
  <2>3. ctl' \in CtlPcs
    BY <1>0 DEF CtlPcs
  <2>4. orderly' \in BOOLEAN
    <3>1. Unused \in BOOLEAN
      BY DEF Unused
    <3>2. QED
      BY <1>0, <3>1 DEF ThreadTypeOK
  <2>5. barrier' \in {"none", "pending", "running", "done"}
    BY <1>0 DEF ThreadTypeOK
  <2>6. QED
    BY <1>0, <2>1, <2>2, <2>3, <2>4, <2>5 DEF ThreadTypeOK
<1>2. RingTypeOK' /\ RingIntact' /\ OwnedAreKept'
  <2>1. CASE t7xx_cldma_switch_cfg \/ ExClearTx
    BY <1>0, <2>1, RingReset DEF t7xx_cldma_clear_txq
  <2>2. CASE ResetQueue
    BY <1>0, <2>2 DEF NoPackets, RingTypeOK, RingIntact, OwnedAreKept, NoSkb
  <2>3. CASE ~ (t7xx_cldma_switch_cfg \/ ExClearTx \/ ResetQueue)
    <3>1. UNCHANGED <<ringVars, placed>>
      BY <2>3
    <3>2. QED
      BY <1>0, <3>1, RingFrame
  <2>4. QED
    BY <2>1, <2>2, <2>3
<1>3. DeviceTypeOK' /\ HwPlaced'
  <2>0. hwOn' = FALSE \/ UNCHANGED <<hwOn, hwCur>>
    BY DEF hwVars
  <2>1. hwOn' \in BOOLEAN /\ HwPlaced'
    <3>1. CASE hwOn' = FALSE
      BY <3>1 DEF HwPlaced
    <3>2. CASE UNCHANGED <<hwOn, hwCur>>
      BY <1>0, <3>2 DEF DeviceTypeOK, HwPlaced
    <3>3. QED
      BY <2>0, <3>1, <3>2
  <2>5. txInt' \subseteq {"done", "empty"}
    BY <1>0 DEF DeviceTypeOK, hwVars
  <2>2. hwCur' \in Slots \cup {NULL}
    BY <1>0 DEF DeviceTypeOK, hwVars
  <2>3. hwStart' \in Slots \cup {NULL}
    BY <1>0 DEF DeviceTypeOK, RingTypeOK, hwVars
  <2>4. irqOn' \in BOOLEAN /\ masked' \in BOOLEAN
    BY <1>0 DEF DeviceTypeOK, intVars
  <2>6. QED
    BY <2>1, <2>2, <2>3, <2>4, <2>5 DEF DeviceTypeOK
<1>4. WorkTypeOK' /\ WorkHoldsPower'
  <2>1. CASE ResetQueue
    <3>1. ~pending' /\ pending' \in BOOLEAN /\ UNCHANGED <<workPc, count, l2_tx_int, refs>>
      BY <2>1
    <3>2. QED
      BY <1>0, <3>1 DEF WorkTypeOK, WorkHoldsPower
  <2>2. CASE ~ ResetQueue
    <3>1. UNCHANGED <<workVars, refs>>
      BY <2>2
    <3>2. QED
      BY <1>0, <3>1, WorkFrame
  <2>3. QED
    BY <2>1, <2>2
<1>5. ActiveUp'
  BY <1>0 DEF ActiveUp, ctrlVars
<1>6. InterruptLive'
  BY <1>0 DEF ActiveUp, InterruptLive, ctrlVars, intVars, workVars
<1>7. QED
  BY <1>1, <1>2, <1>3, <1>4, <1>5, <1>6 DEF TxInv, TypeOK
-----------------------------------------------------------------------------
(* TxInv is inductive *)
LEMMA TxStep == TxInv /\ [Next]_vars => TxInv'
<1> SUFFICES ASSUME TxInv, [Next]_vars PROVE TxInv'
  OBVIOUS
<1>1. CASE UNCHANGED vars
  <2>1. UNCHANGED <<ringVars, placed, workVars, refs, hwVars, intVars>>
        /\ UNCHANGED <<txq_active, masked, pending, workPc, ctl>>
    BY <1>1 DEF vars, ctrlVars, intVars, workVars
  <2>2. ThreadTypeOK'
    BY <1>1 DEF vars, TxInv, TypeOK, ThreadTypeOK, ctrlVars, sendVars
  <2>3. QED
    BY <2>1, <2>2, RingFrame, WorkFrame, DeviceFrame, InterruptFrame DEF TxInv, TypeOK
<1>2. CASE Next
  BY <1>2, SendKeeps, DeviceKeeps, IsrKeeps, WorkKeeps, ControlKeeps DEF Next, Steps
<1>3. QED
  BY <1>1, <1>2

(* t7xx_hif_cldma.c: the pointers and counters of a transmit queue keep      *)
(* their types; in particular the budget never leaves 0 .. MAX_TX_BUDGET and *)
(* no reference is put that was not taken                                    *)
THEOREM TxTypeCorrect == Spec => []TypeOK
<1>1. TxInv => TypeOK
  BY DEF TxInv
<1>2. QED
  BY TxInit, TxStep, <1>1, PTL DEF Spec

(* t7xx_cldma_send_skb(), t7xx_cldma_gpd_tx_collect(), t7xx_cldma_clear_txq: *)
(* whatever order they run in, every packet is in the window from tr_done to *)
(* tx_next and the budget is what the window leaves                          *)
THEOREM RingIntactHolds == Spec => []RingIntact
<1>1. TxInv => RingIntact
  BY DEF TxInv
<1>2. QED
  BY TxInit, TxStep, <1>1, PTL DEF Spec

(* t7xx_cldma_gpd_tx_collect() and t7xx_cldma_clear_txq() free no packet     *)
(* whose descriptor they leave to the device                                 *)
THEOREM OwnedAreKeptHolds == Spec => []OwnedAreKept
<1>1. TxInv => OwnedAreKept
  BY DEF TxInv
<1>2. QED
  BY TxInit, TxStep, <1>1, PTL DEF Spec

(* t7xx_cldma_irq_work_cb() masks the interrupts and t7xx_cldma_tx_done()    *)
(* unmasks them: an active queue never loses them                            *)
THEOREM InterruptLiveHolds == Spec => []InterruptLive
<1>1. TxInv => InterruptLive
  BY DEF TxInv
<1>2. QED
  BY TxInit, TxStep, <1>1, PTL DEF Spec

(* The runtime-PM references of the interrupt handler and t7xx_cldma_tx_done *)
THEOREM WorkHoldsPowerHolds == Spec => []WorkHoldsPower
<1>1. TxInv => WorkHoldsPower
  BY DEF TxInv
<1>2. QED
  BY TxInit, TxStep, <1>1, PTL DEF Spec
-----------------------------------------------------------------------------
(* CldmaTx implements ControlChannel.  The age of a request counts back from *)
(* tx_next: packets are numbered in the order of their ages, whatever        *)
(* happens; and while the promise of order holds, the device stands at, or   *)
(* will be started at, the oldest request it owns.                           *)

Age(i) == IF i < tx_next THEN tx_next - i ELSE tx_next + N - i

Packet(i) == skb[i] # NoSkb

Used == N - budget

Numbered == \A i \in Slots : skb[i] <= placed

AgeOrder == \A i, j \in Slots : Packet(i) /\ Packet(j) /\ Age(i) < Age(j) => skb[j] < skb[i]

SentFirst == \A i, j \in Slots : Packet(i) /\ ~hwo[i] /\ hwo[j] => skb[i] < skb[j]

(* Where the device goes on *)
HwAt == IF txq_started THEN hwCur ELSE hwStart

(* The queue is in use *)
AtOldest ==
    /\ hwStart \in Slots /\ HwAt \in Slots /\ tx_next \in Slots
    /\ hwOn => txq_started
    /\ HwAt = tx_next \/ Age(HwAt) <= Used
    /\ \A i \in Slots : hwo[i] => Age(i) <= Age(HwAt) /\ Age(HwAt) <= Used
    /\ Packet(HwAt) /\ ~hwo[HwAt] => HwAt = tx_next /\ \A i \in Slots : ~hwo[i]

(* The queue was stopped while nobody used it and nothing was under way *)
AtRest ==
    /\ \A i \in Slots : ~hwo[i]
    /\ ~hwOn
    /\ \A s \in Senders : pc[s] # "kick"
    /\ isr # "empty" /\ workPc # "empty"
    /\ ctl = "asleep" => ~txq_started
    /\ ctl \in {"ex_stopped", "ex_cleared", "ex_flush", "ex_reset", "init", "asleep"} => tx_next \in Slots
    /\ ctl \in {"ex_cleared", "ex_flush", "ex_reset", "init"} => \A i \in Slots : ~Packet(i)

OrderInv ==
    /\ Numbered /\ AgeOrder
    /\ orderly => /\ SentFirst
                  /\ \/ ctl \in {"up", "reset"} /\ AtOldest
                     \/ ctl # "up" /\ AtRest
-----------------------------------------------------------------------------
(* Ages and the ring                                                         *)

LEMMA Ages ==
    ASSUME tx_next \in Slots, NEW i \in Slots
    PROVE  /\ Age(i) \in 1 .. N
           /\ Age(i) = N <=> i = tx_next
           /\ Age(i) > 1 => Age(Succ(i)) = Age(i) - 1 /\ Succ(i) # tx_next
           /\ Age(i) = 1 => Succ(i) = tx_next
           /\ \A j \in Slots : Age(i) = Age(j) => i = j
BY TxRingAssumption DEF Age, Slots, Succ

LEMMA AgesGrow ==
    ASSUME tx_next \in Slots, tx_next' = Succ(tx_next), NEW i \in Slots
    PROVE  Age(i)' = IF i = tx_next THEN 1 ELSE Age(i) + 1
BY TxRingAssumption DEF Age, Slots, Succ

(* Packets are no older than what is used; tr_done is as old as that *)
LEMMA UsedAge ==
    ASSUME TypeOK, RingIntact, tx_next \in Slots
    PROVE  /\ tr_done \in Slots
           /\ Used \in 0 .. N
           /\ \A i \in Slots : Packet(i) => Age(i) <= Used
           /\ budget < N => Age(tr_done) = Used
           /\ budget = N => tr_done = tx_next
<1>1. /\ N \in Nat /\ N > 0 /\ tr_done \in Slots /\ budget \in 0 .. N
      /\ tr_done < tx_next => budget = N - (tx_next - tr_done)
      /\ tx_next < tr_done => budget = tr_done - tx_next
      /\ tx_next = tr_done => budget \in {0, N}
  BY TxRingAssumption DEF TypeOK, RingTypeOK, RingIntact, NULL, Slots
<1>2. ASSUME NEW i \in Slots, Packet(i) PROVE Age(i) <= Used
  <2>1. InUse(i)
    BY <1>2 DEF RingIntact, Packet, NULL, Slots
  <2>2. QED
    BY <1>1, <2>1 DEF InUse, Age, Used, Slots
<1>3. QED
  BY <1>1, <1>2 DEF Age, Used, Slots

LEMMA NoOneOwned == OwnedAreKept /\ (\A i \in Slots : ~Packet(i)) => \A i \in Slots : ~hwo[i]
BY DEF OwnedAreKept, Packet
-----------------------------------------------------------------------------
(* Packets are numbered in the order of their ages.                          *)

(* A step changes the packets by putting one in, collecting one or dropping  *)
(* all                                                                       *)
LEMMA PacketSteps ==
    ASSUME Next
    PROVE  \/ \E s \in Senders : SendPlace(s)
           \/ WorkCollect
           \/ NoPackets /\ placed' = placed
           \/ UNCHANGED <<skb, hwo, tx_next, placed>>
           \/ HwSend
<1>1. CASE \E s \in Senders : Send(s)
  BY <1>1 DEF Send, SendBegin, SendKick, SendFull, SendResume, SendWoken, SendGivesUp, SendOops, ringVars
<1>2. CASE HwStarve \/ t7xx_cldma_irq_work_cb \/ IsrEmpty \/ IsrEnd
  BY <1>2 DEF HwStarve, t7xx_cldma_irq_work_cb, IsrEmpty, IsrEnd, ringVars
<1>3. CASE Work
  BY <1>3 DEF Work, WorkBegin, WorkStatus, WorkEmpty, WorkEnd, ringVars
<1>4. CASE Control
  BY <1>4 DEF Control, t7xx_cldma_switch_cfg, t7xx_cldma_late_init, Start, ExStopTx, ExClearTx, t7xx_cldma_stop,
              Flushed, Suspend, Resume, ResetBegin, ResetQueue, t7xx_cldma_clear_txq, ringVars
<1>5. QED
  BY <1>1, <1>2, <1>3, <1>4 DEF Next, Steps

LEMMA NumbersKept ==
    ASSUME TxInv, Numbered, AgeOrder, Next
    PROVE  Numbered' /\ AgeOrder'
<1>0. skb \in [Slots -> Nat] /\ placed \in Nat /\ budget \in 0 .. N
  BY TxBoundAssumption DEF TxInv, TypeOK, RingTypeOK
<1>1. CASE \E s \in Senders : SendPlace(s)
  <2> PICK s \in Senders : SendPlace(s)
    BY <1>1
  <2>1. /\ tx_next \in Slots /\ tx_next' = Succ(tx_next) /\ skb[tx_next] = NoSkb /\ placed' = placed + 1
        /\ \A i \in Slots : skb'[i] = skb[i] \/ (i = tx_next /\ skb'[i] = placed')
    BY <1>0 DEF TxInv, TypeOK, RingTypeOK, SendPlace, Room, t7xx_cldma_gpd_handle_tx_request
  <2>2. Numbered'
    BY <1>0, <2>1 DEF Numbered
  <2>3. ASSUME NEW i \in Slots, NEW j \in Slots, Packet(i)', Packet(j)', Age(i)' < Age(j)'
        PROVE  skb'[j] < skb'[i]
    <3>1. /\ Age(i)' = IF i = tx_next THEN 1 ELSE Age(i) + 1
          /\ Age(j)' = IF j = tx_next THEN 1 ELSE Age(j) + 1
          /\ Age(i) \in 1 .. N /\ Age(j) \in 1 .. N /\ N \in Nat
      BY <2>1, Ages, AgesGrow, TxRingAssumption
    <3>2. j # tx_next
      BY <2>3, <3>1
    <3>3. CASE i = tx_next
      <4>1. skb'[i] = placed + 1 /\ skb'[j] = skb[j]
        BY <1>0, <2>1, <2>3, <3>2, <3>3 DEF Packet
      <4>2. QED
        BY <1>0, <4>1 DEF Numbered
    <3>4. CASE i # tx_next
      <4>1. Age(i) < Age(j) /\ skb'[i] = skb[i] /\ skb'[j] = skb[j]
        BY <2>1, <2>3, <3>1, <3>2, <3>4
      <4>2. QED
        BY <2>3, <4>1 DEF AgeOrder, Packet
    <3>5. QED
      BY <3>3, <3>4
  <2>4. QED
    BY <2>2, <2>3 DEF AgeOrder
<1>2. CASE WorkCollect
  <2>1. /\ UNCHANGED <<tx_next, placed>>
        /\ \A i \in Slots : skb'[i] = skb[i] \/ skb'[i] = NoSkb
    BY <1>0, <1>2 DEF WorkCollect
  <2>2. \A i \in Slots : Age(i)' = Age(i)
    BY <2>1 DEF Age
  <2>3. QED
    BY <1>0, <2>1, <2>2 DEF Numbered, AgeOrder, Packet, NoSkb
<1>3. CASE NoPackets
  <2>1. placed' \in Nat
    BY <1>3, TxStep, TxBoundAssumption DEF TxInv, TypeOK, RingTypeOK
  <2>2. QED
    BY <1>3, <2>1 DEF NoPackets, Numbered, AgeOrder, Packet, NoSkb
<1>4. CASE HwSend \/ UNCHANGED <<skb, hwo, tx_next, placed>>
  <2>1. UNCHANGED <<skb, tx_next, placed>>
    BY <1>4 DEF HwSend
  <2>2. QED
    BY <2>1 DEF Numbered, AgeOrder, Packet, Age
<1>5. QED
  BY <1>1, <1>2, <1>3, <1>4, PacketSteps
-----------------------------------------------------------------------------
(* While the promise of order holds: what a step does to the queue in use    *)
(* and to the queue at rest.                                                 *)

(* The device goes on where it would have gone on *)
LEMMA SamePlace ==
    ASSUME AtOldest, UNCHANGED <<skb, hwo, tx_next, budget>>, hwStart' \in Slots, HwAt' = HwAt,
           hwOn' => txq_started'
    PROVE  AtOldest'
BY DEF AtOldest, Packet, Age, Used

LEMMA SameSent == SentFirst /\ UNCHANGED <<skb, hwo>> => SentFirst'
BY DEF SentFirst, Packet

(* A sender that sees to it that the device is going                         *)
LEMMA Starting ==
    ASSUME AtOldest, txq_started \in BOOLEAN, NEW r, t7xx_cldma_hw_start_send(r)
    PROVE  hwStart' = hwStart /\ HwAt' = HwAt /\ (hwOn' => txq_started')
<1>1. hwStart # NULL /\ hwStart' = hwStart /\ (hwOn => txq_started)
  BY TxRingAssumption DEF AtOldest, t7xx_cldma_hw_start_send, Slots, NULL
<1>2. CASE hwOn /\ txq_started' = txq_started /\ UNCHANGED <<hwOn, hwCur>>
  BY <1>1, <1>2 DEF HwAt
<1>3. CASE txq_started /\ txq_started' = TRUE /\ HwContinue(hwCur, txInt)
  BY <1>1, <1>3 DEF HwAt, HwContinue
<1>4. CASE ~txq_started /\ txq_started' = TRUE /\ HwContinue(hwStart, txInt)
  BY <1>1, <1>4 DEF HwAt, HwContinue
<1>5. QED
  BY <1>1, <1>2, <1>3, <1>4 DEF t7xx_cldma_hw_start_send, t7xx_cldma_hw_resume_queue, t7xx_cldma_hw_start_queue

(* A packet, or nothing, is put into the next request *)
LEMMA Placing ==
    ASSUME TxInv, Numbered, SentFirst, AtOldest, NEW s \in Senders, SendPlace(s), txq_active
    PROVE  SentFirst' /\ AtOldest'
<1>1. /\ skb \in [Slots -> Nat] /\ hwo \in [Slots -> BOOLEAN] /\ placed \in Nat /\ budget \in 0 .. N
      /\ TypeOK /\ RingIntact /\ OwnedAreKept /\ N \in Nat
  BY TxBoundAssumption, TxRingAssumption DEF TxInv, TypeOK, RingTypeOK
<1>2. /\ tx_next \in Slots /\ skb[tx_next] = NoSkb /\ budget > 0
      /\ tx_next' = Succ(tx_next) /\ budget' = budget - 1
      /\ UNCHANGED <<hwStart, hwCur, hwOn, txq_started>>
  BY DEF AtOldest, SendPlace, Room, hwVars
<1>3. ~hwo[tx_next]
  BY <1>1, <1>2 DEF OwnedAreKept
<1>4. \A i \in Slots : i # tx_next => skb'[i] = skb[i] /\ hwo'[i] = hwo[i]
  BY <1>1, <1>2 DEF SendPlace, t7xx_cldma_gpd_handle_tx_request
<1>5. \/ skb'[tx_next] = placed + 1 /\ hwo'[tx_next] = TRUE
      \/ skb'[tx_next] = NoSkb /\ hwo'[tx_next] = FALSE
  BY <1>1, <1>2, <1>3 DEF SendPlace, t7xx_cldma_gpd_handle_tx_request
<1>6. SentFirst'
  <2>1. SUFFICES ASSUME NEW i \in Slots, NEW j \in Slots, Packet(i)', ~hwo'[i], hwo'[j] PROVE skb'[i] < skb'[j]
    BY DEF SentFirst
  <2>2. i # tx_next
    BY <1>5, <2>1 DEF Packet
  <2>3. CASE j = tx_next
    BY <1>1, <1>2, <1>4, <1>5, <2>1, <2>2, <2>3 DEF Numbered
  <2>4. CASE j # tx_next
    BY <1>4, <2>1, <2>2, <2>4 DEF SentFirst, Packet
  <2>5. QED
    BY <2>3, <2>4
<1>7. PICK at \in Slots : at = HwAt /\ at = HwAt'
  BY <1>2 DEF AtOldest, HwAt
<1>8. /\ \A i \in Slots : Age(i)' = IF i = tx_next THEN 1 ELSE Age(i) + 1
      /\ \A i \in Slots : Age(i) \in 1 .. N /\ (Age(i) = N <=> i = tx_next)
      /\ Used \in 0 .. N - 1 /\ Used' = Used + 1
  BY <1>1, <1>2, Ages, AgesGrow DEF Used
<1>9. Age(at)' <= Used'
  BY <1>1, <1>7, <1>8 DEF AtOldest
<1>10. ASSUME NEW i \in Slots, hwo'[i] PROVE Age(i)' <= Age(at)'
  <2>1. CASE i = tx_next
    BY <1>1, <1>8, <2>1
  <2>2. CASE i # tx_next
    <3>1. hwo[i] /\ Age(i) <= Age(at) /\ Age(at) <= Used
      BY <1>4, <1>7, <1>10, <2>2 DEF AtOldest
    <3>2. at # tx_next
      BY <1>1, <1>8, <3>1
    <3>3. QED
      BY <1>1, <1>8, <2>2, <3>1, <3>2
  <2>3. QED
    BY <2>1, <2>2
<1>11. ~(Packet(at)' /\ ~hwo'[at])
  BY <1>2, <1>4, <1>5, <1>7 DEF AtOldest, Packet
<1>12. QED
  BY <1>2, <1>6, <1>7, <1>9, <1>10, <1>11, SuccSlot DEF AtOldest
(* What the device owns is no older than where it stands, and what is older  *)
(* has the smaller number                                                    *)
LEMMA OldestFirst ==
    ASSUME TxInv, AgeOrder, AtOldest, hwOn, NEW i \in Slots, hwo[i], i # hwCur, hwo[hwCur]
    PROVE  skb[hwCur] < skb[i] /\ Age(i) < Age(hwCur)
<1>1. /\ HwAt = hwCur /\ hwCur \in Slots /\ tx_next \in Slots
      /\ OwnedAreKept /\ N \in Nat
  BY TxRingAssumption DEF AtOldest, HwAt, TxInv
<1>2. Packet(i) /\ Packet(hwCur)
  BY <1>1 DEF OwnedAreKept, Packet
<1>3. Age(i) <= Age(hwCur) /\ Age(i) # Age(hwCur) /\ Age(i) \in 1 .. N /\ Age(hwCur) \in 1 .. N
  BY <1>1, Ages DEF AtOldest
<1>4. QED
  BY <1>1, <1>2, <1>3 DEF AgeOrder

(* The device sends a packet *)
LEMMA Sending ==
    ASSUME TxInv, AgeOrder, SentFirst, AtOldest, HwSend
    PROVE  SentFirst' /\ AtOldest'
<1>1. /\ hwo \in [Slots -> BOOLEAN] /\ skb \in [Slots -> Nat] /\ N \in Nat /\ budget \in 0 .. N
      /\ OwnedAreKept
  BY TxRingAssumption DEF TxInv, TypeOK, RingTypeOK
<1>2. /\ hwOn /\ txq_started /\ HwAt = hwCur /\ hwCur \in Slots /\ hwo[hwCur]
      /\ tx_next \in Slots /\ Packet(hwCur)
  BY <1>1 DEF HwSend, AtOldest, HwAt, OwnedAreKept, Packet
<1>3. /\ hwo' = [hwo EXCEPT ![hwCur] = FALSE] /\ hwCur' = Succ(hwCur) /\ HwAt' = hwCur'
      /\ UNCHANGED <<skb, tx_next, budget, hwStart, txq_started>>
  BY <1>2 DEF HwSend, ctrlVars, HwAt
<1>4. /\ hwCur' \in Slots
      /\ \A i \in Slots : Age(i)' = Age(i) /\ Packet(i)' = Packet(i)
      /\ Used' = Used /\ Used \in 0 .. N
  BY <1>1, <1>2, <1>3, SuccSlot DEF Age, Packet, Used
<1>5. \A i \in Slots : hwo'[i] => hwo[i] /\ i # hwCur
  BY <1>1, <1>2, <1>3
<1>6. SentFirst'
  <2>1. SUFFICES ASSUME NEW i \in Slots, NEW j \in Slots, Packet(i), ~hwo'[i], hwo'[j] PROVE skb[i] < skb[j]
    BY <1>3, <1>4 DEF SentFirst
  <2>2. CASE i = hwCur
    BY <1>2, <1>5, <2>1, <2>2, OldestFirst
  <2>3. CASE i # hwCur
    BY <1>1, <1>2, <1>3, <1>5, <2>1, <2>3 DEF SentFirst
  <2>4. QED
    BY <2>2, <2>3
<1>7. Age(hwCur) \in 1 .. N /\ Age(hwCur) <= Used
  BY <1>2, Ages DEF AtOldest
<1>8. CASE Age(hwCur) = 1
  <2>1. hwCur' = tx_next
    BY <1>2, <1>3, <1>8, Ages
  <2>2. ASSUME NEW i \in Slots, hwo'[i] PROVE FALSE
    <3>1. Age(i) < 1
      BY <1>2, <1>5, <1>8, <2>2, OldestFirst
    <3>2. QED
      BY <1>1, <1>2, <3>1, Ages
  <2>3. QED
    BY <1>2, <1>3, <1>4, <1>6, <2>1, <2>2 DEF AtOldest
<1>9. CASE Age(hwCur) > 1
  <2>1. Age(hwCur') = Age(hwCur) - 1 /\ hwCur' # tx_next /\ hwCur' # hwCur
    BY <1>1, <1>2, <1>3, <1>7, <1>9, Ages
  <2>2. Age(hwCur') < Age(hwCur) /\ Age(hwCur') <= Used
    BY <1>1, <1>4, <1>7, <2>1
  <2>3. ASSUME NEW i \in Slots, hwo'[i] PROVE Age(i) <= Age(hwCur')
    <3>1. Age(i) < Age(hwCur) /\ Age(i) \in 1 .. N
      BY <1>2, <1>5, <2>3, OldestFirst, Ages
    <3>2. QED
      BY <1>1, <1>7, <2>1, <3>1
  <2>4. ~(Packet(hwCur') /\ ~hwo'[hwCur'])
    <3>1. SUFFICES ASSUME Packet(hwCur'), ~hwo'[hwCur'] PROVE FALSE
      OBVIOUS
    <3>2. ~hwo[hwCur']
      BY <1>1, <1>2, <1>3, <1>4, <2>1, <3>1
    <3>3. skb[hwCur'] < skb[hwCur]
      BY <1>2, <1>4, <3>1, <3>2 DEF SentFirst
    <3>4. skb[hwCur] < skb[hwCur']
      BY <1>2, <1>4, <2>2, <3>1 DEF AgeOrder
    <3>5. QED
      BY <1>1, <1>2, <1>4, <3>3, <3>4
  <2>5. QED
    <3>1. PICK at \in Slots : at = hwCur'
      BY <1>4
    <3>2. QED
      BY <1>2, <1>3, <1>4, <1>6, <2>2, <2>3, <2>4, <3>1 DEF AtOldest
<1>10. QED
  BY <1>1, <1>7, <1>8, <1>9

(* A packet is collected *)
LEMMA Collecting ==
    ASSUME TxInv, SentFirst, AtOldest, WorkCollect
    PROVE  SentFirst' /\ AtOldest'
<1>1. /\ hwo \in [Slots -> BOOLEAN] /\ skb \in [Slots -> Nat] /\ N \in Nat /\ budget \in 0 .. N
      /\ TypeOK /\ RingIntact /\ tx_next \in Slots /\ tr_done \in Slots
  BY TxRingAssumption, UsedAge DEF TxInv, TypeOK, RingTypeOK, AtOldest
<1>2. /\ Packet(tr_done) /\ ~hwo[tr_done]
      /\ budget' = budget + 1 /\ skb' = [skb EXCEPT ![tr_done] = NoSkb]
      /\ UNCHANGED <<hwo, tx_next, hwStart, hwCur, hwOn, txq_started>>
  BY DEF WorkCollect, Collectable, Packet, ctrlVars, hwVars
<1>3. PICK at \in Slots : at = HwAt /\ at = HwAt'
  BY <1>2 DEF AtOldest, HwAt
<1>4. /\ \A i \in Slots : Age(i)' = Age(i) /\ Age(i) \in 1 .. N
      /\ Used \in 0 .. N /\ Used' = Used - 1
      /\ \A i \in Slots : Packet(i)' => Packet(i) /\ skb'[i] = skb[i]
  BY <1>1, <1>2, Ages DEF Age, Used, Packet, NoSkb
<1>5. SentFirst'
  BY <1>2, <1>4 DEF SentFirst, OwnedAreKept, TxInv, Packet
<1>6. CASE at = tr_done
  <2>1. at = tx_next /\ \A i \in Slots : ~hwo[i]
    BY <1>2, <1>3, <1>6 DEF AtOldest
  <2>2. QED
    BY <1>2, <1>3, <1>5, <2>1 DEF AtOldest
<1>7. CASE at # tr_done
  <2>1. Age(at) <= Used => Age(at) <= Used'
    <3>1. SUFFICES ASSUME Age(at) = Used PROVE FALSE
      BY <1>3, <1>4
    <3>2. budget < N
      BY <1>1, <1>3, <1>4, <3>1 DEF Used
    <3>3. QED
      BY <1>1, <1>3, <1>7, <3>1, <3>2, UsedAge, Ages
  <2>2. QED
    BY <1>2, <1>3, <1>4, <1>5, <2>1 DEF AtOldest
<1>8. QED
  BY <1>6, <1>7
-----------------------------------------------------------------------------
(* The queue in use                                                          *)

LEMMA InUseSends ==
    ASSUME TxInv, Numbered, AgeOrder, SentFirst, AtOldest, orderly', NEW s \in Senders, Send(s)
    PROVE  SentFirst' /\ AtOldest'
<1>1. hwStart \in Slots /\ txq_started \in BOOLEAN /\ (hwOn => txq_started)
  BY DEF AtOldest, TxInv, TypeOK, ThreadTypeOK
<1>2. CASE SendPlace(s)
  BY <1>2, Placing DEF SendPlace
<1>3. CASE ~SendPlace(s)
  <2>1. UNCHANGED <<skb, hwo, tx_next, budget>>
    BY <1>3 DEF Send, SendBegin, SendKick, SendFull, SendResume, SendWoken, SendGivesUp, SendOops, ringVars
  <2>2. hwStart' = hwStart /\ HwAt' = HwAt /\ (hwOn' => txq_started')
    <3>1. CASE SendKick(s)
      BY <1>1, <3>1, Starting DEF SendKick, HwAt, hwVars
    <3>2. CASE SendResume(s)
      BY <1>1, <3>2 DEF SendResume, t7xx_cldma_hw_resume_queue, HwContinue, HwAt
    <3>3. CASE ~SendKick(s) /\ ~SendResume(s)
      <4>1. UNCHANGED <<hwStart, hwCur, hwOn, txq_started>>
        BY <1>3, <3>3 DEF Send, SendBegin, SendFull, SendWoken, SendGivesUp, SendOops, hwVars
      <4>2. QED
        BY <1>1, <4>1 DEF HwAt
    <3>4. QED
      BY <3>1, <3>2, <3>3
  <2>3. QED
    BY <1>1, <2>1, <2>2, SamePlace, SameSent
<1>4. QED
  BY <1>2, <1>3

LEMMA InUseRuns ==
    ASSUME TxInv, AgeOrder, SentFirst, AtOldest, orderly', 
           HwSend \/ HwStarve \/ t7xx_cldma_irq_work_cb \/ IsrEmpty \/ IsrEnd \/ Work
    PROVE  SentFirst' /\ AtOldest'
<1>1. hwStart \in Slots /\ (hwOn => txq_started)
  BY DEF AtOldest
<1>2. CASE HwSend
  BY <1>2, Sending
<1>3. CASE WorkCollect
  BY <1>3, Collecting
<1>4. CASE ~HwSend /\ ~WorkCollect
  <2>1. UNCHANGED <<skb, hwo, tx_next, budget, hwStart, txq_started>>
    BY <1>4 DEF HwStarve, t7xx_cldma_irq_work_cb, IsrEmpty, IsrEnd, Work, WorkBegin, WorkStatus, WorkEmpty, WorkEnd,
                t7xx_cldma_txq_empty_hndl, ringVars, ctrlVars, hwVars
  <2>2. hwCur' = hwCur /\ (hwOn' => txq_started)
    <3>1. CASE HwStarve
      BY <1>1, <3>1 DEF HwStarve, t7xx_cldma_hw_resume_queue, HwContinue
    <3>2. CASE IsrEmpty \/ WorkEmpty
      <4>1. \/ UNCHANGED <<hwOn, hwCur>>
            \/ t7xx_cldma_hw_resume_queue /\ txq_started
        BY <3>2 DEF IsrEmpty, WorkEmpty, t7xx_cldma_txq_empty_hndl, hwVars
      <4>2. QED
        BY <1>1, <4>1 DEF t7xx_cldma_hw_resume_queue, HwContinue
    <3>3. CASE t7xx_cldma_irq_work_cb \/ IsrEnd \/ WorkBegin \/ WorkStatus \/ WorkEnd
      <4>1. UNCHANGED <<hwOn, hwCur>>
        BY <3>3 DEF t7xx_cldma_irq_work_cb, IsrEnd, WorkBegin, WorkStatus, WorkEnd, hwVars
      <4>2. QED
        BY <1>1, <4>1
    <3>4. QED
      BY <1>4, <3>1, <3>2, <3>3 DEF Work
  <2>3. QED
    BY <1>1, <2>1, <2>2, SamePlace, SameSent DEF HwAt
<1>5. QED
  BY <1>2, <1>3, <1>4

(* Where a thread stops the queue with the promise of order kept             *)
LEMMA InUseEnds ==
    ASSUME TxInv, SentFirst, AtOldest, ctl \in {"up", "reset"}, orderly', Control
    PROVE  SentFirst' /\ ((ctl' = "reset" /\ AtOldest') \/ (ctl' # "up" /\ AtRest'))
<1>1. hwStart \in Slots /\ tx_next \in Slots /\ (hwOn => txq_started)
  BY DEF AtOldest
<1>2. CASE ExStopTx \/ Suspend \/ t7xx_cldma_stop
  <2>1. /\ Quiet /\ UNCHANGED <<skb, hwo, tx_next, pc, isr, workPc>> /\ hwOn' = FALSE
        /\ ctl' \in {"ex_stopped", "asleep", "flush"} /\ (ctl' = "asleep" => txq_started' = FALSE)
    BY <1>2 DEF ExStopTx, Suspend, t7xx_cldma_stop, ringVars, sendVars, workVars
  <2>2. AtRest'
    BY <1>1, <2>1 DEF AtRest, Quiet, Unused, Packet
  <2>3. QED
    BY <2>1, <2>2, SameSent
<1>3. CASE ResetBegin
  BY <1>1, <1>3, SamePlace, SameSent DEF ResetBegin, ringVars, hwVars, HwAt
<1>4. CASE ResetQueue
  BY <1>4 DEF ResetQueue, NoPackets, Unused, AtRest, SentFirst, Packet, sendVars
<1>5. QED
  BY <1>2, <1>3, <1>4 DEF Control, t7xx_cldma_switch_cfg, Start, ExClearTx, Flushed, Resume
-----------------------------------------------------------------------------
(* The queue at rest                                                         *)

LEMMA RestStays ==
    ASSUME TxInv, AtRest, ctl # "up", orderly', Next, ~Control
    PROVE  SentFirst' /\ AtRest' /\ ctl' = ctl
<1>1. /\ ~txq_active /\ pc \in [Senders -> SendPcs] /\ hwo \in [Slots -> BOOLEAN] /\ skb \in [Slots -> Nat]
      /\ \A i \in Slots : ~hwo[i]
      /\ hwCur \in Slots \cup {NULL}
      /\ ~hwOn
  BY DEF TxInv, ActiveUp, TypeOK, ThreadTypeOK, RingTypeOK, DeviceTypeOK, AtRest
<1>2. CASE \E s \in Senders : Send(s)
  <2> PICK s \in Senders : Send(s)
    BY <1>2
  <2>1. ~SendPlace(s) /\ ~SendKick(s)
    BY <1>1 DEF SendPlace, SendKick, AtRest
  <2>2. /\ UNCHANGED <<skb, hwo, tx_next, txq_started, isr, workPc, ctl>>
        /\ pc'[s] # "kick" /\ \A t \in Senders : t # s => pc'[t] = pc[t]
    BY <1>1, <2>1 DEF Send, SendBegin, SendFull, SendResume, SendWoken, SendGivesUp, SendOops, ringVars, NotSenders,
                workVars, Goes
  <2>3. ~hwOn'
    <3>1. CASE SendResume(s)
      BY <1>1, <3>1, TxRingAssumption DEF SendResume, t7xx_cldma_hw_resume_queue, HwContinue
    <3>2. CASE ~SendResume(s)
      BY <1>1, <2>1, <3>2 DEF Send, SendBegin, SendFull, SendWoken, SendGivesUp, SendOops, hwVars
    <3>3. QED
      BY <3>1, <3>2
  <2>4. QED
    BY <1>1, <2>2, <2>3 DEF AtRest, SentFirst, Packet
<1>3. CASE HwSend \/ HwStarve \/ t7xx_cldma_irq_work_cb \/ IsrEmpty \/ IsrEnd
  <2>1. t7xx_cldma_irq_work_cb \/ IsrEnd
    BY <1>1, <1>3 DEF HwSend, HwStarve, IsrEmpty, AtRest
  <2>2. UNCHANGED <<skb, hwo, tx_next, txq_started, hwOn, pc, workPc, ctl>> /\ isr' # "empty"
    BY <1>1, <2>1 DEF t7xx_cldma_irq_work_cb, IsrEnd, ringVars, ctrlVars, hwVars, sendVars, workVars
  <2>3. QED
    BY <1>1, <2>2 DEF AtRest, SentFirst, Packet
<1>4. CASE Work
  <2>1. UNCHANGED <<hwo, tx_next, txq_started, hwOn, isr, ctl>> /\ workPc' # "empty"
    BY <1>1, <1>4 DEF Work, WorkBegin, WorkCollect, WorkStatus, WorkEmpty, WorkEnd, ringVars, ctrlVars, hwVars, AtRest
  <2>2. \A s \in Senders : pc'[s] # "kick"
    BY <1>1, <1>4 DEF Work, WorkBegin, WorkCollect, WorkStatus, WorkEmpty, WorkEnd, WakeUp, sendVars, AtRest
  <2>3. \A i \in Slots : Packet(i)' => Packet(i)
    BY <1>1, <1>4 DEF Work, WorkBegin, WorkCollect, WorkStatus, WorkEmpty, WorkEnd, ringVars, Packet, NoSkb
  <2>4. QED
    BY <1>1, <2>1, <2>2, <2>3 DEF AtRest, SentFirst
<1>5. QED
  BY <1>2, <1>3, <1>4 DEF Next, Steps

LEMMA RestControl ==
    ASSUME TxInv, AtRest, ctl # "up", orderly', Control
    PROVE  SentFirst' /\ ((ctl' = "up" /\ AtOldest') \/ (ctl' # "up" /\ AtRest'))
<1>1. /\ ~txq_active /\ hwo \in [Slots -> BOOLEAN] /\ skb \in [Slots -> Nat]
      /\ \A i \in Slots : ~hwo[i]
      /\ ~hwOn
  BY DEF TxInv, ActiveUp, TypeOK, RingTypeOK, AtRest
<1>2. CASE Start
  <2>1. /\ tx_next \in Slots /\ UNCHANGED <<skb, hwo, tx_next, budget, hwOn>> /\ ctl' = "up"
        /\ hwStart' = tr_done /\ txq_started' = FALSE /\ \A i \in Slots : ~Packet(i)
    BY <1>2 DEF Start, t7xx_cldma_start, AtRest, ringVars
  <2>2. /\ tr_done \in Slots /\ (tr_done = tx_next \/ Age(tr_done) = Used)
        /\ Age(tr_done) \in 1 .. N /\ Used \in 0 .. N
    BY <2>1, UsedAge, Ages, TxRingAssumption DEF TxInv, TypeOK, RingTypeOK, Used
  <2>3. PICK at \in Slots : at = tr_done /\ at = HwAt'
    BY <2>1, <2>2 DEF HwAt
  <2>4. Age(at)' = Age(at) /\ Used' = Used
    BY <2>1 DEF Used, Age
  <2>5. at = tx_next' \/ Age(at)' <= Used'
    BY <2>1, <2>2, <2>3, <2>4
  <2>6. QED
    BY <1>1, <2>1, <2>2, <2>3, <2>5 DEF AtOldest, SentFirst, Packet
<1>3. CASE Resume
  <2>1. /\ tx_next \in Slots /\ UNCHANGED <<skb, hwo, tx_next, budget, hwOn, txq_started>> /\ ~txq_started
        /\ hwStart' = tx_next /\ ctl' = "up"
    BY <1>3 DEF Resume, t7xx_cldma_resume_early, AtRest, ringVars
  <2>2. HwAt' = tx_next'
    BY <2>1 DEF HwAt
  <2>3. QED
    BY <1>1, <2>1, <2>2 DEF AtOldest, SentFirst, Packet
<1>4. CASE t7xx_cldma_switch_cfg \/ ExClearTx
  <2>1. /\ NoPackets /\ tx_next' = 0 /\ ctl' \in {"init", "ex_cleared"}
        /\ UNCHANGED <<hwOn, pc, isr, workPc, txq_started>>
    BY <1>4 DEF t7xx_cldma_switch_cfg, t7xx_cldma_late_init, ExClearTx, t7xx_cldma_clear_txq, t7xx_cldma_q_reset,
                hwVars, sendVars, workVars, ctrlVars
  <2>2. 0 \in Slots
    BY TxRingAssumption DEF Slots
  <2>3. QED
    BY <1>1, <2>1, <2>2 DEF AtRest, NoPackets, SentFirst, Packet
<1>5. CASE ResetQueue
  BY <1>5 DEF ResetQueue, NoPackets, Unused, AtRest, SentFirst, Packet, sendVars
<1>6. CASE t7xx_cldma_stop \/ Flushed \/ ResetBegin
  <2>1. UNCHANGED <<skb, hwo, tx_next, pc, isr, workPc>>
    BY <1>6 DEF t7xx_cldma_stop, Flushed, ResetBegin, ringVars, sendVars, workVars
  <2>2. ~hwOn'
    BY <1>1, <1>6 DEF t7xx_cldma_stop, Flushed, ResetBegin, hwVars
  <2>3. \/ ctl = "ex_cleared" /\ ctl' = "ex_flush"
        \/ ctl = "ex_flush" /\ ctl' = "ex_reset"
        \/ ctl' \in {"flush", "stopped", "reset"}
    BY <1>6 DEF t7xx_cldma_stop, Flushed, ResetBegin
  <2>4. QED
    BY <1>1, <2>1, <2>2, <2>3 DEF AtRest, SentFirst, Packet
<1>7. QED
  BY <1>2, <1>3, <1>4, <1>5, <1>6 DEF Control, ExStopTx, Suspend, AtRest
-----------------------------------------------------------------------------
(* OrderInv is inductive                                                     *)

LEMMA OrderInit == Init => OrderInv
<1> SUFFICES ASSUME Init PROVE OrderInv
  OBVIOUS
<1>1. \A i \in Slots : skb[i] = NoSkb /\ hwo[i] = FALSE
  BY DEF Init
<1>2. Numbered /\ AgeOrder /\ SentFirst
  BY <1>1 DEF Init, Numbered, AgeOrder, SentFirst, Packet, NoSkb
<1>3. ctl = "down" /\ AtRest
  BY <1>1 DEF Init, AtRest
<1>4. QED
  BY <1>2, <1>3 DEF OrderInv

(* Only a reset that finds the queue unused renews the promise *)
LEMMA Renewal == ASSUME TxInv, Next, orderly' PROVE orderly \/ ResetQueue
<1>1. CASE \E s \in Senders : Send(s)
  BY <1>1 DEF Send, SendBegin, SendPlace, SendKick, SendFull, SendResume, SendWoken, SendGivesUp, SendOops
<1>2. CASE HwSend \/ HwStarve \/ t7xx_cldma_irq_work_cb \/ IsrEmpty \/ IsrEnd
  BY <1>2 DEF HwSend, HwStarve, t7xx_cldma_irq_work_cb, IsrEmpty, IsrEnd, t7xx_cldma_txq_empty_hndl
<1>3. CASE Work
  BY <1>3 DEF Work, WorkBegin, WorkCollect, WorkStatus, WorkEmpty, WorkEnd, t7xx_cldma_txq_empty_hndl
<1>4. CASE Control /\ ~ResetQueue
  BY <1>4 DEF Control, t7xx_cldma_switch_cfg, Start, ExStopTx, ExClearTx, t7xx_cldma_stop, Flushed, Suspend, Resume,
              t7xx_cldma_resume_early, ResetBegin
<1>5. QED
  BY <1>1, <1>2, <1>3, <1>4 DEF Next, Steps

LEMMA OrderStep == TxInv /\ OrderInv /\ [Next]_vars => OrderInv'
<1> SUFFICES ASSUME TxInv, OrderInv, [Next]_vars PROVE OrderInv'
  OBVIOUS
<1>1. CASE UNCHANGED vars
  BY <1>1 DEF vars, ringVars, workVars, ctrlVars, hwVars, intVars, sendVars, OrderInv, Numbered, AgeOrder, SentFirst,
              AtOldest, AtRest, HwAt, Age, Packet, Used
<1>2. CASE Next
  <2>1. Numbered' /\ AgeOrder'
    BY <1>2, NumbersKept DEF OrderInv
  <2>2. ASSUME orderly'
        PROVE  SentFirst' /\ (\/ ctl' \in {"up", "reset"} /\ AtOldest'
                              \/ ctl' # "up" /\ AtRest')
    <3>1. CASE ResetQueue
      BY <2>2, <3>1 DEF ResetQueue, NoPackets, Unused, AtRest, SentFirst, Packet, sendVars
    <3>2. CASE ~ResetQueue
      <4>1. /\ Numbered /\ AgeOrder /\ SentFirst
            /\ \/ ctl \in {"up", "reset"} /\ AtOldest
               \/ ctl # "up" /\ AtRest
        BY <1>2, <2>2, <3>2, Renewal DEF OrderInv
      <4>2. CASE Control
        BY <2>2, <4>1, <4>2, InUseEnds, RestControl
      <4>3. CASE ~Control
        <5>1. CASE ctl # "up" /\ AtRest
          BY <1>2, <2>2, <4>3, <5>1, RestStays
        <5>2. CASE ctl \in {"up", "reset"} /\ AtOldest
          <6>1. ctl' = ctl
            BY <1>2, <4>3 DEF Next, Steps, Send, SendBegin, SendPlace, SendKick, SendFull, SendResume, SendWoken,
                   SendGivesUp, SendOops, NotSenders, HwSend, HwStarve, t7xx_cldma_irq_work_cb, IsrEmpty, IsrEnd, Work,
                   WorkBegin, WorkCollect, WorkStatus, WorkEmpty, WorkEnd
          <6>2. SentFirst' /\ AtOldest'
            BY <1>2, <2>2, <4>1, <4>3, <5>2, InUseSends, InUseRuns DEF Next, Steps
          <6>3. QED
            BY <5>2, <6>1, <6>2
        <5>3. QED
          BY <4>1, <5>1, <5>2
      <4>4. QED
        BY <4>2, <4>3
    <3>3. QED
      BY <3>1, <3>2
  <2>3. QED
    BY <2>1, <2>2 DEF OrderInv
<1>3. QED
  BY <1>1, <1>2

LEMMA InvHolds == Spec => [](TxInv /\ OrderInv)
<1>1. Init => TxInv /\ OrderInv
  BY TxInit, OrderInit
<1>2. TxInv /\ OrderInv /\ [Next]_vars => (TxInv /\ OrderInv)'
  BY TxStep, OrderStep
<1>3. QED
  BY <1>1, <1>2, PTL DEF Spec
-----------------------------------------------------------------------------
(* Every step is one of the abstract channel, or none for it.                *)

UnderWay == {skb[i] : i \in {j \in Slots : hwo[j]}}

(* The device sends the packet it stands at *)
LEMMA Transmitting == ASSUME TxInv, OrderInv, HwSend PROVE Channel!Next
<1>1. /\ hwo \in [Slots -> BOOLEAN] /\ skb \in [Slots -> Nat] /\ N \in Nat
      /\ hwCur \in Slots /\ hwOn /\ hwo[hwCur] /\ OwnedAreKept /\ RingIntact
  BY TxRingAssumption DEF TxInv, TypeOK, RingTypeOK, DeviceTypeOK, HwPlaced, HwSend
<1>2. Packet(hwCur) /\ \A i \in Slots : hwo[i] => Packet(i)
  BY <1>1 DEF OwnedAreKept, Packet
<1>3. tx_next \in Slots
  BY <1>1, <1>2 DEF RingIntact, Packet, TxInv, TypeOK, RingTypeOK
<1>4. /\ hwo' = [hwo EXCEPT ![hwCur] = FALSE]
      /\ UNCHANGED <<skb, placed, orderly>>
  BY DEF HwSend
<1>5. ASSUME NEW i \in Slots, hwo[i], i # hwCur PROVE skb[i] # skb[hwCur]
  <2>1. Age(i) # Age(hwCur) /\ Age(i) \in 1 .. N /\ Age(hwCur) \in 1 .. N
    BY <1>1, <1>3, <1>5, Ages
  <2>2. Age(i) < Age(hwCur) \/ Age(hwCur) < Age(i)
    BY <1>1, <2>1
  <2>3. QED
    BY <1>1, <1>2, <1>5, <2>2 DEF OrderInv, AgeOrder
<1>6. UnderWay' = UnderWay \ {skb[hwCur]}
  BY <1>1, <1>4, <1>5 DEF UnderWay
<1>7. ASSUME orderly, NEW i \in Slots, hwo[i] PROVE skb[hwCur] <= skb[i]
  <2>1. AtOldest
    BY <1>1, <1>7 DEF OrderInv, AtRest
  <2>2. QED
    BY <1>1, <1>7, <2>1, OldestFirst DEF OrderInv
<1>8. skb[hwCur] \in UnderWay /\ (orderly => \A q \in UnderWay : skb[hwCur] <= q)
  BY <1>1, <1>7 DEF UnderWay
<1>9. PICK p \in UnderWay : p = skb[hwCur]
  BY <1>8
<1>10. Channel!Transmit(p)
  BY <1>4, <1>6, <1>8, <1>9 DEF Channel!Transmit, UnderWay
<1>11. QED
  BY <1>10 DEF Channel!Next, UnderWay

(* A sender puts a packet into the ring, or loses it *)
LEMMA Accepting == ASSUME TxInv, NEW s \in Senders, SendPlace(s) PROVE Channel!Next
<1>1. /\ hwo \in [Slots -> BOOLEAN] /\ skb \in [Slots -> Nat] /\ orderly \in BOOLEAN /\ txq_active \in BOOLEAN
      /\ tx_next \in Slots /\ skb[tx_next] = NoSkb /\ OwnedAreKept
  BY DEF TxInv, TypeOK, RingTypeOK, ThreadTypeOK, SendPlace, Room
<1>2. ~hwo[tx_next] /\ placed' = placed + 1 /\ orderly' = (orderly /\ txq_active)
  BY <1>1 DEF OwnedAreKept, SendPlace, t7xx_cldma_gpd_handle_tx_request
<1>3. CASE t7xx_cldma_gpd_handle_tx_request /\ txq_active
  <2>1. /\ skb' = [skb EXCEPT ![tx_next] = placed'] /\ hwo' = [hwo EXCEPT ![tx_next] = TRUE]
        /\ orderly' = orderly
    BY <1>1, <1>2, <1>3 DEF t7xx_cldma_gpd_handle_tx_request
  <2>2. UnderWay' = UnderWay \cup {placed'}
    BY <1>1, <1>2, <2>1 DEF UnderWay
  <2>3. QED
    BY <1>2, <2>1, <2>2 DEF Channel!Next, Channel!Accept, UnderWay
<1>4. CASE ~(t7xx_cldma_gpd_handle_tx_request /\ txq_active)
  <2>1. UnderWay' = UnderWay
    <3>1. hwo' = hwo /\ \A i \in Slots : hwo[i] => skb'[i] = skb[i]
      BY <1>1, <1>2, <1>4 DEF SendPlace, t7xx_cldma_gpd_handle_tx_request
    <3>2. QED
      BY <3>1 DEF UnderWay
  <2>2. orderly' \in {orderly, FALSE}
    BY <1>1, <1>2
  <2>3. QED
    BY <1>2, <2>1, <2>2 DEF Channel!Next, Channel!Lose, UnderWay
<1>5. QED
  BY <1>3, <1>4

LEMMA ChannelStep == TxInv /\ TxInv' /\ OrderInv /\ [Next]_vars => [Channel!Next]_Channel!vars
<1> SUFFICES ASSUME TxInv, TxInv', OrderInv, [Next]_vars PROVE [Channel!Next]_Channel!vars
  OBVIOUS
<1>0. orderly \in BOOLEAN /\ orderly' \in BOOLEAN /\ hwo \in [Slots -> BOOLEAN] /\ skb \in [Slots -> Nat]
  BY DEF TxInv, TypeOK, ThreadTypeOK, RingTypeOK
<1>1. CASE UNCHANGED vars
  BY <1>1 DEF vars, ringVars, Channel!vars
<1>2. CASE HwSend
  BY <1>2, Transmitting
<1>3. CASE \E s \in Senders : SendPlace(s)
  BY <1>3, Accepting
<1>4. CASE NoPackets /\ placed' = placed
  <2>1. UnderWay' = {}
    BY <1>4 DEF NoPackets, UnderWay
  <2>2. QED
    BY <1>0, <1>4, <2>1 DEF Channel!Next, Channel!Drop, UnderWay
<1>5. CASE UnderWay' = UnderWay /\ placed' = placed
  <2>1. CASE orderly' = orderly
    BY <1>5, <2>1 DEF Channel!vars, UnderWay
  <2>2. CASE orderly' # orderly
    <3>1. Next
      BY <2>2, <1>1 DEF vars
    <3>2. orderly' = FALSE \/ ResetQueue
      BY <1>0, <2>2, <3>1, Renewal
    <3>3. CASE orderly' = FALSE
      BY <1>5, <3>3 DEF Channel!Next, Channel!CutOff, UnderWay
    <3>4. CASE ResetQueue
      BY <1>4, <3>4 DEF ResetQueue
    <3>5. QED
      BY <3>2, <3>3, <3>4
  <2>3. QED
    BY <2>1, <2>2
<1>6. CASE Next
  <2>1. CASE WorkCollect
    <3>1. hwo' = hwo /\ placed' = placed /\ \A i \in Slots : hwo[i] => skb'[i] = skb[i]
      BY <1>0, <2>1 DEF WorkCollect, Collectable
    <3>2. UnderWay' = UnderWay
      BY <3>1 DEF UnderWay
    <3>3. QED
      BY <1>5, <3>1, <3>2
  <2>2. CASE UNCHANGED <<skb, hwo, tx_next, placed>>
    BY <1>5, <2>2 DEF UnderWay
  <2>3. QED
    BY <1>2, <1>3, <1>4, <1>6, <2>1, <2>2, PacketSteps
<1>7. QED
  BY <1>1, <1>6

(* t7xx_hif_cldma.c implements the abstract channel: a transmit queue's      *)
(* packets reach the modem in the order in which t7xx_cldma_send_skb() put   *)
(* them into the ring, none twice, unless it was stopped, put to sleep or    *)
(* reset under somebody's hands                                              *)
THEOREM TxInOrderHolds == Spec => InOrder
<1>1. Init => Channel!Init
  BY DEF Init, Channel!Init
<1>2. QED
  BY <1>1, ChannelStep, InvHolds, PTL DEF Spec, InOrder, Channel!Spec
=============================================================================
