---------------------------- MODULE CldmaRxProofs ----------------------------
(***************************************************************************)
(* Proofs about CldmaRx, and the port behind it, for every length of the   *)
(* ring and of the port's list.  RxInv is inductive: the types need the    *)
(* counting of references and of where the queue has its ring, and the     *)
(* ring is intact because the work item's place in it is known.            *)
(***************************************************************************)
EXTENDS CldmaRx, TLAPS

(* The queue has its ring from the handshake to the reset, and only a queue  *)
(* that is started is at a request                                           *)
Placed ==
    /\ ctl \in {"down", "join", "ports"} <=> tr_done = NULL
    /\ tr_done = NULL <=> rx_refill = NULL
    /\ rxq_active => ctl \in {"up", "exit_join", "exit_ports"} /\ hwCur # NULL
    /\ hwOn => rxq_active

(* A buffer given back by the device holds a message *)
Filled == \A i \in Slots : ~hwo[i] /\ skb[i] => data[i] # NoMsg

(* Between two steps of the work item that belong together *)
Midway ==
    /\ workPc = "advance" => tr_done # NULL /\ req # NULL
    /\ workPc = "refill" => tr_done # NULL
    /\ orderly /\ workPc = "advance" => req = tr_done /\ skb[req] /\ ~hwo[req]
    /\ orderly /\ workPc = "refill" => ~skb[rx_refill]

RxInv == TypeOK /\ WorkHoldsPower /\ Placed /\ Filled /\ Midway /\ RingIntact
-----------------------------------------------------------------------------
LEMMA SuccSlot == ASSUME NEW i \in Slots PROVE Succ(i) \in Slots
BY RxRingAssumption DEF Slots, Succ

LEMMA NullSlot == NULL \notin Slots /\ 0 \in Slots /\ (\A i \in Slots : i # NULL)
BY RxRingAssumption DEF Slots, NULL

LEMMA RxInit == Init => RxInv
<1> SUFFICES ASSUME Init PROVE RxInv
  OBVIOUS
<1>1. PortTypeOK
  <2>1. <<>> \in Seq(Nat \ {NoMsg}) /\ Len(<<>>) = 0 /\ MaxLen \in Nat
    BY PortAssumption
  <2>2. rx_length_th \in {0, MaxLen} /\ thread \in {"none", "wait", "handle"} /\ message \in Nat /\ stopping \in BOOLEAN
    BY DEF Init, PortInit, NoMsg
  <2>3. QED
    BY <2>1, <2>2 DEF Init, PortInit, PortTypeOK
<1>2. RingTypeOK
  BY RxBoundAssumption DEF Init, RingTypeOK, NoMsg
<1>3. WorkTypeOK
  <2>1. count \in 0 .. N /\ refs \in Nat
    BY RxRingAssumption DEF Init
  <2>2. QED
    BY <2>1 DEF Init, WorkTypeOK, WorkPcs
<1>4. DeviceTypeOK
  BY DEF Init, DeviceTypeOK
<1>5. ThreadTypeOK
  <2>1. written \in 0 .. MaxWritten /\ failures \in 0 .. MaxFailures
    BY RxBoundAssumption DEF Init
  <2>2. QED
    BY <2>1 DEF Init, ThreadTypeOK, CtlPcs
<1>6. WorkHoldsPower /\ Placed /\ Filled /\ Midway /\ RingIntact
  BY DEF Init, WorkHoldsPower, Placed, Filled, Midway, RingIntact
<1>7. QED
  BY <1>1, <1>2, <1>3, <1>4, <1>5, <1>6 DEF RxInv, TypeOK
-----------------------------------------------------------------------------
(* The parts of RxInv rest on few variables *)
LEMMA RingFrame ==
    ASSUME RingTypeOK, Filled, RingIntact, UNCHANGED <<ringVars, orderly>>
    PROVE  RingTypeOK' /\ Filled' /\ RingIntact'
BY DEF RingTypeOK, Filled, RingIntact, Gap, InGap, ringVars

LEMMA WorkFrame ==
    ASSUME WorkTypeOK, WorkHoldsPower, UNCHANGED <<workVars, refs>>
    PROVE  WorkTypeOK' /\ WorkHoldsPower'
BY DEF WorkTypeOK, WorkHoldsPower, workVars

LEMMA PortFrame == ASSUME PortTypeOK, UNCHANGED portVars PROVE PortTypeOK'
BY DEF PortTypeOK, portVars

LEMMA DeviceFrame == ASSUME DeviceTypeOK, UNCHANGED <<hwVars, intVars>> PROVE DeviceTypeOK'
BY DEF DeviceTypeOK, hwVars, intVars

LEMMA PlacedFrame ==
    ASSUME Placed, UNCHANGED <<ctl, tr_done, rx_refill, rxq_active, hwVars>>
    PROVE  Placed'
BY DEF Placed, hwVars

LEMMA MidwayFrame ==
    ASSUME Midway, UNCHANGED <<workVars, skb, hwo, tr_done, rx_refill, orderly>>
    PROVE  Midway'
BY DEF Midway, workVars
-----------------------------------------------------------------------------
(* Messages keep their type on their way through the port *)
LEMMA EnqueueKeeps ==
    ASSUME PortTypeOK, NEW p \in Nat \ {NoMsg}, t7xx_port_proxy_recv_skb(p)
    PROVE  PortTypeOK'
<1>1. CASE UNCHANGED portVars
  BY <1>1, PortFrame
<1>2. CASE t7xx_port_enqueue_skb(p)
  <2>1. rx_skb_list' = Append(rx_skb_list, p) /\ rx_skb_list \in Seq(Nat \ {NoMsg}) /\ rx_length_th \in {0, MaxLen}
        /\ MaxLen \in Nat /\ ~ (Len(rx_skb_list) >= rx_length_th)
    BY <1>2, PortAssumption DEF t7xx_port_enqueue_skb, NoRoom, PortTypeOK
  <2>2. rx_skb_list' \in Seq(Nat \ {NoMsg}) /\ Len(rx_skb_list') = Len(rx_skb_list) + 1
    BY <2>1
  <2>3. Len(rx_skb_list') <= MaxLen
    BY <2>1, <2>2
  <2>4. QED
    BY <1>2, <2>2, <2>3 DEF t7xx_port_enqueue_skb, PortTypeOK
<1>3. QED
  BY <1>1, <1>2 DEF t7xx_port_proxy_recv_skb

LEMMA ThreadKeeps == ASSUME PortTypeOK, Thread PROVE PortTypeOK'
<1>1. CASE ThreadTakes
  <2>1. rx_skb_list \in Seq(Nat \ {NoMsg}) /\ rx_skb_list # <<>> /\ MaxLen \in Nat
    BY <1>1, PortAssumption DEF ThreadTakes, PortTypeOK
  <2>2. /\ Tail(rx_skb_list) \in Seq(Nat \ {NoMsg}) /\ Len(Tail(rx_skb_list)) = Len(rx_skb_list) - 1
        /\ Head(rx_skb_list) \in Nat \ {NoMsg} /\ Len(rx_skb_list) \in Nat
    BY <2>1
  <2>3. QED
    BY <1>1, <2>1, <2>2 DEF ThreadTakes, PortTypeOK
<1>2. CASE control_msg_handler \/ ThreadStops
  BY <1>2 DEF control_msg_handler, ThreadStops, PortTypeOK, NoMsg
<1>3. QED
  BY <1>1, <1>2 DEF Thread

LEMMA PortControlKeeps ==
    ASSUME PortTypeOK, UninitStops \/ UninitPurges \/ port_ctl_init
    PROVE  PortTypeOK'
<1>1. <<>> \in Seq(Nat \ {NoMsg}) /\ Len(<<>>) = 0 /\ MaxLen \in Nat
  BY PortAssumption
<1>2. CASE UninitStops
  BY <1>2 DEF PortTypeOK, UninitStops
<1>3. CASE UninitPurges \/ port_ctl_init
  <2>1. rx_skb_list' = <<>> /\ rx_length_th' \in {0, MaxLen} /\ thread' \in {"none", "wait", "handle"}
    BY <1>3 DEF PortTypeOK, UninitPurges, port_ctl_init
  <2>2. message' \in Nat /\ stopping' \in BOOLEAN
    <3>1. CASE UninitPurges
      BY <3>1 DEF PortTypeOK, UninitPurges
    <3>2. CASE port_ctl_init
      BY <3>2 DEF PortTypeOK, port_ctl_init, NoMsg
    <3>3. QED
      BY <1>3, <3>1, <3>2
  <2>3. QED
    BY <1>1, <2>1, <2>2 DEF PortTypeOK
<1>4. QED
  BY <1>2, <1>3
-----------------------------------------------------------------------------
(* A step of the device *)
LEMMA WriteKeeps == ASSUME RxInv, HwWrite PROVE RxInv'
<1>0. /\ PortTypeOK /\ RingTypeOK /\ WorkTypeOK /\ DeviceTypeOK /\ ThreadTypeOK
      /\ WorkHoldsPower /\ Placed /\ Filled /\ Midway /\ RingIntact
  BY DEF RxInv, TypeOK
<1>1. hwCur \in Slots /\ hwo[hwCur] /\ written' = written + 1 /\ written' \in 1 .. MaxWritten
  BY <1>0, RxBoundAssumption DEF HwWrite, Placed, DeviceTypeOK, ThreadTypeOK
<1>2. PortTypeOK' /\ WorkTypeOK' /\ WorkHoldsPower'
  BY <1>0, PortFrame, WorkFrame DEF HwWrite
<1>3. /\ data' = [data EXCEPT ![hwCur] = written'] /\ hwo' = [hwo EXCEPT ![hwCur] = FALSE]
      /\ UNCHANGED <<skb, tr_done, rx_refill, orderly>>
  BY DEF HwWrite
<1>4. RingTypeOK' /\ Filled'
  BY <1>0, <1>1, <1>3 DEF RingTypeOK, Filled, NoMsg
<1>5. RingIntact'
  BY <1>0, <1>1, <1>3 DEF RingTypeOK, RingIntact, Gap, InGap
<1>6. DeviceTypeOK' /\ Placed'
  BY <1>0, <1>1, <1>3, SuccSlot, NullSlot DEF HwWrite, DeviceTypeOK, Placed, intVars, RingTypeOK
<1>7. Midway'
  BY <1>0, <1>1, <1>3 DEF HwWrite, Midway, RingTypeOK, WorkTypeOK, workVars
<1>8. ThreadTypeOK'
  BY <1>0, <1>1, RxBoundAssumption DEF HwWrite, ThreadTypeOK
<1>9. QED
  BY <1>2, <1>4, <1>5, <1>6, <1>7, <1>8 DEF RxInv, TypeOK

(* A step of the interrupt handler *)
LEMMA IsrKeeps == ASSUME RxInv, t7xx_cldma_irq_work_cb \/ IsrEnd PROVE RxInv'
<1>0. /\ PortTypeOK /\ RingTypeOK /\ WorkTypeOK /\ DeviceTypeOK /\ ThreadTypeOK
      /\ WorkHoldsPower /\ Placed /\ Filled /\ Midway /\ RingIntact
  BY DEF RxInv, TypeOK
<1>1. UNCHANGED <<portVars, ringVars, workPc, req, count, over_budget, barrier, rxq_active, hwOn, hwCur, ctl, histVars>>
  BY DEF t7xx_cldma_irq_work_cb, IsrEnd, workVars, hwVars
<1>2. PortTypeOK' /\ RingTypeOK' /\ Filled' /\ RingIntact'
  BY <1>0, <1>1, PortFrame, RingFrame DEF histVars
<1>3. WorkTypeOK' /\ WorkHoldsPower'
  <2>1. CASE refs' = refs + 1 /\ pending' = TRUE
    BY <1>0, <1>1, <2>1 DEF WorkTypeOK, WorkHoldsPower
  <2>2. CASE UNCHANGED <<refs, pending>>
    BY <1>0, <1>1, <2>2, WorkFrame DEF workVars
  <2>3. QED
    BY <2>1, <2>2 DEF t7xx_cldma_irq_work_cb, IsrEnd, workVars
<1>4. DeviceTypeOK'
  BY <1>0, <1>1 DEF t7xx_cldma_irq_work_cb, IsrEnd, DeviceTypeOK, hwVars
<1>5. Placed' /\ Midway' /\ ThreadTypeOK'
  BY <1>0, <1>1 DEF Placed, Midway, ThreadTypeOK, ringVars, histVars
<1>6. QED
  BY <1>2, <1>3, <1>4, <1>5 DEF RxInv, TypeOK
-----------------------------------------------------------------------------
(* What collecting and refilling do to the ring *)
LEMMA RingAdvance ==
    ASSUME RingTypeOK, Filled, RingIntact, Midway, WorkAdvance, req \in Slots, tr_done \in Slots, rx_refill \in Slots
    PROVE  /\ RingTypeOK' /\ Filled' /\ RingIntact'
           /\ orderly => ~skb'[rx_refill]
<1>0. /\ N \in Nat /\ N > 0
      /\ skb' = [skb EXCEPT ![req] = FALSE] /\ data' = [data EXCEPT ![req] = NoMsg] /\ tr_done' = Succ(req)
      /\ UNCHANGED <<hwo, rx_refill, orderly>> /\ workPc = "advance"
  BY RxRingAssumption DEF WorkAdvance
<1>1. RingTypeOK' /\ Filled' /\ NoMsg \in 0 .. MaxWritten
  BY <1>0, SuccSlot, RxBoundAssumption DEF RingTypeOK, Filled, NoMsg
<1>2. ASSUME orderly PROVE ~skb'[rx_refill] /\ RingIntact'
  <2>1. req = tr_done /\ skb[tr_done] /\ ~hwo[tr_done] /\ tr_done # NULL /\ tr_done' # NULL
    BY <1>0, <1>2, SuccSlot, NullSlot DEF Midway
  <2>2. \A i \in Slots : skb[i] <=> ~InGap(i)
    BY <1>2, <2>1 DEF RingIntact
  <2>0. \A i \in Slots : (hwo'[i] => skb'[i] /\ data'[i] = NoMsg) /\ (data'[i] # NoMsg => skb'[i])
    BY <1>0, <1>2, <2>1 DEF RingIntact, RingTypeOK
  <2>3. ~skb'[rx_refill]
    BY <1>0, <2>1, <2>2 DEF InGap, Gap, Dist, Slots, RingTypeOK
  <2>4. CASE Succ(tr_done) # rx_refill
    <3>1. \A i \in Slots : InGap(i)' <=> InGap(i) \/ i = tr_done
      BY <1>0, <2>1, <2>4 DEF InGap, Gap, Dist, Slots, Succ
    <3>2. \A i \in Slots : skb'[i] <=> ~InGap(i)'
      BY <1>0, <2>1, <2>2, <3>1 DEF RingTypeOK
    <3>3. QED
      BY <2>0, <2>3, <3>2 DEF RingIntact
  <2>5. CASE Succ(tr_done) = rx_refill
    <3>1. Gap' = 0
      BY <1>0, <2>1, <2>5 DEF Gap, Dist, Slots
    <3>2. \A i \in Slots : i = tr_done \/ InGap(i)
      BY <1>0, <2>1, <2>5 DEF InGap, Gap, Dist, Slots, Succ
    <3>3. \A i \in Slots : ~skb'[i]
      BY <1>0, <2>1, <2>2, <3>2 DEF RingTypeOK
    <3>4. QED
      BY <2>0, <3>1, <3>3 DEF RingIntact
  <2>6. QED
    BY <2>3, <2>4, <2>5
<1>3. QED
  BY <1>0, <1>1, <1>2 DEF RingIntact

LEMMA RingRefill ==
    ASSUME RingTypeOK, Filled, RingIntact, Midway, workPc = "refill", Refill, rx_refill \in Slots, tr_done \in Slots,
           UNCHANGED <<data, tr_done, orderly>>
    PROVE  RingTypeOK' /\ Filled' /\ RingIntact'
<1>0. /\ N \in Nat /\ N > 0
      /\ skb' = [skb EXCEPT ![rx_refill] = TRUE] /\ hwo' = [hwo EXCEPT ![rx_refill] = TRUE]
      /\ rx_refill' = Succ(rx_refill)
  BY RxRingAssumption DEF Refill
<1>1. RingTypeOK' /\ Filled'
  BY <1>0, SuccSlot DEF RingTypeOK, Filled
<1>2. ASSUME orderly PROVE RingIntact'
  <2>1. ~skb[rx_refill] /\ data[rx_refill] = NoMsg /\ tr_done # NULL
    BY <1>2, NullSlot DEF RingIntact, Midway
  <2>2. \A i \in Slots : (hwo'[i] => skb'[i] /\ data'[i] = NoMsg) /\ (data'[i] # NoMsg => skb'[i])
    BY <1>0, <1>2, <2>1 DEF RingIntact, RingTypeOK
  <2>3. \A i \in Slots : skb'[i] <=> skb[i] \/ i = rx_refill
    BY <1>0 DEF RingTypeOK
  <2>4. CASE Gap # 0
    <3>1. \A i \in Slots : skb[i] <=> ~InGap(i)
      BY <1>2, <2>1, <2>4 DEF RingIntact
    <3>2. \A i \in Slots : InGap(i)' <=> InGap(i) /\ i # rx_refill
      BY <1>0, <2>4 DEF InGap, Gap, Dist, Slots, Succ
    <3>3. \A i \in Slots : skb'[i] <=> ~InGap(i)'
      BY <2>3, <3>1, <3>2
    <3>4. QED
      BY <2>2, <3>3 DEF RingIntact
  <2>5. CASE Gap = 0
    <3>1. rx_refill = tr_done
      BY <1>0, <2>5 DEF Gap, Dist, Slots
    <3>2. \A i \in Slots : ~InGap(i)
      BY <1>0, <2>5 DEF InGap, Dist, Slots
    <3>3. \A i \in Slots : ~skb[i]
      BY <1>2, <2>1, <3>2 DEF RingIntact
    <3>4. \A i \in Slots : InGap(i)' <=> i # rx_refill
      BY <1>0, <3>1 DEF InGap, Gap, Dist, Slots, Succ
    <3>5. \A i \in Slots : skb'[i] <=> ~InGap(i)'
      BY <2>3, <3>3, <3>4
    <3>6. QED
      BY <2>2, <3>5 DEF RingIntact
  <2>6. QED
    BY <2>4, <2>5
<1>3. QED
  BY <1>1, <1>2 DEF RingIntact

(* The ring made anew *)
LEMMA RingReset ==
    ASSUME t7xx_cldma_rx_ring_init, t7xx_cldma_q_reset
    PROVE  RingTypeOK' /\ Filled' /\ RingIntact'
<1>0. N \in Nat /\ N > 0 /\ MaxWritten \in Nat /\ 0 \in Slots
  BY RxRingAssumption, RxBoundAssumption, NullSlot
<1>1. RingTypeOK'
  BY <1>0 DEF RingTypeOK, t7xx_cldma_rx_ring_init, t7xx_cldma_q_reset, NoMsg
<1>2. Filled'
  BY DEF Filled, t7xx_cldma_rx_ring_init
<1>3. \A i \in Slots : ~InGap(i)'
  BY <1>0 DEF t7xx_cldma_q_reset, InGap, Gap, Dist, Slots
<1>4. RingIntact'
  BY <1>3 DEF RingIntact, t7xx_cldma_rx_ring_init
<1>5. QED
  BY <1>1, <1>2, <1>4
-----------------------------------------------------------------------------
(* A step of the work item *)
LEMMA WorkKeeps == ASSUME RxInv, Work PROVE RxInv'
<1>0. /\ PortTypeOK /\ RingTypeOK /\ WorkTypeOK /\ DeviceTypeOK /\ ThreadTypeOK
      /\ WorkHoldsPower /\ Placed /\ Filled /\ Midway /\ RingIntact
  BY DEF RxInv, TypeOK
<1> USE DEF Work, Goes
<1>1. UNCHANGED <<rxq_active, irqOn, isr, ctl, written, orderly>>
  BY DEF WorkBegin, WorkNothing, WorkTake, WorkAdvance, WorkRefill, WorkStatus, WorkDecide, WorkEnd, NotWork
<1>2. PortTypeOK'
  <2>1. CASE WorkTake
    <3>1. CASE UNCHANGED portVars
      BY <1>0, <3>1, PortFrame
    <3>2. CASE t7xx_port_proxy_recv_skb(data[tr_done])
      <4>1. data[tr_done] \in Nat \ {NoMsg}
        BY <1>0, <2>1, RxBoundAssumption DEF WorkTake, Written, Filled, RingTypeOK
      <4>2. QED
        BY <1>0, <3>2, <4>1, EnqueueKeeps
    <3>3. QED
      BY <2>1, <3>1, <3>2 DEF WorkTake
  <2>2. CASE ~WorkTake
    BY <1>0, <2>2, PortFrame DEF WorkBegin, WorkNothing, WorkAdvance, WorkRefill, WorkStatus, WorkDecide, WorkEnd
  <2>3. QED
    BY <2>1, <2>2
<1>3. RingTypeOK' /\ Filled' /\ RingIntact' /\ Midway'
  <2>1. CASE WorkAdvance
    <3>1. req \in Slots /\ tr_done \in Slots /\ rx_refill \in Slots
      BY <1>0, <2>1 DEF WorkAdvance, Midway, Placed, RingTypeOK, WorkTypeOK
    <3>2. RingTypeOK' /\ Filled' /\ RingIntact' /\ (orderly => ~skb'[rx_refill])
      BY <1>0, <2>1, <3>1, RingAdvance
    <3>3. workPc' = "refill" /\ tr_done' # NULL /\ rx_refill' = rx_refill
      BY <2>1, <3>1, SuccSlot, NullSlot DEF WorkAdvance
    <3>4. QED
      BY <1>1, <3>2, <3>3 DEF Midway
  <2>2. CASE WorkRefill /\ Refill
    <3>1. tr_done \in Slots /\ rx_refill \in Slots /\ workPc = "refill" /\ UNCHANGED <<data, tr_done>>
      BY <1>0, <2>2 DEF WorkRefill, Midway, RingTypeOK
    <3>2. RingTypeOK' /\ Filled' /\ RingIntact'
      BY <1>0, <1>1, <2>2, <3>1, RingRefill
    <3>3. workPc' \notin {"advance", "refill"}
      BY <2>2 DEF WorkRefill
    <3>4. QED
      BY <3>2, <3>3 DEF Midway
  <2>3. CASE ~WorkAdvance /\ ~(WorkRefill /\ Refill)
    <3>1. UNCHANGED ringVars
      BY <2>3 DEF WorkBegin, WorkNothing, WorkTake, WorkRefill, WorkStatus, WorkDecide, WorkEnd, ringVars
    <3>2. workPc' = "advance" => workPc = "take" /\ tr_done # NULL /\ Written /\ req' = tr_done
      BY <2>3 DEF WorkBegin, WorkNothing, WorkTake, WorkRefill, WorkStatus, WorkDecide, WorkEnd
    <3>3. workPc' # "refill"
      BY <2>3 DEF WorkBegin, WorkNothing, WorkTake, WorkRefill, WorkStatus, WorkDecide, WorkEnd
    <3>4. Midway'
      BY <1>1, <3>1, <3>2, <3>3 DEF Midway, ringVars, Written
    <3>5. QED
      BY <1>0, <1>1, <3>1, <3>4, RingFrame
  <2>4. QED
    BY <2>1, <2>2, <2>3
<1>4. WorkTypeOK' /\ WorkHoldsPower'
  <2>1. N \in Nat /\ N > 0
    BY RxRingAssumption
  <2>2. CASE WorkEnd
    <3>1. workPc # "off" /\ workPc' = "off" /\ count' = 0 /\ over_budget' = FALSE /\ UNCHANGED req
      BY <2>2 DEF WorkEnd
    <3>2. count' \in 0 .. N /\ req' \in Slots \cup {NULL} /\ workPc' \in WorkPcs /\ over_budget' \in BOOLEAN
      <4>1. count' \in 0 .. N
        BY <2>1, <3>1
      <4>2. QED
        BY <1>0, <3>1, <4>1 DEF WorkTypeOK, WorkPcs
    <3>3. refs' \in Nat /\ pending' \in BOOLEAN /\ WorkHoldsPower'
      <4>1. CASE pending' = TRUE /\ UNCHANGED refs
        <5>1. refs' \in Nat /\ pending' \in BOOLEAN
          BY <1>0, <4>1 DEF WorkTypeOK
        <5>2. refs >= 1
          BY <1>0, <3>1 DEF WorkTypeOK, WorkHoldsPower
        <5>3. QED
          BY <3>1, <4>1, <5>1, <5>2 DEF WorkHoldsPower
      <4>2. CASE refs' = refs - 1 /\ UNCHANGED pending
        <5>1. refs >= 1 + (IF pending THEN 1 ELSE 0) /\ refs \in Nat
          BY <1>0, <3>1 DEF WorkTypeOK, WorkHoldsPower
        <5>2. refs' \in Nat
          BY <4>2, <5>1
        <5>3. WorkHoldsPower'
          BY <3>1, <4>2, <5>1 DEF WorkHoldsPower
        <5>4. QED
          BY <1>0, <4>2, <5>2, <5>3 DEF WorkTypeOK
      <4>3. QED
        BY <2>2, <4>1, <4>2 DEF WorkEnd, Again, Return
    <3>4. QED
      BY <3>2, <3>3 DEF WorkTypeOK
  <2>3. CASE WorkBegin
    <3>1. /\ pending = TRUE /\ pending' = FALSE /\ workPc = "off" /\ workPc' = "take" /\ count' = 0
          /\ over_budget' = FALSE /\ UNCHANGED <<req, refs>>
      BY <1>0, <2>3 DEF WorkBegin, WorkTypeOK
    <3>2. refs' >= (IF pending' THEN 1 ELSE 0) + (IF workPc' # "off" THEN 1 ELSE 0)
      BY <1>0, <3>1 DEF WorkHoldsPower
    <3>3. count' \in 0 .. N
      BY <2>1, <3>1
    <3>4. pending' \in BOOLEAN /\ over_budget' \in BOOLEAN /\ workPc' \in WorkPcs
      BY <3>1 DEF WorkPcs
    <3>5. QED
      BY <1>0, <3>1, <3>2, <3>3, <3>4 DEF WorkTypeOK, WorkHoldsPower
  <2>4. CASE ~WorkEnd /\ ~WorkBegin
    <3>1. UNCHANGED <<pending, refs>> /\ workPc # "off" /\ workPc' # "off" /\ workPc' \in WorkPcs
      BY <2>4 DEF WorkNothing, WorkTake, WorkAdvance, WorkRefill, WorkStatus, WorkDecide, WorkPcs
    <3>2. req' \in Slots \cup {NULL}
      BY <1>0, <2>4 DEF WorkNothing, WorkTake, WorkAdvance, WorkRefill, WorkStatus, WorkDecide, WorkTypeOK, RingTypeOK
    <3>3. count' \in 0 .. N
      BY <1>0, <2>1, <2>4 DEF WorkNothing, WorkTake, WorkAdvance, WorkRefill, WorkStatus, WorkDecide, WorkTypeOK
    <3>4. over_budget' \in BOOLEAN
      BY <1>0, <2>4 DEF WorkNothing, WorkTake, WorkAdvance, WorkRefill, WorkStatus, WorkDecide, WorkTypeOK
    <3>5. QED
      BY <1>0, <3>1, <3>2, <3>3, <3>4 DEF WorkTypeOK, WorkHoldsPower
  <2>5. QED
    BY <2>2, <2>3, <2>4
<1>5. DeviceTypeOK' /\ Placed'
  <2>1. tr_done' = NULL <=> tr_done = NULL
    <3>1. CASE WorkAdvance
      BY <1>0, <3>1, SuccSlot, NullSlot DEF WorkAdvance, Midway, WorkTypeOK
    <3>2. CASE ~WorkAdvance
      BY <3>2 DEF WorkBegin, WorkNothing, WorkTake, WorkRefill, WorkStatus, WorkDecide, WorkEnd, ringVars
    <3>3. QED
      BY <3>1, <3>2
  <2>2. rx_refill' = NULL <=> rx_refill = NULL
    <3>1. CASE WorkRefill
      BY <1>0, <3>1, SuccSlot, NullSlot DEF WorkRefill, Refill, RingTypeOK
    <3>2. CASE ~WorkRefill
      BY <3>2 DEF WorkBegin, WorkNothing, WorkTake, WorkAdvance, WorkStatus, WorkDecide, WorkEnd, ringVars
    <3>3. QED
      BY <3>1, <3>2
  <2>3. CASE WorkStatus
    <3>1. UNCHANGED masked
      BY <2>3 DEF WorkStatus
    <3>2. CASE UNCHANGED hwVars
      BY <1>0, <1>1, <2>1, <2>2, <3>1, <3>2 DEF DeviceTypeOK, Placed, hwVars
    <3>3. CASE rxq_active /\ hwOn' = hwo[hwCur] /\ rxInt' = {} /\ UNCHANGED hwCur
      BY <1>0, <1>1, <2>1, <2>2, <3>1, <3>3 DEF DeviceTypeOK, Placed, RingTypeOK
    <3>4. QED
      BY <2>3, <3>2, <3>3 DEF WorkStatus
  <2>4. CASE ~WorkStatus
    <3>1. UNCHANGED hwVars
      BY <2>4 DEF WorkBegin, WorkNothing, WorkTake, WorkAdvance, WorkRefill, WorkDecide, WorkEnd
    <3>2. masked' \in BOOLEAN
      BY <1>0, <2>4 DEF WorkBegin, WorkNothing, WorkTake, WorkAdvance, WorkRefill, WorkDecide, WorkEnd, Again, Return,
                  DeviceTypeOK
    <3>3. QED
      BY <1>0, <1>1, <2>1, <2>2, <3>1, <3>2 DEF DeviceTypeOK, Placed, hwVars
  <2>5. QED
    BY <2>3, <2>4
<1>6. ThreadTypeOK'
  <2>1. barrier' \in {"none", "pending", "running", "done"}
    BY <1>0 DEF WorkBegin, WorkNothing, WorkTake, WorkAdvance, WorkRefill, WorkStatus, WorkDecide, WorkEnd, BarrierPassed,
                ThreadTypeOK
  <2>2. failures' \in 0 .. MaxFailures
    BY <1>0, RxBoundAssumption
       DEF WorkBegin, WorkNothing, WorkTake, WorkAdvance, WorkRefill, WorkStatus, WorkDecide, WorkEnd, ThreadTypeOK
  <2>3. QED
    BY <1>0, <1>1, <2>1, <2>2 DEF ThreadTypeOK
<1>7. QED
  BY <1>2, <1>3, <1>4, <1>5, <1>6 DEF RxInv, TypeOK

(* A step of a controlling thread *)
LEMMA ControlKeeps == ASSUME RxInv, Control PROVE RxInv'
<1>0. /\ PortTypeOK /\ RingTypeOK /\ WorkTypeOK /\ DeviceTypeOK /\ ThreadTypeOK
      /\ WorkHoldsPower /\ Placed /\ Filled /\ Midway /\ RingIntact
  BY DEF RxInv, TypeOK
<1> USE DEF Control, t7xx_port_proxy_set_cfg, t7xx_proxy_init_all_ports, t7xx_cldma_switch_cfg, Start, StartRx, HwContinue,
        ExStopRx, t7xx_cldma_stop, Flushed, ExClearRx, ResetBegin, ResetQueue, t7xx_cldma_suspend_late,
        t7xx_cldma_resume_early, ExitBegin, ExitPurges, NotControl
<1>1. UNCHANGED <<workPc, req, count, over_budget, isr, refs, written>>
  OBVIOUS
<1>2. PortTypeOK'
  <2>1. UNCHANGED portVars \/ UninitStops \/ UninitPurges \/ port_ctl_init
    OBVIOUS
  <2>2. QED
    BY <1>0, <2>1, PortFrame, PortControlKeeps
<1>3. RingTypeOK' /\ Filled' /\ RingIntact' /\ Midway'
  <2>1. CASE t7xx_cldma_switch_cfg \/ (ExClearRx /\ t7xx_cldma_clear_rxq)
    <3>1. RingTypeOK' /\ Filled' /\ RingIntact'
      BY <2>1, RingReset DEF t7xx_cldma_clear_rxq
    <3>2. tr_done' # NULL /\ (orderly' => workPc = "off")
      BY <2>1, NullSlot DEF t7xx_cldma_clear_rxq, t7xx_cldma_q_reset
    <3>3. Midway'
      BY <1>0, <1>1, <3>2 DEF Midway
    <3>4. QED
      BY <3>1, <3>3
  <2>2. CASE ExClearRx /\ ~t7xx_cldma_clear_rxq
    <3>1. PICK i \in Slots : ClearFails(i) /\ orderly' = FALSE
      BY <2>2
    <3>2. RingTypeOK' /\ Filled' /\ tr_done' # NULL
      BY <1>0, <3>1, RxBoundAssumption, NullSlot DEF ClearFails, t7xx_cldma_q_reset, RingTypeOK, Filled, NoMsg
    <3>3. RingIntact' /\ Midway'
      BY <1>0, <1>1, <3>1, <3>2 DEF RingIntact, Midway
    <3>4. QED
      BY <3>2, <3>3
  <2>3. CASE ResetQueue
    <3>1. RingTypeOK' /\ Filled'
      BY <2>3, RxBoundAssumption DEF RingTypeOK, Filled, NoRing, NoMsg
    <3>2. RingIntact' /\ Midway'
      BY <1>1, <2>3 DEF RingIntact, Midway
    <3>3. QED
      BY <3>1, <3>2
  <2>4. CASE Flushed
    <3>1. CASE NoRing /\ orderly' = FALSE /\ UNCHANGED <<tr_done, rx_refill>>
      BY <1>0, <1>1, <3>1, RxBoundAssumption DEF RingTypeOK, Filled, NoRing, NoMsg, RingIntact, Midway
    <3>2. CASE UNCHANGED <<ringVars, orderly>>
      BY <1>0, <1>1, <3>2, RingFrame DEF Midway, ringVars
    <3>3. QED
      BY <2>4, <3>1, <3>2
  <2>5. CASE ~(t7xx_cldma_switch_cfg \/ ExClearRx \/ ResetQueue \/ Flushed)
    <3>1. UNCHANGED ringVars
      BY <2>5
    <3>2. orderly' => orderly
      <4>1. CASE t7xx_cldma_suspend_late
        BY <4>1
      <4>2. CASE ~t7xx_cldma_suspend_late
        BY <2>5, <4>2
      <4>3. QED
        BY <4>1, <4>2
    <3>3. QED
      BY <1>0, <1>1, <3>1, <3>2 DEF RingTypeOK, Filled, RingIntact, Gap, InGap, Midway, ringVars
  <2>6. QED
    BY <2>1, <2>2, <2>3, <2>4, <2>5
<1>4. WorkTypeOK' /\ WorkHoldsPower'
  <2>1. CASE ResetQueue
    <3>1. pending' = FALSE
      BY <2>1
    <3>2. WorkTypeOK'
      BY <1>0, <1>1, <3>1 DEF WorkTypeOK
    <3>3. WorkHoldsPower'
      BY <1>0, <1>1, <3>1 DEF WorkTypeOK, WorkHoldsPower
    <3>4. QED
      BY <3>2, <3>3
  <2>2. CASE ~ResetQueue
    <3>1. UNCHANGED pending
      BY <2>2
    <3>2. UNCHANGED <<workVars, refs>>
      BY <1>1, <3>1 DEF workVars
    <3>3. QED
      BY <1>0, <3>2, WorkFrame
  <2>3. QED
    BY <2>1, <2>2
<1>5. Placed'
  <2>1. CASE ResetQueue
    BY <1>0, <2>1 DEF Placed
  <2>2. CASE Start \/ t7xx_cldma_resume_early
    BY <1>0, <2>2 DEF Placed, ringVars
  <2>3. CASE t7xx_cldma_switch_cfg \/ ExClearRx
    BY <1>0, <2>3, NullSlot DEF Placed, t7xx_cldma_clear_rxq, ClearFails, t7xx_cldma_q_reset, hwVars
  <2>4. CASE ~(ResetQueue \/ Start \/ t7xx_cldma_resume_early \/ t7xx_cldma_switch_cfg \/ ExClearRx)
    <3>1. UNCHANGED <<tr_done, rx_refill>>
      BY <2>4 DEF ringVars
    <3>2. ctl' \in {"down", "join", "ports"} <=> ctl \in {"down", "join", "ports"}
      BY <2>4
    <3>3. UNCHANGED hwCur /\ (hwOn' => hwOn)
      BY <2>4 DEF hwVars
    <3>4. rxq_active' => rxq_active /\ ctl' \in {"up", "exit_join", "exit_ports"}
      BY <1>0, <2>4 DEF Placed
    <3>5. hwOn' => rxq_active'
      BY <1>0, <2>4 DEF Placed, hwVars
    <3>6. QED
      BY <1>0, <3>1, <3>2, <3>3, <3>4, <3>5 DEF Placed
  <2>5. QED
    BY <2>1, <2>2, <2>3, <2>4
<1>6. DeviceTypeOK'
  <2>1. rxInt' \subseteq {"done", "empty"}
    BY <1>0 DEF DeviceTypeOK, hwVars
  <2>2. hwCur' \in Slots \cup {NULL}
    BY <1>0 DEF DeviceTypeOK, hwVars, RingTypeOK
  <2>3. hwOn' \in BOOLEAN
    <3>1. CASE Start \/ t7xx_cldma_resume_early
      <4>1. tr_done \in Slots /\ hwOn' = hwo[tr_done]
        BY <1>0, <3>1 DEF Placed, RingTypeOK
      <4>2. QED
        BY <1>0, <4>1 DEF RingTypeOK
    <3>2. CASE ~(Start \/ t7xx_cldma_resume_early)
      <4>1. hwOn' = hwOn \/ hwOn' = FALSE
        BY <3>2 DEF hwVars
      <4>2. QED
        BY <1>0, <4>1 DEF DeviceTypeOK
    <3>3. QED
      BY <3>1, <3>2
  <2>4. irqOn' \in BOOLEAN /\ masked' \in BOOLEAN
    BY <1>0 DEF DeviceTypeOK, intVars
  <2>5. QED
    BY <1>0, <1>1, <2>1, <2>2, <2>3, <2>4 DEF DeviceTypeOK
<1>7. ThreadTypeOK'
  <2>1. ctl' \in CtlPcs
    BY DEF CtlPcs
  <2>2. barrier' \in {"none", "pending", "running", "done"}
    BY <1>0 DEF ThreadTypeOK
  <2>3. rxq_active' \in BOOLEAN
    BY <1>0 DEF ThreadTypeOK
  <2>4. failures' \in 0 .. MaxFailures
    BY <1>0, RxBoundAssumption DEF ThreadTypeOK, ClearFails, t7xx_cldma_clear_rxq
  <2>5. orderly' \in BOOLEAN
    BY <1>0 DEF ThreadTypeOK
  <2>6. QED
    BY <1>0, <1>1, <2>1, <2>2, <2>3, <2>4, <2>5 DEF ThreadTypeOK
<1>8. QED
  BY <1>2, <1>3, <1>4, <1>5, <1>6, <1>7 DEF RxInv, TypeOK

(* A step of the port's thread *)
LEMMA PortThreadKeeps == ASSUME RxInv, PortThread PROVE RxInv'
<1>1. PortTypeOK'
  BY ThreadKeeps DEF RxInv, TypeOK, PortThread
<1>2. UNCHANGED <<ringVars, workVars, barrier, rxq_active, hwVars, intVars, ctl, refs, histVars>>
  BY DEF PortThread
<1>3. RingTypeOK' /\ Filled' /\ RingIntact' /\ WorkTypeOK' /\ WorkHoldsPower' /\ DeviceTypeOK'
  BY <1>2, RingFrame, WorkFrame, DeviceFrame DEF RxInv, TypeOK, histVars
<1>4. Placed' /\ Midway' /\ ThreadTypeOK'
  BY <1>2, PlacedFrame, MidwayFrame DEF RxInv, TypeOK, ThreadTypeOK, histVars, ringVars
<1>5. QED
  BY <1>1, <1>3, <1>4 DEF RxInv, TypeOK

(* RxInv is inductive *)
LEMMA RxStep == RxInv /\ [Next]_vars => RxInv'
<1> SUFFICES ASSUME RxInv, [Next]_vars PROVE RxInv'
  OBVIOUS
<1>1. CASE UNCHANGED vars
  <2>1. UNCHANGED <<portVars, ringVars, workVars, barrier, rxq_active, hwVars, intVars, ctl, refs, histVars>>
    BY <1>1 DEF vars
  <2>2. RingTypeOK' /\ Filled' /\ RingIntact' /\ WorkTypeOK' /\ WorkHoldsPower' /\ DeviceTypeOK' /\ PortTypeOK'
    BY <2>1, RingFrame, WorkFrame, DeviceFrame, PortFrame DEF RxInv, TypeOK, histVars
  <2>3. Placed' /\ Midway' /\ ThreadTypeOK'
    BY <2>1, PlacedFrame, MidwayFrame DEF RxInv, TypeOK, ThreadTypeOK, histVars, ringVars
  <2>4. QED
    BY <2>2, <2>3 DEF RxInv, TypeOK
<1>2. CASE Next
  BY <1>2, WriteKeeps, IsrKeeps, WorkKeeps, ControlKeeps, PortThreadKeeps DEF Next
<1>3. QED
  BY <1>1, <1>2

(* t7xx_hif_cldma.c, t7xx_port_proxy.c: the queue and the port keep their    *)
(* types; in particular the port's list never passes its limit and no        *)
(* runtime-PM reference is put twice                                         *)
THEOREM RxTypeCorrect == Spec => []TypeOK
<1>1. RxInv => TypeOK
  BY DEF RxInv
<1>2. QED
  BY RxInit, RxStep, <1>1, PTL DEF Spec

(* t7xx_cldma_gpd_rx_from_q(), t7xx_cldma_clear_rxq(): buffers that could    *)
(* not be allocated are missing between rx_refill and tr_done only           *)
THEOREM RxRingIntactHolds == Spec => []RingIntact
<1>1. RxInv => RingIntact
  BY DEF RxInv
<1>2. QED
  BY RxInit, RxStep, <1>1, PTL DEF Spec

(* t7xx_cldma_irq_work_cb() takes a reference, t7xx_cldma_rx_done() puts it  *)
THEOREM RxWorkHoldsPowerHolds == Spec => []WorkHoldsPower
<1>1. RxInv => WorkHoldsPower
  BY DEF RxInv
<1>2. QED
  BY RxInit, RxStep, <1>1, PTL DEF Spec
=============================================================================
