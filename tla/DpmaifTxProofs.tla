--------------------------- MODULE DpmaifTxProofs ---------------------------
(***************************************************************************)
(* Proofs about DpmaifTx, for every length of the ring, every number of    *)
(* packets and every size of them.  TxInv is inductive.  Its parts say     *)
(* where the threads are (Flow), that the indices of the host and of the   *)
(* device agree (Agree, Idle), that there is room for what the push thread *)
(* is about to write (Room), which of the interrupt handler and the work   *)
(* item has the device's signal (Signals), and which packet is in which    *)
(* DRB (Records, Past).                                                    *)
(***************************************************************************)
EXTENDS DpmaifTx, TLAPS

Off(i) == rd_count(drb_release_rd_idx, i)   \* how far it is from the release index
Read   == Off(hwRd)
Known  == Off(drb_rd_idx)
Live   == ctl \notin {"down", "starting"}
Holding == pushPc \in {"mark", "place", "full", "unlink"}
Placed  == pushPc \in {"full", "unlink"}
SentSet == {sent[k] : k \in DOMAIN sent}

Flow ==
    /\ unlinked <= accepted
    /\ Holding => unlinked < accepted /\ burst.n < Burst
    /\ pushPc \in {"wait", "get", "select"} => burst.cnt = 0
    /\ xmitPc = "queue" => accepted < MaxPackets
    /\ ctl \in {"wait", "cancel", "clear", "down", "starting"} => ~powered
    /\ ctl # "ready" => stops > 0 /\ pm.at = "active"
    /\ ctl \notin {"ready", "started"} => ~hwOn

Agree == Live => Known <= Read /\ Read + hwCnt + Unannounced = InRing

Idle == ~Live => Quiet /\ drb_wr_idx = 0 /\ drb_rd_idx = 0 /\ drb_release_rd_idx = 0

Room ==
    /\ pushPc \in {"burst", "full", "unlink"} => burst.remain <= N - 1 - InRing
    /\ pushPc \in {"mark", "place"} => burst.remain >= 0 /\ burst.remain + Size <= N - 1 - InRing

(* The signal of the device has one holder *)
Signals ==
    Live =>
        /\ isrPc = "queue" \/ pending \/ workPc # "off" => masked
        /\ ~(isrPc = "queue" /\ pending) /\ ~(isrPc = "queue" /\ workPc # "off") /\ ~(pending /\ workPc # "off")
        /\ isrPc = "queue" \/ pending \/ workPc \in {"get", "update"} => Read > 0
        /\ workPc \in {"release", "wake"} => rel <= Known
        /\ done /\ (~masked \/ workPc \in {"moved", "unmask"}) => drb_rd_idx # hwRd

(* In the window, in order, are packets that have not been freed *)
Last(i) == Off(i) < InRing /\ dtyp[i] = "last"

Records ==
    /\ freed \subseteq 1 .. unlinked
    /\ \A i \in Slots : dtyp[i] = "last" => skb[i] <= unlinked \/ (Placed /\ skb[i] = Peeked)
    /\ \A i \in Slots : Last(i) => skb[i] \notin freed /\ skb[i] # NoSkb
    /\ \A i, j \in Slots : Last(i) /\ Last(j) /\ Off(i) < Off(j) => skb[i] < skb[j]
    /\ Placed => \E i \in Slots : Last(i) /\ Off(i) = InRing - 1 /\ skb[i] = Peeked

(* What the device has read has been sent, and nothing else *)
Past ==
    /\ \A k \in DOMAIN sent : k <= sent[k] /\ sent[k] <= unlinked
    /\ \A i \in Slots : Last(i) /\ Live /\ Off(i) < Read => skb[i] \in SentSet
    /\ \A i \in Slots : Last(i) /\ Live /\ Off(i) >= Read => \A p \in SentSet : p < skb[i]
    /\ \A p \in 1 .. unlinked : p \in freed \/ p \in SentSet \/ \E i \in Slots : Last(i) /\ skb[i] = p

Ordered == Agree /\ Idle /\ Room /\ Signals /\ Records /\ Past

TxInv == TypeOK /\ Flow /\ (orderly => Ordered) /\ BudgetMatches /\ DoneServed
-----------------------------------------------------------------------------
(* Distances round the ring *)
LEMMA Sizes ==
    /\ N \in Nat /\ N > 0 /\ Largest \in Nat /\ Largest < N /\ 0 \in Slots
    /\ Burst \in Nat /\ Burst > 0 /\ MaxPackets \in Nat /\ MaxStops \in Nat
    /\ \A p \in Packets : DrbCnt[p] \in Nat /\ DrbCnt[p] >= 2 /\ DrbCnt[p] < N
<1>1. N \in Nat /\ Largest \in Nat /\ Largest < N /\ N > 0
  BY TxSizeAssumption
<1>2. \A p \in Packets : DrbCnt[p] \in 2 .. Largest
  BY TxSizeAssumption
<1>3. \A p \in Packets : DrbCnt[p] \in Nat /\ DrbCnt[p] >= 2 /\ DrbCnt[p] < N
  BY <1>1, <1>2
<1>4. Burst \in Nat /\ Burst > 0 /\ MaxPackets \in Nat /\ MaxStops \in Nat
  BY TxBoundAssumption
<1>5. QED
  BY <1>1, <1>3, <1>4 DEF Slots

LEMMA CountRange ==
    ASSUME NEW a \in Slots, NEW b \in Slots
    PROVE  rd_count(a, b) \in Nat /\ rd_count(a, b) < N /\ (rd_count(a, b) = 0 <=> a = b)
BY Sizes DEF Slots, rd_count

LEMMA CountInjective ==
    ASSUME NEW a \in Slots, NEW b \in Slots, NEW c \in Slots, rd_count(a, b) = rd_count(a, c)
    PROVE  b = c
BY Sizes DEF Slots, rd_count

LEMMA NextSlot ==
    ASSUME NEW a \in Slots, NEW k \in Nat, k <= N
    PROVE  Next_idx(a, k) \in Slots
BY Sizes DEF Slots, Next_idx

LEMMA NextCount ==
    ASSUME NEW a \in Slots, NEW b \in Slots, NEW k \in Nat, rd_count(a, b) + k < N
    PROVE  Next_idx(b, k) \in Slots /\ rd_count(a, Next_idx(b, k)) = rd_count(a, b) + k
BY Sizes DEF Slots, Next_idx, rd_count

LEMMA NextShift ==
    ASSUME NEW a \in Slots, NEW b \in Slots
    PROVE  /\ Next_idx(a, 1) \in Slots
           /\ rd_count(Next_idx(a, 1), b) = IF b = a THEN N - 1 ELSE rd_count(a, b) - 1
BY Sizes DEF Slots, Next_idx, rd_count

LEMMA Available ==
    ASSUME drb_wr_idx \in Slots, drb_release_rd_idx \in Slots
    PROVE  t7xx_txq_drb_wr_available = N - 1 - InRing
BY Sizes DEF Slots, t7xx_txq_drb_wr_available, InRing, rd_count
-----------------------------------------------------------------------------
LEMMA TxInit == Init => TxInv
<1> SUFFICES ASSUME Init PROVE TxInv
  OBVIOUS
<1>1. RingTypeOK
  BY Sizes DEF Init, RingTypeOK
<1>2. DeviceTypeOK
  BY Sizes DEF Init, DeviceTypeOK
<1>3. ThreadTypeOK
  <2>1. rel \in 0 .. N /\ stops \in 0 .. MaxStops
    BY Sizes DEF Init
  <2>2. burst \in [n : 0 .. Burst, remain : Int, cnt : Nat]
    BY Sizes DEF Init
  <2>3. QED
    BY <2>1, <2>2 DEF Init, ThreadTypeOK, PushPcs, WorkPcs, CtlPcs
<1>4. FlagTypeOK
  <2>1. accepted \in 0 .. MaxPackets /\ unlinked \in 0 .. MaxPackets
    BY Sizes DEF Init
  <2>2. sent \in Seq(Packets) /\ Len(sent) <= MaxPackets
    BY Sizes DEF Init
  <2>3. QED
    BY <2>1, <2>2 DEF Init, FlagTypeOK
<1>5. Flow
  BY Sizes DEF Init, Flow, Holding
<1>6. rd_count(0, 0) = 0
  BY Sizes, CountRange
<1>7. Agree /\ Idle /\ Room /\ Signals
  BY <1>6, Sizes DEF Init, Agree, Idle, Room, Signals, Live, Known, Read, Off, Unannounced, InRing, Quiet, Pushing
<1>8. Records /\ Past
  <2>1. \A i \in Slots : dtyp[i] # "last"
    BY DEF Init
  <2>2. ~Placed /\ DOMAIN sent = {} /\ freed = {} /\ unlinked = 0
    BY DEF Init, Placed
  <2>3. QED
    BY <2>1, <2>2 DEF Records, Past, Last
<1>9. BudgetMatches /\ DoneServed
  BY <1>6, Sizes DEF Init, BudgetMatches, DoneServed, InRing
<1>10. QED
  BY <1>1, <1>2, <1>3, <1>4, <1>5, <1>7, <1>8, <1>9 DEF TxInv, TypeOK, Ordered
-----------------------------------------------------------------------------
(* Which steps change what *)
Unpacked == /\ RingTypeOK /\ DeviceTypeOK /\ ThreadTypeOK /\ FlagTypeOK /\ Flow
            /\ (orderly => Agree /\ Idle /\ Room /\ Signals /\ Records /\ Past)

LEMMA Unpack == TxInv => Unpacked
BY DEF TxInv, TypeOK, Ordered, Unpacked

Pm == (\E kind \in {"runtime", "system"} : Suspend(kind)) \/ Suspended \/ t7xx_dpmaif_resume

LEMMA Actors ==
    ASSUME Next
    PROVE  \/ Xmit \/ Push \/ DeviceSends \/ Interrupt \/ Work \/ CtlQuiet \/ CtlGoesOn \/ Pm
BY DEF Next, Pm

LEMMA XmitFrame == Xmit => NotXmit
BY DEF Xmit, XmitBegin, XmitQueue, XmitBusy, t7xx_ccmni_tx_timeout

LEMMA PushFrame ==
    Push => /\ UNCHANGED <<md_ready, xmitPc, accepted, drb_rd_idx, drb_release_rd_idx, hwRd, hwOn, done, masked,
                           irqOn, isrPc, workVars, ctlVars, sent, freed>>
            /\ orderly' = orderly \/ orderly' = FALSE
BY DEF Push, PushWoken, PushGet, PushSelect, PushRecount, PushTest, PushMark, PushPlace, PushNoMem, PushFull,
       PushUnlink, PushBurstOver, PushAnnounce, PushTimeout, NotPush, netVars, listVars, ringVars, hwVars, pastVars

LEMMA IsrFrame == Interrupt => NotIsr
BY DEF Interrupt, t7xx_dpmaif_isr_handler, t7xx_dpmaif_hw_check_tx_intr, t7xx_dpmaif_irq_tx_done, IsrEnd

LEMMA WorkFrame == Work => NotWork /\ (orderly' = orderly \/ orderly' = FALSE \/ orderly' = (orderly /\ que_started))
BY DEF Work, WorkBegin, WorkGet, WorkTimeout, WorkUpdate, WorkRelease, WorkInvalid, WorkWake,
       t7xx_dpmaif_ul_clr_done, t7xx_dpmaif_drb_ring_not_empty, t7xx_dpmaif_unmask_ulq_intr

LEMMA CtlFrame == CtlQuiet \/ CtlGoesOn => NotCtl
BY DEF CtlQuiet, CtlGoesOn, t7xx_ccmni_pre_stop, CtlStop, CtlWait, CtlCancel, CtlClear, CtlStart, CtlPowerOn,
       t7xx_ccmni_start

LEMMA PmFrame == Pm => NotPm
BY DEF Pm, Suspend, Suspended, t7xx_dpmaif_resume

(* Only these steps change the ring *)
LEMMA RingFrame ==
    ASSUME Next, ~PushPlace, ~PushNoMem, ~WorkUpdate, ~WorkRelease, ~t7xx_dpmaif_drb_ring_not_empty, ~CtlClear
    PROVE  UNCHANGED ringVars
<1>1. CASE Xmit
  BY <1>1, XmitFrame DEF NotXmit
<1>2. CASE Push
  BY <1>2 DEF Push, PushWoken, PushGet, PushSelect, PushRecount, PushTest, PushMark, PushFull, PushUnlink,
              PushBurstOver, PushAnnounce, PushTimeout, NotPush, ringVars
<1>3. CASE DeviceSends
  BY <1>3 DEF DeviceSends
<1>4. CASE Interrupt
  BY <1>4, IsrFrame DEF NotIsr
<1>5. CASE Work
  BY <1>5 DEF Work, WorkBegin, WorkGet, WorkTimeout, WorkInvalid, WorkWake, t7xx_dpmaif_ul_clr_done,
              t7xx_dpmaif_unmask_ulq_intr, NotWork, ringVars, drbVars
<1>6. CASE CtlQuiet \/ CtlGoesOn
  BY <1>6 DEF CtlQuiet, CtlGoesOn, t7xx_ccmni_pre_stop, CtlStop, CtlWait, CtlCancel, CtlStart, CtlPowerOn,
              t7xx_ccmni_start
<1>7. CASE Pm
  BY <1>7, PmFrame DEF NotPm
<1>8. QED
  BY <1>1, <1>2, <1>3, <1>4, <1>5, <1>6, <1>7, Actors

LEMMA OrderlyOnce == ASSUME FlagTypeOK, Next, orderly' PROVE orderly
<1>1. CASE Push \/ Work
  BY <1>1, PushFrame, WorkFrame DEF FlagTypeOK
<1>2. CASE CtlQuiet \/ CtlGoesOn
  BY <1>2 DEF CtlQuiet, CtlGoesOn, t7xx_ccmni_pre_stop, CtlStop, CtlWait, CtlCancel, CtlClear, CtlStart, CtlPowerOn,
       t7xx_ccmni_start, FlagTypeOK
<1>3. CASE Xmit \/ DeviceSends \/ Interrupt \/ Pm
  BY <1>3, XmitFrame, IsrFrame, PmFrame DEF NotXmit, NotIsr, NotPm, DeviceSends, pastVars
<1>4. QED
  BY <1>1, <1>2, <1>3, Actors

(* The packet that is put into the ring *)
LEMMA Peek ==
    ASSUME FlagTypeOK, Flow, Holding \/ ~tx_lists_empty
    PROVE  Peeked \in Packets /\ Size \in Nat /\ Size >= 2 /\ Size < N /\ Peeked = unlinked + 1
<1>1. Peeked \in Packets
  <2>1. unlinked < accepted /\ accepted \in 0 .. MaxPackets /\ unlinked \in 0 .. MaxPackets
    BY Sizes DEF FlagTypeOK, Flow, tx_lists_empty
  <2>2. QED
    BY <2>1, Sizes DEF Peeked, Packets
<1>2. QED
  BY <1>1, Sizes DEF Size, Peeked

LEMMA RingTypes == ASSUME TxInv, Next PROVE RingTypeOK'
<1>0. Unpacked
  BY Unpack
<1>1. CASE PushPlace \/ PushNoMem
  <2>1. Peeked \in Packets /\ Size \in Nat /\ Size >= 2 /\ Size < N
    BY <1>0, <1>1, Peek DEF PushPlace, PushNoMem, Holding, Unpacked
  <2>2. PICK filled : Written(filled)
    BY <1>1 DEF PushPlace, PushNoMem
  <2>3. \A i \in Slots : Part(i) \in {"msg", "part", "last"}
    BY DEF Part
  <2>4. dtyp' \in [Slots -> {"unused", "msg", "part", "last"}]
    BY <1>0, <2>2, <2>3 DEF Written, RingTypeOK, Unpacked
  <2>5. skb' \in [Slots -> {NoSkb} \cup Packets]
    BY <1>0, <2>1, <2>2 DEF Written, RingTypeOK, Unpacked
  <2>6. drb_wr_idx' \in Slots
    <3>1. drb_wr_idx \in Slots /\ Next_idx(drb_wr_idx, Size) \in Slots
      <4>1. drb_wr_idx \in Slots /\ Size <= N
        BY <1>0, <2>1, Sizes DEF RingTypeOK, Unpacked
      <4>2. QED
        BY <2>1, <4>1, NextSlot
    <3>2. QED
      BY <1>1, <3>1 DEF PushPlace, PushNoMem
  <2>7. drb_rd_idx' \in Slots /\ drb_release_rd_idx' \in Slots /\ tx_budget' \in Int
    BY <1>0, <1>1, <2>1 DEF PushPlace, PushNoMem, NotPush, RingTypeOK, Unpacked
  <2>8. QED
    BY <2>4, <2>5, <2>6, <2>7 DEF RingTypeOK
<1>2. CASE WorkUpdate \/ t7xx_dpmaif_drb_ring_not_empty
  BY <1>0, <1>2 DEF WorkUpdate, t7xx_dpmaif_drb_ring_not_empty, t7xx_dpmaif_update_drb_rd_idx, NotWork, RingTypeOK,
                    DeviceTypeOK, Unpacked
<1>3. CASE WorkRelease
  <2>1. drb_release_rd_idx' \in Slots
    BY <1>0, <1>3, NextShift DEF WorkRelease, Cur, RingTypeOK, Unpacked
  <2>2. skb' \in [Slots -> {NoSkb} \cup Packets] /\ tx_budget' \in Int
    BY <1>0, <1>3 DEF WorkRelease, Cur, RingTypeOK, Unpacked
  <2>3. QED
    BY <1>0, <1>3, <2>1, <2>2 DEF WorkRelease, NotWork, RingTypeOK, Unpacked
<1>4. CASE CtlClear
  <2>1. skb' \in [Slots -> {NoSkb} \cup Packets]
    BY <1>0, <1>4 DEF CtlClear, t7xx_dpmaif_tx_free_drb_skb, RingTypeOK, Unpacked
  <2>2. QED
    BY <1>0, <1>4, <2>1, Sizes DEF CtlClear, RingTypeOK, Unpacked
<1>5. CASE UNCHANGED ringVars
  BY <1>0, <1>5 DEF RingTypeOK, ringVars, drbVars, Unpacked
<1>6. QED
  BY <1>1, <1>2, <1>3, <1>4, <1>5, RingFrame

LEMMA DeviceTypes == ASSUME TxInv, Next PROVE DeviceTypeOK'
<1>0. Unpacked
  BY Unpack
<1>1. CASE Xmit \/ Pm
  BY <1>0, <1>1 DEF Xmit, XmitBegin, XmitQueue, XmitBusy, t7xx_ccmni_tx_timeout, NotXmit, Pm, Suspend, Suspended,
                    t7xx_dpmaif_resume, t7xx_dpmaif_ul_all_q_en, NotPm, DeviceTypeOK, hwVars, Unpacked
<1>2. CASE Push
  <2>1. hwCnt' \in Nat
    <3>1. burst.cnt \in Nat /\ hwCnt \in Nat
      BY <1>0 DEF Unpacked, ThreadTypeOK, DeviceTypeOK
    <3>2. hwCnt' = hwCnt \/ hwCnt' = hwCnt + burst.cnt
      BY <1>2 DEF Push, PushWoken, PushGet, PushSelect, PushRecount, PushTest, PushMark, PushPlace, PushNoMem, PushFull,
       PushUnlink, PushBurstOver, PushAnnounce, PushTimeout, hwVars
    <3>3. QED
      BY <3>1, <3>2
  <2>2. QED
    BY <1>0, <1>2, <2>1, PushFrame DEF DeviceTypeOK, Unpacked
<1>3. CASE DeviceSends
  <2>1. PICK k \in 1 .. (IF hwCnt < N THEN hwCnt ELSE N) : hwRd' = Next_idx(hwRd, k) /\ hwCnt' = hwCnt - k
    BY <1>3 DEF DeviceSends
  <2>2. k \in Nat /\ k <= N /\ k <= hwCnt /\ hwCnt \in Nat /\ hwRd \in Slots
    BY <1>0, <2>1, Sizes DEF DeviceTypeOK, Unpacked
  <2>3. hwRd' \in Slots /\ hwCnt' \in Nat
    BY <2>1, <2>2, NextSlot
  <2>4. QED
    BY <1>0, <1>3, <2>3 DEF DeviceSends, DeviceTypeOK, Unpacked
<1>4. CASE Interrupt
  BY <1>0, <1>4 DEF Interrupt, t7xx_dpmaif_isr_handler, t7xx_dpmaif_hw_check_tx_intr, t7xx_dpmaif_irq_tx_done, IsrEnd,
                    NotIsr, DeviceTypeOK, Unpacked
<1>5. CASE Work
  BY <1>0, <1>5 DEF Work, WorkBegin, WorkGet, WorkTimeout, WorkUpdate, WorkRelease, WorkInvalid, WorkWake,
       t7xx_dpmaif_ul_clr_done, t7xx_dpmaif_drb_ring_not_empty, t7xx_dpmaif_unmask_ulq_intr, NotWork, DeviceTypeOK,
       Unpacked
<1>6. CASE CtlQuiet \/ CtlGoesOn
  <2>1. CASE CtlPowerOn
    BY <2>1, Sizes DEF CtlPowerOn, t7xx_dpmaif_config_ulq_hw, t7xx_dpmaif_init_intr, DeviceTypeOK
  <2>2. CASE ~CtlPowerOn
    <3>1. /\ UNCHANGED <<hwRd, hwCnt, done, masked>> /\ (hwOn' = hwOn \/ hwOn' = FALSE)
          /\ irqOn' = irqOn \/ irqOn' = FALSE
      BY <1>6, <2>2 DEF CtlQuiet, CtlGoesOn, t7xx_ccmni_pre_stop, CtlStop, CtlWait, CtlCancel, CtlClear, CtlStart,
           t7xx_ccmni_start, t7xx_dpmaif_ul_all_q_en, hwVars
    <3>2. QED
      BY <1>0, <3>1 DEF DeviceTypeOK, Unpacked
  <2>3. QED
    BY <2>1, <2>2
<1>7. QED
  BY <1>1, <1>2, <1>3, <1>4, <1>5, <1>6, Actors

LEMMA ThreadTypes == ASSUME TxInv, Next PROVE ThreadTypeOK'
<1>0. Unpacked
  BY Unpack
<1>1. CASE Xmit
  BY <1>0, <1>1 DEF Xmit, XmitBegin, XmitQueue, XmitBusy, t7xx_ccmni_tx_timeout, NotXmit, ThreadTypeOK,
                    pushVars, workVars, ctlVars, Unpacked
<1>2. CASE Push
  <2>1. pushPc' \in PushPcs
    BY <1>0, <1>2 DEF Push, PushWoken, PushGet, PushSelect, PushRecount, PushTest, PushMark, PushPlace, PushNoMem,
         PushFull, PushUnlink, PushBurstOver, PushAnnounce, PushTimeout, Goes, Loop, ThreadTypeOK, PushPcs, Unpacked
  <2>2. burst' \in [n : 0 .. Burst, remain : Int, cnt : Nat]
    <3>0. burst \in [n : 0 .. Burst, remain : Int, cnt : Nat] /\ t7xx_txq_drb_wr_available \in Int /\ Burst \in Nat
      <4>1. rd_count(drb_release_rd_idx, drb_wr_idx) \in Nat
        BY <1>0, CountRange DEF RingTypeOK, Unpacked
      <4>2. t7xx_txq_drb_wr_available \in Int
        BY <1>0, <4>1, Available, Sizes DEF RingTypeOK, InRing, Unpacked
      <4>3. QED
        BY <1>0, <4>2, Sizes DEF ThreadTypeOK, Unpacked
    <3>1. CASE PushSelect \/ PushRecount
      <4>1. CASE PushSelect
        BY <3>0, <4>1 DEF PushSelect
      <4>2. CASE PushRecount
        <5>1. burst.n + 1 \in 0 .. Burst
          BY <3>0, <4>2 DEF PushRecount, BurstOver
        <5>2. QED
          BY <3>0, <4>2, <5>1 DEF PushRecount
      <4>3. QED
        BY <3>1, <4>1, <4>2
    <3>2. CASE PushTest
      <4>1. Size \in Int
        BY <1>0, <3>2, Peek DEF PushTest, BurstOver, Unpacked
      <4>2. QED
        BY <3>0, <3>2, <4>1 DEF PushTest, Over
    <3>3. CASE PushUnlink
      <4>1. Size \in Nat /\ burst.n < Burst
        BY <1>0, <3>3, Peek DEF PushUnlink, Holding, Unpacked, Flow
      <4>2. QED
        <5>1. burst.n + 1 \in 0 .. Burst /\ burst.cnt + Size \in Nat
          BY <3>0, <4>1
        <5>2. QED
          BY <3>0, <3>3, <5>1 DEF PushUnlink
    <3>4. CASE PushNoMem \/ PushBurstOver \/ PushAnnounce \/ PushTimeout
      <4>1. burst' = Over(0) \/ burst' = Over(burst.cnt)
        BY <3>4 DEF PushNoMem, PushBurstOver, PushAnnounce, PushTimeout
      <4>2. QED
        BY <3>0, <4>1 DEF Over
    <3>5. CASE UNCHANGED burst
      BY <3>0, <3>5
    <3>6. QED
      BY <1>2, <3>1, <3>2, <3>3, <3>4, <3>5 DEF Push, PushWoken, PushGet, PushMark, PushPlace, PushFull
  <2>3. QED
    BY <1>0, <1>2, <2>1, <2>2, PushFrame DEF ThreadTypeOK, workVars, ctlVars, Unpacked
<1>3. CASE DeviceSends
  BY <1>0, <1>3 DEF DeviceSends, ThreadTypeOK, netVars, pushVars, workVars, ctlVars, Unpacked
<1>4. CASE Interrupt
  BY <1>0, <1>4 DEF Interrupt, t7xx_dpmaif_isr_handler, t7xx_dpmaif_hw_check_tx_intr, t7xx_dpmaif_irq_tx_done, IsrEnd,
                    NotIsr, ThreadTypeOK, netVars, pushVars, ctlVars, Unpacked
<1>5. CASE Work
  <2>1. workPc' \in WorkPcs
    BY <1>0, <1>5 DEF Work, WorkBegin, WorkGet, WorkTimeout, WorkUpdate, WorkRelease, WorkInvalid, WorkWake,
         t7xx_dpmaif_ul_clr_done, t7xx_dpmaif_drb_ring_not_empty, t7xx_dpmaif_unmask_ulq_intr, ThreadTypeOK, WorkPcs,
         Unpacked
  <2>2. rel' \in 0 .. N
    <3>1. CASE WorkUpdate
      <4>1. rd_count(drb_release_rd_idx, drb_rd_idx') \in 0 .. N
        BY <1>0, <3>1, RingTypes, CountRange, Sizes DEF RingTypeOK, Unpacked
      <4>2. QED
        BY <3>1, <4>1, Sizes DEF WorkUpdate
    <3>2. CASE WorkRelease \/ WorkInvalid
      BY <1>0, <3>2, Sizes DEF WorkRelease, WorkInvalid, ThreadTypeOK, Unpacked
    <3>3. CASE UNCHANGED rel
      BY <1>0, <3>3 DEF ThreadTypeOK, Unpacked
    <3>4. QED
      BY <1>5, <3>1, <3>2, <3>3 DEF Work, WorkBegin, WorkGet, WorkTimeout, WorkWake,
         t7xx_dpmaif_ul_clr_done, t7xx_dpmaif_drb_ring_not_empty, t7xx_dpmaif_unmask_ulq_intr
  <2>3. QED
    BY <1>0, <1>5, <2>1, <2>2, WorkFrame DEF NotWork, ThreadTypeOK, pushVars, ctlVars, Unpacked
<1>6. CASE CtlQuiet \/ CtlGoesOn
  <2>1. ctl' \in CtlPcs
    BY <1>6 DEF CtlQuiet, CtlGoesOn, t7xx_ccmni_pre_stop, CtlStop, CtlWait, CtlCancel, CtlClear, CtlStart,
       CtlPowerOn, t7xx_ccmni_start, CtlPcs
  <2>2. stops' \in 0 .. MaxStops
    <3>1. stops' = stops \/ (stops < MaxStops /\ stops' = stops + 1)
      BY <1>6 DEF CtlQuiet, CtlGoesOn, t7xx_ccmni_pre_stop, CtlStop, CtlWait, CtlCancel, CtlClear, CtlStart,
         CtlPowerOn, t7xx_ccmni_start
    <3>2. stops \in 0 .. MaxStops
      BY <1>0 DEF ThreadTypeOK, Unpacked
    <3>3. QED
      BY <3>1, <3>2, Sizes
  <2>3. QED
    BY <1>0, <1>6, <2>1, <2>2, CtlFrame DEF NotCtl, ThreadTypeOK, pushVars, Unpacked
<1>7. CASE Pm
  <2>1. stops' \in 0 .. MaxStops
    <3>1. stops' = stops \/ (stops < MaxStops /\ stops' = stops + 1)
      BY <1>7 DEF Pm, Suspend, Suspended, t7xx_dpmaif_resume
    <3>2. stops \in 0 .. MaxStops
      BY <1>0 DEF ThreadTypeOK, Unpacked
    <3>3. QED
      BY <3>1, <3>2, Sizes
  <2>2. pm' \in [at : {"active", "stopping", "asleep"}, kind : {"runtime", "system"}]
    <3>1. pm \in [at : {"active", "stopping", "asleep"}, kind : {"runtime", "system"}]
      BY <1>0 DEF ThreadTypeOK, Unpacked
    <3>2. CASE Suspended \/ t7xx_dpmaif_resume
      BY <3>1, <3>2 DEF Suspended, t7xx_dpmaif_resume
    <3>3. CASE \E kind \in {"runtime", "system"} : Suspend(kind)
      BY <3>3 DEF Suspend
    <3>4. QED
      BY <1>7, <3>2, <3>3 DEF Pm
  <2>3. QED
    BY <1>0, <1>7, <2>1, <2>2, PmFrame DEF NotPm, ThreadTypeOK, netVars, pushVars, workVars, Unpacked
<1>8. QED
  BY <1>1, <1>2, <1>3, <1>4, <1>5, <1>6, <1>7, Actors

(* The device's reading: how many DRBs, and the packet they end with *)
LEMMA Sends ==
    ASSUME Unpacked, DeviceSends, orderly
    PROVE  /\ Live
           /\ \E k \in Nat \ {0} :
                /\ k <= hwCnt /\ Read + k <= InRing /\ InRing < N
                /\ hwRd' = Next_idx(hwRd, k) /\ hwCnt' = hwCnt - k
                /\ \E i \in Slots :
                    /\ Off(i) = Read + k - 1 /\ Off(i) < InRing
                    /\ \A j \in Slots : Read <= Off(j) /\ Off(j) < Off(i) => dtyp[j] # "last"
                    /\ sent' = IF dtyp[i] = "last" THEN Append(sent, skb[i]) ELSE sent
                /\ \A j \in Slots : Off(j) <= N - 1
<1>1. Live /\ hwOn
  BY DEF DeviceSends, Flow, Live, Unpacked
<1>2. PICK k \in 1 .. (IF hwCnt < N THEN hwCnt ELSE N) :
        /\ \A j \in 1 .. k - 1 : ~LastDrb(j)
        /\ hwRd' = Next_idx(hwRd, k) /\ hwCnt' = hwCnt - k
        /\ sent' = IF orderly /\ LastDrb(k) THEN Append(sent, skb[Next_idx(hwRd, k - 1)]) ELSE sent
  BY DEF DeviceSends
<1>3. /\ hwRd \in Slots /\ drb_release_rd_idx \in Slots /\ drb_wr_idx \in Slots /\ hwCnt \in Nat
      /\ burst.cnt \in Nat /\ Read + hwCnt + Unannounced = InRing
  BY <1>1 DEF Unpacked, DeviceTypeOK, RingTypeOK, ThreadTypeOK, Agree
<1>4. Unannounced \in Nat
  <2>1. CASE Placed
    BY <1>3, <2>1, Peek DEF Unpacked, Placed, Holding, Unannounced
  <2>2. CASE ~Placed
    BY <1>3, <2>2 DEF Placed, Unannounced
  <2>3. QED
    BY <2>1, <2>2
<1>5. Read \in Nat /\ InRing \in Nat /\ InRing < N
  BY <1>3, CountRange DEF Read, Off, InRing
<1>6. k \in Nat \ {0} /\ k <= hwCnt /\ Read + k <= InRing
  BY <1>3, <1>4, <1>5, Sizes
<1>7. \A m \in Nat : m < k => Next_idx(hwRd, m) \in Slots /\ Off(Next_idx(hwRd, m)) = Read + m
  <2> SUFFICES ASSUME NEW m \in Nat, m < k PROVE Next_idx(hwRd, m) \in Slots /\ Off(Next_idx(hwRd, m)) = Read + m
    OBVIOUS
  <2>1. rd_count(drb_release_rd_idx, hwRd) + m < N
    BY <1>5, <1>6, Sizes DEF Read, Off
  <2>2. QED
    BY <1>3, <2>1, NextCount DEF Read, Off
<1>8. ASSUME NEW j \in Slots, Read <= Off(j), Off(j) < Read + k - 1 PROVE dtyp[j] # "last"
  <2>1. Off(j) \in Nat
    BY <1>3, CountRange DEF Off
  <2>2. PICK m \in Nat : m = Off(j) - Read /\ m + 1 \in 1 .. k - 1
    BY <1>5, <1>6, <1>8, <2>1
  <2>3. Off(Next_idx(hwRd, m)) = Off(j) /\ Next_idx(hwRd, m) \in Slots
    BY <1>5, <1>6, <1>7, <2>1, <2>2
  <2>4. Next_idx(hwRd, m) = j
    BY <1>3, <2>3, CountInjective DEF Off
  <2>5. (m + 1) - 1 = m /\ ~LastDrb(m + 1)
    BY <1>2, <2>2
  <2>6. QED
    BY <2>4, <2>5 DEF LastDrb
<1>9. k - 1 \in Nat /\ k - 1 < k
  BY <1>6
<1>10. /\ Next_idx(hwRd, k - 1) \in Slots /\ Off(Next_idx(hwRd, k - 1)) = Read + k - 1
  BY <1>5, <1>7, <1>9
<1>11. sent' = IF dtyp[Next_idx(hwRd, k - 1)] = "last" THEN Append(sent, skb[Next_idx(hwRd, k - 1)]) ELSE sent
  BY <1>2 DEF LastDrb
<1>12. \A j \in Slots : Off(j) <= N - 1
  BY <1>3, CountRange, Sizes DEF Off
<1>13. Off(Next_idx(hwRd, k - 1)) < InRing
  BY <1>5, <1>6, <1>10
<1>14. QED
  BY <1>1, <1>2, <1>5, <1>6, <1>8, <1>10, <1>11, <1>12, <1>13

LEMMA Sending ==
    ASSUME TxInv, Next, sent' # sent
    PROVE  \E i \in Slots : sent' = Append(sent, skb[i]) /\ Last(i) /\ Off(i) >= Read /\ Live /\ orderly
<1>0. Unpacked
  BY Unpack
<1>1. DeviceSends
  BY XmitFrame, PushFrame, IsrFrame, WorkFrame, CtlFrame, PmFrame, Actors
     DEF NotXmit, NotIsr, NotWork, NotCtl, NotPm, pastVars
<1>2. orderly
  BY <1>1 DEF DeviceSends
<1>3. Live
  BY <1>0, <1>1, <1>2, Sends
<1>4. PICK k \in Nat \ {0}, i \in Slots :
         Off(i) = Read + k - 1 /\ Off(i) < InRing /\ sent' = IF dtyp[i] = "last" THEN Append(sent, skb[i]) ELSE sent
  BY <1>0, <1>1, <1>2, Sends
<1>5. Read \in Nat
  BY <1>0, CountRange DEF Unpacked, RingTypeOK, DeviceTypeOK, Read, Off
<1>6. Off(i) >= Read
  BY <1>4, <1>5
<1>7. QED
  BY <1>2, <1>3, <1>4, <1>6 DEF Last

LEMMA FlagTypes == ASSUME TxInv, Next PROVE FlagTypeOK'
<1>0. Unpacked
  BY Unpack
<1>1. {stopped', md_ready', que_started', tx_processing', powered', waited', pending', orderly'} \subseteq BOOLEAN
  <2>0. {stopped, md_ready, que_started, tx_processing, powered, waited, pending, orderly} \subseteq BOOLEAN
    BY <1>0 DEF FlagTypeOK, Unpacked
  <2>1. CASE Xmit \/ Pm \/ Interrupt \/ DeviceSends
    BY <2>0, <2>1 DEF Xmit, XmitBegin, XmitQueue, XmitBusy, t7xx_ccmni_tx_timeout, NotXmit, Pm, Suspend, Suspended,
         t7xx_dpmaif_resume, NotPm, Interrupt, t7xx_dpmaif_isr_handler, t7xx_dpmaif_hw_check_tx_intr,
         t7xx_dpmaif_irq_tx_done, IsrEnd, NotIsr, DeviceSends, netVars, pushVars, workVars, ctlVars, pastVars
  <2>2. CASE Push
    <3>1. stopped' \in BOOLEAN
      BY <2>0, <2>2 DEF Push, PushWoken, PushGet, PushSelect, PushRecount, PushTest, PushMark, PushPlace, PushNoMem,
           PushFull, PushUnlink, PushBurstOver, PushAnnounce, PushTimeout, netVars
    <3>2. tx_processing' \in BOOLEAN
      <4>1. CASE PushPlace
        BY <4>1 DEF PushPlace
      <4>2. CASE PushMark \/ PushFull \/ PushNoMem
        BY <4>2 DEF PushMark, PushFull, PushNoMem
      <4>3. CASE ~(PushPlace \/ PushMark \/ PushFull \/ PushNoMem)
        <5>1. UNCHANGED tx_processing
          BY <2>2, <4>3 DEF Push, PushWoken, PushGet, PushSelect, PushRecount, PushTest, PushUnlink, PushBurstOver,
               PushAnnounce, PushTimeout
        <5>2. QED
          BY <2>0, <5>1
      <4>4. QED
        BY <4>1, <4>2, <4>3
    <3>3. waited' \in BOOLEAN
      BY <2>0, <2>2 DEF Push, PushWoken, PushGet, PushSelect, PushRecount, PushTest, PushMark, PushPlace, PushNoMem,
           PushFull, PushUnlink, PushBurstOver, PushAnnounce, PushTimeout
    <3>4. UNCHANGED <<md_ready, que_started, powered, pending>> /\ orderly' \in BOOLEAN
      BY <2>0, <2>2, PushFrame DEF workVars, ctlVars
    <3>5. QED
      BY <2>0, <3>1, <3>2, <3>3, <3>4
  <2>3. CASE Work
    BY <2>0, <2>3 DEF Work, WorkBegin, WorkGet, WorkTimeout, WorkUpdate, WorkRelease, WorkInvalid, WorkWake,
         t7xx_dpmaif_ul_clr_done, t7xx_dpmaif_drb_ring_not_empty, t7xx_dpmaif_unmask_ulq_intr, NotWork, pushVars,
         ctlVars
  <2>4. CASE CtlQuiet \/ CtlGoesOn
    BY <2>0, <2>4 DEF CtlQuiet, CtlGoesOn, t7xx_ccmni_pre_stop, CtlStop, CtlWait, CtlCancel, CtlClear, CtlStart,
         CtlPowerOn, t7xx_ccmni_start, NotCtl, pushVars
  <2>5. QED
    BY <2>1, <2>2, <2>3, <2>4, Actors
<1>2. accepted' \in 0 .. MaxPackets /\ unlinked' \in 0 .. MaxPackets
  <2>0. accepted \in 0 .. MaxPackets /\ unlinked \in 0 .. MaxPackets /\ unlinked <= accepted /\ MaxPackets \in Nat
    BY <1>0, Sizes DEF FlagTypeOK, Flow, Unpacked
  <2>1. CASE Xmit
    <3>1. UNCHANGED unlinked /\ (UNCHANGED accepted \/ (accepted' = accepted + 1 /\ accepted < MaxPackets))
      BY <1>0, <2>1 DEF Xmit, XmitBegin, XmitQueue, XmitBusy, t7xx_ccmni_tx_timeout, listVars, Flow, Unpacked
    <3>2. QED
      BY <2>0, <3>1
  <2>2. CASE Push
    <3>1. UNCHANGED accepted /\ (UNCHANGED unlinked \/ (unlinked' = unlinked + 1 /\ unlinked < accepted))
      BY <1>0, <2>2 DEF Push, PushWoken, PushGet, PushSelect, PushRecount, PushTest, PushMark, PushPlace, PushNoMem,
         PushFull, PushUnlink, PushBurstOver, PushAnnounce, PushTimeout, NotPush, listVars, Flow, Holding, Unpacked
    <3>2. QED
      BY <2>0, <3>1
  <2>3. CASE DeviceSends \/ Interrupt \/ Work \/ CtlQuiet \/ CtlGoesOn \/ Pm
    BY <2>0, <2>3, IsrFrame, WorkFrame, CtlFrame, PmFrame DEF DeviceSends, NotIsr, NotWork, NotCtl, NotPm, listVars
  <2>4. QED
    BY <2>1, <2>2, <2>3, Actors
<1>3. freed' \subseteq Packets
  <2>0. freed \subseteq Packets /\ skb \in [Slots -> {NoSkb} \cup Packets] /\ drb_release_rd_idx \in Slots
    BY <1>0 DEF FlagTypeOK, RingTypeOK, Unpacked
  <2>1. CASE WorkRelease
    BY <2>0, <2>1 DEF WorkRelease, Invalid, Cur
  <2>2. CASE CtlClear
    BY <2>0, <2>2 DEF CtlClear, t7xx_dpmaif_tx_free_drb_skb
  <2>3. CASE ~WorkRelease /\ ~CtlClear
    <3>1. UNCHANGED freed
      <4>1. CASE Work
        BY <2>3, <4>1 DEF Work, WorkBegin, WorkGet, WorkTimeout, WorkUpdate, WorkInvalid, WorkWake,
             t7xx_dpmaif_ul_clr_done, t7xx_dpmaif_drb_ring_not_empty, t7xx_dpmaif_unmask_ulq_intr
      <4>2. CASE CtlQuiet \/ CtlGoesOn
        BY <2>3, <4>2 DEF CtlQuiet, CtlGoesOn, t7xx_ccmni_pre_stop, CtlStop, CtlWait, CtlCancel, CtlStart,
             CtlPowerOn, t7xx_ccmni_start
      <4>3. CASE Xmit \/ Push \/ DeviceSends \/ Interrupt \/ Pm
        BY <4>3, XmitFrame, PushFrame, IsrFrame, PmFrame DEF NotXmit, NotIsr, NotPm, DeviceSends, pastVars
      <4>4. QED
        BY <4>1, <4>2, <4>3, Actors
    <3>2. QED
      BY <2>0, <3>1
  <2>4. QED
    BY <2>1, <2>2, <2>3
<1>4. sent' \in Seq(Packets) /\ Len(sent') <= MaxPackets
  <2>0. sent \in Seq(Packets) /\ Len(sent) <= MaxPackets
    BY <1>0 DEF FlagTypeOK, Unpacked
  <2>1. CASE sent' = sent
    BY <2>0, <2>1
  <2>2. CASE sent' # sent
    <3>1. PICK i \in Slots : sent' = Append(sent, skb[i]) /\ Last(i) /\ Off(i) >= Read /\ Live /\ orderly
      BY <1>0, <2>2, Sending DEF Unpacked
    <3>2. skb[i] \in Packets /\ \A p \in SentSet : p < skb[i]
      BY <1>0, <3>1 DEF Records, Past, RingTypeOK, Unpacked
    <3>3. Len(sent) < skb[i] /\ skb[i] <= MaxPackets
      <4>1. CASE Len(sent) = 0
        BY <3>2, <4>1, Sizes DEF Packets
      <4>2. CASE Len(sent) # 0
        <5>1. Len(sent) \in DOMAIN sent /\ Len(sent) \in Nat
          BY <2>0, <4>2
        <5>2. Len(sent) <= sent[Len(sent)] /\ sent[Len(sent)] < skb[i] /\ sent[Len(sent)] \in Packets
          BY <1>0, <2>0, <3>1, <3>2, <5>1 DEF Past, SentSet, Unpacked
        <5>3. QED
          BY <3>2, <5>1, <5>2, Sizes DEF Packets
      <4>3. QED
        BY <4>1, <4>2
    <3>4. Append(sent, skb[i]) \in Seq(Packets) /\ Len(Append(sent, skb[i])) = Len(sent) + 1
      BY <2>0, <3>2
    <3>5. QED
      BY <2>0, <3>1, <3>2, <3>3, <3>4, Sizes DEF Packets
  <2>3. QED
    BY <2>1, <2>2
<1>5. QED
  BY <1>1, <1>2, <1>3, <1>4 DEF FlagTypeOK
-----------------------------------------------------------------------------
(* Where the threads are *)
LEMMA FlowKeeps == ASSUME TxInv, Next PROVE Flow'
<1>0. Unpacked /\ unlinked \in Nat /\ accepted \in Nat /\ stops \in Nat
  BY Unpack, Sizes DEF Unpacked, FlagTypeOK, ThreadTypeOK
<1>1. CASE Xmit
  <2>1. unlinked' = unlinked /\ accepted <= accepted' /\ accepted' \in Nat
    BY <1>0, <1>1 DEF Xmit, XmitBegin, XmitQueue, XmitBusy, t7xx_ccmni_tx_timeout, listVars
  <2>2. xmitPc' = "queue" => accepted' < MaxPackets
    BY <1>0, <1>1 DEF Xmit, XmitBegin, XmitQueue, XmitBusy, t7xx_ccmni_tx_timeout, listVars, Flow, Unpacked
  <2>3. UNCHANGED <<pushPc, burst, ctl, powered, stops, pm, hwOn>>
    BY <1>1, XmitFrame DEF NotXmit, pushVars, ctlVars, hwVars
  <2>4. QED
    BY <1>0, <2>1, <2>2, <2>3 DEF Flow, Holding, Unpacked
<1>2. CASE Push
  <2>0. Flow /\ burst.n \in Nat /\ burst.n <= Burst
    BY <1>0, Sizes DEF Unpacked, ThreadTypeOK
  <2>1. unlinked' <= accepted'
    BY <1>0, <1>2 DEF Push, PushWoken, PushGet, PushSelect, PushRecount, PushTest, PushMark, PushPlace, PushNoMem,
         PushFull, PushUnlink, PushBurstOver, PushAnnounce, PushTimeout, NotPush, listVars, Flow, Holding, Unpacked
  <2>2. Holding' => unlinked' < accepted' /\ burst'.n < Burst
    <3>1. CASE PushTest
      <4>1. unlinked < accepted /\ burst.n < Burst /\ UNCHANGED <<unlinked, accepted>>
        <5>1. unlinked # accepted /\ burst.n # Burst /\ unlinked <= accepted /\ UNCHANGED <<unlinked, accepted>>
          BY <2>0, <3>1 DEF PushTest, BurstOver, tx_lists_empty, NotPush, Flow
        <5>2. QED
          BY <1>0, <2>0, <5>1, Sizes
      <4>2. Holding' => burst' = [burst EXCEPT !.remain = burst.remain - Size]
        BY <3>1 DEF PushTest, Goes, Loop, Holding
      <4>3. burst \in [n : 0 .. Burst, remain : Int, cnt : Nat]
        BY <1>0 DEF Unpacked, ThreadTypeOK
      <4>4. QED
        BY <4>1, <4>2, <4>3
    <3>2. CASE PushMark \/ PushPlace \/ PushFull
      BY <2>0, <3>2 DEF PushMark, PushPlace, PushFull, NotPush, Flow, Holding
    <3>3. CASE ~(PushTest \/ PushMark \/ PushPlace \/ PushFull)
      <4>1. ~Holding'
        BY <1>2, <3>3 DEF Push, PushWoken, PushGet, PushSelect, PushRecount, PushNoMem,
         PushUnlink, PushBurstOver, PushAnnounce, PushTimeout, Holding, Goes, Loop
      <4>2. QED
        BY <4>1
    <3>4. QED
      BY <3>1, <3>2, <3>3
  <2>3. pushPc' \in {"wait", "get", "select"} => burst'.cnt = 0
    <3>0. burst \in [n : 0 .. Burst, remain : Int, cnt : Nat]
      BY <1>0 DEF Unpacked, ThreadTypeOK
    <3>1. CASE PushWoken \/ PushGet \/ PushSelect
      BY <2>0, <3>0, <3>1 DEF PushWoken, PushGet, PushSelect, Flow
    <3>2. CASE PushTest \/ PushNoMem \/ PushBurstOver \/ PushAnnounce \/ PushTimeout
      BY <3>0, <3>2 DEF PushTest, PushNoMem, PushBurstOver, PushAnnounce, PushTimeout, Over, Goes
    <3>3. CASE PushRecount \/ PushMark \/ PushPlace \/ PushFull \/ PushUnlink
      <4>1. pushPc' \notin {"wait", "get", "select"}
        BY <3>3 DEF PushRecount, PushMark, PushPlace, PushFull, PushUnlink, Goes
      <4>2. QED
        BY <4>1
    <3>4. QED
      BY <1>2, <3>1, <3>2, <3>3 DEF Push
  <2>4. UNCHANGED <<xmitPc, accepted, ctl, powered, stops, pm, hwOn>>
    BY <1>2, PushFrame DEF ctlVars
  <2>5. QED
    BY <2>0, <2>1, <2>2, <2>3, <2>4 DEF Flow
<1>3. CASE DeviceSends \/ Interrupt \/ Work
  <2>1. UNCHANGED <<xmitPc, listVars, pushVars, ctlVars, hwOn>>
    BY <1>3, IsrFrame, WorkFrame DEF DeviceSends, NotIsr, NotWork, netVars
  <2>2. QED
    BY <1>0, <2>1 DEF Flow, Holding, listVars, pushVars, ctlVars, Unpacked
<1>4. CASE CtlQuiet \/ CtlGoesOn
  <2>1. UNCHANGED <<xmitPc, accepted, unlinked, pushPc, burst, pm>>
    BY <1>4, CtlFrame DEF NotCtl, listVars, pushVars
  <2>2. ctl' \in {"wait", "cancel", "clear", "down", "starting"} => ~powered'
    BY <1>0, <1>4 DEF CtlQuiet, CtlGoesOn, t7xx_ccmni_pre_stop, CtlStop, CtlWait, CtlCancel, CtlClear, CtlStart,
       CtlPowerOn, t7xx_ccmni_start, Flow, Unpacked
  <2>3. ctl' # "ready" => stops' > 0 /\ pm'.at = "active"
    <3>1. CASE CtlQuiet
      BY <1>0, <2>1, <3>1 DEF CtlQuiet
    <3>2. CASE CtlGoesOn
      <4>1. UNCHANGED <<stops, pm>> /\ ctl # "ready"
        BY <2>1, <3>2 DEF CtlGoesOn, t7xx_ccmni_pre_stop, CtlStop, CtlWait, CtlCancel, CtlClear, CtlStart,
           CtlPowerOn, t7xx_ccmni_start
      <4>2. QED
        BY <1>0, <4>1 DEF Flow, Unpacked
    <3>3. QED
      BY <1>4, <3>1, <3>2
  <2>4. ctl' \notin {"ready", "started"} => ~hwOn'
    BY <1>0, <1>4 DEF CtlQuiet, CtlGoesOn, t7xx_ccmni_pre_stop, CtlStop, CtlWait, CtlCancel, CtlClear, CtlStart,
       CtlPowerOn, t7xx_ccmni_start, t7xx_dpmaif_ul_all_q_en, hwVars, Flow, Unpacked
  <2>5. QED
    BY <1>0, <2>1, <2>2, <2>3, <2>4 DEF Flow, Holding, Unpacked
<1>5. CASE Pm
  <2>1. UNCHANGED <<netVars, listVars, powered, pushVars, ctl>>
    BY <1>5, PmFrame DEF NotPm
  <2>2. ctl = "ready"
    BY <1>0, <1>5 DEF Pm, Suspend, Suspended, t7xx_dpmaif_resume, Flow, Unpacked
  <2>3. QED
    BY <1>0, <2>1, <2>2 DEF Flow, Holding, netVars, listVars, pushVars, Unpacked
<1>6. QED
  BY <1>1, <1>2, <1>3, <1>4, <1>5, Actors
-----------------------------------------------------------------------------
(* The numbers of the ring: which steps change them, and how *)
numVars == <<drb_wr_idx, drb_rd_idx, drb_release_rd_idx, tx_budget, hwRd, hwCnt>>

LEMMA PushNumFrame == ASSUME Push, ~PushPlace, ~PushAnnounce PROVE UNCHANGED numVars
BY PushFrame DEF Push, PushWoken, PushGet, PushSelect, PushRecount, PushTest, PushMark, PushNoMem, PushFull,
   PushUnlink, PushBurstOver, PushTimeout, ringVars, hwVars, numVars

LEMMA NumFrame ==
    ASSUME Next, ~PushPlace, ~PushAnnounce, ~DeviceSends, ~WorkUpdate, ~WorkRelease,
           ~t7xx_dpmaif_drb_ring_not_empty, ~CtlClear, ~CtlPowerOn
    PROVE  UNCHANGED numVars
<1>1. CASE Xmit \/ Interrupt \/ Pm
  BY <1>1, XmitFrame, IsrFrame, PmFrame DEF NotXmit, NotIsr, NotPm, ringVars, hwVars, numVars
<1>2. CASE Push
  BY <1>2, PushNumFrame
<1>3. CASE Work
  BY <1>3, WorkFrame DEF Work, WorkBegin, WorkGet, WorkTimeout, WorkInvalid, WorkWake, t7xx_dpmaif_ul_clr_done,
              t7xx_dpmaif_unmask_ulq_intr, NotWork, numVars
<1>4. CASE CtlQuiet \/ CtlGoesOn
  BY <1>4 DEF CtlQuiet, CtlGoesOn, t7xx_ccmni_pre_stop, CtlStop, CtlWait, CtlCancel, CtlStart, t7xx_ccmni_start,
              ringVars, hwVars, numVars
<1>5. QED
  BY <1>1, <1>2, <1>3, <1>4, Actors

(* The numbers as numbers *)
LEMMA Numbers ==
    ASSUME RingTypeOK, DeviceTypeOK
    PROVE  /\ InRing \in Nat /\ InRing < N /\ Read \in Nat /\ Read < N /\ Known \in Nat /\ Known < N
           /\ hwCnt \in Nat /\ N \in Nat
           /\ \A i \in Slots : Off(i) \in Nat /\ Off(i) < N
BY CountRange, Sizes DEF RingTypeOK, DeviceTypeOK, InRing, Read, Known, Off

LEMMA UnannouncedNat ==
    ASSUME ThreadTypeOK, FlagTypeOK, Flow
    PROVE  Unannounced \in Nat /\ (Placed => Unannounced >= 2 /\ Unannounced = burst.cnt + Size /\ Size \in Nat)
<1>1. burst.cnt \in Nat
  BY DEF ThreadTypeOK
<1>2. CASE Placed
  BY <1>1, <1>2, Peek DEF Placed, Holding, Unannounced
<1>3. CASE ~Placed
  BY <1>1, <1>3 DEF Placed, Unannounced
<1>4. QED
  BY <1>2, <1>3

(* A packet is put behind what is in the ring *)
LEMMA Placing ==
    ASSUME Unpacked, PushPlace, orderly
    PROVE  /\ Live /\ Size \in Nat /\ Size >= 2 /\ Size < N /\ InRing + Size < N
           /\ InRing' = InRing + Size /\ burst.remain <= N - 1 - InRing'
           /\ \A i \in Slots : Off(i)' = Off(i)
           /\ Read' = Read /\ Known' = Known
<1>1. Size \in Nat /\ Size >= 2 /\ Size < N
  BY Peek DEF PushPlace, Unpacked, Holding
<1>2. InRing \in Nat /\ N \in Nat /\ burst.remain \in Int
  BY Numbers DEF Unpacked, ThreadTypeOK
<1>3. burst.remain + Size <= N - 1 - InRing /\ burst.remain >= 0
  BY DEF PushPlace, Unpacked, Room, Flow
<1>4. InRing + Size < N
  BY <1>1, <1>2, <1>3
<1>5. drb_wr_idx \in Slots /\ drb_release_rd_idx \in Slots
  BY DEF Unpacked, RingTypeOK
<1>6. InRing' = InRing + Size
  BY <1>1, <1>4, <1>5, NextCount DEF InRing, PushPlace, NotPush
<1>7. Live
  BY DEF Unpacked, Idle, Quiet, Pushing, PushPlace
<1>8. UNCHANGED <<drb_release_rd_idx, drb_rd_idx, hwRd>>
  BY DEF PushPlace, NotPush
<1>9. QED
  BY <1>1, <1>2, <1>3, <1>4, <1>6, <1>7, <1>8 DEF Off, Read, Known

(* The work item releases the oldest DRB, which has been read *)
LEMMA Releasing ==
    ASSUME Unpacked, WorkRelease, orderly
    PROVE  /\ Live /\ Known > 0 /\ Read > 0 /\ InRing > 0
           /\ InRing' = InRing - 1 /\ Read' = Read - 1 /\ Known' = Known - 1
           /\ \A i \in Slots : Off(i)' = IF i = drb_release_rd_idx THEN N - 1 ELSE Off(i) - 1
           /\ rel' = rel - 1 /\ (workPc' = "release" \/ workPc' = "wake")
<1>1. Live
  BY DEF Unpacked, Idle, Quiet, WorkRelease
<1>2. rel > 0 /\ rel <= Known /\ rel \in Nat /\ rel' = rel - 1
  BY <1>1, Sizes DEF Unpacked, Signals, WorkRelease, ThreadTypeOK
<1>3. Known <= Read /\ Read + hwCnt + Unannounced = InRing
  BY <1>1 DEF Unpacked, Agree
<1>4. Unannounced \in Nat /\ hwCnt \in Nat /\ Read \in Nat /\ Known \in Nat /\ InRing \in Nat
  BY UnannouncedNat, Numbers DEF Unpacked
<1>5. Known > 0 /\ Read > 0 /\ InRing > 0
  BY <1>2, <1>3, <1>4
<1>6. drb_release_rd_idx \in Slots /\ drb_rd_idx \in Slots /\ drb_wr_idx \in Slots /\ hwRd \in Slots
  BY DEF Unpacked, RingTypeOK, DeviceTypeOK
<1>7. drb_rd_idx # drb_release_rd_idx /\ drb_wr_idx # drb_release_rd_idx /\ hwRd # drb_release_rd_idx
  BY <1>4, <1>5, <1>6, CountRange DEF Known, Read, Off, InRing
<1>8. drb_release_rd_idx' = Next_idx(drb_release_rd_idx, 1) /\ UNCHANGED <<drb_rd_idx, drb_wr_idx, hwRd>>
  BY DEF WorkRelease, NotWork, Cur
<1>9. \A i \in Slots : Off(i)' = IF i = drb_release_rd_idx THEN N - 1 ELSE Off(i) - 1
  BY <1>6, <1>8, NextShift DEF Off
<1>10. InRing' = InRing - 1
  BY <1>6, <1>7, <1>8, NextShift DEF InRing
<1>11. Read' = Read - 1 /\ Known' = Known - 1
  BY <1>6, <1>7, <1>8, NextShift DEF Read, Known, Off
<1>12. workPc' = "release" \/ workPc' = "wake"
  BY DEF WorkRelease
<1>13. QED
  BY <1>1, <1>2, <1>5, <1>9, <1>10, <1>11, <1>12

(* The work item learns how far the device has got *)
LEMMA Updating ==
    ASSUME Unpacked, WorkUpdate \/ t7xx_dpmaif_drb_ring_not_empty, orderly'
    PROVE  /\ Live /\ orderly /\ drb_rd_idx' = hwRd /\ Known' = Read /\ Read' = Read /\ InRing' = InRing
           /\ \A i \in Slots : Off(i)' = Off(i)
<1>1. orderly /\ que_started
  BY DEF WorkUpdate, t7xx_dpmaif_drb_ring_not_empty
<1>2. Live
  BY <1>1 DEF Unpacked, Idle, Quiet, WorkUpdate, t7xx_dpmaif_drb_ring_not_empty
<1>3. drb_rd_idx' = hwRd /\ UNCHANGED <<drb_release_rd_idx, drb_wr_idx, hwRd>>
  BY <1>1 DEF WorkUpdate, t7xx_dpmaif_drb_ring_not_empty, t7xx_dpmaif_update_drb_rd_idx, NotWork
<1>4. QED
  BY <1>1, <1>2, <1>3 DEF Known, Read, Off, InRing

(* The ring is cleared *)
LEMMA Clearing ==
    ASSUME Unpacked, CtlClear, orderly'
    PROVE  /\ orderly /\ Quiet /\ Quiet' /\ ~Live'
           /\ drb_wr_idx' = 0 /\ drb_rd_idx' = 0 /\ drb_release_rd_idx' = 0
           /\ InRing' = 0
<1>1. orderly /\ Quiet /\ ~Live'
  BY DEF CtlClear, Live
<1>2. UNCHANGED <<pushPc, burst, isrPc, pending, workPc>>
  BY DEF CtlClear, NotCtl, pushVars
<1>3. Quiet'
  BY <1>1, <1>2 DEF Quiet, Pushing
<1>4. drb_wr_idx' = 0 /\ drb_rd_idx' = 0 /\ drb_release_rd_idx' = 0
  BY DEF CtlClear
<1>5. rd_count(0, 0) = 0
  BY Sizes, CountRange
<1>6. QED
  BY <1>1, <1>3, <1>4, <1>5 DEF InRing

(* The device reads *)
LEMMA Reading ==
    ASSUME Unpacked, DeviceSends, orderly
    PROVE  /\ Live /\ Read' > Read /\ Read' <= InRing /\ Read' + hwCnt' = Read + hwCnt /\ Read' \in Nat
           /\ Known' = Known /\ InRing' = InRing /\ hwRd' \in Slots
           /\ \A i \in Slots : Off(i)' = Off(i)
<1>1. PICK k \in Nat \ {0} :
        Live /\ k <= hwCnt /\ Read + k <= InRing /\ InRing < N /\ hwRd' = Next_idx(hwRd, k) /\ hwCnt' = hwCnt - k
  BY Sends
<1>2. UNCHANGED <<drb_release_rd_idx, drb_rd_idx, drb_wr_idx>>
  BY DEF DeviceSends, ringVars
<1>3. drb_release_rd_idx \in Slots /\ hwRd \in Slots
  BY DEF Unpacked, RingTypeOK, DeviceTypeOK
<1>4. InRing \in Nat /\ Read \in Nat /\ hwCnt \in Nat /\ N \in Nat
  BY Numbers DEF Unpacked
<1>5. rd_count(drb_release_rd_idx, hwRd) + k < N /\ k \in Nat
  BY <1>1, <1>4 DEF Read, Off
<1>6. hwRd' \in Slots /\ Read' = Read + k
  BY <1>1, <1>2, <1>3, <1>5, NextCount DEF Read, Off
<1>7. Known' = Known /\ InRing' = InRing /\ \A i \in Slots : Off(i)' = Off(i)
  BY <1>2 DEF Known, InRing, Off
<1>8. QED
  BY <1>1, <1>4, <1>6, <1>7

LEMMA RoomKeeps == ASSUME TxInv, Next, orderly' PROVE Room'
<1>0. /\ Unpacked /\ orderly /\ Room /\ InRing \in Nat /\ N \in Nat /\ t7xx_txq_drb_wr_available = N - 1 - InRing
      /\ burst \in [n : 0 .. Burst, remain : Int, cnt : Nat] /\ InRing < N
  <2>1. Unpacked /\ orderly
    BY Unpack, OrderlyOnce DEF Unpacked
  <2>2. QED
    BY <2>1, Numbers, Available DEF Unpacked, RingTypeOK, ThreadTypeOK
<1>1. CASE PushPlace
  <2>1. burst.remain <= N - 1 - InRing' /\ UNCHANGED burst /\ pushPc' \notin {"mark", "place"}
    BY <1>0, <1>1, Placing DEF PushPlace, Goes
  <2>2. QED
    BY <2>1 DEF Room
<1>2. CASE WorkRelease
  <2>1. InRing' = InRing - 1
    BY <1>0, <1>2, Releasing
  <2>2. UNCHANGED <<pushPc, burst, unlinked>>
    BY <1>2 DEF WorkRelease, NotWork, pushVars, listVars
  <2>3. (pushPc \in {"mark", "place"} => Size \in Nat) /\ Size' = Size
    BY <1>0, <2>2, Peek DEF Unpacked, Holding, Size, Peeked
  <2>4. QED
    BY <1>0, <2>1, <2>2, <2>3 DEF Room
<1>3. CASE CtlClear
  <2>1. InRing' = 0 /\ Quiet' /\ UNCHANGED burst /\ UNCHANGED pushPc
    BY <1>0, <1>3, Clearing DEF CtlClear, NotCtl, pushVars
  <2>2. pushPc' \notin {"mark", "place", "full", "unlink"}
    BY <2>1 DEF Quiet, Pushing
  <2>3. pushPc = "burst" => burst.remain <= N - 1 - InRing
    BY <1>0 DEF Room
  <2>4. QED
    BY <1>0, <2>1, <2>2, <2>3 DEF Room
<1>4. CASE ~(PushPlace \/ WorkRelease \/ CtlClear)
  <2>1. InRing' = InRing
    <3>1. CASE WorkUpdate \/ t7xx_dpmaif_drb_ring_not_empty
      BY <1>0, <3>1, Updating
    <3>2. CASE DeviceSends
      BY <1>0, <3>2, Reading
    <3>3. CASE PushAnnounce \/ CtlPowerOn
      BY <3>3 DEF PushAnnounce, NotPush, CtlPowerOn, ringVars, InRing
    <3>4. CASE UNCHANGED numVars
      BY <3>4 DEF numVars, InRing
    <3>5. QED
      BY <1>4, <3>1, <3>2, <3>3, <3>4, NumFrame
  <2>2. CASE Push
    <3>1. CASE PushSelect \/ PushRecount
      <4>1. pushPc' \in {"burst", "wait"} /\ (pushPc' = "burst" => burst'.remain = t7xx_txq_drb_wr_available)
        BY <1>0, <3>1 DEF PushSelect, PushRecount, Goes
      <4>2. QED
        BY <1>0, <2>1, <4>1 DEF Room
    <3>2. CASE PushTest
      <4>1. pushPc' \in {"mark", "lock", "select", "wait"} /\ Size' = Size /\ burst.remain >= Size
            /\ (pushPc' = "mark" => burst'.remain = burst.remain - Size) /\ burst.remain <= N - 1 - InRing
        BY <1>0, <3>2 DEF PushTest, Goes, Loop, Room, Size, Peeked
      <4>2. Size \in Nat
        BY <1>0, <3>2, Peek DEF PushTest, BurstOver, Unpacked
      <4>3. pushPc' \notin {"burst", "full", "unlink"}
        BY <4>1
      <4>4. pushPc' \in {"mark", "place"} => burst'.remain >= 0 /\ burst'.remain + Size' <= N - 1 - InRing'
        BY <1>0, <2>1, <4>1, <4>2
      <4>5. QED
        BY <4>3, <4>4 DEF Room
    <3>3. CASE PushMark
      BY <1>0, <2>1, <3>3 DEF PushMark, Goes, Room, Size, Peeked
    <3>4. CASE PushFull \/ PushUnlink
      <4>1. burst'.remain = burst.remain /\ pushPc \in {"full", "unlink"} /\ pushPc' \in {"unlink", "burst"}
        BY <1>0, <3>4 DEF PushFull, PushUnlink, Goes
      <4>2. QED
        BY <1>0, <2>1, <4>1 DEF Room
    <3>5. CASE ~(PushSelect \/ PushRecount \/ PushTest \/ PushMark \/ PushFull \/ PushUnlink)
      <4>1. pushPc' \in {"wait", "get", "select", "lock"}
        BY <1>4, <2>2, <3>5 DEF Push, PushWoken, PushGet, PushNoMem, PushBurstOver, PushAnnounce, PushTimeout, Goes, Loop
      <4>2. QED
        BY <4>1 DEF Room
    <3>6. QED
      BY <3>1, <3>2, <3>3, <3>4, <3>5
  <2>3. CASE ~Push
    <3>1. UNCHANGED <<pushPc, burst, unlinked>>
      BY <2>3, XmitFrame, IsrFrame, WorkFrame, CtlFrame, PmFrame, Actors
         DEF NotXmit, NotIsr, NotWork, NotCtl, NotPm, DeviceSends, pushVars, listVars,
             Xmit, XmitBegin, XmitQueue, XmitBusy, t7xx_ccmni_tx_timeout
    <3>2. QED
      BY <1>0, <2>1, <3>1 DEF Room, Size, Peeked
  <2>4. QED
    BY <2>2, <2>3
<1>5. QED
  BY <1>1, <1>2, <1>3, <1>4

LEMMA BudgetKeeps == ASSUME TxInv, Next PROVE BudgetMatches'
<1>0. SUFFICES ASSUME orderly' PROVE tx_budget' + InRing' <= N /\ (stops' = 0 => tx_budget' + InRing' = N)
  BY DEF BudgetMatches
<1>1. /\ Unpacked /\ orderly /\ InRing \in Nat /\ N \in Nat /\ tx_budget \in Int
      /\ tx_budget + InRing <= N /\ (stops = 0 => tx_budget + InRing = N) /\ stops \in Nat
  <2>1. Unpacked /\ orderly
    BY <1>0, Unpack, OrderlyOnce DEF Unpacked
  <2>2. QED
    BY <2>1, Numbers, Sizes DEF Unpacked, RingTypeOK, ThreadTypeOK, TxInv, BudgetMatches
<1>2. stops' = stops \/ stops' = stops + 1
  <2>1. CASE Xmit \/ Push \/ DeviceSends \/ Interrupt \/ Work
    BY <2>1, XmitFrame, PushFrame, IsrFrame, WorkFrame DEF NotXmit, NotIsr, NotWork, DeviceSends, ctlVars
  <2>2. CASE CtlQuiet \/ CtlGoesOn
    BY <2>2 DEF CtlQuiet, CtlGoesOn, t7xx_ccmni_pre_stop, CtlStop, CtlWait, CtlCancel, CtlClear, CtlStart,
       CtlPowerOn, t7xx_ccmni_start
  <2>3. CASE Pm
    BY <2>3 DEF Pm, Suspend, Suspended, t7xx_dpmaif_resume
  <2>4. QED
    BY <2>1, <2>2, <2>3, Actors
<1>3. CASE PushPlace
  <2>1. InRing' = InRing + Size /\ Size \in Nat /\ tx_budget' = tx_budget - Size
    BY <1>1, <1>3, Placing DEF PushPlace
  <2>2. QED
    BY <1>1, <1>2, <2>1
<1>4. CASE WorkRelease
  <2>1. InRing' = InRing - 1 /\ tx_budget' = tx_budget + 1
    BY <1>1, <1>4, Releasing DEF WorkRelease
  <2>2. QED
    BY <1>1, <1>2, <2>1
<1>5. CASE CtlClear
  <2>1. InRing' = 0 /\ tx_budget' = tx_budget /\ stops' = stops /\ stops > 0
    BY <1>0, <1>1, <1>5, Clearing DEF CtlClear, Flow, Unpacked
  <2>2. QED
    BY <1>1, <2>1
<1>6. CASE ~(PushPlace \/ WorkRelease \/ CtlClear)
  <2>1. InRing' = InRing /\ tx_budget' = tx_budget
    <3>1. CASE WorkUpdate \/ t7xx_dpmaif_drb_ring_not_empty
      BY <1>0, <1>1, <3>1, Updating DEF WorkUpdate, t7xx_dpmaif_drb_ring_not_empty
    <3>2. CASE DeviceSends
      BY <1>1, <3>2, Reading DEF DeviceSends, ringVars
    <3>3. CASE PushAnnounce \/ CtlPowerOn
      BY <3>3 DEF PushAnnounce, NotPush, CtlPowerOn, ringVars, InRing
    <3>4. CASE UNCHANGED numVars
      BY <3>4 DEF numVars, InRing
    <3>5. QED
      BY <1>6, <3>1, <3>2, <3>3, <3>4, NumFrame
  <2>2. QED
    BY <1>1, <1>2, <2>1
<1>7. QED
  BY <1>3, <1>4, <1>5, <1>6

LEMMA IdleKeeps == ASSUME TxInv, Next, orderly' PROVE Idle'
<1>0. SUFFICES ASSUME ~Live' PROVE Quiet' /\ drb_wr_idx' = 0 /\ drb_rd_idx' = 0 /\ drb_release_rd_idx' = 0
  BY DEF Idle
<1>1. Unpacked /\ orderly
  BY Unpack, OrderlyOnce DEF Unpacked
<1>2. CASE CtlClear
  BY <1>1, <1>2, Clearing
<1>3. CASE ~CtlClear
  <2>1. ~Live /\ ~CtlPowerOn
    <3>1. CASE CtlQuiet \/ CtlGoesOn
      BY <1>0, <1>3, <3>1 DEF CtlQuiet, CtlGoesOn, t7xx_ccmni_pre_stop, CtlStop, CtlWait, CtlCancel, CtlStart,
         CtlPowerOn, t7xx_ccmni_start, Live
    <3>2. CASE ~(CtlQuiet \/ CtlGoesOn)
      <4>1. UNCHANGED ctl
        BY <3>2, XmitFrame, PushFrame, IsrFrame, WorkFrame, PmFrame, Actors
           DEF NotXmit, NotIsr, NotWork, NotPm, DeviceSends, ctlVars
      <4>2. QED
        BY <1>0, <3>2, <4>1 DEF Live, CtlGoesOn
    <3>3. QED
      BY <3>1, <3>2
  <2>2. Quiet /\ drb_wr_idx = 0 /\ drb_rd_idx = 0 /\ drb_release_rd_idx = 0 /\ ~powered /\ ~hwOn
    BY <1>1, <2>1 DEF Idle, Unpacked, Flow, Live, ThreadTypeOK
  <2>3. ~Pushing'
    <3>1. CASE Push
      <4>1. pushPc \in {"wait", "get", "select"} => burst.cnt = 0
        BY <1>1 DEF Unpacked, Flow
      <4>2. burst \in [n : 0 .. Burst, remain : Int, cnt : Nat] /\ pushPc \in PushPcs
        BY <1>1 DEF Unpacked, ThreadTypeOK
      <4>3. CASE PushWoken \/ PushGet \/ PushSelect \/ PushRecount
        <5>1. burst.cnt = 0
          BY <2>2, <4>1, <4>2, <4>3 DEF PushWoken, PushGet, PushSelect, PushRecount, Quiet, Pushing
        <5>2. burst'.cnt = burst.cnt /\ pushPc' \in {"wait", "get", "select", "burst"}
          BY <4>2, <4>3 DEF PushWoken, PushGet, PushSelect, PushRecount, Goes
        <5>3. QED
          BY <5>1, <5>2 DEF Pushing
      <4>4. CASE PushTest \/ PushBurstOver
        <5>1. burst.cnt = 0 /\ pushPc = "burst"
          BY <2>2, <4>2, <4>4 DEF PushTest, PushBurstOver, Quiet, Pushing
        <5>2. pushPc' \in {"select", "wait"}
          BY <2>2, <4>4, <5>1 DEF PushTest, PushBurstOver, Goes, Loop
        <5>3. QED
          BY <5>2 DEF Pushing
      <4>5. CASE PushMark \/ PushPlace \/ PushNoMem \/ PushFull \/ PushUnlink \/ PushAnnounce \/ PushTimeout
        BY <2>2, <4>5 DEF PushMark, PushPlace, PushNoMem, PushFull, PushUnlink, PushAnnounce, PushTimeout, Quiet, Pushing
      <4>6. QED
        BY <3>1, <4>3, <4>4, <4>5 DEF Push
    <3>2. CASE ~Push
      <4>1. UNCHANGED <<pushPc, burst>>
        BY <3>2, XmitFrame, IsrFrame, WorkFrame, CtlFrame, PmFrame, Actors
           DEF NotXmit, NotIsr, NotWork, NotCtl, NotPm, DeviceSends, pushVars
      <4>2. QED
        BY <2>2, <4>1 DEF Quiet, Pushing
    <3>3. QED
      BY <3>1, <3>2
  <2>4. isrPc' \in {"off", "end"} /\ ~pending' /\ workPc' = "off"
    <3>1. CASE Interrupt
      BY <2>2, <3>1 DEF Quiet, Interrupt, t7xx_dpmaif_isr_handler, t7xx_dpmaif_hw_check_tx_intr,
         t7xx_dpmaif_irq_tx_done, IsrEnd, NotIsr
    <3>2. CASE Work
      BY <2>2, <3>2 DEF Quiet, Work, WorkBegin, WorkGet, WorkTimeout, WorkUpdate, WorkRelease, WorkInvalid, WorkWake,
       t7xx_dpmaif_ul_clr_done, t7xx_dpmaif_drb_ring_not_empty, t7xx_dpmaif_unmask_ulq_intr
    <3>3. CASE CtlQuiet \/ CtlGoesOn
      <4>1. UNCHANGED <<isrPc, workPc>>
        BY <3>3, CtlFrame DEF NotCtl
      <4>2. pending' = pending \/ pending' = FALSE
        BY <3>3 DEF CtlQuiet, CtlGoesOn, t7xx_ccmni_pre_stop, CtlStop, CtlWait, CtlCancel, CtlClear, CtlStart,
           CtlPowerOn, t7xx_ccmni_start
      <4>3. QED
        BY <2>2, <4>1, <4>2 DEF Quiet
    <3>4. CASE Xmit \/ Push \/ DeviceSends \/ Pm
      <4>1. UNCHANGED <<isrPc, pending, workPc>>
        BY <3>4, XmitFrame, PushFrame, PmFrame DEF NotXmit, NotPm, DeviceSends, workVars
      <4>2. QED
        BY <2>2, <4>1 DEF Quiet
    <3>5. QED
      BY <3>1, <3>2, <3>3, <3>4, Actors
  <2>5. UNCHANGED <<drb_wr_idx, drb_rd_idx, drb_release_rd_idx>>
    <3>1. ~PushPlace /\ ~WorkUpdate /\ ~WorkRelease /\ ~t7xx_dpmaif_drb_ring_not_empty /\ ~DeviceSends
      BY <2>2 DEF Quiet, Pushing, PushPlace, WorkUpdate, WorkRelease, t7xx_dpmaif_drb_ring_not_empty, DeviceSends
    <3>2. CASE PushAnnounce
      BY <3>2 DEF PushAnnounce, NotPush
    <3>3. CASE ~PushAnnounce
      BY <1>3, <2>1, <3>1, <3>3, NumFrame DEF numVars
    <3>4. QED
      BY <3>2, <3>3
  <2>6. QED
    BY <2>2, <2>3, <2>4, <2>5 DEF Quiet
<1>4. QED
  BY <1>2, <1>3

LEMMA AgreeKeeps == ASSUME TxInv, Next, orderly' PROVE Agree'
<1>0. SUFFICES ASSUME Live' PROVE Known' <= Read' /\ Read' + hwCnt' + Unannounced' = InRing'
  BY DEF Agree
<1>1. Unpacked /\ orderly
  BY Unpack, OrderlyOnce DEF Unpacked
<1>2. /\ InRing \in Nat /\ Read \in Nat /\ Known \in Nat /\ hwCnt \in Nat /\ N \in Nat /\ Unannounced \in Nat
      /\ burst \in [n : 0 .. Burst, remain : Int, cnt : Nat]
  BY <1>1, Numbers, UnannouncedNat DEF Unpacked, ThreadTypeOK
<1>3. CASE CtlPowerOn
  <2>1. Quiet /\ drb_wr_idx = 0 /\ drb_rd_idx = 0 /\ drb_release_rd_idx = 0
    BY <1>1, <1>3 DEF Unpacked, Idle, Live, CtlPowerOn
  <2>2. UNCHANGED <<drb_wr_idx, drb_rd_idx, drb_release_rd_idx, pushPc, burst, unlinked>> /\ hwRd' = 0 /\ hwCnt' = 0
    BY <1>3 DEF CtlPowerOn, t7xx_dpmaif_config_ulq_hw, ringVars, NotCtl, pushVars, listVars
  <2>3. rd_count(0, 0) = 0
    BY Sizes, CountRange
  <2>4. burst.cnt = 0 /\ pushPc \notin {"full", "unlink"}
    BY <1>1, <1>2, <2>1 DEF Quiet, Pushing, Unpacked, Flow, ThreadTypeOK, PushPcs
  <2>5. Unannounced' = 0
    BY <2>2, <2>4 DEF Unannounced
  <2>6. Known' = 0 /\ Read' = 0 /\ InRing' = 0
    BY <2>1, <2>2, <2>3 DEF Known, Read, Off, InRing
  <2>7. QED
    BY <2>2, <2>5, <2>6
<1>4. CASE ~CtlPowerOn
  <2>1. Live
    <3>1. CASE CtlQuiet \/ CtlGoesOn
      BY <1>0, <1>4, <3>1 DEF CtlQuiet, CtlGoesOn, t7xx_ccmni_pre_stop, CtlStop, CtlWait, CtlCancel, CtlClear, CtlStart,
         CtlPowerOn, t7xx_ccmni_start, Live
    <3>2. CASE ~(CtlQuiet \/ CtlGoesOn)
      <4>1. UNCHANGED ctl
        BY <3>2, XmitFrame, PushFrame, IsrFrame, WorkFrame, PmFrame, Actors
           DEF NotXmit, NotIsr, NotWork, NotPm, DeviceSends, ctlVars
      <4>2. QED
        BY <1>0, <4>1 DEF Live
    <3>3. QED
      BY <3>1, <3>2
  <2>2. Known <= Read /\ Read + hwCnt + Unannounced = InRing
    BY <1>1, <2>1 DEF Unpacked, Agree
  <2>3. CASE Push
    <3>1. CASE PushPlace
      <4>1. InRing' = InRing + Size /\ Size \in Nat /\ Read' = Read /\ Known' = Known
        BY <1>1, <3>1, Placing
      <4>2. UNCHANGED <<hwCnt, burst, unlinked>> /\ pushPc = "place" /\ pushPc' \in {"full", "unlink"}
        BY <3>1 DEF PushPlace, Goes
      <4>3. Unannounced = burst.cnt + 0 /\ Unannounced' = burst.cnt + Size
        BY <4>2 DEF Unannounced, Size, Peeked
      <4>4. QED
        BY <1>2, <2>2, <4>1, <4>2, <4>3
    <3>2. CASE PushAnnounce
      <4>1. UNCHANGED <<drb_wr_idx, drb_rd_idx, drb_release_rd_idx, hwRd>>
        BY <3>2 DEF PushAnnounce, NotPush
      <4>2. Known' = Known /\ Read' = Read /\ InRing' = InRing
        BY <4>1 DEF Known, Read, Off, InRing
      <4>3. hwCnt' = hwCnt + burst.cnt /\ pushPc = "lock" /\ pushPc' \in {"select", "wait"} /\ burst'.cnt = 0
        BY <3>2 DEF PushAnnounce, Goes, Loop, Over
      <4>4. Unannounced = burst.cnt + 0 /\ Unannounced' = 0
        BY <4>3 DEF Unannounced
      <4>5. QED
        BY <1>2, <2>2, <4>2, <4>3, <4>4
    <3>3. CASE ~PushPlace /\ ~PushAnnounce
      <4>1. UNCHANGED numVars
        BY <2>3, <3>3, PushNumFrame
      <4>2. Known' = Known /\ Read' = Read /\ InRing' = InRing /\ hwCnt' = hwCnt
        BY <4>1 DEF numVars, Known, Read, Off, InRing
      <4>3. Unannounced' = Unannounced
        <5>1. CASE PushUnlink
          <6>1. burst'.cnt = burst.cnt + Size /\ pushPc = "unlink" /\ pushPc' = "burst" /\ Size \in Nat
            BY <1>1, <1>2, <5>1, Peek DEF PushUnlink, Goes, Unpacked, Holding
          <6>2. QED
            BY <1>2, <6>1 DEF Unannounced
        <5>2. CASE PushTimeout
          BY <5>2 DEF PushTimeout
        <5>3. CASE PushTest \/ PushNoMem \/ PushBurstOver
          <6>1. burst'.cnt = burst.cnt /\ pushPc \notin {"full", "unlink"} /\ pushPc' \notin {"full", "unlink"}
            BY <1>2, <5>3 DEF PushTest, PushNoMem, PushBurstOver, Over, Goes, Loop
          <6>2. QED
            BY <6>1 DEF Unannounced
        <5>4. CASE PushFull
          <6>1. UNCHANGED <<burst, unlinked>> /\ pushPc = "full" /\ pushPc' = "unlink"
            BY <5>4 DEF PushFull, Goes
          <6>2. QED
            BY <6>1 DEF Unannounced, Size, Peeked
        <5>5. CASE PushWoken \/ PushGet \/ PushSelect \/ PushRecount \/ PushMark
          <6>1. burst'.cnt = burst.cnt /\ pushPc \notin {"full", "unlink"} /\ pushPc' \notin {"full", "unlink"}
            BY <1>2, <5>5 DEF PushWoken, PushGet, PushSelect, PushRecount, PushMark, Goes
          <6>2. QED
            BY <6>1 DEF Unannounced
        <5>6. QED
          BY <2>3, <3>3, <5>1, <5>2, <5>3, <5>4, <5>5 DEF Push
      <4>4. QED
        BY <2>2, <4>2, <4>3
    <3>4. QED
      BY <3>1, <3>2, <3>3
  <2>4. CASE ~Push
    <3>1. UNCHANGED <<pushPc, burst, unlinked>>
      BY <2>4, XmitFrame, IsrFrame, WorkFrame, CtlFrame, PmFrame, Actors
         DEF NotXmit, NotIsr, NotWork, NotCtl, NotPm, DeviceSends, pushVars, listVars,
             Xmit, XmitBegin, XmitQueue, XmitBusy, t7xx_ccmni_tx_timeout
    <3>2. Unannounced' = Unannounced
      BY <3>1 DEF Unannounced, Size, Peeked
    <3>3. CASE DeviceSends
      BY <1>1, <1>2, <2>2, <3>2, <3>3, Reading
    <3>4. CASE WorkUpdate \/ t7xx_dpmaif_drb_ring_not_empty
      <4>1. Known' = Read /\ Read' = Read /\ InRing' = InRing
        BY <1>1, <3>4, Updating
      <4>2. hwCnt' = hwCnt
        BY <3>4 DEF WorkUpdate, t7xx_dpmaif_drb_ring_not_empty, NotWork
      <4>3. QED
        BY <1>2, <2>2, <3>2, <4>1, <4>2
    <3>5. CASE WorkRelease
      <4>1. InRing' = InRing - 1 /\ Read' = Read - 1 /\ Known' = Known - 1 /\ hwCnt' = hwCnt
        BY <1>1, <3>5, Releasing DEF WorkRelease, NotWork
      <4>2. QED
        BY <1>2, <2>2, <3>2, <4>1
    <3>6. CASE UNCHANGED numVars
      BY <2>2, <3>2, <3>6 DEF numVars, Known, Read, Off, InRing
    <3>7. ~PushPlace /\ ~PushAnnounce /\ ~CtlClear
      BY <1>0, <2>4 DEF Push, CtlClear, Live
    <3>8. QED
      BY <1>4, <3>3, <3>4, <3>5, <3>6, <3>7, NumFrame
  <2>5. QED
    BY <2>3, <2>4
<1>5. QED
  BY <1>3, <1>4
-----------------------------------------------------------------------------
(* The device's signal *)
LEMMA SignalsKeeps == ASSUME TxInv, Next, orderly' PROVE Signals'
<1>0. SUFFICES ASSUME Live'
      PROVE
        /\ isrPc' = "queue" \/ pending' \/ workPc' # "off" => masked'
        /\ ~(isrPc' = "queue" /\ pending') /\ ~(isrPc' = "queue" /\ workPc' # "off") /\ ~(pending' /\ workPc' # "off")
        /\ isrPc' = "queue" \/ pending' \/ workPc' \in {"get", "update"} => Read' > 0
        /\ workPc' \in {"release", "wake"} => rel' <= Known'
        /\ done' /\ (~masked' \/ workPc' \in {"moved", "unmask"}) => drb_rd_idx' # hwRd'
  BY DEF Signals
<1>1. Unpacked /\ orderly
  BY Unpack, OrderlyOnce DEF Unpacked
<1>2. /\ InRing \in Nat /\ Read \in Nat /\ Known \in Nat /\ rel \in 0 .. N /\ N \in Nat
      /\ hwRd \in Slots /\ drb_rd_idx \in Slots /\ drb_release_rd_idx \in Slots
  BY <1>1, Numbers DEF Unpacked, ThreadTypeOK, DeviceTypeOK, RingTypeOK
<1>3. CASE CtlPowerOn
  <2>1. Quiet
    BY <1>1, <1>3 DEF Unpacked, Idle, Live, CtlPowerOn
  <2>2. UNCHANGED <<isrPc, pending, workPc>> /\ ~done'
    BY <1>3 DEF CtlPowerOn, t7xx_dpmaif_init_intr, NotCtl
  <2>3. isrPc' # "queue" /\ ~pending' /\ workPc' = "off"
    BY <2>1, <2>2 DEF Quiet
  <2>4. QED
    BY <2>2, <2>3
<1>4. CASE ~CtlPowerOn
  <2>1. Live
    <3>1. CASE CtlQuiet \/ CtlGoesOn
      BY <1>0, <1>4, <3>1 DEF CtlQuiet, CtlGoesOn, t7xx_ccmni_pre_stop, CtlStop, CtlWait, CtlCancel, CtlClear, CtlStart,
         CtlPowerOn, t7xx_ccmni_start, Live
    <3>2. CASE ~(CtlQuiet \/ CtlGoesOn)
      <4>1. UNCHANGED ctl
        BY <3>2, XmitFrame, PushFrame, IsrFrame, WorkFrame, PmFrame, Actors
           DEF NotXmit, NotIsr, NotWork, NotPm, DeviceSends, ctlVars
      <4>2. QED
        BY <1>0, <4>1 DEF Live
    <3>3. QED
      BY <3>1, <3>2
  <2>2. /\ isrPc = "queue" \/ pending \/ workPc # "off" => masked
        /\ ~(isrPc = "queue" /\ pending) /\ ~(isrPc = "queue" /\ workPc # "off") /\ ~(pending /\ workPc # "off")
        /\ isrPc = "queue" \/ pending \/ workPc \in {"get", "update"} => Read > 0
        /\ workPc \in {"release", "wake"} => rel <= Known
        /\ done /\ (~masked \/ workPc \in {"moved", "unmask"}) => drb_rd_idx # hwRd
    BY <1>1, <2>1 DEF Unpacked, Signals
  <2>3. Known <= Read /\ (drb_rd_idx # hwRd => Known < Read)
    <3>1. Known <= Read
      BY <1>1, <2>1 DEF Unpacked, Agree
    <3>2. drb_rd_idx # hwRd => Known # Read
      BY <1>2, CountInjective DEF Known, Read, Off
    <3>3. QED
      BY <1>2, <3>1, <3>2
  <2>4. CASE DeviceSends
    <3>1. Read' > Read /\ Known' = Known /\ Read' \in Nat /\ hwRd' \in Slots
      BY <1>1, <2>4, Reading
    <3>2. UNCHANGED <<isrPc, pending, workPc, rel, masked, drb_rd_idx, drb_release_rd_idx>>
      BY <2>4 DEF DeviceSends, workVars, ringVars
    <3>3. Read' # Known'
      BY <1>2, <2>3, <3>1
    <3>4. drb_rd_idx' # hwRd'
      BY <3>3 DEF Read, Known, Off
    <3>5. Read > 0 => Read' > 0
      BY <1>2, <3>1
    <3>6. QED
      BY <2>2, <3>1, <3>2, <3>4, <3>5
  <2>5. CASE Interrupt
    <3>1. UNCHANGED <<workPc, rel, drb_rd_idx, hwRd>> /\ Read' = Read /\ Known' = Known
      BY <2>5, IsrFrame DEF NotIsr, ringVars, Read, Known, Off
    <3>2. CASE t7xx_dpmaif_isr_handler \/ IsrEnd
      BY <2>2, <3>1, <3>2 DEF t7xx_dpmaif_isr_handler, IsrEnd
    <3>3. CASE t7xx_dpmaif_hw_check_tx_intr
      <4>1. CASE done /\ ~masked
        <5>1. Read > 0 /\ workPc = "off" /\ ~pending
          BY <1>2, <2>2, <2>3, <4>1
        <5>2. isrPc' = "queue" /\ masked' = TRUE /\ done' = FALSE /\ UNCHANGED pending
          BY <3>3, <4>1 DEF t7xx_dpmaif_hw_check_tx_intr
        <5>3. QED
          BY <3>1, <5>1, <5>2
      <4>2. CASE ~(done /\ ~masked)
        <5>1. isrPc' = "end" /\ UNCHANGED <<masked, done, pending>>
          BY <3>3, <4>2 DEF t7xx_dpmaif_hw_check_tx_intr
        <5>2. QED
          BY <2>2, <3>1, <5>1
      <4>3. QED
        BY <4>1, <4>2
    <3>4. CASE t7xx_dpmaif_irq_tx_done
      BY <2>2, <3>1, <3>4 DEF t7xx_dpmaif_irq_tx_done
    <3>5. QED
      BY <2>5, <3>2, <3>3, <3>4 DEF Interrupt
  <2>6. CASE Work
    <3>0. UNCHANGED <<isrPc, hwRd>>
      BY <2>6, WorkFrame DEF NotWork
    <3>1. CASE WorkBegin \/ WorkGet \/ WorkInvalid \/ WorkWake
      <4>1. UNCHANGED <<drb_rd_idx, drb_release_rd_idx, masked, done>> /\ Read' = Read /\ Known' = Known
        BY <3>0, <3>1 DEF WorkBegin, WorkGet, WorkInvalid, WorkWake, Read, Known, Off
      <4>2. CASE WorkBegin
        BY <2>2, <3>0, <4>1, <4>2 DEF WorkBegin
      <4>3. CASE WorkGet
        BY <2>2, <3>0, <4>1, <4>3 DEF WorkGet
      <4>4. CASE WorkInvalid
        <5>1. rel' <= Known' /\ workPc' = "release" /\ workPc = "release" /\ UNCHANGED pending
          BY <1>2, <2>2, <4>1, <4>4 DEF WorkInvalid
        <5>2. QED
          BY <2>2, <3>0, <4>1, <5>1
      <4>5. CASE WorkWake
        BY <2>2, <3>0, <4>1, <4>5 DEF WorkWake
      <4>6. QED
        BY <3>1, <4>2, <4>3, <4>4, <4>5
    <3>2. CASE WorkTimeout
      BY <3>2 DEF WorkTimeout
    <3>3. CASE WorkUpdate
      <4>1. Known' = Read /\ Read > 0 /\ masked /\ ~pending /\ isrPc # "queue"
        BY <1>1, <2>2, <3>3, Updating DEF WorkUpdate
      <4>2. workPc' = "release" /\ UNCHANGED <<masked, pending>> /\ rel' = IF Known' = 0 THEN N ELSE Known'
        BY <3>3 DEF WorkUpdate, Known, Off
      <4>3. rel' <= Known'
        BY <1>2, <4>1, <4>2
      <4>4. QED
        BY <3>0, <4>1, <4>2, <4>3
    <3>4. CASE WorkRelease
      <4>1. Known' = Known - 1 /\ rel' = rel - 1 /\ (workPc' = "release" \/ workPc' = "wake")
        BY <1>1, <3>4, Releasing
      <4>2. UNCHANGED <<pending, masked, done, drb_rd_idx>> /\ workPc = "release"
        BY <3>4 DEF WorkRelease
      <4>3. rel' <= Known'
        BY <1>2, <2>2, <4>1, <4>2
      <4>4. QED
        BY <2>2, <3>0, <4>1, <4>2, <4>3
    <3>5. CASE t7xx_dpmaif_ul_clr_done
      <4>1. workPc = "release" /\ workPc' \in {"moved", "unmask"} /\ ~done' /\ UNCHANGED <<masked, pending>>
        BY <3>5 DEF t7xx_dpmaif_ul_clr_done
      <4>2. QED
        BY <2>2, <3>0, <4>1
    <3>6. CASE t7xx_dpmaif_drb_ring_not_empty
      <4>1. drb_rd_idx' = hwRd /\ workPc = "moved" /\ UNCHANGED <<done, masked>> /\ masked /\ ~pending /\ isrPc # "queue"
            /\ Read' = Read
        BY <1>1, <2>2, <3>6, Updating DEF t7xx_dpmaif_drb_ring_not_empty
      <4>2. CASE drb_rd_idx' # drb_rd_idx
        <5>1. workPc' = "off" /\ Read > 0
          BY <1>2, <2>3, <3>6, <4>1, <4>2 DEF t7xx_dpmaif_drb_ring_not_empty
        <5>2. QED
          BY <3>0, <4>1, <5>1
      <4>3. CASE drb_rd_idx' = drb_rd_idx
        <5>1. workPc' = "unmask" /\ UNCHANGED pending
          BY <3>6, <4>3 DEF t7xx_dpmaif_drb_ring_not_empty
        <5>2. ~done'
          BY <2>2, <4>1, <4>3
        <5>3. QED
          BY <3>0, <4>1, <5>1, <5>2
      <4>4. QED
        BY <4>2, <4>3
    <3>7. CASE t7xx_dpmaif_unmask_ulq_intr
      BY <2>2, <3>0, <3>7 DEF t7xx_dpmaif_unmask_ulq_intr
    <3>8. QED
      BY <2>6, <3>1, <3>2, <3>3, <3>4, <3>5, <3>6, <3>7 DEF Work
  <2>7. CASE CtlQuiet \/ CtlGoesOn
    <3>1. UNCHANGED <<isrPc, workPc, rel>>
      BY <2>7, CtlFrame DEF NotCtl
    <3>2. ~CtlClear
      BY <1>0 DEF CtlClear, Live
    <3>3. UNCHANGED <<drb_rd_idx, drb_release_rd_idx, hwRd, done, masked>>
      BY <1>4, <2>7, <3>2 DEF CtlQuiet, CtlGoesOn, t7xx_ccmni_pre_stop, CtlStop, CtlWait, CtlCancel, CtlStart,
         t7xx_ccmni_start, ringVars, hwVars
    <3>4. pending' = pending \/ pending' = FALSE
      BY <2>7 DEF CtlQuiet, CtlGoesOn, t7xx_ccmni_pre_stop, CtlStop, CtlWait, CtlCancel, CtlClear, CtlStart,
         CtlPowerOn, t7xx_ccmni_start
    <3>5. Read' = Read /\ Known' = Known
      BY <3>3 DEF Read, Known, Off
    <3>6. QED
      BY <2>2, <3>1, <3>3, <3>4, <3>5
  <2>8. CASE Xmit \/ Push \/ Pm
    <3>1. UNCHANGED <<isrPc, pending, workPc, rel, done, masked, drb_rd_idx, drb_release_rd_idx, hwRd>>
      BY <2>8, XmitFrame, PushFrame, PmFrame DEF NotXmit, NotPm, workVars, hwVars, ringVars
    <3>2. Read' = Read /\ Known' = Known
      BY <3>1 DEF Read, Known, Off
    <3>3. QED
      BY <2>2, <3>1, <3>2
  <2>9. QED
    BY <2>4, <2>5, <2>6, <2>7, <2>8, Actors
<1>5. QED
  BY <1>3, <1>4

LEMMA DoneKeeps == ASSUME TxInv, Next PROVE DoneServed'
<1>0. SUFFICES ASSUME masked', orderly'
               PROVE \/ isrPc' = "queue" \/ pending' \/ workPc' # "off" \/ ctl' \in {"clear", "down", "starting"}
  BY DEF DoneServed
<1>1. Unpacked /\ orderly /\ DoneServed
  BY <1>0, Unpack, OrderlyOnce DEF Unpacked, TxInv
<1>2. CASE Interrupt
  BY <1>0, <1>1, <1>2 DEF DoneServed, Interrupt, t7xx_dpmaif_isr_handler, t7xx_dpmaif_hw_check_tx_intr,
       t7xx_dpmaif_irq_tx_done, IsrEnd, NotIsr, ctlVars
<1>3. CASE Work
  <2>1. workPc' # "off" \/ pending'
    BY <1>0, <1>3 DEF Work, WorkBegin, WorkGet, WorkTimeout, WorkUpdate, WorkRelease, WorkInvalid, WorkWake,
       t7xx_dpmaif_ul_clr_done, t7xx_dpmaif_drb_ring_not_empty, t7xx_dpmaif_unmask_ulq_intr
  <2>2. QED
    BY <2>1
<1>4. CASE CtlQuiet \/ CtlGoesOn
  <2>1. UNCHANGED <<isrPc, workPc>>
    BY <1>4, CtlFrame DEF NotCtl
  <2>2. CASE CtlCancel \/ CtlClear \/ CtlStart
    BY <2>2 DEF CtlCancel, CtlClear, CtlStart
  <2>3. CASE CtlPowerOn
    BY <1>0, <2>3 DEF CtlPowerOn, t7xx_dpmaif_init_intr
  <2>4. CASE CtlQuiet \/ t7xx_ccmni_pre_stop \/ CtlStop \/ CtlWait \/ t7xx_ccmni_start
    BY <1>0, <1>1, <2>1, <2>4 DEF DoneServed, CtlQuiet, t7xx_ccmni_pre_stop, CtlStop, CtlWait, t7xx_ccmni_start, hwVars
  <2>5. QED
    BY <1>4, <2>2, <2>3, <2>4 DEF CtlGoesOn
<1>5. CASE Xmit \/ Push \/ DeviceSends \/ Pm
  <2>1. UNCHANGED <<isrPc, pending, workPc, masked, ctl>>
    BY <1>5, XmitFrame, PushFrame, PmFrame DEF NotXmit, NotPm, DeviceSends, workVars, hwVars, ctlVars
  <2>2. QED
    BY <1>0, <1>1, <2>1 DEF DoneServed
<1>6. QED
  BY <1>2, <1>3, <1>4, <1>5, Actors
-----------------------------------------------------------------------------
(* Which packet is where *)

(* The push thread writes behind the window *)
LEMMA Behind ==
    ASSUME Unpacked, pushPc = "place", orderly
    PROVE  /\ Live /\ Peeked \in Packets /\ Size \in Nat /\ Size >= 2 /\ InRing + Size < N
           /\ Next_idx(drb_wr_idx, Size - 1) \in Slots
           /\ Off(Next_idx(drb_wr_idx, Size - 1)) = InRing + Size - 1
           /\ drb_wr_idx # Next_idx(drb_wr_idx, Size - 1)
           /\ \A i \in Slots : i \in InPacket <=> InRing <= Off(i) /\ Off(i) < InRing + Size
<1>1. Size \in Nat /\ Size >= 2 /\ Size < N /\ Peeked \in Packets
  BY Peek DEF Unpacked, Holding
<1>2. InRing \in Nat /\ N \in Nat /\ burst.remain \in Int /\ \A i \in Slots : Off(i) \in Nat /\ Off(i) < N
  BY Numbers DEF Unpacked, ThreadTypeOK
<1>3. burst.remain + Size <= N - 1 - InRing /\ burst.remain >= 0
  BY DEF Unpacked, Room
<1>4. InRing + Size < N
  BY <1>1, <1>2, <1>3
<1>5. Live
  BY DEF Unpacked, Idle, Quiet, Pushing
<1>6. drb_wr_idx \in Slots /\ drb_release_rd_idx \in Slots
  BY DEF Unpacked, RingTypeOK
<1>7. \A k \in Nat : k < Size => Next_idx(drb_wr_idx, k) \in Slots /\ Off(Next_idx(drb_wr_idx, k)) = InRing + k
  <2> SUFFICES ASSUME NEW k \in Nat, k < Size
               PROVE  Next_idx(drb_wr_idx, k) \in Slots /\ Off(Next_idx(drb_wr_idx, k)) = InRing + k
    OBVIOUS
  <2>1. rd_count(drb_release_rd_idx, drb_wr_idx) + k < N
    BY <1>1, <1>2, <1>4 DEF InRing
  <2>2. QED
    BY <1>6, <2>1, NextCount DEF Off, InRing
<1>8. Size - 1 \in Nat /\ Size - 1 < Size /\ 0 \in Nat /\ 0 < Size
  BY <1>1
<1>9. /\ Next_idx(drb_wr_idx, Size - 1) \in Slots
      /\ Off(Next_idx(drb_wr_idx, Size - 1)) = InRing + Size - 1
  BY <1>1, <1>2, <1>7, <1>8
<1>10. drb_wr_idx # Next_idx(drb_wr_idx, Size - 1)
  <2>1. Off(drb_wr_idx) = InRing
    BY DEF Off, InRing
  <2>2. QED
    BY <1>1, <1>2, <1>9, <2>1
<1>11. ASSUME NEW i \in Slots PROVE i \in InPacket <=> InRing <= Off(i) /\ Off(i) < InRing + Size
  <2>1. ASSUME i \in InPacket PROVE InRing <= Off(i) /\ Off(i) < InRing + Size
    <3>1. PICK k \in 0 .. Size - 1 : i = Next_idx(drb_wr_idx, k)
      BY <2>1 DEF InPacket
    <3>2. k \in Nat /\ k < Size
      BY <1>1, <3>1
    <3>3. Off(i) = InRing + k
      BY <1>7, <3>1, <3>2
    <3>4. QED
      BY <1>1, <1>2, <3>2, <3>3
  <2>2. ASSUME InRing <= Off(i), Off(i) < InRing + Size PROVE i \in InPacket
    <3>1. PICK k \in Nat : k = Off(i) - InRing
      BY <1>2, <2>2
    <3>2. k < Size /\ k \in 0 .. Size - 1
      BY <1>1, <1>2, <2>2, <3>1
    <3>3. Off(Next_idx(drb_wr_idx, k)) = Off(i) /\ Next_idx(drb_wr_idx, k) \in Slots
      BY <1>2, <1>7, <3>1, <3>2
    <3>4. i = Next_idx(drb_wr_idx, k)
      BY <1>6, <3>3, CountInjective DEF Off
    <3>5. QED
      BY <3>2, <3>4 DEF InPacket
  <2>3. QED
    BY <2>1, <2>2
<1>12. QED
  BY <1>1, <1>4, <1>5, <1>9, <1>10, <1>11

Tail_idx == Next_idx(drb_wr_idx, Size - 1)     \* the last DRB of the packet

LEMMA PlaceLast ==
    ASSUME Unpacked, PushPlace, orderly
    PROVE  /\ Tail_idx \in Slots /\ Off(Tail_idx) = InRing' - 1 /\ Off(Tail_idx) >= InRing /\ skb'[Tail_idx] = Peeked
           /\ \A i \in Slots : Last(i)' <=> Last(i) \/ i = Tail_idx
           /\ \A i \in Slots : Last(i) => skb'[i] = skb[i] /\ i # Tail_idx
           /\ \A i \in Slots : dtyp'[i] = "last" => i = Tail_idx \/ (dtyp[i] = "last" /\ skb'[i] = skb[i])
<1>1. /\ Size \in Nat /\ Size >= 2 /\ InRing + Size < N /\ Tail_idx \in Slots /\ Off(Tail_idx) = InRing + Size - 1
      /\ drb_wr_idx # Tail_idx
      /\ \A i \in Slots : i \in InPacket <=> InRing <= Off(i) /\ Off(i) < InRing + Size
  BY Behind DEF PushPlace, Tail_idx
<1>2. InRing \in Nat /\ N \in Nat /\ \A i \in Slots : Off(i) \in Nat
  BY Numbers DEF Unpacked
<1>3. InRing' = InRing + Size /\ \A i \in Slots : Off(i)' = Off(i)
  BY Placing
<1>4. /\ \A i \in Slots : i \in InPacket => dtyp'[i] = Part(i) /\ skb'[i] = Peeked
      /\ \A i \in Slots : i \notin InPacket => dtyp'[i] = dtyp[i] /\ skb'[i] = skb[i]
  BY DEF PushPlace, Written
<1>5. Tail_idx \in InPacket /\ Part(Tail_idx) = "last" /\ \A i \in Slots : i # Tail_idx => Part(i) # "last"
  BY <1>1, <1>2 DEF Part, Tail_idx
<1>6. ASSUME NEW i \in Slots PROVE Last(i)' <=> Last(i) \/ i = Tail_idx
  <2>1. CASE i \in InPacket
    BY <1>1, <1>2, <1>3, <1>4, <1>5, <2>1 DEF Last
  <2>2. CASE i \notin InPacket
    BY <1>1, <1>2, <1>3, <1>4, <1>5, <2>2 DEF Last
  <2>3. QED
    BY <2>1, <2>2
<1>7. \A i \in Slots : Last(i) => skb'[i] = skb[i] /\ i # Tail_idx
  BY <1>1, <1>2, <1>4 DEF Last
<1>8. \A i \in Slots : dtyp'[i] = "last" => i = Tail_idx \/ (dtyp[i] = "last" /\ skb'[i] = skb[i])
  BY <1>4, <1>5
<1>9. Off(Tail_idx) = InRing' - 1 /\ Off(Tail_idx) >= InRing /\ skb'[Tail_idx] = Peeked
  BY <1>1, <1>2, <1>3, <1>4, <1>5
<1>10. QED
  BY <1>1, <1>6, <1>7, <1>8, <1>9

LEMMA NoMemLast ==
    ASSUME Unpacked, PushNoMem, orderly
    PROVE  /\ \A i \in Slots : Last(i)' <=> Last(i)
           /\ \A i \in Slots : Last(i) => skb'[i] = skb[i]
           /\ \A i \in Slots : dtyp'[i] = "last" => dtyp[i] = "last" /\ skb'[i] = skb[i]
<1>1. /\ Size \in Nat /\ Size >= 2 /\ Tail_idx \in Slots
      /\ \A i \in Slots : i \in InPacket => InRing <= Off(i)
  BY Behind DEF PushNoMem, Tail_idx
<1>2. InRing \in Nat /\ N \in Nat /\ \A i \in Slots : Off(i) \in Nat
  BY Numbers DEF Unpacked
<1>3. InRing' = InRing /\ \A i \in Slots : Off(i)' = Off(i)
  BY DEF PushNoMem, NotPush, InRing, Off
<1>4. /\ \A i \in Slots : i \in InPacket /\ i # Tail_idx => dtyp'[i] = Part(i)
      /\ \A i \in Slots : i \notin InPacket \/ i = Tail_idx => dtyp'[i] = dtyp[i] /\ skb'[i] = skb[i]
  BY DEF PushNoMem, Written, Tail_idx
<1>5. \A i \in Slots : i # Tail_idx => Part(i) # "last"
  BY DEF Part, Tail_idx
<1>6. \A i \in Slots : dtyp'[i] = "last" => dtyp[i] = "last" /\ skb'[i] = skb[i]
  BY <1>4, <1>5
<1>7. \A i \in Slots : Last(i) => i \notin InPacket
  BY <1>1, <1>2 DEF Last
<1>8. \A i \in Slots : Last(i) => dtyp'[i] = dtyp[i] /\ skb'[i] = skb[i]
  BY <1>4, <1>7
<1>9. \A i \in Slots : Last(i)' <=> Last(i)
  BY <1>3, <1>6, <1>8 DEF Last
<1>10. QED
  BY <1>6, <1>8, <1>9

LEMMA ReleaseLast ==
    ASSUME Unpacked, WorkRelease, orderly
    PROVE  /\ drb_release_rd_idx \in Slots /\ Off(drb_release_rd_idx) = 0
           /\ Last(drb_release_rd_idx) <=> dtyp[drb_release_rd_idx] = "last"
           /\ \A i \in Slots : Last(i)' <=> Last(i) /\ i # drb_release_rd_idx
           /\ \A i \in Slots : Last(i)' => Off(i)' = Off(i) - 1 /\ skb'[i] = skb[i] /\ Off(i) > 0
           /\ \A i \in Slots : dtyp'[i] = dtyp[i] /\ (skb'[i] = skb[i] \/ skb'[i] = NoSkb)
           /\ freed' = IF Last(drb_release_rd_idx) THEN freed \cup {skb[drb_release_rd_idx]} ELSE freed
<1>1. drb_release_rd_idx \in Slots
  BY DEF Unpacked, RingTypeOK
<1>2. Off(drb_release_rd_idx) = 0
  BY <1>1, CountRange DEF Off
<1>3. /\ InRing \in Nat /\ InRing < N /\ N \in Nat /\ InRing > 0 /\ InRing' = InRing - 1
      /\ \A i \in Slots : Off(i) \in Nat /\ Off(i) < N /\ Off(i)' = IF i = drb_release_rd_idx THEN N - 1 ELSE Off(i) - 1
  BY Numbers, Releasing DEF Unpacked
<1>4. Last(drb_release_rd_idx) <=> dtyp[drb_release_rd_idx] = "last"
  BY <1>2, <1>3 DEF Last
<1>5. \A i \in Slots : i # drb_release_rd_idx => Off(i) > 0
  BY <1>1, <1>3, CountRange DEF Off
<1>6. dtyp' = dtyp /\ \A i \in Slots : (i # drb_release_rd_idx => skb'[i] = skb[i]) /\ (skb'[i] = skb[i] \/ skb'[i] = NoSkb)
  BY <1>1 DEF WorkRelease, NotWork, Cur, Unpacked, RingTypeOK
<1>7. ASSUME NEW i \in Slots PROVE Last(i)' <=> Last(i) /\ i # drb_release_rd_idx
  <2>1. CASE i = drb_release_rd_idx
    BY <1>3, <2>1 DEF Last
  <2>2. CASE i # drb_release_rd_idx
    BY <1>3, <1>6, <2>2 DEF Last
  <2>3. QED
    BY <2>1, <2>2
<1>8. \A i \in Slots : Last(i)' => Off(i)' = Off(i) - 1 /\ skb'[i] = skb[i] /\ Off(i) > 0
  BY <1>3, <1>5, <1>6, <1>7
<1>9. freed' = IF Last(drb_release_rd_idx) THEN freed \cup {skb[drb_release_rd_idx]} ELSE freed
  BY <1>4 DEF WorkRelease, Cur
<1>10. QED
  BY <1>1, <1>2, <1>4, <1>6, <1>7, <1>8, <1>9

(* A slot of the device's is not that of the packet being put in place *)
LEMMA Announced ==
    ASSUME Unpacked, orderly, Live, NEW i \in Slots, Last(i), Off(i) < Read + hwCnt
    PROVE  skb[i] \in 1 .. unlinked
<1>1. /\ InRing \in Nat /\ Read \in Nat /\ hwCnt \in Nat /\ Off(i) \in Nat
      /\ Unannounced \in Nat /\ (Placed => Unannounced >= 2) /\ Read + hwCnt + Unannounced = InRing
      /\ unlinked \in Nat
  BY Numbers, UnannouncedNat, Sizes DEF Unpacked, Agree, FlagTypeOK
<1>2. skb[i] \in Nat /\ skb[i] # 0
  BY DEF Unpacked, RingTypeOK, Records, NoSkb, Packets
<1>3. CASE Placed
  <2>1. PICK j \in Slots : Last(j) /\ Off(j) = InRing - 1 /\ skb[j] = Peeked
    BY <1>3 DEF Unpacked, Records
  <2>2. Off(i) < Off(j)
    BY <1>1, <1>3, <2>1
  <2>3. skb[i] < Peeked
    BY <2>1, <2>2 DEF Unpacked, Records
  <2>4. QED
    BY <1>1, <1>2, <2>3 DEF Peeked
<1>4. CASE ~Placed
  BY <1>1, <1>2, <1>4 DEF Unpacked, Records, Last
<1>5. QED
  BY <1>3, <1>4

LEMMA RecordsKeeps == ASSUME TxInv, Next, orderly' PROVE Records'
<1>1. Unpacked /\ orderly /\ Records
  BY Unpack, OrderlyOnce DEF Unpacked
<1>2. InRing \in Nat /\ unlinked \in Nat /\ (\A i \in Slots : Off(i) \in Nat /\ skb[i] \in Nat) /\ Peeked = unlinked + 1
  BY <1>1, Numbers, Sizes DEF Unpacked, FlagTypeOK, RingTypeOK, NoSkb, Packets, Peeked
<1>3. CASE PushPlace
  <2>1. UNCHANGED <<freed, unlinked>> /\ Placed' /\ ~Placed
    BY <1>3 DEF PushPlace, NotPush, pastVars, Goes, Placed
  <2>2. /\ Tail_idx \in Slots /\ Off(Tail_idx) = InRing' - 1 /\ Off(Tail_idx) >= InRing /\ skb'[Tail_idx] = Peeked
        /\ \A i \in Slots : Last(i)' <=> Last(i) \/ i = Tail_idx
        /\ \A i \in Slots : Last(i) => skb'[i] = skb[i] /\ i # Tail_idx
        /\ \A i \in Slots : dtyp'[i] = "last" => i = Tail_idx \/ (dtyp[i] = "last" /\ skb'[i] = skb[i])
    BY <1>1, <1>3, PlaceLast
  <2>3. \A i \in Slots : Off(i)' = Off(i)
    BY <1>1, <1>3, Placing
  <2>4. \A i \in Slots : dtyp[i] = "last" => skb[i] <= unlinked
    BY <1>1, <2>1 DEF Records
  <2>5. \A i \in Slots : dtyp'[i] = "last" => skb'[i] <= unlinked' \/ (Placed' /\ skb'[i] = Peeked')
    BY <2>1, <2>2, <2>4 DEF Peeked
  <2>6. \A i \in Slots : Last(i)' => skb'[i] \notin freed' /\ skb'[i] # NoSkb
    BY <1>1, <1>2, <2>1, <2>2 DEF Records, NoSkb
  <2>7. ASSUME NEW i \in Slots, NEW j \in Slots, Last(i)', Last(j)', Off(i)' < Off(j)' PROVE skb'[i] < skb'[j]
    <3>1. i # Tail_idx
      BY <1>2, <2>2, <2>3, <2>7 DEF Last
    <3>2. Last(i) /\ skb'[i] = skb[i]
      BY <2>2, <2>7, <3>1
    <3>3. CASE j = Tail_idx
      BY <1>2, <2>2, <2>4, <3>2, <3>3 DEF Last
    <3>4. CASE j # Tail_idx
      BY <1>1, <2>2, <2>3, <2>7, <3>2, <3>4 DEF Records
    <3>5. QED
      BY <3>3, <3>4
  <2>8. \E i \in Slots : Last(i)' /\ Off(i)' = InRing' - 1 /\ skb'[i] = Peeked'
    BY <2>1, <2>2, <2>3 DEF Peeked
  <2>9. QED
    BY <1>1, <2>1, <2>5, <2>6, <2>7, <2>8 DEF Records
<1>4. CASE PushNoMem
  <2>1. UNCHANGED <<freed, unlinked>> /\ ~Placed' /\ ~Placed
    BY <1>4 DEF PushNoMem, NotPush, pastVars, Goes, Placed, Loop
  <2>2. \A i \in Slots : Off(i)' = Off(i)
    BY <1>4 DEF PushNoMem, NotPush, Off
  <2>3. QED
    BY <1>1, <1>4, <2>1, <2>2, NoMemLast DEF Records
<1>5. CASE WorkRelease
  <2>1. /\ drb_release_rd_idx \in Slots /\ Off(drb_release_rd_idx) = 0
        /\ Last(drb_release_rd_idx) <=> dtyp[drb_release_rd_idx] = "last"
        /\ \A i \in Slots : Last(i)' <=> Last(i) /\ i # drb_release_rd_idx
        /\ \A i \in Slots : Last(i)' => Off(i)' = Off(i) - 1 /\ skb'[i] = skb[i] /\ Off(i) > 0
        /\ \A i \in Slots : dtyp'[i] = dtyp[i] /\ (skb'[i] = skb[i] \/ skb'[i] = NoSkb)
        /\ freed' = IF Last(drb_release_rd_idx) THEN freed \cup {skb[drb_release_rd_idx]} ELSE freed
    BY <1>1, <1>5, ReleaseLast
  <2>2. Placed' = Placed /\ UNCHANGED <<unlinked>> /\ Peeked' = Peeked
    BY <1>5 DEF WorkRelease, NotWork, pushVars, listVars, Placed, Peeked
  <2>3. Live /\ Read > 0 /\ InRing' = InRing - 1 /\ Read \in Nat /\ hwCnt \in Nat
    BY <1>1, <1>5, Releasing, Numbers DEF Unpacked
  <2>4. Last(drb_release_rd_idx) => skb[drb_release_rd_idx] \in 1 .. unlinked
    BY <1>1, <2>1, <2>3, Announced
  <2>5. freed' \subseteq 1 .. unlinked'
    BY <1>1, <2>1, <2>2, <2>4 DEF Records
  <2>6. \A i \in Slots : dtyp'[i] = "last" => skb'[i] <= unlinked' \/ (Placed' /\ skb'[i] = Peeked')
    BY <1>1, <1>2, <2>1, <2>2 DEF Records, NoSkb
  <2>7. \A i \in Slots : Last(i)' => skb'[i] \notin freed' /\ skb'[i] # NoSkb
    BY <1>1, <1>2, <2>1 DEF Records
  <2>8. \A i, j \in Slots : Last(i)' /\ Last(j)' /\ Off(i)' < Off(j)' => skb'[i] < skb'[j]
    BY <1>1, <1>2, <2>1 DEF Records
  <2>9. ASSUME Placed' PROVE \E i \in Slots : Last(i)' /\ Off(i)' = InRing' - 1 /\ skb'[i] = Peeked'
    <3>1. PICK i \in Slots : Last(i) /\ Off(i) = InRing - 1 /\ skb[i] = Peeked
      BY <1>1, <2>2, <2>9 DEF Records
    <3>2. i # drb_release_rd_idx
      <4>1. i = drb_release_rd_idx => skb[i] \in 1 .. unlinked
        BY <2>4, <3>1
      <4>2. QED
        BY <1>2, <3>1, <4>1
    <3>3. QED
      BY <2>1, <2>2, <2>3, <3>1, <3>2
  <2>10. QED
    BY <2>5, <2>6, <2>7, <2>8, <2>9 DEF Records
<1>6. CASE CtlClear
  <2>1. InRing' = 0 /\ Quiet /\ UNCHANGED <<pushPc, unlinked, dtyp>>
    BY <1>1, <1>6, Clearing DEF CtlClear, NotCtl, pushVars, listVars
  <2>2. ~Placed /\ ~Placed'
    BY <2>1 DEF Quiet, Pushing, Placed
  <2>3. \A i \in Slots : Off(i)' \in Nat
    BY RingTypes, CountRange DEF RingTypeOK, Off
  <2>4. \A i \in Slots : ~Last(i)'
    BY <2>1, <2>3 DEF Last
  <2>5. freed' \subseteq 1 .. unlinked'
    <3>1. \A i \in Slots : dtyp[i] = "last" /\ skb[i] # NoSkb => skb[i] \in 1 .. unlinked
      BY <1>1, <1>2, <2>2 DEF Records, NoSkb
    <3>2. QED
      BY <1>1, <1>6, <2>1, <3>1 DEF CtlClear, t7xx_dpmaif_tx_free_drb_skb, Records
  <2>6. \A i \in Slots : dtyp'[i] = "last" => skb'[i] <= unlinked'
    <3>1. \A i \in Slots : skb'[i] = skb[i] \/ skb'[i] = NoSkb
      BY <1>6 DEF CtlClear, t7xx_dpmaif_tx_free_drb_skb
    <3>2. QED
      BY <1>1, <1>2, <2>1, <2>2, <3>1 DEF Records, NoSkb
  <2>7. QED
    BY <2>2, <2>4, <2>5, <2>6 DEF Records
<1>7. CASE PushUnlink
  <2>1. UNCHANGED <<freed, dtyp, skb, drb_release_rd_idx, drb_wr_idx>> /\ Placed /\ ~Placed' /\ unlinked' = Peeked
    BY <1>7 DEF PushUnlink, NotPush, pastVars, drbVars, Placed, Goes, Peeked
  <2>2. \A i \in Slots : Off(i)' = Off(i) /\ Last(i)' = Last(i)
    BY <2>1 DEF Off, Last, InRing
  <2>3. freed' \subseteq 1 .. unlinked'
    BY <1>1, <1>2, <2>1 DEF Records
  <2>4. \A i \in Slots : dtyp'[i] = "last" => skb'[i] <= unlinked'
    BY <1>1, <1>2, <2>1 DEF Records
  <2>5. QED
    BY <1>1, <2>1, <2>2, <2>3, <2>4 DEF Records
<1>8. CASE ~(PushPlace \/ PushNoMem \/ WorkRelease \/ CtlClear \/ PushUnlink)
  <2>1. InRing' = InRing /\ \A i \in Slots : Off(i)' = Off(i)
    <3>1. CASE WorkUpdate \/ t7xx_dpmaif_drb_ring_not_empty
      BY <1>1, <3>1, Updating
    <3>2. CASE DeviceSends
      BY <1>1, <3>2, Reading
    <3>3. CASE PushAnnounce \/ CtlPowerOn
      BY <3>3 DEF PushAnnounce, NotPush, CtlPowerOn, ringVars, InRing, Off
    <3>4. CASE UNCHANGED numVars
      BY <3>4 DEF numVars, InRing, Off
    <3>5. QED
      BY <1>8, <3>1, <3>2, <3>3, <3>4, NumFrame
  <2>2. UNCHANGED <<dtyp, skb>>
    <3>1. CASE WorkUpdate \/ t7xx_dpmaif_drb_ring_not_empty
      BY <3>1 DEF WorkUpdate, t7xx_dpmaif_drb_ring_not_empty, NotWork
    <3>2. CASE UNCHANGED ringVars
      BY <3>2 DEF ringVars, drbVars
    <3>3. QED
      BY <1>8, <3>1, <3>2, RingFrame
  <2>3. UNCHANGED freed
    <3>1. CASE Work
      BY <1>8, <3>1 DEF Work, WorkBegin, WorkGet, WorkTimeout, WorkUpdate, WorkInvalid, WorkWake,
             t7xx_dpmaif_ul_clr_done, t7xx_dpmaif_drb_ring_not_empty, t7xx_dpmaif_unmask_ulq_intr
    <3>2. CASE CtlQuiet \/ CtlGoesOn
      BY <1>8, <3>2 DEF CtlQuiet, CtlGoesOn, t7xx_ccmni_pre_stop, CtlStop, CtlWait, CtlCancel, CtlStart,
             CtlPowerOn, t7xx_ccmni_start
    <3>3. CASE Xmit \/ Push \/ DeviceSends \/ Interrupt \/ Pm
      BY <3>3, XmitFrame, PushFrame, IsrFrame, PmFrame DEF NotXmit, NotIsr, NotPm, DeviceSends, pastVars
    <3>4. QED
      BY <3>1, <3>2, <3>3, Actors
  <2>4. UNCHANGED unlinked /\ Placed' = Placed /\ Peeked' = Peeked
    <3>1. CASE Push
      BY <1>8, <3>1 DEF Push, PushWoken, PushGet, PushSelect, PushRecount, PushTest, PushMark, PushFull,
         PushBurstOver, PushAnnounce, PushTimeout, listVars, Goes, Loop, Placed, Peeked
    <3>2. CASE ~Push
      BY <3>2, XmitFrame, IsrFrame, WorkFrame, CtlFrame, PmFrame, Actors
         DEF NotXmit, NotIsr, NotWork, NotCtl, NotPm, DeviceSends, pushVars, listVars,
             Xmit, XmitBegin, XmitQueue, XmitBusy, t7xx_ccmni_tx_timeout, Placed, Peeked
    <3>3. QED
      BY <3>1, <3>2
  <2>5. \A i \in Slots : Last(i)' = Last(i)
    BY <2>1, <2>2 DEF Last
  <2>6. QED
    BY <1>1, <2>1, <2>2, <2>3, <2>4, <2>5 DEF Records
<1>9. QED
  BY <1>3, <1>4, <1>5, <1>6, <1>7, <1>8

LEMMA PastKeeps == ASSUME TxInv, Next, orderly' PROVE Past'
<1>1. Unpacked /\ orderly /\ Past /\ Records
  BY Unpack, OrderlyOnce DEF Unpacked
<1>2. /\ InRing \in Nat /\ Read \in Nat /\ unlinked \in Nat /\ (\A i \in Slots : Off(i) \in Nat /\ skb[i] \in Nat)
      /\ Peeked = unlinked + 1 /\ sent \in Seq(Packets) /\ SentSet \subseteq Nat
  <2>1. sent \in Seq(Packets)
    BY <1>1 DEF Unpacked, FlagTypeOK
  <2>2. SentSet \subseteq Packets
    BY <2>1 DEF SentSet
  <2>3. SentSet \subseteq Nat
    BY <2>2, Sizes DEF Packets
  <2>4. InRing \in Nat /\ Read \in Nat /\ \A i \in Slots : Off(i) \in Nat
    BY <1>1, Numbers DEF Unpacked
  <2>5. unlinked \in Nat
    BY <1>1, Sizes DEF Unpacked, FlagTypeOK
  <2>6. \A i \in Slots : skb[i] \in {NoSkb} \cup Packets
    BY <1>1 DEF Unpacked, RingTypeOK
  <2>7. NoSkb \in Nat /\ Packets \subseteq Nat
    BY Sizes DEF NoSkb, Packets
  <2>8. QED
    BY <2>1, <2>3, <2>4, <2>5, <2>6, <2>7 DEF Peeked
<1>3. CASE DeviceSends
  <2>1. PICK k \in Nat \ {0}, i \in Slots :
          /\ k <= hwCnt /\ Read + k <= InRing
          /\ hwRd' = Next_idx(hwRd, k)
          /\ Off(i) = Read + k - 1 /\ Off(i) < InRing
          /\ \A j \in Slots : Read <= Off(j) /\ Off(j) < Off(i) => dtyp[j] # "last"
          /\ sent' = IF dtyp[i] = "last" THEN Append(sent, skb[i]) ELSE sent
    BY <1>1, <1>3, Sends
  <2>2. Live /\ Live' /\ UNCHANGED <<dtyp, skb, freed, unlinked>>
    BY <1>1, <1>3, Reading DEF DeviceSends, ringVars, drbVars, listVars, ctlVars, Live
  <2>3. InRing' = InRing /\ \A j \in Slots : Off(j)' = Off(j) /\ Last(j)' = Last(j)
    <3>1. InRing' = InRing /\ \A j \in Slots : Off(j)' = Off(j)
      BY <1>1, <1>3, Reading
    <3>2. QED
      BY <2>2, <3>1 DEF Last
  <2>4. Read' = Read + k
    <3>1. Read + k < N /\ Read = rd_count(drb_release_rd_idx, hwRd) /\ hwRd \in Slots /\ drb_release_rd_idx \in Slots
      <4>1. hwRd \in Slots /\ drb_release_rd_idx \in Slots
        BY <1>1 DEF Unpacked, DeviceTypeOK, RingTypeOK
      <4>2. InRing < N /\ N \in Nat /\ InRing \in Nat /\ Read \in Nat
        BY <1>1, <1>2, Numbers, Sizes DEF Unpacked
      <4>3. Read + k < N
        BY <2>1, <4>2
      <4>4. QED
        BY <4>1, <4>3 DEF Read, Off
    <3>2. UNCHANGED drb_release_rd_idx
      BY <1>3 DEF DeviceSends, ringVars
    <3>3. QED
      BY <2>1, <3>1, <3>2, NextCount DEF Read, Off
  <2>5. \A j \in Slots : Off(j) = Off(i) => j = i
    BY <1>1, CountInjective DEF Off, Unpacked, RingTypeOK
  <2>6. CASE dtyp[i] # "last"
    <3>1. UNCHANGED sent /\ SentSet' = SentSet
      BY <2>1, <2>6 DEF SentSet
    <3>2. \A j \in Slots : Last(j) /\ Off(j) < Read + k => Off(j) < Read
      BY <1>2, <2>1, <2>5, <2>6 DEF Last
    <3>3. QED
      BY <1>1, <1>2, <2>1, <2>2, <2>3, <2>4, <3>1, <3>2 DEF Past
  <2>7. CASE dtyp[i] = "last"
    <3>1. Last(i) /\ sent' = Append(sent, skb[i])
      BY <2>1, <2>7 DEF Last
    <3>2. skb[i] \in 1 .. unlinked
      <4>1. Off(i) < Read + hwCnt /\ hwCnt \in Nat
        BY <1>1, <1>2, <2>1, Numbers DEF Unpacked
      <4>2. QED
        BY <1>1, <2>2, <3>1, <4>1, Announced
    <3>3. \A p \in SentSet : p < skb[i]
      <4>1. Off(i) >= Read
        BY <1>2, <2>1
      <4>2. QED
        BY <1>1, <2>2, <3>1, <4>1 DEF Past
    <3>4. /\ Len(sent) \in Nat /\ DOMAIN sent = 1 .. Len(sent) /\ DOMAIN sent' = 1 .. Len(sent) + 1
          /\ sent'[Len(sent) + 1] = skb[i] /\ \A n \in DOMAIN sent : sent'[n] = sent[n]
      BY <1>2, <3>1
    <3>5. SentSet' = SentSet \cup {skb[i]}
      BY <3>4 DEF SentSet
    <3>6. Len(sent) + 1 <= skb[i]
      <4>1. CASE Len(sent) = 0
        BY <3>2, <4>1
      <4>2. CASE Len(sent) # 0
        <5>1. Len(sent) \in DOMAIN sent
          BY <3>4, <4>2
        <5>2. Len(sent) <= sent[Len(sent)] /\ sent[Len(sent)] < skb[i] /\ sent[Len(sent)] \in Nat
          BY <1>1, <1>2, <3>3, <5>1 DEF Past, SentSet
        <5>3. QED
          BY <3>2, <3>4, <5>2
      <4>3. QED
        BY <4>1, <4>2
    <3>7. \A n \in DOMAIN sent' : n <= sent'[n] /\ sent'[n] <= unlinked'
      <4> SUFFICES ASSUME NEW n \in DOMAIN sent' PROVE n <= sent'[n] /\ sent'[n] <= unlinked'
        OBVIOUS
      <4>1. CASE n \in DOMAIN sent
        BY <1>1, <2>2, <3>4, <4>1 DEF Past
      <4>2. CASE n = Len(sent) + 1
        BY <2>2, <3>2, <3>4, <3>6, <4>2
      <4>3. QED
        BY <3>4, <4>1, <4>2
    <3>8. \A j \in Slots : Last(j) /\ Off(j) < Read + k => Off(j) < Read \/ j = i
      BY <1>2, <2>1, <2>5 DEF Last
    <3>9. \A j \in Slots : Last(j)' /\ Off(j)' < Read' => skb'[j] \in SentSet'
      BY <1>1, <2>2, <2>3, <2>4, <3>5, <3>8 DEF Past
    <3>10. ASSUME NEW j \in Slots, Last(j)', Off(j)' >= Read' PROVE \A p \in SentSet' : p < skb'[j]
      <4>1. Off(j) >= Read /\ Off(i) < Off(j) /\ Last(j) /\ skb'[j] = skb[j]
        BY <1>2, <2>1, <2>2, <2>3, <2>4, <3>10
      <4>2. skb[i] < skb[j]
        BY <1>1, <3>1, <4>1 DEF Records
      <4>3. \A p \in SentSet : p < skb[j]
        BY <1>1, <2>2, <4>1 DEF Past
      <4>4. QED
        BY <3>5, <4>1, <4>2, <4>3
    <3>11. \A p \in 1 .. unlinked' : p \in freed' \/ p \in SentSet' \/ \E j \in Slots : Last(j)' /\ skb'[j] = p
      BY <1>1, <2>2, <2>3, <3>5 DEF Past
    <3>12. QED
      BY <3>7, <3>9, <3>10, <3>11 DEF Past
  <2>8. QED
    BY <2>6, <2>7
<1>4. CASE ~DeviceSends
  <2>1. UNCHANGED sent
    BY <1>4, XmitFrame, PushFrame, IsrFrame, WorkFrame, CtlFrame, PmFrame, Actors
       DEF NotXmit, NotIsr, NotWork, NotCtl, NotPm, pastVars
  <2>2. SentSet' = SentSet
    BY <2>1 DEF SentSet
  <2>3. CASE PushPlace
    <3>1. /\ Tail_idx \in Slots /\ Off(Tail_idx) = InRing' - 1 /\ Off(Tail_idx) >= InRing /\ skb'[Tail_idx] = Peeked
          /\ \A i \in Slots : Last(i)' <=> Last(i) \/ i = Tail_idx
          /\ \A i \in Slots : Last(i) => skb'[i] = skb[i] /\ i # Tail_idx
      BY <1>1, <2>3, PlaceLast
    <3>2. Read' = Read /\ Live /\ \A i \in Slots : Off(i)' = Off(i)
      BY <1>1, <2>3, Placing
    <3>3. UNCHANGED <<freed, unlinked>> /\ Read <= InRing
      <4>1. Read <= InRing
        <5>1. Read + hwCnt + Unannounced = InRing /\ hwCnt \in Nat /\ Unannounced \in Nat
          BY <1>1, <3>2, Numbers, UnannouncedNat DEF Unpacked, Agree
        <5>2. QED
          BY <1>2, <5>1
      <4>2. QED
        BY <2>3, <4>1 DEF PushPlace, NotPush, pastVars
    <3>4. ASSUME NEW p \in SentSet PROVE p < Peeked
      <4>1. PICK k \in DOMAIN sent : p = sent[k]
        BY DEF SentSet
      <4>2. sent[k] <= unlinked
        BY <1>1 DEF Past
      <4>3. p \in Nat /\ unlinked \in Nat /\ Peeked = unlinked + 1
        BY <1>2
      <4>4. QED
        BY <4>1, <4>2, <4>3
    <3>5. \A i \in Slots : Last(i)' /\ Off(i)' < Read' => skb'[i] \in SentSet'
      BY <1>1, <1>2, <2>2, <3>1, <3>2, <3>3 DEF Past
    <3>6. \A i \in Slots : Last(i)' /\ Off(i)' >= Read' => \A p \in SentSet' : p < skb'[i]
      BY <1>1, <1>2, <2>2, <3>1, <3>2, <3>4 DEF Past
    <3>7. QED
      BY <1>1, <2>1, <2>2, <3>1, <3>3, <3>5, <3>6 DEF Past
  <2>4. CASE PushNoMem
    <3>1. UNCHANGED <<freed, unlinked, ctl, drb_release_rd_idx, hwRd>>
      BY <2>4 DEF PushNoMem, NotPush, pastVars, ctlVars
    <3>2. Read' = Read /\ Live' = Live /\ \A i \in Slots : Off(i)' = Off(i)
      BY <3>1 DEF Read, Off, Live
    <3>3. (\A i \in Slots : Last(i)' <=> Last(i)) /\ (\A i \in Slots : Last(i) => skb'[i] = skb[i])
      BY <1>1, <2>4, NoMemLast
    <3>4. QED
      BY <1>1, <2>1, <2>2, <3>1, <3>2, <3>3 DEF Past
  <2>5. CASE WorkRelease
    <3>1. /\ drb_release_rd_idx \in Slots
          /\ \A i \in Slots : Last(i)' <=> Last(i) /\ i # drb_release_rd_idx
          /\ \A i \in Slots : Last(i)' => Off(i)' = Off(i) - 1 /\ skb'[i] = skb[i] /\ Off(i) > 0
          /\ freed' = IF Last(drb_release_rd_idx) THEN freed \cup {skb[drb_release_rd_idx]} ELSE freed
      BY <1>1, <2>5, ReleaseLast
    <3>2. Live /\ Read' = Read - 1
      BY <1>1, <2>5, Releasing
    <3>3. UNCHANGED unlinked
      BY <2>5 DEF WorkRelease, NotWork, listVars
    <3>4. \A i \in Slots : Last(i)' /\ Live' /\ Off(i)' < Read' => skb'[i] \in SentSet'
      BY <1>1, <1>2, <2>2, <3>1, <3>2 DEF Past
    <3>5. \A i \in Slots : Last(i)' /\ Live' /\ Off(i)' >= Read' => \A p \in SentSet' : p < skb'[i]
      BY <1>1, <1>2, <2>2, <3>1, <3>2 DEF Past
    <3>6. ASSUME NEW p \in 1 .. unlinked' PROVE p \in freed' \/ p \in SentSet' \/ \E i \in Slots : Last(i)' /\ skb'[i] = p
      <4>1. p \in freed \/ p \in SentSet \/ \E i \in Slots : Last(i) /\ skb[i] = p
        BY <1>1, <3>3 DEF Past
      <4>2. CASE \E i \in Slots : Last(i) /\ skb[i] = p
        <5>1. PICK i \in Slots : Last(i) /\ skb[i] = p
          BY <4>2
        <5>2. QED
          BY <3>1, <5>1
      <4>3. QED
        BY <2>2, <3>1, <4>1, <4>2
    <3>7. QED
      BY <1>1, <2>1, <3>3, <3>4, <3>5, <3>6 DEF Past
  <2>6. CASE CtlClear
    <3>1. InRing' = 0 /\ Quiet /\ UNCHANGED <<unlinked, dtyp>> /\ ~Live'
      BY <1>1, <2>6, Clearing DEF CtlClear, NotCtl, listVars
    <3>2. ASSUME NEW p \in 1 .. unlinked' PROVE p \in freed' \/ p \in SentSet'
      <4>1. p \in freed \/ p \in SentSet \/ \E i \in Slots : Last(i) /\ skb[i] = p
        BY <1>1, <3>1 DEF Past
      <4>2. CASE \E i \in Slots : Last(i) /\ skb[i] = p
        BY <1>1, <2>6, <4>2 DEF CtlClear, t7xx_dpmaif_tx_free_drb_skb, Last, Records
      <4>3. QED
        BY <2>2, <2>6, <4>1, <4>2 DEF CtlClear, t7xx_dpmaif_tx_free_drb_skb
    <3>3. QED
      BY <1>1, <2>1, <3>1, <3>2 DEF Past
  <2>7. CASE PushUnlink
    <3>1. UNCHANGED <<freed, dtyp, skb, drb_release_rd_idx, drb_wr_idx, hwRd, ctl>> /\ Placed /\ unlinked' = Peeked
      BY <2>7 DEF PushUnlink, NotPush, pastVars, drbVars, ctlVars, Placed, Peeked
    <3>2. Read' = Read /\ Live' = Live /\ \A i \in Slots : Off(i)' = Off(i) /\ Last(i)' = Last(i)
      BY <3>1 DEF Off, Last, InRing, Read, Live
    <3>3. ASSUME NEW k \in DOMAIN sent PROVE sent[k] <= unlinked'
      <4>1. sent[k] \in SentSet /\ sent[k] <= unlinked
        BY <1>1 DEF Past, SentSet
      <4>2. sent[k] \in Nat /\ unlinked \in Nat /\ unlinked' = unlinked + 1
        BY <1>2, <3>1, <4>1
      <4>3. QED
        BY <4>1, <4>2
    <3>4. ASSUME NEW p \in 1 .. unlinked' PROVE p \in freed' \/ p \in SentSet' \/ \E i \in Slots : Last(i)' /\ skb'[i] = p
      <4>1. CASE p = Peeked
        BY <1>1, <3>1, <3>2, <4>1 DEF Records
      <4>2. CASE p # Peeked
        <5>1. p \in 1 .. unlinked
          BY <1>2, <3>1, <4>2
        <5>2. QED
          BY <1>1, <2>2, <3>1, <3>2, <5>1 DEF Past
      <4>3. QED
        BY <4>1, <4>2
    <3>5. QED
      BY <1>1, <2>1, <2>2, <3>1, <3>2, <3>3, <3>4 DEF Past
  <2>8. CASE CtlPowerOn
    <3>1. drb_wr_idx = 0 /\ drb_release_rd_idx = 0 /\ UNCHANGED <<dtyp, skb, drb_wr_idx, drb_release_rd_idx, freed, unlinked>>
      BY <1>1, <2>8 DEF Unpacked, Idle, Live, CtlPowerOn, ringVars, drbVars, NotCtl, listVars
    <3>2. InRing = 0 /\ InRing' = 0
      BY <3>1, Sizes, CountRange DEF InRing
    <3>3. \A i \in Slots : ~Last(i) /\ ~Last(i)'
      <4>1. \A i \in Slots : Off(i)' = Off(i)
        BY <3>1 DEF Off
      <4>2. QED
        BY <1>2, <3>2, <4>1 DEF Last
    <3>4. QED
      BY <1>1, <2>1, <2>2, <3>1, <3>3 DEF Past
  <2>9. CASE ~(PushPlace \/ PushNoMem \/ WorkRelease \/ CtlClear \/ PushUnlink \/ CtlPowerOn)
    <3>1. InRing' = InRing /\ Read' = Read /\ \A i \in Slots : Off(i)' = Off(i)
      <4>1. CASE WorkUpdate \/ t7xx_dpmaif_drb_ring_not_empty
        BY <1>1, <4>1, Updating
      <4>2. CASE PushAnnounce
        BY <4>2 DEF PushAnnounce, NotPush, ringVars, InRing, Off, Read
      <4>3. CASE UNCHANGED numVars
        BY <4>3 DEF numVars, InRing, Off, Read
      <4>4. QED
        BY <1>4, <2>9, <4>1, <4>2, <4>3, NumFrame
    <3>2. UNCHANGED <<dtyp, skb>>
      <4>1. CASE WorkUpdate \/ t7xx_dpmaif_drb_ring_not_empty
        BY <4>1 DEF WorkUpdate, t7xx_dpmaif_drb_ring_not_empty, NotWork
      <4>2. CASE UNCHANGED ringVars
        BY <4>2 DEF ringVars, drbVars
      <4>3. QED
        BY <2>9, <4>1, <4>2, RingFrame
    <3>3. UNCHANGED freed /\ Live' = Live
      <4>1. CASE Work
        BY <2>9, <4>1 DEF Work, WorkBegin, WorkGet, WorkTimeout, WorkUpdate, WorkInvalid, WorkWake,
             t7xx_dpmaif_ul_clr_done, t7xx_dpmaif_drb_ring_not_empty, t7xx_dpmaif_unmask_ulq_intr, NotWork, ctlVars, Live
      <4>2. CASE CtlQuiet \/ CtlGoesOn
        BY <2>9, <4>2 DEF CtlQuiet, CtlGoesOn, t7xx_ccmni_pre_stop, CtlStop, CtlWait, CtlCancel, CtlStart,
             t7xx_ccmni_start, Live
      <4>3. CASE Xmit \/ Push \/ Interrupt \/ Pm
        BY <4>3, XmitFrame, PushFrame, IsrFrame, PmFrame DEF NotXmit, NotIsr, NotPm, pastVars, ctlVars, Live
      <4>4. QED
        BY <1>4, <4>1, <4>2, <4>3, Actors
    <3>4. UNCHANGED unlinked
      <4>1. CASE Push
        BY <2>9, <4>1 DEF Push, PushWoken, PushGet, PushSelect, PushRecount, PushTest, PushMark, PushFull,
           PushBurstOver, PushAnnounce, PushTimeout, listVars
      <4>2. CASE ~Push
        BY <1>4, <4>2, XmitFrame, IsrFrame, WorkFrame, CtlFrame, PmFrame, Actors
           DEF NotXmit, NotIsr, NotWork, NotCtl, NotPm, listVars,
               Xmit, XmitBegin, XmitQueue, XmitBusy, t7xx_ccmni_tx_timeout
      <4>3. QED
        BY <4>1, <4>2
    <3>5. \A i \in Slots : Last(i)' = Last(i)
      BY <3>1, <3>2 DEF Last
    <3>6. QED
      BY <1>1, <2>1, <2>2, <3>1, <3>2, <3>3, <3>4, <3>5 DEF Past
  <2>10. QED
    BY <2>3, <2>4, <2>5, <2>6, <2>7, <2>8, <2>9
<1>5. QED
  BY <1>3, <1>4
-----------------------------------------------------------------------------
LEMMA TxStep == TxInv /\ [Next]_vars => TxInv'
<1> SUFFICES ASSUME TxInv, [Next]_vars PROVE TxInv'
  OBVIOUS
<1>1. CASE Next
  <2>1. TypeOK'
    BY <1>1, RingTypes, DeviceTypes, ThreadTypes, FlagTypes DEF TypeOK
  <2>2. Flow' /\ BudgetMatches' /\ DoneServed'
    BY <1>1, FlowKeeps, BudgetKeeps, DoneKeeps
  <2>3. ASSUME orderly' PROVE Ordered'
    BY <1>1, <2>3, AgreeKeeps, IdleKeeps, RoomKeeps, SignalsKeeps, RecordsKeeps, PastKeeps DEF Ordered
  <2>4. QED
    BY <2>1, <2>2, <2>3 DEF TxInv
<1>2. CASE UNCHANGED vars
  <2>1. /\ UNCHANGED <<netVars, listVars, dtyp, skb, drb_wr_idx, drb_rd_idx, drb_release_rd_idx, tx_budget>>
        /\ UNCHANGED <<hwVars, irqOn, pushVars, isrPc, workVars, ctlVars, pastVars>>
    BY <1>2 DEF vars, ringVars, drbVars
  <2>2. TypeOK'
    BY <2>1 DEF TxInv, TypeOK, RingTypeOK, DeviceTypeOK, ThreadTypeOK, FlagTypeOK, netVars, listVars, hwVars,
                pushVars, workVars, ctlVars, pastVars
  <2>3. InRing' = InRing /\ Read' = Read /\ Known' = Known /\ Live' = Live /\ \A i \in Slots : Off(i)' = Off(i)
    BY <2>1 DEF InRing, Read, Known, Off, Live, hwVars, ctlVars
  <2>4. (\A i \in Slots : Last(i)' = Last(i)) /\ SentSet' = SentSet
    BY <2>1, <2>3 DEF Last, SentSet, pastVars
  <2>5. Flow' /\ BudgetMatches' /\ DoneServed'
    BY <2>1, <2>3 DEF TxInv, Flow, Holding, BudgetMatches, DoneServed, netVars, listVars, hwVars, pushVars,
                      workVars, ctlVars, pastVars
  <2>6. Unannounced' = Unannounced /\ Quiet' = Quiet /\ Placed' = Placed /\ Peeked' = Peeked /\ Size' = Size
    BY <2>1 DEF Unannounced, Quiet, Pushing, Placed, Peeked, Size, listVars, pushVars, workVars
  <2>7. ASSUME orderly' PROVE Agree' /\ Idle' /\ Room' /\ Signals'
    BY <2>1, <2>3, <2>6, <2>7 DEF TxInv, Ordered, Agree, Idle, Room, Signals, hwVars, pushVars, workVars, ctlVars,
                                  pastVars
  <2>8. ASSUME orderly' PROVE Records' /\ Past'
    BY <2>1, <2>3, <2>4, <2>6, <2>8 DEF TxInv, Ordered, Records, Past, listVars, pastVars
  <2>9. QED
    BY <2>2, <2>5, <2>7, <2>8 DEF TxInv, Ordered
<1>3. QED
  BY <1>1, <1>2

LEMMA TxInvHolds == Spec => []TxInv
<1>1. QED
  BY TxInit, TxStep, PTL DEF Spec

(* Every index of the ring of t7xx_hif_dpmaif_tx.c stays inside it, and the  *)
(* control flow of its three threads stays in the states that are modelled   *)
THEOREM TxTypeCorrect == Spec => []TypeOK
<1>1. TxInv => TypeOK
  BY DEF TxInv
<1>2. QED
  BY <1>1, TxInvHolds, PTL

(* The indices of t7xx_txq_burst_send_skb(), t7xx_dpmaif_tx_release() and of *)
(* the device agree, and no packet between them has been freed, as long as   *)
(* nobody lost track                                                         *)
THEOREM WindowIntactHolds == Spec => []WindowIntact
<1>1. TxInv => WindowIntact
  <2> SUFFICES ASSUME TxInv, orderly, ctl \notin {"down", "starting"} PROVE WindowIntact
    BY DEF WindowIntact
  <2>1. Live /\ Agree /\ Records
    BY DEF Live, TxInv, Ordered
  <2>2. Known <= Read /\ Read + hwCnt + Unannounced = InRing
    BY <2>1 DEF Agree
  <2>3. \A i \in Slots : Off(i) < InRing /\ dtyp[i] = "last" => skb[i] \notin freed \cup {NoSkb}
    BY <2>1 DEF Records, Last
  <2>4. QED
    BY <2>2, <2>3 DEF WindowIntact, Known, Read, Off
<1>2. QED
  BY <1>1, TxInvHolds, PTL

(* tx_budget, which t7xx_dpmaif_tx_send_skb() tests, never promises more     *)
(* DRBs than the ring lacks, and falls short of it only after a stop         *)
THEOREM BudgetMatchesHolds == Spec => []BudgetMatches
<1>1. TxInv => BudgetMatches
  BY DEF TxInv
<1>2. QED
  BY <1>1, TxInvHolds, PTL

(* UL_DONE is masked only while the interrupt handler or                     *)
(* t7xx_dpmaif_tx_done() is on its way to unmask it                          *)
THEOREM DoneServedHolds == Spec => []DoneServed
<1>1. TxInv => DoneServed
  BY DEF TxInv
<1>2. QED
  BY <1>1, TxInvHolds, PTL
-----------------------------------------------------------------------------
(* DpmaifTx implements DataChannel                                           *)

LEMMA UnderWay == OnTheWay = {p \in 1 .. accepted : p \notin freed /\ p \notin SentSet}
BY DEF OnTheWay, SentSet

(* A packet is accepted *)
LEMMA Accepting ==
    ASSUME Unpacked, orderly, orderly' = orderly, accepted' = accepted + 1, UNCHANGED <<sent, freed>>
    PROVE  Channel!Accept
<1>1. accepted \in Nat /\ unlinked \in Nat /\ unlinked <= accepted
  BY Sizes DEF Unpacked, FlagTypeOK, Flow
<1>2. accepted + 1 \notin freed
  <2>1. freed \subseteq 1 .. unlinked
    BY DEF Unpacked, Records
  <2>2. QED
    BY <1>1, <2>1
<1>3. \A k \in DOMAIN sent : sent[k] # accepted + 1
  <2> SUFFICES ASSUME NEW k \in DOMAIN sent PROVE sent[k] # accepted + 1
    OBVIOUS
  <2>1. sent[k] <= unlinked /\ sent \in Seq(Packets)
    BY DEF Unpacked, Past, FlagTypeOK
  <2>2. sent[k] \in Packets
    BY <2>1
  <2>3. sent[k] \in Nat
    BY <2>2, Sizes DEF Packets
  <2>4. QED
    BY <1>1, <2>1, <2>3
<1>4. 1 .. accepted + 1 = (1 .. accepted) \cup {accepted + 1}
  BY <1>1
<1>5. OnTheWay' = OnTheWay \cup {accepted + 1}
  BY <1>2, <1>3, <1>4 DEF OnTheWay
<1>6. QED
  BY <1>5 DEF Channel!Accept

(* The device has read the last DRB of a packet *)
LEMMA Transmitting ==
    ASSUME Unpacked, DeviceSends, orderly, sent' # sent
    PROVE  Channel!Transmit
<1>1. Live /\ Agree /\ Records /\ Past
  BY Sends DEF Unpacked
<1>2. PICK k \in Nat \ {0}, i \in Slots :
        /\ k <= hwCnt
        /\ Off(i) = Read + k - 1 /\ Off(i) < InRing
        /\ \A j \in Slots : Read <= Off(j) /\ Off(j) < Off(i) => dtyp[j] # "last"
        /\ sent' = IF dtyp[i] = "last" THEN Append(sent, skb[i]) ELSE sent
  BY Sends
<1>3. Last(i) /\ sent' = Append(sent, skb[i])
  BY <1>2 DEF Last
<1>4. Read \in Nat /\ hwCnt \in Nat /\ InRing \in Nat /\ \A j \in Slots : Off(j) \in Nat
  BY Numbers DEF Unpacked
<1>5. Off(i) < Read + hwCnt /\ Off(i) >= Read
  BY <1>2, <1>4
<1>6. skb[i] \in 1 .. unlinked
  BY <1>1, <1>3, <1>5, Announced
<1>7. unlinked \in Nat /\ accepted \in Nat /\ unlinked <= accepted
  BY Sizes DEF Unpacked, FlagTypeOK, Flow
<1>8. skb[i] \notin freed /\ skb[i] \notin SentSet /\ skb[i] \in Nat
  <2>1. \A p \in SentSet : p < skb[i]
    BY <1>1, <1>3, <1>5 DEF Past
  <2>2. skb[i] \in Nat
    BY <1>6, <1>7
  <2>3. ~(skb[i] < skb[i])
    BY <2>2
  <2>4. skb[i] \notin freed
    BY <1>1, <1>3 DEF Records
  <2>5. QED
    BY <2>1, <2>2, <2>3, <2>4
<1>9. skb[i] \in OnTheWay
  <2>1. skb[i] \in 1 .. accepted
    BY <1>6, <1>7
  <2>2. QED
    BY <1>8, <2>1, UnderWay
<1>10. ASSUME NEW q \in OnTheWay PROVE skb[i] <= q
  <2>1. q \in 1 .. accepted /\ q \notin freed /\ q \notin SentSet
    BY UnderWay
  <2>2. CASE q \in 1 .. unlinked
    <3>1. PICK j \in Slots : Last(j) /\ skb[j] = q
      BY <1>1, <2>1, <2>2 DEF Past
    <3>2. ~(Off(j) < Read)
      BY <1>1, <2>1, <3>1 DEF Past
    <3>3. ~(Off(j) < Off(i))
      BY <1>2, <1>4, <3>1, <3>2 DEF Last
    <3>4. CASE Off(j) = Off(i)
      <4>1. j = i
        BY <3>4, CountInjective DEF Off, Unpacked, RingTypeOK
      <4>2. QED
        BY <1>8, <3>1, <4>1
    <3>5. CASE Off(i) < Off(j)
      <4>1. skb[i] < skb[j]
        BY <1>1, <1>3, <3>1, <3>5 DEF Records
      <4>2. q \in Nat
        BY <2>2, <1>7
      <4>3. QED
        BY <1>8, <3>1, <4>1, <4>2
    <3>6. QED
      BY <1>4, <3>3, <3>4, <3>5
  <2>3. CASE q \notin 1 .. unlinked
    BY <1>6, <1>7, <2>1, <2>3
  <2>4. QED
    BY <2>2, <2>3
<1>11. OnTheWay' = OnTheWay \ {skb[i]}
  <2>1. UNCHANGED <<accepted, freed>>
    BY DEF DeviceSends, listVars
  <2>2. SentSet' = SentSet \cup {skb[i]}
    <3>1. sent \in Seq(Packets)
      BY DEF Unpacked, FlagTypeOK
    <3>2. /\ Len(sent) \in Nat /\ DOMAIN sent = 1 .. Len(sent) /\ DOMAIN sent' = 1 .. Len(sent) + 1
          /\ sent'[Len(sent) + 1] = skb[i] /\ \A n \in DOMAIN sent : sent'[n] = sent[n]
      BY <1>3, <3>1
    <3>3. QED
      BY <3>2 DEF SentSet
  <2>3. OnTheWay' = {p \in 1 .. accepted : p \notin freed /\ p \notin SentSet'}
    BY <2>1 DEF OnTheWay, SentSet
  <2>4. QED
    BY <2>2, <2>3, UnderWay
<1>12. UNCHANGED <<accepted, orderly>>
  BY DEF DeviceSends, listVars
<1>13. QED
  BY <1>3, <1>9, <1>10, <1>11, <1>12 DEF Channel!Transmit

(* A stop frees what has been put into the ring *)
LEMMA Dropping ==
    ASSUME TxInv, Next, CtlClear, orderly'
    PROVE  Channel!Drop
<1>1. Unpacked /\ orderly /\ Records /\ Past /\ Quiet
  BY Unpack, OrderlyOnce DEF Unpacked, CtlClear
<1>2. unlinked \in Nat /\ accepted \in Nat /\ unlinked <= accepted
  BY <1>1, Sizes DEF Unpacked, FlagTypeOK, Flow
<1>3. UNCHANGED <<sent, accepted, unlinked>> /\ SentSet' = SentSet /\ orderly' = orderly
  BY <1>1 DEF CtlClear, NotCtl, listVars, SentSet, Unpacked, FlagTypeOK
<1>4. freed \subseteq freed' /\ freed' \subseteq 1 .. unlinked
  <2>1. Records'
    BY RecordsKeeps
  <2>2. QED
    BY <1>3, <2>1 DEF Records, CtlClear, t7xx_dpmaif_tx_free_drb_skb
<1>5. \A p \in 1 .. unlinked : p \in freed' \/ p \in SentSet
  <2> SUFFICES ASSUME NEW p \in 1 .. unlinked PROVE p \in freed' \/ p \in SentSet
    OBVIOUS
  <2>1. p \in freed \/ p \in SentSet \/ \E i \in Slots : Last(i) /\ skb[i] = p
    BY <1>1 DEF Past
  <2>2. CASE \E i \in Slots : Last(i) /\ skb[i] = p
    BY <1>1, <2>2 DEF CtlClear, t7xx_dpmaif_tx_free_drb_skb, Last, Records
  <2>3. QED
    BY <1>4, <2>1, <2>2
<1>6. OnTheWay' = {p \in 1 .. accepted : p \notin freed' /\ p \notin SentSet}
  BY <1>3 DEF OnTheWay, SentSet
<1>7. ASSUME NEW p \in 1 .. accepted
      PROVE  p \notin freed' /\ p \notin SentSet <=> p \notin freed /\ p \notin SentSet /\ unlinked < p
  <2>1. p \in 1 .. unlinked \/ unlinked < p
    BY <1>2
  <2>2. p \in 1 .. unlinked => ~(unlinked < p)
    BY <1>2
  <2>3. QED
    BY <1>4, <1>5, <2>1, <2>2
<1>8. OnTheWay' = {p \in OnTheWay : unlinked < p}
  BY <1>6, <1>7, UnderWay
<1>9. unlinked \in 0 .. accepted
  BY <1>2
<1>10. QED
  BY <1>3, <1>8, <1>9 DEF Channel!Drop

LEMMA ChannelStep == TxInv /\ [Next]_vars => [Channel!Next]_Channel!vars
<1> SUFFICES ASSUME TxInv, [Next]_vars PROVE [Channel!Next]_Channel!vars
  OBVIOUS
<1>1. CASE UNCHANGED vars
  BY <1>1 DEF vars, listVars, pastVars, Channel!vars, OnTheWay
<1>2. CASE Next /\ ~orderly'
  <2>1. orderly' = FALSE
    BY <1>2, FlagTypes DEF FlagTypeOK
  <2>2. QED
    BY <2>1 DEF Channel!Next, Channel!Disorder
<1>3. CASE Next /\ orderly'
  <2>0. Unpacked /\ orderly /\ orderly' = orderly
    <3>1. Unpacked
      BY Unpack
    <3>2. FlagTypeOK'
      BY <1>3, FlagTypes
    <3>3. orderly
      BY <1>3, <3>1, OrderlyOnce DEF Unpacked
    <3>4. QED
      BY <1>3, <3>1, <3>2, <3>3 DEF Unpacked, FlagTypeOK
  <2>1. CASE CtlClear
    BY <1>3, <2>1, Dropping DEF Channel!Next
  <2>2. CASE DeviceSends
    <3>1. CASE sent' = sent
      BY <2>0, <2>2, <3>1 DEF DeviceSends, listVars, Channel!vars, OnTheWay
    <3>2. CASE sent' # sent
      BY <2>0, <2>2, <3>2, Transmitting DEF Channel!Next
    <3>3. QED
      BY <3>1, <3>2
  <2>3. CASE XmitQueue
    <3>1. accepted' = accepted + 1 /\ UNCHANGED <<sent, freed>>
      BY <2>3 DEF XmitQueue, NotXmit, pastVars
    <3>2. QED
      BY <2>0, <3>1, Accepting DEF Channel!Next
  <2>4. CASE WorkRelease
    <3>1. /\ drb_release_rd_idx \in Slots /\ Off(drb_release_rd_idx) = 0
          /\ freed' = IF Last(drb_release_rd_idx) THEN freed \cup {skb[drb_release_rd_idx]} ELSE freed
      BY <2>0, <2>4, ReleaseLast
    <3>2. Live /\ 0 < Read
      BY <2>0, <2>4, Releasing
    <3>3. UNCHANGED <<accepted, sent>>
      BY <2>4 DEF WorkRelease, NotWork, listVars
    <3>4. Last(drb_release_rd_idx) => skb[drb_release_rd_idx] \in SentSet
      BY <2>0, <3>1, <3>2 DEF Unpacked, Past
    <3>5. OnTheWay' = {p \in 1 .. accepted : p \notin freed' /\ p \notin SentSet}
      BY <3>3 DEF OnTheWay, SentSet
    <3>6. OnTheWay' = OnTheWay
      BY <3>1, <3>4, <3>5, UnderWay
    <3>7. QED
      BY <2>0, <3>3, <3>6 DEF Channel!vars
  <2>5. CASE ~(CtlClear \/ DeviceSends \/ XmitQueue \/ WorkRelease)
    <3>1. UNCHANGED <<accepted, sent, freed>>
      <4>1. CASE Work
        BY <2>5, <4>1 DEF Work, WorkBegin, WorkGet, WorkTimeout, WorkUpdate, WorkInvalid, WorkWake,
             t7xx_dpmaif_ul_clr_done, t7xx_dpmaif_drb_ring_not_empty, t7xx_dpmaif_unmask_ulq_intr, NotWork, listVars
      <4>2. CASE CtlQuiet \/ CtlGoesOn
        BY <2>5, <4>2 DEF CtlQuiet, CtlGoesOn, t7xx_ccmni_pre_stop, CtlStop, CtlWait, CtlCancel, CtlStart, CtlPowerOn,
             t7xx_ccmni_start, NotCtl, listVars
      <4>3. CASE Xmit
        BY <2>5, <4>3 DEF Xmit, XmitBegin, XmitBusy, t7xx_ccmni_tx_timeout, NotXmit, listVars, pastVars
      <4>4. CASE Push \/ Interrupt \/ Pm
        BY <4>4, PushFrame, IsrFrame, PmFrame DEF NotIsr, NotPm, listVars, pastVars
      <4>5. QED
        BY <1>3, <2>5, <4>1, <4>2, <4>3, <4>4, Actors
    <3>2. QED
      BY <2>0, <3>1 DEF Channel!vars, OnTheWay
  <2>6. QED
    BY <2>1, <2>2, <2>3, <2>4, <2>5
<1>4. QED
  BY <1>1, <1>2, <1>3

(* t7xx_hif_dpmaif_tx.c implements the abstract channel: packets reach the   *)
(* modem in the order in which t7xx_ccmni_start_xmit() was given them, none  *)
(* twice, and a stop drops a prefix of those under way                       *)
THEOREM InOrderHolds == Spec => InOrder
<1>1. Init => Channel!Init
  <2> SUFFICES ASSUME Init PROVE Channel!Init
    OBVIOUS
  <2>1. accepted = 0 /\ sent = <<>> /\ orderly = TRUE
    BY DEF Init
  <2>2. OnTheWay = {}
    BY <2>1 DEF OnTheWay
  <2>3. QED
    BY <2>1, <2>2 DEF Channel!Init
<1>2. QED
  BY <1>1, ChannelStep, TxInvHolds, PTL DEF Spec, InOrder, Channel!Spec
=============================================================================
