--------------------------- MODULE DpmaifBatProofs ---------------------------
(***************************************************************************)
(* Proofs about DpmaifBat, for rings of any length, any thresholds and     *)
(* bounds, and whatever disturbs.  Slots are told apart by their distance  *)
(* from the release index.  While nothing has upset the ring, the slots up *)
(* to Read have been used by the device: each waits in a PIT of one queue, *)
(* once, or is marked; those from Read to Ready hold empty buffers.        *)
(***************************************************************************)
EXTENDS DpmaifBat, WellFoundedInduction, TLAPS

Off(s) == rd_count(bat_release_rd_idx, s)   \* how far it is from the release index
Read   == Off(hwRd)
Ahead  == IF batPc = "announce" THEN filled ELSE 0
Ready  == Read + rd_count(hwRd, hwWr) + Ahead
Live   == ctl.at \notin {"down", "starting", "failed"}

Elements(s) == {s[k] : k \in DOMAIN s}
Distinct(s) == \A j, k \in DOMAIN s : s[j] = s[k] => j = k

(* The device receives only when the data path is up; a ring of PITs that    *)
(* has been cleared stays so until it is                                     *)
Placed ==
    /\ hwOn => ctl.at = "up"
    /\ ~Live => \A q \in Queues : pit[q] = <<>> /\ remain[q] = 0

(* When the ring has been cleared in good order nobody uses it *)
Cleared ==
    ~Live => /\ ctl.at # "failed" /\ bat_bitmap = {} /\ bat_release_rd_idx = 0 /\ bat_wr_idx = 0
             /\ Idle /\ batPc \in {"off", "lock"}

Agree == Live => Ready < N /\ bat_wr_idx = Next_idx(hwWr, Ahead)

Marked  == \A s \in bat_bitmap : Off(s) < Read /\ skb[s] = "none"
Emptied == \A s \in Slots : Read <= Off(s) /\ Off(s) < Ready => skb[s] = "empty"
Found   == \A s \in Slots : Off(s) < Read => s \in bat_bitmap \/ \E q \in Queues : s \in Elements(pit[q])
Apart   == \A p, q \in Queues : p # q => Elements(pit[p]) \cap Elements(pit[q]) = {}

Taken(q, s) == pollPc[q] = "mask" /\ s = bid[q]

Waiting(q) ==
    /\ Distinct(pit[q])
    /\ pollPc[q] = "mask" => pit[q] # <<>> /\ bid[q] = Head(pit[q])
    /\ \A s \in Elements(pit[q]) :
          Off(s) < Read /\ s \notin bat_bitmap /\ skb[s] = IF Taken(q, s) THEN "none" ELSE "full"

Buffers == Live => Marked /\ Emptied /\ Found /\ Apart /\ \A q \in Queues : Waiting(q)

(* What the work knows between its steps *)
AtWork ==
    Live =>
        /\ batPc \in {"release", "advance"} => \A s \in Slots : Off(s) < cnt => s \in bat_bitmap
        /\ batPc \in {"advance", "alloc", "update"} => que_started[0]
        /\ batPc = "advance" => newRel = Next_idx(bat_release_rd_idx, cnt) /\ cnt < N
        /\ batPc = "update" => /\ Ready + filled < N
                               /\ \A s \in Slots : Ready <= Off(s) /\ Off(s) < Ready + filled => skb[s] = "empty"

Ordered == Cleared /\ Agree /\ Buffers /\ AtWork

BatInv == TypeOK /\ Placed /\ (orderly => Ordered)
-----------------------------------------------------------------------------
(* Distances round the ring *)
LEMMA Sizes ==
    /\ N \in Nat /\ N > 1 /\ Threshold \in Nat /\ Threshold > 0 /\ M \in Nat /\ M > 1
    /\ PitThreshold \in Nat /\ PitThreshold > 0 /\ MaxStops \in Nat /\ MaxFailures \in Nat /\ 0 \in Slots
BY BatSizeAssumption, BatBoundAssumption DEF Slots

LEMMA NextIs ==
    ASSUME NEW a \in Slots, NEW k \in 0 .. N
    PROVE  Next_idx(a, k) \in Slots /\ Next_idx(a, k) = IF a + k < N THEN a + k ELSE a + k - N
BY Sizes DEF Slots, Next_idx

LEMMA CountIs ==
    ASSUME NEW a \in Slots, NEW b \in Slots
    PROVE  /\ rd_count(a, b) \in Nat /\ rd_count(a, b) < N /\ (rd_count(a, b) = 0 <=> a = b)
           /\ rd_count(a, b) = IF a <= b THEN b - a ELSE b - a + N
BY Sizes DEF Slots, rd_count

LEMMA CountInjective ==
    ASSUME NEW a \in Slots, NEW b \in Slots, NEW c \in Slots, rd_count(a, b) = rd_count(a, c)
    PROVE  b = c
<1>1. a \in Int /\ b \in Int /\ c \in Int /\ N \in Int /\ a < N /\ b < N /\ c < N /\ 0 <= a /\ 0 <= b /\ 0 <= c
  BY Sizes DEF Slots
<1>2. (IF a <= b THEN b - a ELSE b - a + N) = (IF a <= c THEN c - a ELSE c - a + N)
  BY CountIs
<1>3. QED
  BY <1>1, <1>2

(* Going on from b moves away from a, unless a is passed *)
LEMMA NextCount ==
    ASSUME NEW a \in Slots, NEW b \in Slots, NEW k \in 0 .. N, rd_count(a, b) + k < N
    PROVE  Next_idx(b, k) \in Slots /\ rd_count(a, Next_idx(b, k)) = rd_count(a, b) + k
<1> DEFINE n == Next_idx(b, k)
<1>1. n \in Slots /\ n = (IF b + k < N THEN b + k ELSE b + k - N)
  BY NextIs
<1>2. rd_count(a, b) = (IF a <= b THEN b - a ELSE b - a + N) /\ rd_count(a, n) = (IF a <= n THEN n - a ELSE n - a + N)
  BY <1>1, CountIs
<1> HIDE DEF n
<1>3. rd_count(a, n) = rd_count(a, b) + k
  BY <1>1, <1>2, Sizes DEF Slots
<1>4. QED
  BY <1>1, <1>3 DEF n

(* Counting from a later slot *)
LEMMA CountShift ==
    ASSUME NEW a \in Slots, NEW b \in Slots, NEW k \in 0 .. N, k <= rd_count(a, b)
    PROVE  rd_count(Next_idx(a, k), b) = rd_count(a, b) - k
<1> DEFINE n == Next_idx(a, k)
<1>1. n \in Slots /\ n = (IF a + k < N THEN a + k ELSE a + k - N)
  BY NextIs, Sizes
<1>2. rd_count(a, b) = (IF a <= b THEN b - a ELSE b - a + N) /\ rd_count(n, b) = (IF n <= b THEN b - n ELSE b - n + N)
  BY <1>1, CountIs
<1> HIDE DEF n
<1>3. rd_count(n, b) = rd_count(a, b) - k
  BY <1>1, <1>2, Sizes DEF Slots
<1>4. QED
  BY <1>3 DEF n

LEMMA CountWrap ==
    ASSUME NEW a \in Slots, NEW b \in Slots, NEW k \in 0 .. N - 1, rd_count(a, b) < k
    PROVE  rd_count(Next_idx(a, k), b) = rd_count(a, b) - k + N
<1> DEFINE n == Next_idx(a, k)
<1>1. n \in Slots /\ n = (IF a + k < N THEN a + k ELSE a + k - N)
  BY NextIs, Sizes
<1>2. rd_count(a, b) = (IF a <= b THEN b - a ELSE b - a + N) /\ rd_count(n, b) = (IF n <= b THEN b - n ELSE b - n + N)
  BY <1>1, CountIs
<1> HIDE DEF n
<1>3. rd_count(n, b) = rd_count(a, b) - k + N
  BY <1>1, <1>2, Sizes DEF Slots
<1>4. QED
  BY <1>3 DEF n

(* What lies between two others adds up *)
LEMMA CountSum ==
    ASSUME NEW a \in Slots, NEW b \in Slots, NEW c \in Slots, rd_count(a, b) + rd_count(b, c) < N
    PROVE  rd_count(a, c) = rd_count(a, b) + rd_count(b, c)
<1>1. rd_count(a, b) = (IF a <= b THEN b - a ELSE b - a + N) /\ rd_count(b, c) = (IF b <= c THEN c - b ELSE c - b + N)
      /\ rd_count(a, c) = (IF a <= c THEN c - a ELSE c - a + N)
  BY CountIs
<1>2. QED
  BY <1>1, Sizes DEF Slots

LEMMA CountDiff ==
    ASSUME NEW a \in Slots, NEW b \in Slots, NEW c \in Slots, rd_count(a, b) <= rd_count(a, c)
    PROVE  rd_count(b, c) = rd_count(a, c) - rd_count(a, b)
<1>1. rd_count(a, b) = (IF a <= b THEN b - a ELSE b - a + N) /\ rd_count(b, c) = (IF b <= c THEN c - b ELSE c - b + N)
      /\ rd_count(a, c) = (IF a <= c THEN c - a ELSE c - a + N)
  BY CountIs
<1>2. QED
  BY <1>1, Sizes DEF Slots

LEMMA RunMember ==
    ASSUME NEW a \in Slots, NEW k \in 0 .. N
    PROVE  Run(a, k) \subseteq Slots /\ \A s \in Slots : s \in Run(a, k) <=> rd_count(a, s) < k
<1>1. ASSUME NEW j \in 0 .. k - 1 PROVE Next_idx(a, j) \in Slots /\ rd_count(a, Next_idx(a, j)) = j
  <2>1. j \in 0 .. N /\ j < N /\ rd_count(a, a) = 0
    BY Sizes, CountIs
  <2>2. QED
    BY <2>1, NextCount
<1>2. ASSUME NEW s \in Slots, rd_count(a, s) < k PROVE s \in Run(a, k)
  <2>1. rd_count(a, s) \in 0 .. k - 1
    BY <1>2, CountIs
  <2>2. s = Next_idx(a, rd_count(a, s))
    BY <1>1, <2>1, CountInjective
  <2>3. QED
    BY <2>1, <2>2 DEF Run
<1>3. QED
  BY <1>1, <1>2 DEF Run

(* The same counted from another slot that is not passed *)
LEMMA RunFrom ==
    ASSUME NEW a \in Slots, NEW b \in Slots, NEW k \in 0 .. N, rd_count(a, b) + k <= N
    PROVE  /\ Run(b, k) \subseteq Slots
           /\ \A s \in Slots : s \in Run(b, k) <=> rd_count(a, b) <= rd_count(a, s) /\ rd_count(a, s) < rd_count(a, b) + k
<1>1. Run(b, k) \subseteq Slots /\ \A s \in Slots : s \in Run(b, k) <=> rd_count(b, s) < k
  BY RunMember
<1>2. ASSUME NEW s \in Slots
      PROVE  rd_count(b, s) < k <=> rd_count(a, b) <= rd_count(a, s) /\ rd_count(a, s) < rd_count(a, b) + k
  <2>1. rd_count(b, s) \in Nat /\ rd_count(a, s) \in Nat /\ rd_count(a, b) \in Nat /\ k \in Nat /\ N \in Nat
    BY CountIs, Sizes
  <2>2. ASSUME rd_count(b, s) < k PROVE rd_count(a, s) = rd_count(a, b) + rd_count(b, s)
    <3>1. rd_count(a, b) + rd_count(b, s) < N
      BY <2>1, <2>2
    <3>2. QED
      BY <3>1, CountSum
  <2>3. ASSUME rd_count(a, b) <= rd_count(a, s) PROVE rd_count(b, s) = rd_count(a, s) - rd_count(a, b)
    BY <2>3, CountDiff
  <2>4. QED
    BY <2>1, <2>2, <2>3
<1>3. QED
  BY <1>1, <1>2

LEMMA SpaceIs ==
    ASSUME bat_release_rd_idx \in Slots, bat_wr_idx \in Slots
    PROVE  Space = N - 1 - Off(bat_wr_idx)
BY Sizes DEF Slots, Space, Off, rd_count
-----------------------------------------------------------------------------
(* Every set of numbers that is not empty has a least one *)
LEMMA Least == ASSUME NEW S \in SUBSET Nat, S # {} PROVE \E x \in S : \A y \in S : x <= y
<1> DEFINE R == {p \in Nat \X Nat : p[1] < p[2]}
<1>1. IsWellFoundedOn(R, Nat)
  BY NatLessThanWellFounded DEF OpToRel
<1>2. PICK x \in S : \A y \in S : ~(<<y, x>> \in R)
  BY <1>1, WFMin
<1>3. ASSUME NEW y \in S PROVE x <= y
  <2>1. x \in Nat /\ y \in Nat /\ ~(<<y, x>> \in R)
    BY <1>2
  <2>2. ~(y < x)
    BY <2>1
  <2>3. QED
    BY <2>1, <2>2
<1>4. QED
  BY <1>3

(* The run of marked slots that the search finds: there is one *)
LEMMA AvailRun ==
    ASSUME bat_release_rd_idx \in Slots
    PROVE  /\ t7xx_dpmaif_avail_pkt_bat_cnt \in 0 .. N
           /\ Run(bat_release_rd_idx, t7xx_dpmaif_avail_pkt_bat_cnt) \subseteq bat_bitmap
<1> DEFINE Clear == {k \in 0 .. N : k < N => Next_idx(bat_release_rd_idx, k) \notin bat_bitmap}
           Fits(k) == /\ Run(bat_release_rd_idx, k) \subseteq bat_bitmap
                      /\ k < N => Next_idx(bat_release_rd_idx, k) \notin bat_bitmap
<1>1. N \in Clear /\ Clear \in SUBSET Nat
  BY Sizes
<1>2. PICK k \in Clear : \A j \in Clear : k <= j
  BY <1>1, Least
<1>3. ASSUME NEW j \in 0 .. k - 1 PROVE Next_idx(bat_release_rd_idx, j) \in bat_bitmap
  <2>1. j \in 0 .. N /\ j < N /\ ~(k <= j)
    BY <1>2, Sizes
  <2>2. j \notin Clear
    BY <1>2, <2>1
  <2>3. QED
    BY <2>1, <2>2
<1>4. k \in 0 .. N /\ Fits(k)
  BY <1>2, <1>3 DEF Run
<1>5. QED
  BY <1>4 DEF t7xx_dpmaif_avail_pkt_bat_cnt
-----------------------------------------------------------------------------
(* PITs are added at one end and taken at the other *)
LEMMA AppendElements ==
    ASSUME NEW s \in Seq(Slots), NEW e \in Slots
    PROVE  /\ Append(s, e) \in Seq(Slots) /\ Len(Append(s, e)) = Len(s) + 1 /\ Append(s, e) # <<>>
           /\ s # <<>> => Head(Append(s, e)) = Head(s)
           /\ Elements(Append(s, e)) = Elements(s) \cup {e}
           /\ Distinct(s) /\ e \notin Elements(s) => Distinct(Append(s, e))
<1>1. /\ Append(s, e) \in Seq(Slots) /\ Len(Append(s, e)) = Len(s) + 1 /\ Append(s, e) # <<>>
      /\ s # <<>> => Head(Append(s, e)) = Head(s)
  <2>1. Append(s, e) \in Seq(Slots) /\ Len(Append(s, e)) = Len(s) + 1 /\ Len(s) \in Nat
    OBVIOUS
  <2>2. Append(s, e) # <<>>
    BY <2>1
  <2>3. ASSUME s # <<>> PROVE Head(Append(s, e)) = Head(s)
    <3>1. 1 \in 1 .. Len(s)
      BY <2>1, <2>3
    <3>2. QED
      BY <2>1, <2>2, <3>1
  <2>4. QED
    BY <2>1, <2>2, <2>3
<1>2. /\ Len(s) \in Nat /\ DOMAIN s = 1 .. Len(s) /\ DOMAIN Append(s, e) = 1 .. Len(s) + 1
      /\ \A k \in 1 .. Len(s) : Append(s, e)[k] = s[k]
      /\ Append(s, e)[Len(s) + 1] = e
  OBVIOUS
<1>3. Elements(Append(s, e)) = Elements(s) \cup {e}
  BY <1>2 DEF Elements
<1>4. ASSUME Distinct(s), e \notin Elements(s) PROVE Distinct(Append(s, e))
  BY <1>2, <1>4 DEF Elements, Distinct
<1>5. QED
  BY <1>1, <1>3, <1>4

LEMMA TailElements ==
    ASSUME NEW s \in Seq(Slots), s # <<>>
    PROVE  /\ Tail(s) \in Seq(Slots) /\ Len(Tail(s)) = Len(s) - 1 /\ Len(s) > 0
           /\ Head(s) \in Elements(s) /\ Head(s) \in Slots
           /\ Distinct(s) => Distinct(Tail(s)) /\ Elements(Tail(s)) = Elements(s) \ {Head(s)}
<1>1. Tail(s) \in Seq(Slots) /\ Len(Tail(s)) = Len(s) - 1 /\ Len(s) > 0 /\ Len(s) \in Nat
  OBVIOUS
<1>2. /\ DOMAIN s = 1 .. Len(s) /\ DOMAIN Tail(s) = 1 .. Len(s) - 1 /\ Head(s) = s[1]
      /\ \A k \in 1 .. Len(s) - 1 : Tail(s)[k] = s[k + 1]
  BY <1>1
<1>3. Head(s) \in Elements(s) /\ Head(s) \in Slots
  BY <1>1, <1>2 DEF Elements
<1>4. ASSUME Distinct(s) PROVE Distinct(Tail(s)) /\ Elements(Tail(s)) = Elements(s) \ {Head(s)}
  <2>1. Distinct(Tail(s))
    <3> SUFFICES ASSUME NEW j \in DOMAIN Tail(s), NEW k \in DOMAIN Tail(s), Tail(s)[j] = Tail(s)[k] PROVE j = k
      BY DEF Distinct
    <3>1. j + 1 \in DOMAIN s /\ k + 1 \in DOMAIN s /\ s[j + 1] = s[k + 1] /\ j \in Nat /\ k \in Nat
      BY <1>1, <1>2
    <3>2. QED
      BY <1>4, <3>1 DEF Distinct
  <2>2. ASSUME NEW e \in Elements(Tail(s)) PROVE e \in Elements(s) /\ e # Head(s)
    <3>1. PICK k \in DOMAIN Tail(s) : e = Tail(s)[k]
      BY DEF Elements
    <3>2. k + 1 \in DOMAIN s /\ 1 \in DOMAIN s /\ s[k + 1] = e /\ k + 1 # 1
      BY <1>1, <1>2, <3>1
    <3>3. QED
      BY <1>2, <1>4, <3>2 DEF Elements, Distinct
  <2>3. ASSUME NEW e \in Elements(s), e # Head(s) PROVE e \in Elements(Tail(s))
    <3>1. PICK k \in DOMAIN s : e = s[k]
      BY DEF Elements
    <3>2. k - 1 \in DOMAIN Tail(s) /\ Tail(s)[k - 1] = s[k]
      BY <1>1, <1>2, <2>3, <3>1
    <3>3. QED
      BY <3>1, <3>2 DEF Elements
  <2>4. QED
    BY <2>1, <2>2, <2>3
<1>5. QED
  BY <1>1, <1>3, <1>4
-----------------------------------------------------------------------------
LEMMA BatInit == Init => BatInv
<1> SUFFICES ASSUME Init PROVE BatInv
  OBVIOUS
<1>1. 0 \in Slots /\ N - 1 \in Slots
  BY Sizes DEF Slots
<1>2. RingTypeOK /\ DeviceTypeOK
  BY <1>1 DEF Init, RingTypeOK, DeviceTypeOK
<1>3. \A q \in Queues : pit[q] = <<>> /\ remain[q] = 0 /\ pitFree[q] = M - 1
  BY DEF Init
<1>4. QueueTypeOK
  <2>1. pit \in [Queues -> Seq(Slots)] /\ remain \in [Queues -> 0 .. M - 1] /\ pitFree \in [Queues -> 0 .. M - 1]
    BY Sizes DEF Init
  <2>2. \A q \in Queues : Len(pit[q]) + remain[q] + pitFree[q] < M
    BY <1>3, Sizes
  <2>3. QED
    BY <2>1, <2>2 DEF Init, QueueTypeOK
<1>5. ThreadTypeOK
  BY <1>1, Sizes DEF Init, ThreadTypeOK, PollPcs, WorkPcs, CtlPcs, Queues
<1>6. Placed
  BY DEF Init, Placed, Live
<1>7. Live /\ Cleared /\ AtWork
  BY DEF Init, Live, Cleared, AtWork
<1>8. Read = 0 /\ Ahead = 0 /\ Ready = N - 1
  <2>1. rd_count(0, 0) = 0 /\ rd_count(0, N - 1) = N - 1
    BY <1>1, CountIs, Sizes
  <2>2. QED
    BY <2>1, Sizes DEF Init, Read, Ahead, Ready, Off
<1>9. Agree
  BY <1>1, <1>8, NextIs, Sizes DEF Init, Agree
<1>10. Buffers
  <2>1. \A q \in Queues : Elements(pit[q]) = {} /\ Distinct(pit[q])
    BY <1>3 DEF Elements, Distinct
  <2>2. \A s \in Slots : ~(Off(s) < 0) /\ (Off(s) < N - 1 => skb[s] = "empty")
    <3>1. \A s \in Slots : Off(s) = s
      BY <1>1, CountIs, Sizes DEF Init, Off, Slots
    <3>2. QED
      BY <3>1, Sizes DEF Init, Slots
  <2>3. \A q \in Queues : pollPc[q] # "mask"
    BY DEF Init
  <2>4. QED
    BY <1>8, <2>1, <2>2, <2>3 DEF Init, Buffers, Marked, Emptied, Found, Apart, Waiting
<1>11. QED
  BY <1>2, <1>4, <1>5, <1>6, <1>7, <1>9, <1>10 DEF BatInv, TypeOK, Ordered
-----------------------------------------------------------------------------
(* The types.                                                                *)

LEMMA Actors ==
    ASSUME Next
    PROVE  (\E q \in Queues : DeviceFills(q) \/ Poll(q)) \/ Work \/ Ctl
BY DEF Next

LEMMA FilledType ==
    ASSUME skb \in [Slots -> {"none", "empty", "full"}], NEW i, NEW k
    PROVE  Filled(i, k) \in [Slots -> {"none", "empty", "full"}]
BY DEF Filled

LEMMA RingTypes == ASSUME TypeOK, Next PROVE RingTypeOK'
<1>1. RingTypeOK /\ DeviceTypeOK /\ ThreadTypeOK
  BY DEF TypeOK
<1>2. type' = type
  BY Zenon DEF Next, DeviceFills, Poll, PollBegin, PollCleared, PollTake, PollBad, PollMask,
     t7xx_dpmaifq_rx_notify_hw, NotPoll, Work, WorkBegin, WorkTimeout, WorkCount, WorkRelease, WorkAdvance,
     WorkAlloc, WorkUpdate, WorkAnnounce, NotWork, Ctl, CtlQuiet, RxStopWait, RxStopMark, RxClear, CtlStart,
     CtlPowerOn, CtlStartFails, t7xx_dpmaif_resume, NotCtl
<1>3. CASE \E q \in Queues : DeviceFills(q) \/ Poll(q)
  <2>1. PICK q \in Queues : DeviceFills(q) \/ Poll(q)
    BY <1>3
  <2>2. bid \in [Queues -> Slots]
    BY <1>1 DEF ThreadTypeOK
  <2>3. UNCHANGED <<bat_release_rd_idx, bat_wr_idx>>
    BY <2>1, Zenon DEF DeviceFills, Poll, PollBegin, PollCleared, PollTake, PollBad, PollMask,
       t7xx_dpmaifq_rx_notify_hw, NotPoll
  <2>4. skb' \in [Slots -> {"none", "empty", "full"}]
    <3>1. CASE DeviceFills(q)
      BY <1>1, <3>1 DEF DeviceFills, RingTypeOK
    <3>2. CASE PollTake(q)
      BY <1>1, <3>2 DEF PollTake, RingTypeOK
    <3>3. CASE UNCHANGED skb
      BY <1>1, <3>3 DEF RingTypeOK
    <3>4. QED
      BY <2>1, <3>1, <3>2, <3>3, Zenon DEF Poll, PollBegin, PollCleared, PollBad, PollMask,
         t7xx_dpmaifq_rx_notify_hw
  <2>5. bat_bitmap' = bat_bitmap \/ bat_bitmap' = bat_bitmap \cup {bid[q]}
    BY <2>1, Zenon DEF DeviceFills, Poll, PollBegin, PollCleared, PollTake, PollBad, PollMask,
       t7xx_dpmaifq_rx_notify_hw
  <2>6. bat_bitmap' \subseteq Slots
    BY <1>1, <2>2, <2>5 DEF RingTypeOK
  <2>7. QED
    BY <1>1, <1>2, <2>3, <2>4, <2>6 DEF RingTypeOK
<1>4. CASE Work
  <2>1. skb' \in [Slots -> {"none", "empty", "full"}]
    <3>1. (\E k \in 0 .. cnt : skb' = Filled(bat_wr_idx, k)) \/ skb' = Unmapped \/ skb' = skb
      BY <1>4, Zenon DEF Work, WorkBegin, WorkTimeout, WorkCount, WorkRelease, WorkAdvance, WorkAlloc,
         WorkUpdate, WorkAnnounce, NotWork, ringVars
    <3>2. Unmapped \in [Slots -> {"none", "empty", "full"}]
      BY <1>1 DEF RingTypeOK, Unmapped
    <3>3. QED
      BY <1>1, <3>1, <3>2, FilledType DEF RingTypeOK
  <2>2. bat_bitmap' \subseteq Slots
    <3>1. bat_bitmap' = bat_bitmap \/ bat_bitmap' = bat_bitmap \ Run(bat_release_rd_idx, cnt)
      BY <1>4, Zenon DEF Work, WorkBegin, WorkTimeout, WorkCount, WorkRelease, WorkAdvance, WorkAlloc,
         WorkUpdate, WorkAnnounce, NotWork, ringVars
    <3>2. QED
      BY <1>1, <3>1 DEF RingTypeOK
  <2>3. bat_release_rd_idx' \in Slots
    <3>1. bat_release_rd_idx' = bat_release_rd_idx \/ bat_release_rd_idx' = newRel
      BY <1>4, Zenon DEF Work, WorkBegin, WorkTimeout, WorkCount, WorkRelease, WorkAdvance, WorkAlloc,
         WorkUpdate, WorkAnnounce, NotWork, ringVars
    <3>2. QED
      BY <1>1, <3>1 DEF RingTypeOK, ThreadTypeOK
  <2>4. bat_wr_idx' \in Slots
    <3>1. bat_wr_idx' = bat_wr_idx \/ bat_wr_idx' = Next_idx(bat_wr_idx, filled)
      BY <1>4, Zenon DEF Work, WorkBegin, WorkTimeout, WorkCount, WorkRelease, WorkAdvance, WorkAlloc,
         WorkUpdate, WorkAnnounce, NotWork, ringVars
    <3>2. bat_wr_idx \in Slots /\ filled \in 0 .. N
      BY <1>1 DEF RingTypeOK, ThreadTypeOK
    <3>3. QED
      BY <3>1, <3>2, NextIs
  <2>5. QED
    BY <1>1, <1>2, <2>1, <2>2, <2>3, <2>4 DEF RingTypeOK
<1>5. CASE Ctl
  <2>1. CASE CtlPowerOn
    <3>1. PICK k \in 0 .. N - 1 : skb' = Filled(bat_wr_idx, k) /\ bat_wr_idx' = Next_idx(bat_wr_idx, k)
      BY <2>1 DEF CtlPowerOn
    <3>2. UNCHANGED <<bat_bitmap, bat_release_rd_idx>>
      BY <2>1 DEF CtlPowerOn
    <3>3. bat_wr_idx' \in Slots
      <4>1. bat_wr_idx \in Slots /\ k \in 0 .. N
        BY <1>1, Sizes DEF RingTypeOK
      <4>2. QED
        BY <3>1, <4>1, NextIs
    <3>4. QED
      BY <1>1, <1>2, <3>1, <3>2, <3>3, FilledType DEF RingTypeOK
  <2>2. CASE ~CtlPowerOn
    <3>1. skb' = skb /\ (bat_bitmap' = bat_bitmap \/ bat_bitmap' = {})
      BY <1>5, <2>2, Zenon DEF Ctl, CtlQuiet, RxStopWait, RxStopMark, RxClear, CtlStart, CtlStartFails,
         t7xx_dpmaif_resume, ringVars
    <3>2. /\ bat_release_rd_idx' = bat_release_rd_idx \/ bat_release_rd_idx' = 0
          /\ bat_wr_idx' = bat_wr_idx \/ bat_wr_idx' = 0
      BY <1>5, <2>2, Zenon DEF Ctl, CtlQuiet, RxStopWait, RxStopMark, RxClear, CtlStart, CtlStartFails,
         t7xx_dpmaif_resume, ringVars
    <3>3. QED
      BY <1>1, <1>2, <3>1, <3>2, Sizes DEF RingTypeOK
  <2>3. QED
    BY <2>1, <2>2
<1>6. QED
  BY <1>3, <1>4, <1>5, Actors

LEMMA DeviceTypes == ASSUME TypeOK, Next PROVE DeviceTypeOK'
<1>1. hwRd \in Slots /\ hwWr \in Slots /\ hwOn \in BOOLEAN /\ filled \in 0 .. N
  BY DEF TypeOK, DeviceTypeOK, ThreadTypeOK
<1>2. 0 \in Slots /\ N - 1 \in Slots /\ 1 \in 0 .. N
  BY Sizes DEF Slots
<1>3. CASE \E q \in Queues : DeviceFills(q) \/ Poll(q)
  <2>1. UNCHANGED <<hwWr, hwOn>> /\ (hwRd' = hwRd \/ hwRd' = Next_idx(hwRd, 1))
    BY <1>3, Zenon DEF DeviceFills, Poll, PollBegin, PollCleared, PollTake, PollBad, PollMask,
       t7xx_dpmaifq_rx_notify_hw, NotPoll, hwVars
  <2>2. QED
    BY <1>1, <1>2, <2>1, NextIs DEF DeviceTypeOK
<1>4. CASE Work
  <2>1. UNCHANGED <<hwRd, hwOn>> /\ (hwWr' = hwWr \/ hwWr' = Next_idx(hwWr, filled))
    BY <1>4, Zenon DEF Work, WorkBegin, WorkTimeout, WorkCount, WorkRelease, WorkAdvance, WorkAlloc,
       WorkUpdate, WorkAnnounce, NotWork
  <2>2. QED
    BY <1>1, <2>1, NextIs DEF DeviceTypeOK
<1>5. CASE Ctl
  <2>1. /\ hwRd' \in {hwRd, 0} /\ hwWr' \in {hwWr, N - 1} /\ hwOn' \in {hwOn, TRUE, FALSE}
    BY <1>5 DEF Ctl, CtlQuiet, RxStopWait, RxStopMark, RxClear, CtlStart, CtlPowerOn, CtlStartFails,
       t7xx_dpmaif_resume, t7xx_dpmaif_config_dlq_hw, hwVars
  <2>2. hwOn' \in BOOLEAN
    BY <1>1, <2>1
  <2>3. hwRd' \in Slots /\ hwWr' \in Slots
    BY <1>1, <1>2, <2>1
  <2>4. QED
    BY <2>2, <2>3 DEF DeviceTypeOK
<1>6. QED
  BY <1>3, <1>4, <1>5, Actors

(* The PITs of a queue are in its ring, counted for return or the device's *)
LEMMA PitCount ==
    ASSUME TypeOK, NEW q \in Queues
    PROVE  /\ pit[q] \in Seq(Slots) /\ Len(pit[q]) \in Nat /\ remain[q] \in Nat /\ pitFree[q] \in Nat
           /\ Len(pit[q]) + remain[q] + pitFree[q] < M
BY Sizes DEF TypeOK, QueueTypeOK

(* One queue's PITs change *)
LEMMA PitTypes ==
    ASSUME TypeOK, NEW q \in Queues, NEW p \in Seq(Slots), NEW r \in Nat, NEW f \in Nat, Len(p) + r + f < M,
           pit' = [pit EXCEPT ![q] = p], remain' = [remain EXCEPT ![q] = r],
           pitFree' = [pitFree EXCEPT ![q] = f], UNCHANGED que_started
    PROVE  QueueTypeOK'
<1>1. Len(p) \in Nat /\ QueueTypeOK
  BY DEF TypeOK
<1>2. r \in 0 .. M - 1 /\ f \in 0 .. M - 1
  BY <1>1, Sizes
<1>3. pit' \in [Queues -> Seq(Slots)] /\ remain' \in [Queues -> 0 .. M - 1] /\ pitFree' \in [Queues -> 0 .. M - 1]
      /\ que_started' \in [Queues -> BOOLEAN]
  BY <1>1, <1>2 DEF QueueTypeOK
<1>4. ASSUME NEW x \in Queues PROVE Len(pit'[x]) + remain'[x] + pitFree'[x] < M
  <2>1. CASE x = q
    BY <1>1, <2>1 DEF QueueTypeOK
  <2>2. CASE x # q
    <3>1. pit'[x] = pit[x] /\ remain'[x] = remain[x] /\ pitFree'[x] = pitFree[x]
      BY <1>1, <2>2 DEF QueueTypeOK
    <3>2. QED
      BY <3>1, PitCount
  <2>3. QED
    BY <2>1, <2>2
<1>5. QED
  BY <1>3, <1>4 DEF QueueTypeOK

LEMMA PassedTypes ==
    ASSUME TypeOK, NEW q \in Queues, Passed(q), UNCHANGED <<pitFree, que_started>>
    PROVE  QueueTypeOK'
<1>1. QueueTypeOK
  BY DEF TypeOK
<1>2. pitFree' = [pitFree EXCEPT ![q] = pitFree[q]]
  BY <1>1 DEF QueueTypeOK
<1>3. CASE pit[q] = <<>>
  BY <1>2, <1>3, PitCount, PitTypes DEF Passed
<1>4. CASE pit[q] # <<>>
  <2>1. Tail(pit[q]) \in Seq(Slots) /\ Len(Tail(pit[q])) = Len(pit[q]) - 1
    BY <1>4, PitCount, TailElements
  <2>2. remain[q] + 1 \in Nat /\ Len(Tail(pit[q])) + (remain[q] + 1) + pitFree[q] < M
    BY <2>1, PitCount
  <2>3. pit' = [pit EXCEPT ![q] = Tail(pit[q])] /\ remain' = [remain EXCEPT ![q] = remain[q] + 1]
    BY <1>4 DEF Passed
  <2>4. QED
    BY <1>2, <2>1, <2>2, <2>3, PitCount, PitTypes
<1>5. QED
  BY <1>3, <1>4

LEMMA QueueTypes == ASSUME TypeOK, Placed, Next PROVE QueueTypeOK'
<1>1. QueueTypeOK
  BY DEF TypeOK
<1>2. ASSUME UNCHANGED pitVars, que_started' \in [Queues -> BOOLEAN] PROVE QueueTypeOK'
  BY <1>1, <1>2 DEF QueueTypeOK, pitVars
<1>3. CASE \E q \in Queues : DeviceFills(q)
  <2>1. PICK q \in Queues : DeviceFills(q)
    BY <1>3
  <2>2. hwRd \in Slots /\ UNCHANGED <<remain, que_started>> /\ pitFree[q] > 0
    BY <2>1 DEF TypeOK, DeviceTypeOK, DeviceFills, ctlVars
  <2>3. Append(pit[q], hwRd) \in Seq(Slots) /\ Len(Append(pit[q], hwRd)) = Len(pit[q]) + 1
    BY <2>2, PitCount, AppendElements
  <2>4. pitFree[q] - 1 \in Nat /\ Len(Append(pit[q], hwRd)) + remain[q] + (pitFree[q] - 1) < M
    BY <2>2, <2>3, PitCount
  <2>5. /\ pit' = [pit EXCEPT ![q] = Append(pit[q], hwRd)] /\ pitFree' = [pitFree EXCEPT ![q] = pitFree[q] - 1]
        /\ remain' = [remain EXCEPT ![q] = remain[q]]
    BY <1>1, <2>1, <2>2 DEF DeviceFills, QueueTypeOK
  <2>6. QED
    BY <2>2, <2>3, <2>4, <2>5, PitCount, PitTypes
<1>4. CASE \E q \in Queues : Poll(q)
  <2>1. PICK q \in Queues : Poll(q)
    BY <1>4
  <2>2. UNCHANGED que_started
    BY <2>1, Zenon DEF Poll, PollBegin, PollCleared, PollTake, PollBad, PollMask, t7xx_dpmaifq_rx_notify_hw,
       NotPoll, ctlVars
  <2>3. CASE PollBegin(q) \/ PollCleared(q) \/ PollTake(q)
    <3>1. UNCHANGED pitVars
      BY <2>3, Zenon DEF PollBegin, PollCleared, PollTake
    <3>2. QED
      BY <1>1, <1>2, <2>2, <3>1 DEF QueueTypeOK
  <2>4. CASE PollBad(q) \/ PollMask(q)
    <3>1. Passed(q) /\ UNCHANGED pitFree
      BY <2>4, Zenon DEF PollBad, PollMask
    <3>2. QED
      BY <2>2, <3>1, PassedTypes
  <2>5. CASE t7xx_dpmaifq_rx_notify_hw(q)
    <3>1. t7xx_dpmaif_pit_release_and_add(q) /\ UNCHANGED pit
      BY <2>5 DEF t7xx_dpmaifq_rx_notify_hw
    <3>2. pit' = [pit EXCEPT ![q] = pit[q]]
      BY <1>1, <3>1 DEF QueueTypeOK
    <3>3. CASE UNCHANGED <<remain, pitFree>>
      <4>1. UNCHANGED pitVars
        BY <3>1, <3>3 DEF pitVars
      <4>2. QED
        BY <1>1, <1>2, <2>2, <4>1 DEF QueueTypeOK
    <3>4. CASE remain' = [remain EXCEPT ![q] = 0] /\ pitFree' = [pitFree EXCEPT ![q] = pitFree[q] + remain[q]]
      <4>1. pitFree[q] + remain[q] \in Nat /\ 0 \in Nat /\ Len(pit[q]) + 0 + (pitFree[q] + remain[q]) < M
        BY PitCount
      <4>2. QED
        BY <2>2, <3>2, <3>4, <4>1, PitCount, PitTypes
    <3>5. CASE remain' = [remain EXCEPT ![q] = 0] /\ pitFree' = [pitFree EXCEPT ![q] = pitFree[q]]
      <4>1. Len(pit[q]) + 0 + pitFree[q] < M
        <5>1. /\ Len(pit[q]) \in Nat /\ remain[q] \in Nat /\ pitFree[q] \in Nat
              /\ Len(pit[q]) + remain[q] + pitFree[q] < M
          BY PitCount
        <5>2. QED
          BY <5>1, Sizes
      <4>2. QED
        BY <2>2, <3>2, <3>5, <4>1, PitCount, PitTypes
    <3>6. QED
      BY <3>1, <3>3, <3>4, <3>5 DEF t7xx_dpmaif_pit_release_and_add
  <2>6. QED
    BY <2>1, <2>3, <2>4, <2>5 DEF Poll
<1>5. CASE Work
  <2>1. UNCHANGED <<pitVars, que_started>>
    BY <1>5, Zenon DEF Work, WorkBegin, WorkTimeout, WorkCount, WorkRelease, WorkAdvance, WorkAlloc,
       WorkUpdate, WorkAnnounce, NotWork, ctlVars
  <2>2. QED
    BY <1>1, <1>2, <2>1 DEF QueueTypeOK
<1>6. CASE Ctl
  <2>1. que_started' \in [Queues -> BOOLEAN]
    BY <1>1, <1>6 DEF QueueTypeOK, Ctl, CtlQuiet, RxStopWait, RxStopMark, RxClear, CtlStart, CtlPowerOn,
       CtlStartFails, t7xx_dpmaif_resume
  <2>2. CASE RxClear
    <3>1. /\ pit' \in [Queues -> Seq(Slots)] /\ remain' \in [Queues -> 0 .. M - 1] /\ pitFree' = pitFree
          /\ \A q \in Queues : pit'[q] = <<>> /\ remain'[q] = 0
      BY <2>2, Sizes DEF RxClear
    <3>2. ASSUME NEW q \in Queues PROVE Len(pit'[q]) + remain'[q] + pitFree'[q] < M
      <4>1. pitFree'[q] \in Nat /\ pitFree'[q] < M
        BY <3>1, PitCount, Sizes
      <4>2. Len(pit'[q]) = 0 /\ remain'[q] = 0
        BY <3>1
      <4>3. QED
        BY <4>1, <4>2, Sizes
    <3>3. QED
      BY <1>1, <2>1, <3>1, <3>2 DEF QueueTypeOK
  <2>3. CASE CtlPowerOn
    <3>1. UNCHANGED <<pit, remain>> /\ (pitFree' = pitFree \/ pitFree' = [q \in Queues |-> M - 1])
      BY <2>3, Zenon DEF CtlPowerOn, t7xx_dpmaif_config_dlq_hw
    <3>2. CASE pitFree' = pitFree
      BY <1>2, <2>1, <3>1, <3>2 DEF pitVars
    <3>3. CASE pitFree' = [q \in Queues |-> M - 1]
      <4>1. \A q \in Queues : pit[q] = <<>> /\ remain[q] = 0
        BY <2>3 DEF CtlPowerOn, Placed, Live
      <4>2. pitFree' \in [Queues -> 0 .. M - 1]
        BY <3>3, Sizes
      <4>3. ASSUME NEW q \in Queues PROVE Len(pit'[q]) + remain'[q] + pitFree'[q] < M
        BY <3>1, <3>3, <4>1, Sizes
      <4>4. QED
        BY <1>1, <2>1, <3>1, <4>2, <4>3 DEF QueueTypeOK
    <3>4. QED
      BY <3>1, <3>2, <3>3
  <2>4. CASE UNCHANGED pitVars
    BY <1>2, <2>1, <2>4
  <2>5. QED
    BY <1>6, <2>2, <2>3, <2>4, Zenon DEF Ctl, CtlQuiet, RxStopWait, RxStopMark, CtlStart, CtlStartFails,
       t7xx_dpmaif_resume
<1>7. QED
  BY <1>3, <1>4, <1>5, <1>6, Actors

(* What the threads leave alone of one another *)
LEMMA Frames ==
    /\ \A q \in Queues : DeviceFills(q) =>
           UNCHANGED <<type, bat_bitmap, bat_release_rd_idx, bat_wr_idx, hwWr, hwOn, remain, pollVars, batQueued,
                       workVars, ctlVars, pastVars>>
    /\ \A q \in Queues : Poll(q) =>
           UNCHANGED <<type, bat_release_rd_idx, bat_wr_idx, hwVars, workVars, ctlVars, served>>
    /\ Work => UNCHANGED <<type, hwRd, hwOn, pitVars, pollVars, ctlVars, orderly>>
    /\ Ctl => UNCHANGED <<type, pollVars, batQueued, workVars, served>>
<1>1. \A q \in Queues : DeviceFills(q) =>
          UNCHANGED <<type, bat_bitmap, bat_release_rd_idx, bat_wr_idx, hwWr, hwOn, remain, pollVars, batQueued,
                      workVars, ctlVars, pastVars>>
  BY Zenon DEF DeviceFills
<1>2. \A q \in Queues : Poll(q) =>
          UNCHANGED <<type, bat_release_rd_idx, bat_wr_idx, hwVars, workVars, ctlVars, served>>
  BY Zenon DEF Poll, PollBegin, PollCleared, PollTake, PollBad, PollMask, t7xx_dpmaifq_rx_notify_hw, NotPoll,
     pastVars
<1>3. Work => UNCHANGED <<type, hwRd, hwOn, pitVars, pollVars, ctlVars, orderly>>
  BY Zenon DEF Work, WorkBegin, WorkTimeout, WorkCount, WorkRelease, WorkAdvance, WorkAlloc, WorkUpdate,
     WorkAnnounce, NotWork, pastVars
<1>4. Ctl => UNCHANGED <<type, pollVars, batQueued, workVars, served>>
  BY Zenon DEF Ctl, CtlQuiet, RxStopWait, RxStopMark, RxClear, CtlStart, CtlPowerOn, CtlStartFails,
     t7xx_dpmaif_resume, NotCtl, pastVars
<1>5. QED
  BY <1>1, <1>2, <1>3, <1>4

PollTypeOK == pollPc \in [Queues -> PollPcs] /\ bid \in [Queues -> Slots] /\ batQueued \in BOOLEAN
WorkTypeOK == batPc \in WorkPcs /\ cnt \in 0 .. N /\ filled \in 0 .. N /\ newRel \in Slots
CtlTypeOK  == ctl \in [at : CtlPcs, to : {"stop", "sleep"}, q : Queues] /\ stops \in 0 .. MaxStops
PastTypeOK == failures \in 0 .. MaxFailures /\ orderly \in BOOLEAN /\ served \in BOOLEAN

LEMMA ThreadTypeParts == ThreadTypeOK <=> PollTypeOK /\ WorkTypeOK /\ CtlTypeOK /\ PastTypeOK
BY DEF ThreadTypeOK, PollTypeOK, WorkTypeOK, CtlTypeOK, PastTypeOK

LEMMA PollTypes == ASSUME TypeOK, Next PROVE PollTypeOK'
<1>1. PollTypeOK /\ \A q \in Queues : pit[q] \in Seq(Slots)
  BY ThreadTypeParts, PitCount DEF TypeOK
<1>2. CASE \E q \in Queues : DeviceFills(q)
  BY <1>1, <1>2, Frames DEF PollTypeOK, pollVars
<1>3. CASE \E q \in Queues : Poll(q)
  <2>1. PICK q \in Queues : Poll(q)
    BY <1>3
  <2>2. batQueued' \in BOOLEAN
    BY <1>1, <2>1 DEF PollTypeOK, Poll, PollBegin, PollCleared, PollTake, PollBad, PollMask,
       t7xx_dpmaifq_rx_notify_hw
  <2>3. \E next \in PollPcs : pollPc' = [pollPc EXCEPT ![q] = next]
    BY <1>1, <2>1 DEF PollTypeOK, Poll, PollBegin, PollCleared, PollTake, PollBad, PollMask,
       t7xx_dpmaifq_rx_notify_hw, Onward, PollPcs
  <2>4. bid' \in [Queues -> Slots]
    <3>1. pit[q] # <<>> => Head(pit[q]) \in Slots
      BY <1>1, TailElements
    <3>2. \/ bid' = bid \/ bid' = [bid EXCEPT ![q] = 0]
          \/ pit[q] # <<>> /\ bid' = [bid EXCEPT ![q] = Head(pit[q])]
      BY <2>1, Zenon DEF Poll, PollBegin, PollCleared, PollTake, PollBad, PollMask, t7xx_dpmaifq_rx_notify_hw
    <3>3. QED
      BY <1>1, <3>1, <3>2, Sizes DEF PollTypeOK
  <2>5. pollPc' \in [Queues -> PollPcs]
    BY <1>1, <2>3 DEF PollTypeOK
  <2>6. QED
    BY <2>2, <2>4, <2>5 DEF PollTypeOK
<1>4. CASE Work
  <2>1. batQueued' \in BOOLEAN
    BY <1>1, <1>4, Zenon DEF PollTypeOK, Work, WorkBegin, WorkTimeout, WorkCount, WorkRelease, WorkAdvance,
       WorkAlloc, WorkUpdate, WorkAnnounce
  <2>2. QED
    BY <1>1, <1>4, <2>1, Frames DEF PollTypeOK, pollVars
<1>5. CASE Ctl
  BY <1>1, <1>5, Frames DEF PollTypeOK, pollVars
<1>6. QED
  BY <1>2, <1>3, <1>4, <1>5, Actors

LEMMA WorkTypes == ASSUME TypeOK, Next PROVE WorkTypeOK'
<1>1. WorkTypeOK /\ bat_release_rd_idx \in Slots
  BY ThreadTypeParts DEF TypeOK, RingTypeOK
<1>2. CASE (\E q \in Queues : DeviceFills(q) \/ Poll(q)) \/ Ctl
  <2>1. UNCHANGED workVars
    BY <1>2, Frames
  <2>2. QED
    BY <1>1, <2>1 DEF WorkTypeOK, workVars
<1>3. CASE Work
  <2>1. batPc' \in WorkPcs
    BY <1>1, <1>3 DEF WorkTypeOK, WorkPcs, Work, WorkBegin, WorkTimeout, WorkCount, WorkRelease, WorkAdvance,
       WorkAlloc, WorkUpdate, WorkAnnounce, Over
  <2>2. cnt' \in 0 .. N
    <3>1. cnt' = cnt \/ cnt' = 0 \/ cnt' = t7xx_dpmaif_avail_pkt_bat_cnt
      BY <1>3, Zenon DEF Work, WorkBegin, WorkTimeout, WorkCount, WorkRelease, WorkAdvance,
         WorkAlloc, WorkUpdate, WorkAnnounce, Over
    <3>2. QED
      BY <1>1, <3>1, AvailRun, Sizes DEF WorkTypeOK
  <2>3. filled' \in 0 .. N
    <3>1. filled' = filled \/ filled' = 0 \/ filled' \in 0 .. cnt
      BY <1>3, Zenon DEF Work, WorkBegin, WorkTimeout, WorkCount, WorkRelease, WorkAdvance,
         WorkAlloc, WorkUpdate, WorkAnnounce, Over
    <3>2. QED
      BY <1>1, <3>1, Sizes DEF WorkTypeOK
  <2>4. newRel' \in Slots
    <3>1. newRel' = newRel \/ newRel' = 0 \/ newRel' = Next_idx(bat_release_rd_idx, cnt)
      BY <1>3, Zenon DEF Work, WorkBegin, WorkTimeout, WorkCount, WorkRelease, WorkAdvance,
         WorkAlloc, WorkUpdate, WorkAnnounce, Over
    <3>2. QED
      BY <1>1, <3>1, NextIs, Sizes DEF WorkTypeOK
  <2>5. QED
    BY <2>1, <2>2, <2>3, <2>4 DEF WorkTypeOK
<1>4. QED
  BY <1>2, <1>3, Actors

LEMMA CtlTypes == ASSUME TypeOK, Next PROVE CtlTypeOK'
<1>1. CtlTypeOK
  BY ThreadTypeParts DEF TypeOK
<1>2. CASE (\E q \in Queues : DeviceFills(q) \/ Poll(q)) \/ Work
  <2>1. UNCHANGED ctlVars
    BY <1>2, Frames
  <2>2. QED
    BY <1>1, <2>1 DEF CtlTypeOK, ctlVars
<1>3. CASE Ctl
  <2>1. stops' \in 0 .. MaxStops
    <3>1. stops' = stops \/ (stops < MaxStops /\ stops' = stops + 1)
      BY <1>3, Zenon DEF Ctl, CtlQuiet, RxStopWait, RxStopMark, RxClear, CtlStart, CtlPowerOn, CtlStartFails,
         t7xx_dpmaif_resume
    <3>2. QED
      BY <1>1, <3>1, Sizes DEF CtlTypeOK
  <2>2. ctl' \in [at : CtlPcs, to : {"stop", "sleep"}, q : Queues]
    <3>1. CASE \E to \in {"stop", "sleep"} : CtlQuiet(to)
      BY <1>1, <3>1 DEF CtlTypeOK, CtlPcs, Queues, CtlQuiet
    <3>2. CASE \E at \in CtlPcs : ctl' = [ctl EXCEPT !.at = at]
      BY <1>1, <3>2 DEF CtlTypeOK
    <3>3. CASE RxStopMark
      BY <1>1, <3>3 DEF CtlTypeOK, CtlPcs, Queues, RxStopMark
    <3>4. RxStopWait \/ RxClear \/ CtlStart \/ CtlPowerOn \/ CtlStartFails \/ t7xx_dpmaif_resume =>
              \E at \in CtlPcs : ctl' = [ctl EXCEPT !.at = at]
      BY DEF CtlPcs, RxStopWait, RxClear, CtlStart, CtlPowerOn, CtlStartFails, t7xx_dpmaif_resume
    <3>5. QED
      BY <1>3, <3>1, <3>2, <3>3, <3>4 DEF Ctl
  <2>3. QED
    BY <2>1, <2>2 DEF CtlTypeOK
<1>4. QED
  BY <1>2, <1>3, Actors

LEMMA PastTypes == ASSUME TypeOK, Next PROVE PastTypeOK'
<1>1. PastTypeOK
  BY ThreadTypeParts DEF TypeOK
<1>2. failures' = failures \/ \E what \in {"bad", "timeout", "nomem"} : Fails(what)
  BY Zenon DEF Next, DeviceFills, Poll, PollBegin, PollCleared, PollTake, PollBad, PollMask,
     t7xx_dpmaifq_rx_notify_hw, Work, WorkBegin, WorkTimeout, WorkCount, WorkRelease, WorkAdvance, WorkAlloc,
     WorkUpdate, WorkAnnounce, Ctl, CtlQuiet, RxStopWait, RxStopMark, RxClear, CtlStart, CtlPowerOn,
     CtlStartFails, t7xx_dpmaif_resume, pastVars
<1>3. failures' \in 0 .. MaxFailures
  BY <1>1, <1>2, Sizes DEF PastTypeOK, Fails
<1>4. served' \in BOOLEAN
  BY <1>1, Zenon DEF PastTypeOK, Next, DeviceFills, Poll, PollBegin, PollCleared, PollTake, PollBad, PollMask,
     t7xx_dpmaifq_rx_notify_hw, Work, WorkBegin, WorkTimeout, WorkCount, WorkRelease, WorkAdvance, WorkAlloc,
     WorkUpdate, WorkAnnounce, Ctl, CtlQuiet, RxStopWait, RxStopMark, RxClear, CtlStart, CtlPowerOn,
     CtlStartFails, t7xx_dpmaif_resume, pastVars
<1>5. orderly' \in BOOLEAN
  BY <1>1, Zenon DEF PastTypeOK, Next, DeviceFills, Poll, PollBegin, PollCleared, PollTake, PollBad, PollMask,
     t7xx_dpmaifq_rx_notify_hw, Work, WorkBegin, WorkTimeout, WorkCount, WorkRelease, WorkAdvance, WorkAlloc,
     WorkUpdate, WorkAnnounce, Ctl, CtlQuiet, RxStopWait, RxStopMark, RxClear, CtlStart, CtlPowerOn,
     CtlStartFails, t7xx_dpmaif_resume, pastVars
<1>6. QED
  BY <1>3, <1>4, <1>5 DEF PastTypeOK

LEMMA PlacedKeeps == ASSUME TypeOK, Placed, Next PROVE Placed'
<1>1. CASE \E q \in Queues : DeviceFills(q)
  <2>1. hwOn /\ ctl' = ctl /\ hwOn' = hwOn
    BY <1>1, Zenon DEF DeviceFills, ctlVars
  <2>2. QED
    BY <2>1 DEF Placed, Live
<1>2. CASE \E q \in Queues : Poll(q)
  <2>1. PICK q \in Queues : Poll(q)
    BY <1>2
  <2>2. ctl' = ctl /\ hwOn' = hwOn
    BY <2>1, Frames DEF hwVars, ctlVars
  <2>3. ASSUME ~Live PROVE \A x \in Queues : pit'[x] = <<>> /\ remain'[x] = 0
    <3>1. \A x \in Queues : pit[x] = <<>> /\ remain[x] = 0
      BY <2>3 DEF Placed
    <3>2. CASE UNCHANGED <<pit, remain>>
      BY <3>1, <3>2
    <3>3. CASE Passed(q)
      BY <3>1, <3>3 DEF Passed, TypeOK, QueueTypeOK
    <3>4. CASE t7xx_dpmaifq_rx_notify_hw(q)
      BY <3>1, <3>4 DEF t7xx_dpmaifq_rx_notify_hw, t7xx_dpmaif_pit_release_and_add, TypeOK, QueueTypeOK
    <3>5. QED
      BY <2>1, <3>2, <3>3, <3>4, Zenon DEF Poll, PollBegin, PollCleared, PollTake, PollBad, PollMask, pitVars
  <2>4. QED
    BY <2>2, <2>3 DEF Placed, Live
<1>3. CASE Work
  <2>1. UNCHANGED <<hwOn, pit, remain, ctl>>
    BY <1>3, Frames DEF pitVars, ctlVars
  <2>2. QED
    BY <2>1 DEF Placed, Live
<1>4. CASE Ctl
  <2> USE DEF Placed, Live
  <2>0. ctl \in [at : CtlPcs, to : {"stop", "sleep"}, q : Queues]
    BY DEF TypeOK, ThreadTypeOK
  <2>1. CASE \E to \in {"stop", "sleep"} : CtlQuiet(to)
    BY <2>1 DEF CtlQuiet
  <2>2. CASE RxStopWait \/ RxStopMark
    <3>1. ctl.at \in {"wait", "mark"} /\ ctl'.at \in {"wait", "mark", "clear", "asleep"}
      BY <2>0, <2>2 DEF RxStopWait, RxStopMark
    <3>2. hwOn' = hwOn
      BY <2>2 DEF RxStopWait, RxStopMark, hwVars
    <3>3. QED
      BY <3>1, <3>2
  <2>3. CASE RxClear
    BY <2>0, <2>3 DEF RxClear, hwVars
  <2>4. CASE CtlStart \/ CtlStartFails
    BY <2>0, <2>4 DEF CtlStart, CtlStartFails, hwVars, pitVars
  <2>5. CASE CtlPowerOn
    BY <2>0, <2>5 DEF CtlPowerOn, hwVars, t7xx_dpmaif_config_dlq_hw
  <2>6. CASE t7xx_dpmaif_resume
    BY <2>0, <2>6 DEF t7xx_dpmaif_resume
  <2>7. QED
    BY <1>4, <2>1, <2>2, <2>3, <2>4, <2>5, <2>6 DEF Ctl
<1>5. QED
  BY <1>1, <1>2, <1>3, <1>4, Actors

LEMMA TypeStep == ASSUME TypeOK, Placed, Next PROVE TypeOK' /\ Placed'
<1>1. ThreadTypeOK'
  BY PollTypes, WorkTypes, CtlTypes, PastTypes DEF ThreadTypeOK, PollTypeOK, WorkTypeOK, CtlTypeOK, PastTypeOK
<1>2. QED
  BY <1>1, RingTypes, QueueTypes, DeviceTypes, PlacedKeeps DEF TypeOK
-----------------------------------------------------------------------------
(* While nothing has upset the ring.                                         *)

InOrder == TypeOK /\ Placed /\ orderly /\ Ordered

LEMMA Numbers ==
    ASSUME InOrder
    PROVE  /\ bat_release_rd_idx \in Slots /\ bat_wr_idx \in Slots /\ hwRd \in Slots /\ hwWr \in Slots
           /\ Read \in Nat /\ Read < N /\ rd_count(hwRd, hwWr) \in Nat /\ Ahead \in 0 .. N
           /\ cnt \in 0 .. N /\ filled \in 0 .. N
           /\ \A s \in Slots : Off(s) \in Nat /\ Off(s) < N
           /\ bat_bitmap \subseteq Slots
           /\ \A q \in Queues : pit[q] \in Seq(Slots) /\ Elements(pit[q]) \subseteq Slots
<1>1. /\ bat_release_rd_idx \in Slots /\ bat_wr_idx \in Slots /\ hwRd \in Slots /\ hwWr \in Slots
      /\ cnt \in 0 .. N /\ filled \in 0 .. N /\ bat_bitmap \subseteq Slots
  BY DEF InOrder, TypeOK, RingTypeOK, DeviceTypeOK, ThreadTypeOK
<1>2. \A s \in Slots : Off(s) \in Nat /\ Off(s) < N
  BY <1>1, CountIs DEF Off
<1>3. Ahead \in 0 .. N
  BY <1>1, Sizes DEF Ahead
<1>4. \A q \in Queues : pit[q] \in Seq(Slots) /\ Elements(pit[q]) \subseteq Slots
  BY DEF InOrder, TypeOK, QueueTypeOK, Elements
<1>5. rd_count(hwRd, hwWr) \in Nat
  BY <1>1, CountIs
<1>6. QED
  BY <1>1, <1>2, <1>3, <1>4, <1>5 DEF Read

(* Where the write index of the host is, and how much it may write *)
LEMMA WriteIndex ==
    ASSUME InOrder, Live
    PROVE  /\ Ready \in Nat /\ Ready < N /\ Ready = Read + rd_count(hwRd, hwWr) + Ahead
           /\ Off(bat_wr_idx) = Ready /\ Space = N - 1 - Ready
<1>1. Ready = Read + rd_count(hwRd, hwWr) + Ahead /\ Ready < N /\ bat_wr_idx = Next_idx(hwWr, Ahead)
  BY DEF InOrder, Ordered, Agree, Ready
<1>2. Ready \in Nat
  BY <1>1, Numbers
<1>3. Read + rd_count(hwRd, hwWr) < N
  BY <1>1, Numbers, Sizes
<1>4. rd_count(bat_release_rd_idx, hwWr) = Read + rd_count(hwRd, hwWr)
  BY <1>3, Numbers, CountSum DEF Read, Off
<1>5. rd_count(bat_release_rd_idx, bat_wr_idx) = Read + rd_count(hwRd, hwWr) + Ahead
  <2>1. rd_count(bat_release_rd_idx, hwWr) + Ahead < N
    BY <1>1, <1>4
  <2>2. QED
    BY <1>1, <1>4, <2>1, Numbers, NextCount
<1>6. QED
  BY <1>1, <1>2, <1>5, Numbers, SpaceIs DEF Off

(* Where the PITs say the packets are *)
LEMMA PitFacts ==
    ASSUME InOrder, Live, NEW q \in Queues
    PROVE  /\ Distinct(pit[q])
           /\ pollPc[q] = "mask" => pit[q] # <<>> /\ bid[q] = Head(pit[q]) /\ bid[q] \in Elements(pit[q])
           /\ \A s \in Elements(pit[q]) :
                 s \in Slots /\ Off(s) < Read /\ s \notin bat_bitmap
                 /\ skb[s] = IF Taken(q, s) THEN "none" ELSE "full"
<1>1. Waiting(q)
  BY DEF InOrder, Ordered, Buffers
<1>2. QED
  BY <1>1, Numbers, TailElements DEF Waiting

(* Steps that leave the ring and the PITs alone *)
LEMMA RingKept ==
    ASSUME InOrder, Live, Live', UNCHANGED <<ringVars, hwRd, hwWr, pit>>, Ahead' = Ahead,
           \A q \in Queues : bid'[q] = bid[q] /\ (pollPc'[q] = "mask" <=> pollPc[q] = "mask")
    PROVE  Cleared' /\ Agree' /\ Buffers'
<1>1. UNCHANGED <<skb, bat_bitmap, bat_release_rd_idx, bat_wr_idx>>
  BY DEF ringVars
<1>2. Ordered /\ Read' = Read /\ Ready' = Ready /\ (\A s \in Slots : Off(s)' = Off(s))
  BY <1>1 DEF InOrder, Read, Ready, Off
<1>3. Cleared'
  BY DEF Cleared
<1>4. Agree'
  BY <1>1, <1>2 DEF Ordered, Agree
<1>5. Marked' /\ Emptied' /\ Found' /\ Apart'
  <2>1. \A s \in bat_bitmap : s \in Slots
    BY Numbers
  <2>2. QED
    BY <1>1, <1>2, <2>1 DEF Ordered, Buffers, Marked, Emptied, Found, Apart
<1>6. ASSUME NEW q \in Queues PROVE Waiting(q)'
  <2>1. \A s \in Elements(pit[q]) : s \in Slots /\ (Taken(q, s)' <=> Taken(q, s))
    BY Numbers DEF Taken
  <2>2. Waiting(q)
    BY <1>2 DEF Ordered, Buffers
  <2>3. QED
    BY <1>1, <1>2, <2>1, <2>2 DEF Waiting
<1>7. QED
  BY <1>3, <1>4, <1>5, <1>6 DEF Buffers

(* Steps of others do not change what the work knows *)
LEMMA WorkKept ==
    ASSUME InOrder, Live, UNCHANGED <<workVars, bat_release_rd_idx, ctl, que_started>>, Ready' = Ready,
           bat_bitmap \subseteq bat_bitmap', \A s \in Slots : Ready <= Off(s) => skb'[s] = skb[s]
    PROVE  AtWork'
<1>1. UNCHANGED <<batPc, cnt, newRel, filled>> /\ (\A s \in Slots : Off(s)' = Off(s))
  BY DEF workVars, Off
<1>2. AtWork
  BY DEF InOrder, Ordered
<1>3. QED
  BY <1>1, <1>2 DEF AtWork, Live
-----------------------------------------------------------------------------
(* The device: the slot it has filled is one more of those it has used, and  *)
(* the only one that waits in the new PIT                                    *)
LEMMA DeviceFillsKeeps ==
    ASSUME InOrder, NEW q \in Queues, DeviceFills(q)
    PROVE  Ordered'
<1> DEFINE old == pit[q]
<1>1. Live
  BY DEF InOrder, Placed, DeviceFills, Live
<1>2. /\ hwOn /\ hwRd # hwWr /\ hwRd' = Next_idx(hwRd, 1)
      /\ skb' = [skb EXCEPT ![hwRd] = IF @ = "empty" THEN "full" ELSE @]
      /\ pit' = [pit EXCEPT ![q] = Append(@, hwRd)]
      /\ UNCHANGED <<bat_bitmap, bat_release_rd_idx, bat_wr_idx, hwWr, pollPc, bid, batPc, cnt, newRel, filled,
                     ctl, que_started>>
  BY DEF DeviceFills, pollVars, workVars, ctlVars
<1>3. 1 \in 0 .. N /\ rd_count(hwRd, hwWr) > 0
  BY <1>2, Numbers, CountIs, Sizes
<1>4. Live' /\ Ahead' = Ahead /\ \A s \in Slots : Off(s)' = Off(s)
  BY <1>1, <1>2 DEF Live, Ahead, Off
<1>5. hwRd' \in Slots /\ Read' = Read + 1
  <2>1. rd_count(bat_release_rd_idx, hwRd) + 1 < N
    BY <1>1, <1>3, WriteIndex, Numbers, Sizes DEF Read, Off
  <2>2. QED
    BY <1>2, <1>3, <2>1, Numbers, NextCount DEF Read, Off
<1>6. rd_count(hwRd', hwWr') = rd_count(hwRd, hwWr) - 1
  BY <1>2, <1>3, Numbers, CountShift
<1>7. Ready' = Ready
  <2>1. Ready' = Read' + rd_count(hwRd', hwWr') + Ahead'
    BY DEF Ready
  <2>2. QED
    BY <1>1, <1>4, <1>5, <1>6, <2>1, WriteIndex, Numbers
<1>8. /\ Off(hwRd) = Read /\ Read < Ready
      /\ \A s \in Slots : s # hwRd => (Off(s) < Read + 1 <=> Off(s) < Read)
  <2>1. Off(hwRd) = Read /\ Read < Ready
    BY <1>1, <1>3, WriteIndex, Numbers DEF Read
  <2>2. ASSUME NEW s \in Slots, s # hwRd PROVE Off(s) # Read
    BY <2>1, <2>2, Numbers, CountInjective DEF Off
  <2>3. QED
    BY <2>1, <2>2, Numbers
<1>9. Agree /\ Marked /\ Emptied /\ Found /\ Apart
  BY <1>1 DEF InOrder, Ordered, Buffers
<1>10. /\ skb[hwRd] = "empty" /\ skb'[hwRd] = "full" /\ hwRd \notin bat_bitmap
       /\ \A s \in Slots : s # hwRd => skb'[s] = skb[s]
       /\ \A p \in Queues : hwRd \notin Elements(pit[p])
  <2>1. skb \in [Slots -> {"none", "empty", "full"}]
    BY DEF InOrder, TypeOK, RingTypeOK
  <2>2. skb[hwRd] = "empty"
    BY <1>8, <1>9, Numbers DEF Emptied
  <2>3. hwRd \notin bat_bitmap
    BY <1>8, <1>9, Numbers DEF Marked
  <2>4. \A p \in Queues : hwRd \notin Elements(pit[p])
    BY <1>1, <1>8, PitFacts, Numbers
  <2>5. QED
    BY <1>2, <2>1, <2>2, <2>3, <2>4, Numbers
<1>11. /\ pit'[q] = Append(old, hwRd) /\ Elements(pit'[q]) = Elements(old) \cup {hwRd} /\ Distinct(pit'[q])
       /\ pit'[q] # <<>> /\ (old # <<>> => Head(pit'[q]) = Head(old))
       /\ \A p \in Queues : p # q => pit'[p] = pit[p]
  <2>1. pit \in [Queues -> Seq(Slots)] /\ Distinct(old)
    BY <1>1, PitFacts DEF InOrder, TypeOK, QueueTypeOK
  <2>2. pit'[q] = Append(old, hwRd) /\ \A p \in Queues : p # q => pit'[p] = pit[p]
    BY <1>2, <2>1
  <2>3. QED
    BY <1>10, <2>1, <2>2, Numbers, AppendElements
<1> HIDE DEF old
<1>12. Cleared' /\ Agree'
  BY <1>2, <1>4, <1>7, <1>9, <1>1 DEF Cleared, Agree
<1>13. Marked' /\ Emptied'
  <2>1. Marked'
    BY <1>2, <1>4, <1>5, <1>9, <1>10, Numbers DEF Marked
  <2>2. Emptied'
    BY <1>4, <1>5, <1>7, <1>8, <1>9, <1>10, Numbers DEF Emptied
  <2>3. QED
    BY <2>1, <2>2
<1>14. Found'
  <2> SUFFICES ASSUME NEW s \in Slots, Off(s)' < Read'
               PROVE  s \in bat_bitmap' \/ \E p \in Queues : s \in Elements(pit'[p])
    BY DEF Found
  <2>1. CASE s = hwRd
    BY <1>11, <2>1
  <2>2. CASE s # hwRd
    <3>1. Off(s) < Read
      BY <1>4, <1>5, <1>8, <2>2
    <3>2. s \in bat_bitmap \/ \E p \in Queues : s \in Elements(pit[p])
      BY <1>9, <3>1 DEF Found
    <3>3. QED
      BY <1>2, <1>11, <3>2 DEF old
  <2>3. QED
    BY <2>1, <2>2
<1>15. Apart'
  <2> SUFFICES ASSUME NEW x \in Queues, NEW y \in Queues, x # y
               PROVE  Elements(pit'[x]) \cap Elements(pit'[y]) = {}
    BY DEF Apart
  <2>1. Elements(pit[x]) \cap Elements(pit[y]) = {} /\ hwRd \notin Elements(pit[x]) /\ hwRd \notin Elements(pit[y])
    BY <1>9, <1>10 DEF Apart
  <2>2. \A p \in Queues : Elements(pit'[p]) = IF p = q THEN Elements(pit[p]) \cup {hwRd} ELSE Elements(pit[p])
    BY <1>11 DEF old
  <2>3. QED
    BY <2>1, <2>2
<1>16. ASSUME NEW p \in Queues PROVE Waiting(p)'
  <2>1. \A s \in Elements(pit[p]) :
            /\ s \in Slots /\ s # hwRd /\ Off(s)' < Read' /\ s \notin bat_bitmap'
            /\ skb'[s] = IF Taken(p, s)' THEN "none" ELSE "full"
    <3> SUFFICES ASSUME NEW s \in Elements(pit[p])
                 PROVE  /\ s \in Slots /\ s # hwRd /\ Off(s)' < Read' /\ s \notin bat_bitmap'
                        /\ skb'[s] = IF Taken(p, s)' THEN "none" ELSE "full"
      OBVIOUS
    <3>1. s \in Slots /\ s # hwRd /\ Off(s) < Read /\ s \notin bat_bitmap
          /\ skb[s] = IF Taken(p, s) THEN "none" ELSE "full"
      BY <1>1, <1>10, PitFacts
    <3>2. Taken(p, s)' <=> Taken(p, s)
      BY <1>2 DEF Taken
    <3>3. Off(s)' < Read'
      BY <1>4, <1>5, <3>1, Numbers
    <3>4. QED
      BY <1>2, <1>10, <3>1, <3>2, <3>3
  <2>2. CASE p # q
    <3>1. pit'[p] = pit[p] /\ Distinct(pit[p]) /\ (pollPc[p] = "mask" => pit[p] # <<>> /\ bid[p] = Head(pit[p]))
      BY <1>1, <1>11, <2>2, PitFacts
    <3>2. QED
      BY <1>2, <2>1, <3>1 DEF Waiting
  <2>3. CASE p = q
    <3>1. pollPc[q] = "mask" => old # <<>> /\ bid[q] = Head(old) /\ bid[q] # hwRd
      BY <1>1, <1>10, PitFacts DEF old
    <3>2. PICK h \in Slots : h = hwRd
      BY Numbers
    <3>3. Off(h)' < Read'
      BY <1>4, <1>5, <1>8, <3>2, Numbers
    <3>4. ~Taken(q, h)'
      BY <1>2, <3>1, <3>2 DEF Taken
    <3>5. \A s \in Elements(pit'[q]) :
              Off(s)' < Read' /\ s \notin bat_bitmap' /\ skb'[s] = IF Taken(q, s)' THEN "none" ELSE "full"
      BY <1>2, <1>10, <1>11, <2>1, <2>3, <3>2, <3>3, <3>4 DEF old
    <3>6. Distinct(pit'[q]) /\ (pollPc'[q] = "mask" => pit'[q] # <<>> /\ bid'[q] = Head(pit'[q]))
      BY <1>2, <1>11, <3>1
    <3>7. QED
      BY <2>3, <3>5, <3>6 DEF Waiting
  <2>4. QED
    BY <2>2, <2>3
<1>17. AtWork'
  <2>1. \A s \in Slots : Ready <= Off(s) => skb'[s] = skb[s]
    BY <1>1, <1>8, <1>10, WriteIndex, Numbers
  <2>2. UNCHANGED <<workVars, bat_release_rd_idx, ctl, que_started>> /\ bat_bitmap \subseteq bat_bitmap'
    BY <1>2 DEF workVars
  <2>3. QED
    BY <1>1, <1>7, <2>1, <2>2, WorkKept
<1>18. QED
  BY <1>12, <1>13, <1>14, <1>15, <1>16, <1>17 DEF Ordered, Buffers
-----------------------------------------------------------------------------
(* The polls.                                                                *)

(* Nobody polls a ring that has been cleared *)
LEMMA PollIsLive == ASSUME InOrder, NEW q \in Queues, Poll(q) PROVE Live /\ Live'
<1>1. ASSUME ~Live PROVE FALSE
  <2>1. pollPc[q] = "idle" /\ pit[q] = <<>>
    BY <1>1 DEF InOrder, Placed, Ordered, Cleared, Idle
  <2>2. QED
    BY <2>1 DEF Poll, PollBegin, PollCleared, PollTake, PollBad, PollMask, t7xx_dpmaifq_rx_notify_hw
<1>2. ctl' = ctl
  BY Frames DEF ctlVars
<1>3. QED
  BY <1>1, <1>2 DEF Live

LEMMA PollGoesOn ==
    ASSUME InOrder, NEW q \in Queues, PollBegin(q) \/ PollCleared(q) \/ t7xx_dpmaifq_rx_notify_hw(q)
    PROVE  Ordered'
<1>1. Live /\ Live'
  BY PollIsLive DEF Poll
<1>2. UNCHANGED <<ringVars, hwRd, hwWr, pit, bid, workVars, ctl, que_started>>
  BY Zenon DEF PollBegin, PollCleared, t7xx_dpmaifq_rx_notify_hw, NotPoll, ringVars, pitVars, hwVars, ctlVars
<1>3. \A x \in Queues : pollPc'[x] = "mask" <=> pollPc[x] = "mask"
  BY DEF InOrder, TypeOK, ThreadTypeOK, PollBegin, PollCleared, t7xx_dpmaifq_rx_notify_hw
<1>4. Ahead' = Ahead /\ Ready' = Ready
  BY <1>2 DEF Ahead, Ready, Read, Off, workVars, ringVars
<1>5. Cleared' /\ Agree' /\ Buffers'
  BY <1>1, <1>2, <1>3, <1>4, RingKept
<1>6. AtWork'
  BY <1>1, <1>2, <1>4, WorkKept DEF ringVars
<1>7. QED
  BY <1>5, <1>6 DEF Ordered

(* What a poll does to slots that have been used leaves the rest as it is *)
LEMMA PollTakeKeeps ==
    ASSUME InOrder, NEW q \in Queues, PollTake(q)
    PROVE  Ordered'
<1>1. Live /\ Live'
  BY PollIsLive DEF Poll
<1>2. PICK h \in Slots : h = Head(pit[q]) /\ h \in Elements(pit[q]) /\ pit[q] # <<>>
  BY Numbers, TailElements DEF PollTake
<1>3. /\ pollPc[q] = "take" /\ pollPc' = [pollPc EXCEPT ![q] = "mask"] /\ bid' = [bid EXCEPT ![q] = h]
      /\ skb' = [skb EXCEPT ![h] = "none"]
      /\ UNCHANGED <<bat_bitmap, bat_release_rd_idx, bat_wr_idx, hwRd, hwWr, pit, workVars, batPc, filled, ctl,
                     que_started>>
  BY <1>2 DEF PollTake, NotPoll, pitVars, hwVars, ctlVars, workVars
<1>4. /\ pollPc \in [Queues -> PollPcs] /\ bid \in [Queues -> Slots]
      /\ skb \in [Slots -> {"none", "empty", "full"}]
  BY DEF InOrder, TypeOK, ThreadTypeOK, RingTypeOK
<1>5. Ahead' = Ahead /\ Read' = Read /\ Ready' = Ready /\ \A s \in Slots : Off(s)' = Off(s)
  BY <1>3 DEF Ahead, Ready, Read, Off
<1>6. Off(h) < Read /\ h \notin bat_bitmap /\ \A s \in Slots : s # h => skb'[s] = skb[s]
  BY <1>1, <1>2, <1>3, <1>4, PitFacts
<1>7. Agree /\ Marked /\ Emptied /\ Found /\ Apart
  BY <1>1 DEF InOrder, Ordered, Buffers
<1>8. Cleared' /\ Agree' /\ Found' /\ Apart'
  BY <1>1, <1>3, <1>5, <1>7 DEF Cleared, Agree, Found, Apart
<1>9. Marked' /\ Emptied'
  <2>1. Marked'
    BY <1>3, <1>5, <1>6, <1>7, Numbers DEF Marked
  <2>2. Emptied'
    <3>1. \A s \in Slots : Read <= Off(s) => s # h
      BY <1>6, Numbers
    <3>2. QED
      BY <1>5, <1>6, <1>7, <3>1 DEF Emptied
  <2>3. QED
    BY <2>1, <2>2
<1>10. ASSUME NEW x \in Queues PROVE Waiting(x)'
  <2>1. Distinct(pit'[x]) /\ (pollPc'[x] = "mask" => pit'[x] # <<>> /\ bid'[x] = Head(pit'[x]))
    BY <1>1, <1>2, <1>3, <1>4, PitFacts
  <2> SUFFICES ASSUME NEW s \in Elements(pit'[x])
               PROVE  Off(s)' < Read' /\ s \notin bat_bitmap' /\ skb'[s] = IF Taken(x, s)' THEN "none" ELSE "full"
    BY <2>1 DEF Waiting
  <2>2. s \in Slots /\ s \in Elements(pit[x]) /\ Off(s) < Read /\ s \notin bat_bitmap
        /\ skb[s] = IF Taken(x, s) THEN "none" ELSE "full"
    BY <1>1, <1>3, PitFacts
  <2>3. CASE x = q
    <3>1. ~Taken(x, s) /\ (Taken(x, s)' <=> s = h)
      BY <1>3, <1>4, <2>3 DEF Taken
    <3>2. QED
      BY <1>3, <1>4, <1>5, <1>6, <2>2, <3>1
  <2>4. CASE x # q
    <3>1. s # h
      BY <1>2, <1>7, <2>2, <2>4 DEF Apart
    <3>2. Taken(x, s)' <=> Taken(x, s)
      BY <1>3, <1>4, <2>4 DEF Taken
    <3>3. QED
      BY <1>3, <1>5, <1>6, <2>2, <3>1, <3>2
  <2>5. QED
    BY <2>3, <2>4
<1>11. AtWork'
  <2>1. \A s \in Slots : Ready <= Off(s) => skb'[s] = skb[s]
    <3>1. \A s \in Slots : Ready <= Off(s) => s # h
      BY <1>1, <1>6, WriteIndex, Numbers
    <3>2. QED
      BY <1>6, <3>1
  <2>2. QED
    BY <1>1, <1>3, <1>5, <2>1, WorkKept
<1>12. QED
  BY <1>8, <1>9, <1>10, <1>11 DEF Ordered, Buffers

(* The slot whose bit is set has waited in this PIT only *)
LEMMA PollMaskKeeps ==
    ASSUME InOrder, NEW q \in Queues, PollMask(q)
    PROVE  Ordered'
<1>1. Live /\ Live'
  BY PollIsLive DEF Poll
<1>2. pollPc[q] = "mask"
  BY DEF PollMask
<1>3. PICK h \in Slots : h = bid[q] /\ h = Head(pit[q]) /\ h \in Elements(pit[q]) /\ pit[q] # <<>>
  BY <1>1, <1>2, PitFacts
<1>4. /\ pollPc \in [Queues -> PollPcs] /\ bid \in [Queues -> Slots] /\ pit \in [Queues -> Seq(Slots)]
  BY DEF InOrder, TypeOK, ThreadTypeOK, QueueTypeOK
<1>5. /\ bat_bitmap' = bat_bitmap \cup {h} /\ bid' = [bid EXCEPT ![q] = 0] /\ pit' = [pit EXCEPT ![q] = Tail(pit[q])]
      /\ (\E next \in {"notify", "take"} : pollPc' = [pollPc EXCEPT ![q] = next])
      /\ UNCHANGED <<skb, bat_release_rd_idx, bat_wr_idx, hwRd, hwWr, workVars, batPc, filled, ctl, que_started>>
  BY <1>3 DEF PollMask, Passed, Onward, NotPoll, pitVars, hwVars, ctlVars, workVars
<1>6. Ahead' = Ahead /\ Read' = Read /\ Ready' = Ready /\ \A s \in Slots : Off(s)' = Off(s)
  BY <1>5 DEF Ahead, Ready, Read, Off
<1>7. Off(h) < Read /\ skb[h] = "none"
  BY <1>1, <1>2, <1>3, PitFacts DEF Taken
<1>8. /\ pit'[q] = Tail(pit[q]) /\ Distinct(pit'[q]) /\ Elements(pit'[q]) = Elements(pit[q]) \ {h}
      /\ \A x \in Queues : x # q => pit'[x] = pit[x]
  BY <1>1, <1>3, <1>4, <1>5, PitFacts, TailElements
<1>9. Agree /\ Marked /\ Emptied /\ Found /\ Apart
  BY <1>1 DEF InOrder, Ordered, Buffers
<1>10. Cleared' /\ Agree' /\ Emptied'
  BY <1>1, <1>5, <1>6, <1>9 DEF Cleared, Agree, Emptied
<1>11. Marked'
  BY <1>5, <1>6, <1>7, <1>9, Numbers DEF Marked
<1>12. Found'
  <2> SUFFICES ASSUME NEW s \in Slots, Off(s) < Read
               PROVE  s \in bat_bitmap' \/ \E x \in Queues : s \in Elements(pit'[x])
    BY <1>6 DEF Found
  <2>1. s \in bat_bitmap \/ \E x \in Queues : s \in Elements(pit[x])
    BY <1>9 DEF Found
  <2>2. QED
    BY <1>5, <1>8, <2>1
<1>13. Apart'
  <2> SUFFICES ASSUME NEW x \in Queues, NEW y \in Queues, x # y
               PROVE  Elements(pit'[x]) \cap Elements(pit'[y]) = {}
    BY DEF Apart
  <2>1. Elements(pit[x]) \cap Elements(pit[y]) = {}
    BY <1>9 DEF Apart
  <2>2. \A p \in Queues : Elements(pit'[p]) \subseteq Elements(pit[p])
    BY <1>8
  <2>3. QED
    BY <2>1, <2>2
<1>14. ASSUME NEW x \in Queues PROVE Waiting(x)'
  <2>1. Distinct(pit'[x]) /\ (pollPc'[x] = "mask" => pit'[x] # <<>> /\ bid'[x] = Head(pit'[x]))
    <3>1. CASE x = q
      BY <1>4, <1>5, <1>8, <3>1
    <3>2. CASE x # q
      BY <1>1, <1>4, <1>5, <1>8, <3>2, PitFacts
    <3>3. QED
      BY <3>1, <3>2
  <2> SUFFICES ASSUME NEW s \in Elements(pit'[x])
               PROVE  Off(s)' < Read' /\ s \notin bat_bitmap' /\ skb'[s] = IF Taken(x, s)' THEN "none" ELSE "full"
    BY <2>1 DEF Waiting
  <2>2. s \in Elements(pit[x]) /\ s # h
    BY <1>3, <1>8, <1>9 DEF Apart
  <2>3. s \in Slots /\ Off(s) < Read /\ s \notin bat_bitmap /\ skb[s] = IF Taken(x, s) THEN "none" ELSE "full"
    BY <1>1, <2>2, PitFacts
  <2>4. Taken(x, s)' <=> Taken(x, s)
    <3>1. CASE x = q
      BY <1>3, <1>4, <1>5, <2>2, <3>1 DEF Taken
    <3>2. CASE x # q
      BY <1>4, <1>5, <3>2 DEF Taken
    <3>3. QED
      BY <3>1, <3>2
  <2>5. QED
    BY <1>5, <1>6, <2>2, <2>3, <2>4
<1>15. AtWork'
  BY <1>1, <1>5, <1>6, WorkKept
<1>16. QED
  BY <1>10, <1>11, <1>12, <1>13, <1>14, <1>15 DEF Ordered, Buffers

LEMMA PollKeeps ==
    ASSUME InOrder, NEW q \in Queues, Poll(q), orderly'
    PROVE  Ordered'
<1>1. ~PollBad(q)
  BY DEF PollBad
<1>2. QED
  BY <1>1, PollGoesOn, PollTakeKeeps, PollMaskKeeps DEF Poll
-----------------------------------------------------------------------------
(* The work.                                                                 *)

LEMMA WorkFrame ==
    ASSUME InOrder, Work
    PROVE  /\ UNCHANGED <<hwRd, pit, pollPc, bid, ctl, que_started>> /\ (Live' <=> Live)
           /\ \A x \in Queues : bid'[x] = bid[x] /\ (pollPc'[x] = "mask" <=> pollPc[x] = "mask")
<1>1. UNCHANGED <<hwRd, pit, pollPc, bid, ctl, que_started>>
  BY Frames DEF pitVars, pollVars, ctlVars
<1>2. QED
  BY <1>1 DEF Live

(* A cleared ring has nothing marked: the work finds nothing to do *)
LEMMA WorkIdles ==
    ASSUME InOrder, ~Live, Work
    PROVE  Ordered'
<1>1. /\ ctl.at # "failed" /\ bat_bitmap = {} /\ bat_release_rd_idx = 0 /\ bat_wr_idx = 0
      /\ Idle /\ batPc \in {"off", "lock"}
  BY DEF InOrder, Ordered, Cleared
<1>2. CASE WorkBegin \/ WorkTimeout
  <2>1. batPc' \in {"off", "lock"} /\ UNCHANGED ringVars
    BY <1>2 DEF WorkBegin, WorkTimeout, Over
  <2>2. QED
    BY <1>1, <2>1, WorkFrame DEF ringVars, Ordered, Cleared, Idle, Agree, Buffers, AtWork
<1>3. CASE WorkCount
  <2>1. t7xx_dpmaif_avail_pkt_bat_cnt \in 0 .. N
        /\ Run(bat_release_rd_idx, t7xx_dpmaif_avail_pkt_bat_cnt) \subseteq bat_bitmap
    BY Numbers, AvailRun
  <2>2. t7xx_dpmaif_avail_pkt_bat_cnt = 0
    <3>1. ASSUME t7xx_dpmaif_avail_pkt_bat_cnt # 0
          PROVE  Next_idx(bat_release_rd_idx, 0) \in Run(bat_release_rd_idx, t7xx_dpmaif_avail_pkt_bat_cnt)
      BY <2>1, <3>1, Sizes DEF Run
    <3>2. QED
      BY <1>1, <2>1, <3>1
  <2>3. batPc' = "off" /\ UNCHANGED ringVars
    BY <1>3, <2>2, Sizes DEF WorkCount, Over
  <2>4. QED
    BY <1>1, <2>3, WorkFrame DEF ringVars, Ordered, Cleared, Idle, Agree, Buffers, AtWork
<1>4. CASE WorkRelease \/ WorkAdvance \/ WorkAlloc \/ WorkUpdate \/ WorkAnnounce
  BY <1>1, <1>4 DEF WorkRelease, WorkAdvance, WorkAlloc, WorkUpdate, WorkAnnounce
<1>5. QED
  BY <1>2, <1>3, <1>4 DEF Work

(* Until the release index is moved, the ring stays as it is *)
LEMMA WorkCountKeeps ==
    ASSUME InOrder, Live, WorkBegin \/ WorkTimeout \/ WorkCount \/ WorkRelease
    PROVE  Ordered'
<1>1. UNCHANGED <<ringVars, hwWr>> /\ batPc # "announce" /\ batPc' # "announce"
  BY DEF WorkBegin, WorkTimeout, WorkCount, WorkRelease, Over
<1>2. Live' /\ UNCHANGED <<hwRd, pit, que_started, ctl>>
      /\ \A x \in Queues : bid'[x] = bid[x] /\ (pollPc'[x] = "mask" <=> pollPc[x] = "mask")
  BY WorkFrame DEF Work
<1>3. Cleared' /\ Agree' /\ Buffers'
  <2>1. Ahead' = Ahead
    BY <1>1 DEF Ahead
  <2>2. QED
    BY <1>1, <1>2, <2>1, RingKept
<1>4. (\A s \in Slots : Off(s)' = Off(s)) /\ bat_bitmap' = bat_bitmap
  BY <1>1 DEF ringVars, Off
<1>5. CASE WorkBegin \/ WorkTimeout
  <2>1. batPc' \in {"off", "lock"}
    BY <1>5 DEF WorkBegin, WorkTimeout, Over
  <2>2. QED
    BY <1>3, <2>1 DEF Ordered, AtWork
<1>6. CASE WorkCount
  <2>1. CASE batPc' = "off"
    BY <1>3, <2>1 DEF Ordered, AtWork
  <2>2. CASE batPc' = "release" /\ cnt' = t7xx_dpmaif_avail_pkt_bat_cnt
    <3>1. cnt' \in 0 .. N /\ Run(bat_release_rd_idx, cnt') \subseteq bat_bitmap
      BY <2>2, Numbers, AvailRun
    <3>2. \A s \in Slots : Off(s) < cnt' => s \in bat_bitmap
      BY <3>1, Numbers, RunMember DEF Off
    <3>3. QED
      BY <1>3, <1>4, <2>2, <3>2 DEF Ordered, AtWork
  <2>3. QED
    BY <1>6, <2>1, <2>2 DEF WorkCount, Over
<1>7. CASE WorkRelease
  <2>1. CASE batPc' = "off"
    BY <1>3, <2>1 DEF Ordered, AtWork
  <2>2. CASE Releasable /\ batPc' = "advance" /\ newRel' = Next_idx(bat_release_rd_idx, cnt) /\ cnt' = cnt
    <3>1. \A s \in Slots : Off(s) < cnt => s \in bat_bitmap
      BY <1>7 DEF WorkRelease, InOrder, Ordered, AtWork
    <3>2. que_started[0] /\ cnt < N /\ bat_release_rd_idx' = bat_release_rd_idx
      BY <1>1, <2>2 DEF Releasable, ringVars
    <3>3. QED
      BY <1>2, <1>3, <1>4, <2>2, <3>1, <3>2 DEF Ordered, AtWork
  <2>3. QED
    BY <1>7, <2>1, <2>2 DEF WorkRelease, Over
<1>8. QED
  BY <1>5, <1>6, <1>7

(* The marked slots that are released are behind the device, and those that *)
(* follow come nearer                                                       *)
LEMMA WorkAdvanceKeeps ==
    ASSUME InOrder, Live, WorkAdvance
    PROVE  Ordered'
<1>1. /\ batPc = "advance" /\ batPc' = "alloc" /\ bat_bitmap' = bat_bitmap \ Run(bat_release_rd_idx, cnt)
      /\ bat_release_rd_idx' = newRel /\ UNCHANGED <<skb, bat_wr_idx, hwWr>>
  BY DEF WorkAdvance
<1>2. Live' /\ UNCHANGED <<hwRd, pit, pollPc, bid, que_started, ctl>>
  BY WorkFrame DEF Work
<1>3. newRel = Next_idx(bat_release_rd_idx, cnt) /\ cnt < N /\ que_started[0]
      /\ \A s \in Slots : Off(s) < cnt => s \in bat_bitmap
  BY <1>1 DEF InOrder, Ordered, AtWork
<1>4. Agree /\ Marked /\ Emptied /\ Found /\ Apart
  BY DEF InOrder, Ordered, Buffers
<1>5. cnt <= Read /\ cnt \in Nat /\ cnt \in 0 .. N - 1
  <2>1. ASSUME Read < cnt PROVE FALSE
    <3>1. hwRd \in bat_bitmap
      BY <1>3, <2>1, Numbers DEF Read
    <3>2. Off(hwRd) < Read
      BY <1>4, <3>1 DEF Marked
    <3>3. QED
      BY <3>2, Numbers DEF Read
  <2>2. QED
    BY <1>3, <2>1, Numbers, Sizes
<1>6. \A s \in Slots : Off(s)' = IF Off(s) < cnt THEN Off(s) - cnt + N ELSE Off(s) - cnt
  <2> SUFFICES ASSUME NEW s \in Slots PROVE Off(s)' = IF Off(s) < cnt THEN Off(s) - cnt + N ELSE Off(s) - cnt
    OBVIOUS
  <2>1. Off(s)' = rd_count(Next_idx(bat_release_rd_idx, cnt), s) /\ Off(s) = rd_count(bat_release_rd_idx, s)
    BY <1>1, <1>3 DEF Off
  <2>2. CASE Off(s) < cnt
    BY <1>5, <2>1, <2>2, Numbers, CountWrap
  <2>3. CASE cnt <= Off(s)
    BY <1>5, <2>1, <2>3, Numbers, CountShift
  <2>4. QED
    BY <1>5, <2>2, <2>3, Numbers
<1>7. Read' = Read - cnt /\ Ready' = Ready - cnt /\ Ahead = 0 /\ Ahead' = 0
  <2>1. Ahead = 0 /\ Ahead' = 0
    BY <1>1 DEF Ahead
  <2>2. Read' = Read - cnt
    <3>1. PICK h \in Slots : h = hwRd
      BY Numbers
    <3>2. Read' = Off(h)' /\ Read = Off(h)
      BY <1>2, <3>1 DEF Read, Off
    <3>3. QED
      BY <1>5, <1>6, <3>2, Numbers
  <2>3. Ready = Read + rd_count(hwRd, hwWr) + 0 /\ Ready' = Read' + rd_count(hwRd, hwWr) + 0
    BY <1>1, <1>2, <2>1 DEF Ready
  <2>4. QED
    BY <1>5, <2>1, <2>2, <2>3, Numbers
<1>8. \A s \in Slots : s \in bat_bitmap' <=> s \in bat_bitmap /\ cnt <= Off(s)
  <2>1. \A s \in Slots : s \in Run(bat_release_rd_idx, cnt) <=> Off(s) < cnt
    BY Numbers, RunMember DEF Off
  <2>2. QED
    BY <1>1, <1>5, <2>1, Numbers
<1>9. \A s \in Slots : cnt <= Off(s) => Off(s)' = Off(s) - cnt /\ (Off(s)' < Read' <=> Off(s) < Read)
  BY <1>5, <1>6, <1>7, Numbers
<1>10. \A s \in Slots : Off(s)' < Ready' => cnt <= Off(s) /\ Off(s) < Ready
  <2> SUFFICES ASSUME NEW s \in Slots, Off(s)' < Ready' PROVE cnt <= Off(s) /\ Off(s) < Ready
    OBVIOUS
  <2>1. Off(s) \in Nat /\ Ready \in Nat /\ Ready < N
    BY Numbers, WriteIndex
  <2>2. Off(s)' = IF Off(s) < cnt THEN Off(s) - cnt + N ELSE Off(s) - cnt
    BY <1>6
  <2>3. QED
    BY <1>5, <1>7, <2>1, <2>2, Sizes
<1>11. Cleared' /\ Agree'
  BY <1>1, <1>2, <1>4, <1>5, <1>7, WriteIndex, Sizes DEF Cleared, Agree
<1>12. Marked'
  <2>1. \A s \in bat_bitmap' : s \in Slots
    BY <1>1, Numbers
  <2>2. QED
    BY <1>1, <1>4, <1>8, <1>9, <2>1 DEF Marked
<1>13. Emptied'
  <2> SUFFICES ASSUME NEW s \in Slots, Read' <= Off(s)', Off(s)' < Ready' PROVE skb'[s] = "empty"
    BY DEF Emptied
  <2>1. cnt <= Off(s) /\ Off(s) < Ready /\ Off(s)' = Off(s) - cnt
    BY <1>9, <1>10
  <2>2. Read <= Off(s)
    BY <1>5, <1>7, <2>1, Numbers
  <2>3. QED
    BY <1>1, <1>4, <2>1, <2>2 DEF Emptied
<1>14. Found'
  <2> SUFFICES ASSUME NEW s \in Slots, Off(s)' < Read'
               PROVE  s \in bat_bitmap' \/ \E x \in Queues : s \in Elements(pit[x])
    BY <1>2 DEF Found
  <2>1. Read' <= Ready'
    BY <1>5, <1>7, Numbers, WriteIndex
  <2>2. Off(s)' < Ready'
    <3>1. Off(s)' \in Int
      BY <1>5, <1>6, Numbers, Sizes
    <3>2. QED
      BY <1>5, <1>7, <2>1, <3>1, Numbers, WriteIndex
  <2>3. cnt <= Off(s) /\ Off(s) < Read
    BY <1>9, <1>10, <2>2
  <2>4. s \in bat_bitmap \/ \E x \in Queues : s \in Elements(pit[x])
    BY <1>4, <2>3 DEF Found
  <2>5. QED
    BY <1>8, <2>3, <2>4
<1>15. Apart'
  BY <1>2, <1>4 DEF Apart
<1>16. ASSUME NEW x \in Queues PROVE Waiting(x)'
  <2>1. Distinct(pit[x]) /\ (pollPc[x] = "mask" => pit[x] # <<>> /\ bid[x] = Head(pit[x]))
    BY PitFacts
  <2> SUFFICES ASSUME NEW s \in Elements(pit[x])
               PROVE  Off(s)' < Read' /\ s \notin bat_bitmap' /\ skb'[s] = IF Taken(x, s)' THEN "none" ELSE "full"
    BY <1>2, <2>1 DEF Waiting
  <2>2. s \in Slots /\ Off(s) < Read /\ s \notin bat_bitmap /\ skb[s] = IF Taken(x, s) THEN "none" ELSE "full"
    BY PitFacts
  <2>3. cnt <= Off(s)
    BY <1>3, <1>5, <2>2, Numbers
  <2>4. Taken(x, s)' <=> Taken(x, s)
    BY <1>2 DEF Taken
  <2>5. QED
    BY <1>1, <1>8, <1>9, <2>2, <2>3, <2>4
<1>17. AtWork'
  BY <1>1, <1>2, <1>3 DEF AtWork
<1>18. QED
  BY <1>11, <1>12, <1>13, <1>14, <1>15, <1>16, <1>17 DEF Ordered, Buffers

(* Buffers are put into the slots behind the last that is ready *)
LEMMA WorkAllocKeeps ==
    ASSUME InOrder, Live, WorkAlloc
    PROVE  Ordered'
<1>1. Live' /\ UNCHANGED <<hwRd, pit, que_started, ctl>>
      /\ \A x \in Queues : bid'[x] = bid[x] /\ (pollPc'[x] = "mask" <=> pollPc[x] = "mask")
  BY WorkFrame DEF Work
<1>2. batPc = "alloc" /\ UNCHANGED <<bat_bitmap, bat_release_rd_idx, bat_wr_idx, hwWr>>
  BY DEF WorkAlloc
<1>3. Ahead = 0 /\ Ready = Read + rd_count(hwRd, hwWr) + 0
  BY <1>2 DEF Ahead, Ready
<1>4. \A s \in Slots : Off(s)' = Off(s)
  BY <1>2 DEF Off
<1>5. CASE batPc' = "off" /\ UNCHANGED skb
  <2>1. Ahead' = Ahead
    BY <1>3, <1>5 DEF Ahead
  <2>2. Cleared' /\ Agree' /\ Buffers'
    BY <1>1, <1>2, <1>5, <2>1, RingKept DEF ringVars
  <2>3. QED
    BY <1>5, <2>2 DEF Ordered, AtWork
<1>6. ASSUME NEW k \in 0 .. cnt, cnt <= Space, skb' = Filled(bat_wr_idx, k),
             batPc' = "off" \/ (batPc' = "update" /\ filled' = k)
      PROVE  Ordered'
  <2>1. k \in Nat /\ k \in 0 .. N /\ Ready + k < N /\ Ready \in Nat /\ Off(bat_wr_idx) = Ready
    BY <1>6, Numbers, WriteIndex, Sizes
  <2>2. Ready + k <= N
    BY <2>1, Sizes
  <2>3. \A s \in Slots : s \in Run(bat_wr_idx, k) <=> Ready <= Off(s) /\ Off(s) < Ready + k
    BY <2>1, <2>2, Numbers, RunFrom DEF Off
  <2>4. \A s \in Slots : skb'[s] = IF Ready <= Off(s) /\ Off(s) < Ready + k THEN "empty" ELSE skb[s]
    BY <1>6, <2>3 DEF Filled
  <2>5. \A s \in Slots : Off(s) < Ready => skb'[s] = skb[s]
    <3>1. \A s \in Slots : Off(s) \in Nat
      BY Numbers
    <3>2. \A s \in Slots : Off(s) < Ready => ~(Ready <= Off(s))
      BY <2>1, <3>1
    <3>3. QED
      BY <2>4, <3>2
  <2>6. Ahead' = 0 /\ Read' = Read /\ Ready' = Ready /\ Read <= Ready
    <3>1. Ahead' = 0
      BY <1>6 DEF Ahead
    <3>2. Read' = Read /\ Ready' = Read' + rd_count(hwRd, hwWr) + 0
      BY <1>1, <1>2, <3>1 DEF Read, Ready, Off
    <3>3. QED
      BY <1>3, <3>1, <3>2, Numbers
  <2>7. Agree /\ Marked /\ Emptied /\ Found /\ Apart
    BY DEF InOrder, Ordered, Buffers
  <2>8. Cleared' /\ Agree' /\ Found' /\ Apart'
    BY <1>1, <1>2, <1>3, <1>4, <2>6, <2>7 DEF Cleared, Agree, Found, Apart
  <2>9. Marked'
    <3>1. \A s \in bat_bitmap : s \in Slots /\ Off(s) < Read /\ Off(s) < Ready
      <4>1. Read \in Nat /\ \A s \in Slots : Off(s) \in Nat
        BY Numbers
      <4>2. \A s \in bat_bitmap : s \in Slots /\ Off(s) < Read
        BY <2>7, Numbers DEF Marked
      <4>3. QED
        BY <2>1, <2>6, <4>1, <4>2
    <3>2. QED
      BY <1>2, <1>4, <2>5, <2>6, <2>7, <3>1 DEF Marked
  <2>10. Emptied'
    BY <1>4, <2>5, <2>6, <2>7 DEF Emptied
  <2>11. ASSUME NEW x \in Queues PROVE Waiting(x)'
    <3>1. \A s \in Elements(pit[x]) : /\ s \in Slots /\ Off(s) < Read /\ s \notin bat_bitmap
                                      /\ skb[s] = IF Taken(x, s) THEN "none" ELSE "full"
                                      /\ (Taken(x, s)' <=> Taken(x, s)) /\ Off(s) < Ready
      BY <1>1, <2>1, <2>6, Numbers, PitFacts DEF Taken
    <3>2. Distinct(pit[x]) /\ (pollPc[x] = "mask" => pit[x] # <<>> /\ bid[x] = Head(pit[x]))
      BY PitFacts
    <3>3. QED
      BY <1>1, <1>2, <1>4, <2>5, <2>6, <3>1, <3>2 DEF Waiting
  <2>12. AtWork'
    <3>1. CASE batPc' = "off"
      BY <3>1 DEF AtWork
    <3>2. CASE batPc' = "update" /\ filled' = k
      <4>1. que_started[0]
        BY <1>2 DEF InOrder, Ordered, AtWork
      <4>2. \A s \in Slots : Ready <= Off(s) /\ Off(s) < Ready + k => skb'[s] = "empty"
        BY <2>4
      <4>3. QED
        BY <1>1, <1>4, <2>1, <2>6, <3>2, <4>1, <4>2 DEF AtWork
    <3>3. QED
      BY <1>6, <3>1, <3>2
  <2>13. QED
    BY <2>8, <2>9, <2>10, <2>11, <2>12 DEF Ordered, Buffers
<1>7. CASE cnt > Space
  BY <1>5, <1>7 DEF WorkAlloc, Over
<1>8. CASE ~(cnt > Space)
  <2>1. cnt <= Space
    BY <1>8, WriteIndex, Numbers, Sizes
  <2>2. PICK k \in 0 .. cnt : skb' = Filled(bat_wr_idx, k)
                              /\ (batPc' = "off" \/ (batPc' = "update" /\ filled' = k))
    BY <1>8, Zenon DEF WorkAlloc, Over
  <2>3. QED
    BY <1>6, <2>1, <2>2
<1>9. QED
  BY <1>7, <1>8

(* The write index passes the new buffers, which the device does not know of *)
LEMMA WorkUpdateKeeps ==
    ASSUME InOrder, Live, WorkUpdate
    PROVE  Ordered'
<1>1. Live' /\ UNCHANGED <<hwRd, pit, que_started, ctl>>
      /\ \A x \in Queues : bid'[x] = bid[x] /\ (pollPc'[x] = "mask" <=> pollPc[x] = "mask")
  BY WorkFrame DEF Work
<1>2. batPc = "update" /\ UNCHANGED <<bat_bitmap, bat_release_rd_idx, hwWr>>
  BY DEF WorkUpdate
<1>3. /\ que_started[0] /\ Ready + filled < N
      /\ \A s \in Slots : Ready <= Off(s) /\ Off(s) < Ready + filled => skb[s] = "empty"
  BY <1>2 DEF InOrder, Ordered, AtWork
<1>4. ~(filled > Space)
  BY <1>3, WriteIndex, Numbers, Sizes
<1>5. batPc' = "announce" /\ bat_wr_idx' = Next_idx(bat_wr_idx, filled) /\ UNCHANGED <<skb, filled>>
  BY <1>3, <1>4 DEF WorkUpdate
<1>6. Ahead = 0 /\ Ahead' = filled /\ Read' = Read /\ \A s \in Slots : Off(s)' = Off(s)
  BY <1>1, <1>2, <1>5 DEF Ahead, Read, Off
<1>7. Ready' = Ready + filled /\ Ready \in Nat
  <2>1. Ready = Read + rd_count(hwRd, hwWr) + 0 /\ Ready' = Read + rd_count(hwRd, hwWr) + filled
    BY <1>1, <1>2, <1>6 DEF Ready
  <2>2. QED
    <3>1. Read \in Nat /\ rd_count(hwRd, hwWr) \in Nat /\ filled \in Nat
      BY Numbers, Sizes
    <3>2. QED
      BY <2>1, <3>1
<1>8. Agree /\ Marked /\ Emptied /\ Found /\ Apart
  BY DEF InOrder, Ordered, Buffers
<1>9. bat_wr_idx = hwWr
  <2>1. bat_wr_idx = Next_idx(hwWr, 0)
    BY <1>6, <1>8 DEF Agree
  <2>2. QED
    BY <2>1, NextIs, Numbers, Sizes DEF Slots
<1>10. Cleared' /\ Agree'
  BY <1>1, <1>2, <1>3, <1>5, <1>6, <1>7, <1>9 DEF Cleared, Agree
<1>11. Marked' /\ Found' /\ Apart'
  <2>1. \A s \in bat_bitmap : s \in Slots
    BY Numbers
  <2>2. QED
    BY <1>1, <1>2, <1>5, <1>6, <1>8, <2>1 DEF Marked, Found, Apart
<1>12. Emptied'
  <2> SUFFICES ASSUME NEW s \in Slots, Read <= Off(s), Off(s) < Ready + filled PROVE skb[s] = "empty"
    BY <1>5, <1>6, <1>7 DEF Emptied
  <2>1. Off(s) < Ready \/ Ready <= Off(s)
    <3>1. Off(s) \in Nat
      BY Numbers
    <3>2. QED
      BY <1>7, <3>1
  <2>2. QED
    BY <1>3, <1>8, <2>1 DEF Emptied
<1>13. ASSUME NEW x \in Queues PROVE Waiting(x)'
  <2>1. \A s \in Elements(pit[x]) : s \in Slots /\ (Taken(x, s)' <=> Taken(x, s))
    BY <1>1, Numbers DEF Taken
  <2>2. Waiting(x)
    BY DEF InOrder, Ordered, Buffers
  <2>3. QED
    BY <1>1, <1>2, <1>5, <1>6, <2>1, <2>2 DEF Waiting
<1>14. AtWork'
  BY <1>5 DEF AtWork
<1>15. QED
  BY <1>10, <1>11, <1>12, <1>13, <1>14 DEF Ordered, Buffers

(* The index of the device follows *)
LEMMA WorkAnnounceKeeps ==
    ASSUME InOrder, Live, WorkAnnounce
    PROVE  Ordered'
<1>1. Live' /\ UNCHANGED <<hwRd, pit, que_started, ctl>>
      /\ \A x \in Queues : bid'[x] = bid[x] /\ (pollPc'[x] = "mask" <=> pollPc[x] = "mask")
  BY WorkFrame DEF Work
<1>2. batPc = "announce" /\ batPc' = "off" /\ hwWr' = Next_idx(hwWr, filled)
      /\ UNCHANGED <<bat_bitmap, bat_release_rd_idx, bat_wr_idx>>
  BY DEF WorkAnnounce, Over
<1>3. Ahead = filled /\ Ahead' = 0 /\ Read' = Read /\ \A s \in Slots : Off(s)' = Off(s)
  BY <1>1, <1>2 DEF Ahead, Read, Off
<1>4. Agree /\ Marked /\ Emptied /\ Found /\ Apart
  BY DEF InOrder, Ordered, Buffers
<1>5. hwWr' = bat_wr_idx /\ skb' = skb
  BY <1>2, <1>3, <1>4 DEF Agree, WorkAnnounce
<1>6. Ready' = Ready
  <2>1. Ready = Read + rd_count(hwRd, hwWr) + filled /\ Ready < N
    BY <1>3, WriteIndex
  <2>2. rd_count(hwRd, hwWr) + filled < N
    BY <2>1, Numbers, Sizes
  <2>3. rd_count(hwRd, hwWr') = rd_count(hwRd, hwWr) + filled
    BY <1>2, <2>2, Numbers, NextCount
  <2>4. Ready' = Read + rd_count(hwRd, hwWr') + 0
    BY <1>1, <1>3 DEF Ready
  <2>5. QED
    <3>1. Read \in Nat /\ rd_count(hwRd, hwWr) \in Nat /\ filled \in Nat
      BY Numbers, Sizes
    <3>2. QED
      BY <2>1, <2>3, <2>4, <3>1
<1>7. Cleared' /\ Agree'
  <2>1. bat_wr_idx = Next_idx(bat_wr_idx, 0)
    BY NextIs, Numbers, Sizes DEF Slots
  <2>2. QED
    BY <1>1, <1>2, <1>3, <1>4, <1>5, <1>6, <2>1 DEF Cleared, Agree
<1>8. Marked' /\ Emptied' /\ Found' /\ Apart'
  <2>1. \A s \in bat_bitmap : s \in Slots
    BY Numbers
  <2>2. QED
    BY <1>1, <1>2, <1>3, <1>4, <1>5, <1>6, <2>1 DEF Marked, Emptied, Found, Apart
<1>9. ASSUME NEW x \in Queues PROVE Waiting(x)'
  <2>1. \A s \in Elements(pit[x]) : s \in Slots /\ (Taken(x, s)' <=> Taken(x, s))
    BY <1>1, Numbers DEF Taken
  <2>2. Waiting(x)
    BY DEF InOrder, Ordered, Buffers
  <2>3. QED
    BY <1>1, <1>2, <1>3, <1>5, <2>1, <2>2 DEF Waiting
<1>10. AtWork'
  BY <1>2 DEF AtWork
<1>11. QED
  BY <1>7, <1>8, <1>9, <1>10 DEF Ordered, Buffers

LEMMA WorkKeeps == ASSUME InOrder, Work PROVE Ordered'
<1>1. CASE ~Live
  BY <1>1, WorkIdles
<1>2. CASE Live
  BY <1>2, WorkCountKeeps, WorkAdvanceKeeps, WorkAllocKeeps, WorkUpdateKeeps, WorkAnnounceKeeps DEF Work
<1>3. QED
  BY <1>1, <1>2
-----------------------------------------------------------------------------
(* Stops, sleeps and starts.                                                 *)

(* Steps that touch neither the ring nor those who work on it *)
LEMMA CtlKept ==
    ASSUME InOrder, Live, Live', UNCHANGED <<ringVars, hwRd, hwWr, pit, pollVars, workVars>>,
           batPc \in {"advance", "alloc", "update"} => que_started'[0]
    PROVE  Ordered'
<1>1. UNCHANGED <<batPc, cnt, newRel, filled, pollPc, bid, skb, bat_bitmap, bat_release_rd_idx>>
  BY DEF ringVars, pollVars, workVars
<1>2. Ahead' = Ahead /\ Ready' = Ready /\ \A s \in Slots : Off(s)' = Off(s)
  BY <1>1 DEF Ahead, Ready, Read, Off
<1>3. Cleared' /\ Agree' /\ Buffers'
  BY <1>1, <1>2, RingKept
<1>4. AtWork
  BY DEF InOrder, Ordered
<1>5. AtWork'
  BY <1>1, <1>2, <1>4 DEF AtWork
<1>6. QED
  BY <1>3, <1>5 DEF Ordered

LEMMA CtlTurns ==
    ASSUME InOrder, (\E to \in {"stop", "sleep"} : CtlQuiet(to)) \/ RxStopWait \/ RxStopMark \/ t7xx_dpmaif_resume,
           orderly'
    PROVE  Ordered'
<1>1. /\ ctl \in [at : CtlPcs, to : {"stop", "sleep"}, q : Queues] /\ que_started \in [Queues -> BOOLEAN]
      /\ batPc \in {"advance", "alloc", "update"} /\ Live => que_started[0]
  BY DEF InOrder, TypeOK, ThreadTypeOK, QueueTypeOK, Ordered, AtWork
<1>2. UNCHANGED <<ringVars, hwRd, hwWr, pit, pollVars, workVars>>
  BY DEF CtlQuiet, RxStopWait, RxStopMark, t7xx_dpmaif_resume, NotCtl, hwVars, pitVars
<1>3. CASE \E to \in {"stop", "sleep"} : CtlQuiet(to)
  <2>1. Live /\ Live' /\ que_started' = que_started
    BY <1>3 DEF CtlQuiet, Live
  <2>2. QED
    BY <1>1, <1>2, <2>1, CtlKept
<1>4. CASE RxStopWait
  <2>1. Live /\ Live' /\ que_started' = que_started
    BY <1>1, <1>4 DEF RxStopWait, Live
  <2>2. QED
    BY <1>1, <1>2, <2>1, CtlKept
<1>5. CASE RxStopMark
  <2>1. Live /\ Live'
    BY <1>1, <1>5 DEF RxStopMark, Live
  <2>2. batPc \in {"advance", "alloc", "update"} => que_started'[0]
    BY <1>1, <1>5, <2>1 DEF RxStopMark, Queues
  <2>3. QED
    BY <1>2, <2>1, <2>2, CtlKept
<1>6. CASE t7xx_dpmaif_resume
  <2>1. Live /\ Live' /\ que_started'[0]
    BY <1>1, <1>6 DEF t7xx_dpmaif_resume, Live, Queues
  <2>2. QED
    BY <1>2, <2>1, CtlKept
<1>7. QED
  BY <1>3, <1>4, <1>5, <1>6

(* The ring is cleared in good order *)
LEMMA CtlClears == ASSUME InOrder, RxClear \/ CtlStart, orderly' PROVE Ordered'
<1>1. ctl \in [at : CtlPcs, to : {"stop", "sleep"}, q : Queues]
  BY DEF InOrder, TypeOK, ThreadTypeOK
<1>2. UNCHANGED <<pollPc, batPc>>
  BY DEF RxClear, CtlStart, NotCtl, pollVars, workVars
<1>3. ~Live' /\ ctl'.at # "failed"
  BY <1>1 DEF RxClear, CtlStart, Live
<1>4. bat_bitmap' = {} /\ bat_release_rd_idx' = 0 /\ bat_wr_idx' = 0 /\ Idle /\ batPc \in {"off", "lock"}
  <2>1. CASE RxClear
    BY <2>1 DEF RxClear
  <2>2. CASE CtlStart
    <3>1. ~Live /\ Cleared
      BY <2>2 DEF CtlStart, Live, InOrder, Ordered
    <3>2. QED
      BY <2>2, <3>1 DEF CtlStart, Cleared
  <2>3. QED
    BY <2>1, <2>2
<1>5. QED
  BY <1>2, <1>3, <1>4 DEF Ordered, Cleared, Agree, Buffers, AtWork, Idle

(* A ring that has been cleared in good order is empty and can be filled *)
LEMMA CtlStarts == ASSUME InOrder, CtlPowerOn \/ CtlStartFails, orderly' PROVE Ordered'
<1>1. ctl \in [at : CtlPcs, to : {"stop", "sleep"}, q : Queues] /\ 0 \in Slots /\ N - 1 \in Slots
  BY Sizes DEF InOrder, TypeOK, ThreadTypeOK, Slots
<1>2. ~Live
  BY DEF CtlPowerOn, CtlStartFails, Live
<1>3. /\ bat_bitmap = {} /\ bat_release_rd_idx = 0 /\ bat_wr_idx = 0 /\ Idle /\ batPc \in {"off", "lock"}
      /\ \A q \in Queues : pit[q] = <<>>
  BY <1>2 DEF InOrder, Ordered, Cleared, Placed
<1>4. rd_count(0, 0) = 0 /\ rd_count(0, N - 1) = N - 1 /\ Next_idx(0, N - 1) = N - 1 /\ Next_idx(N - 1, 0) = N - 1
  BY <1>1, CountIs, NextIs, Sizes DEF Slots
<1>5. CtlPowerOn
  <2>1. Space = N - 1
    BY <1>1, <1>3, <1>4, SpaceIs, Sizes DEF Off
  <2>2. ~CtlStartFails
    BY <2>1, Sizes DEF CtlStartFails
  <2>3. QED
    BY <2>2
<1>6. /\ skb' = Filled(0, N - 1) /\ bat_wr_idx' = Next_idx(0, N - 1)
      /\ hwRd' = 0 /\ hwWr' = N - 1 /\ ctl' = [ctl EXCEPT !.at = "up"]
      /\ UNCHANGED <<bat_bitmap, bat_release_rd_idx, pit, pollPc, batPc>>
  <2>1. PICK k \in 0 .. N - 1 :
          /\ skb' = Filled(bat_wr_idx, k) /\ bat_wr_idx' = Next_idx(bat_wr_idx, k)
          /\ IF k = N - 1 \/ (type = "normal" /\ k > 0)
             THEN t7xx_dpmaif_config_dlq_hw /\ ctl' = [ctl EXCEPT !.at = "up"]
             ELSE UNCHANGED <<hwVars, pitFree>> /\ ctl' = [ctl EXCEPT !.at = "failed"]
          /\ orderly' = (orderly /\ k = N - 1)
    BY <1>5 DEF CtlPowerOn
  <2>2. k = N - 1
    BY <2>1
  <2>3. t7xx_dpmaif_config_dlq_hw /\ ctl' = [ctl EXCEPT !.at = "up"]
    BY <2>1, <2>2
  <2>4. UNCHANGED <<bat_bitmap, bat_release_rd_idx, pit, pollPc, batPc>>
    BY <1>5 DEF CtlPowerOn, NotCtl, pollVars, workVars
  <2>5. QED
    BY <1>3, <2>1, <2>2, <2>3, <2>4 DEF t7xx_dpmaif_config_dlq_hw
<1>7. Live' /\ Read' = 0 /\ Ahead' = 0 /\ Ready' = N - 1 /\ bat_wr_idx' = N - 1
  BY <1>1, <1>3, <1>4, <1>6, Sizes DEF Live, Read, Ahead, Ready, Off
<1>8. Cleared' /\ Agree' /\ AtWork'
  BY <1>3, <1>4, <1>6, <1>7, Sizes DEF Cleared, Agree, AtWork
<1>9. Buffers'
  <2>1. \A q \in Queues : Elements(pit'[q]) = {} /\ Distinct(pit'[q]) /\ pollPc'[q] # "mask"
    BY <1>3, <1>6 DEF Elements, Distinct, Idle
  <2>2. \A s \in Slots : Off(s)' = s
    BY <1>1, <1>3, <1>6, CountIs, Sizes DEF Off, Slots
  <2>3. \A s \in Slots : ~(s < 0) /\ (s < N - 1 => skb'[s] = "empty")
    <3>1. \A s \in Slots : s \in Run(0, N - 1) <=> s < N - 1
      <4>1. N - 1 \in 0 .. N /\ \A s \in Slots : rd_count(0, s) = s
        BY <1>1, CountIs, Sizes DEF Slots
      <4>2. QED
        BY <1>1, <4>1, RunMember
    <3>2. QED
      BY <1>6, <3>1, Sizes DEF Filled, Slots
  <2>4. Marked' /\ Emptied' /\ Found'
    BY <1>3, <1>6, <1>7, <2>2, <2>3 DEF Marked, Emptied, Found
  <2>5. Apart' /\ \A q \in Queues : Waiting(q)'
    BY <2>1 DEF Apart, Waiting
  <2>6. QED
    BY <2>4, <2>5 DEF Buffers
<1>10. QED
  BY <1>8, <1>9 DEF Ordered

LEMMA CtlKeeps == ASSUME InOrder, Ctl, orderly' PROVE Ordered'
BY CtlTurns, CtlClears, CtlStarts DEF Ctl
-----------------------------------------------------------------------------
(* What has upset the ring is not forgotten *)
LEMMA Upset == ASSUME Next, orderly' PROVE orderly
<1>1. CASE \E q \in Queues : DeviceFills(q) \/ Poll(q)
  BY <1>1 DEF DeviceFills, Poll, PollBegin, PollCleared, PollTake, PollBad, PollMask,
     t7xx_dpmaifq_rx_notify_hw, pastVars
<1>2. CASE Work
  BY <1>2, Zenon DEF Work, WorkBegin, WorkTimeout, WorkCount, WorkRelease, WorkAdvance, WorkAlloc, WorkUpdate,
     WorkAnnounce, pastVars
<1>3. CASE Ctl
  BY <1>3, Zenon DEF Ctl, CtlQuiet, RxStopWait, RxStopMark, RxClear, CtlStart, CtlPowerOn, CtlStartFails,
     t7xx_dpmaif_resume, pastVars
<1>4. QED
  BY <1>1, <1>2, <1>3, Actors

LEMMA OrderedStep == ASSUME InOrder, Next, orderly' PROVE Ordered'
<1>1. CASE \E q \in Queues : DeviceFills(q) \/ Poll(q)
  BY <1>1, DeviceFillsKeeps, PollKeeps
<1>2. CASE Work
  BY <1>2, WorkKeeps
<1>3. CASE Ctl
  BY <1>3, CtlKeeps
<1>4. QED
  BY <1>1, <1>2, <1>3, Actors

LEMMA BatStep == BatInv /\ [Next]_vars => BatInv'
<1> SUFFICES ASSUME BatInv, [Next]_vars PROVE BatInv'
  OBVIOUS
<1>1. TypeOK /\ Placed /\ (orderly => InOrder)
  BY DEF BatInv, InOrder
<1>2. CASE Next
  <2>1. TypeOK' /\ Placed'
    BY <1>1, <1>2, TypeStep
  <2>2. orderly' => Ordered'
    BY <1>1, <1>2, Upset, OrderedStep
  <2>3. QED
    BY <2>1, <2>2 DEF BatInv
<1>3. CASE UNCHANGED vars
  <2>1. /\ UNCHANGED <<type, skb, bat_bitmap, bat_release_rd_idx, bat_wr_idx, hwRd, hwWr, hwOn, pit, remain, pitFree>>
        /\ UNCHANGED <<pollPc, bid, batQueued, batPc, cnt, newRel, filled, que_started, ctl, stops>>
        /\ UNCHANGED <<failures, orderly, served>>
    BY <1>3 DEF vars, ringVars, hwVars, pitVars, pollVars, workVars, ctlVars, pastVars
  <2>2. TypeOK' /\ Placed'
    BY <1>1, <2>1 DEF TypeOK, RingTypeOK, QueueTypeOK, DeviceTypeOK, ThreadTypeOK, Placed, Live
  <2>3. ASSUME orderly' PROVE Ordered'
    <3>1. InOrder /\ Ordered
      BY <1>1, <2>1, <2>3 DEF InOrder
    <3>2. CASE Live
      <4>1. Live' /\ (batPc \in {"advance", "alloc", "update"} => que_started'[0])
        BY <2>1, <3>1, <3>2 DEF Live, Ordered, AtWork
      <4>2. QED
        BY <2>1, <3>1, <3>2, <4>1, CtlKept DEF ringVars, pollVars, workVars
    <3>3. CASE ~Live
      BY <2>1, <3>1, <3>3 DEF Live, Ordered, Cleared, Agree, Buffers, AtWork, Idle
    <3>4. QED
      BY <3>2, <3>3
  <2>4. QED
    BY <2>2, <2>3 DEF BatInv
<1>4. QED
  BY <1>2, <1>3

LEMMA BatInvariant == Spec => []BatInv
BY BatInit, BatStep, PTL DEF Spec

(* Every variable keeps its type; in particular the PITs that the device may *)
(* write, those it has written and those that wait to be given back never    *)
(* exceed the ring: t7xx_dpmaifq_release_pit_entry() gives none back twice   *)
THEOREM BatTypeCorrect == Spec => []TypeOK
<1>1. BatInv => TypeOK
  BY DEF BatInv
<1>2. QED
  BY <1>1, BatInvariant, PTL

LEMMA BatInvIntact == BatInv => BufferIntact
<1> SUFFICES ASSUME BatInv, orderly, Live
             PROVE  LET used    == Between(bat_release_rd_idx, hwRd)
                        waiting == {s \in used : skb[s] = "full"}
                        taken   == {bid[q] : q \in {p \in Queues : pollPc[p] = "mask"}}
                        ahead   == IF batPc = "announce" THEN filled ELSE 0
                    IN /\ bat_wr_idx = Next_idx(hwWr, ahead)
                       /\ rd_count(bat_release_rd_idx, hwRd) + rd_count(hwRd, hwWr) + ahead < N
                       /\ \A s \in Between(hwRd, bat_wr_idx) : skb[s] = "empty" /\ s \notin bat_bitmap
                       /\ waiting \cup taken = InPit(0) \cup InPit(1) /\ InPit(0) \cap InPit(1) = {}
                       /\ bat_bitmap = used \ (waiting \cup taken)
                       /\ \A s \in used \ waiting : skb[s] = "none"
  BY DEF BufferIntact, Live
<1> DEFINE used    == Between(bat_release_rd_idx, hwRd)
           waiting == {s \in used : skb[s] = "full"}
           taken   == {bid[q] : q \in {p \in Queues : pollPc[p] = "mask"}}
           pits    == InPit(0) \cup InPit(1)
<1>1. InOrder /\ Agree /\ Marked /\ Emptied /\ Found /\ Apart
  BY DEF BatInv, InOrder, Ordered, Buffers
<1>2. bat_wr_idx = Next_idx(hwWr, Ahead) /\ rd_count(bat_release_rd_idx, hwRd) + rd_count(hwRd, hwWr) + Ahead < N
  BY <1>1 DEF Agree, Ready, Read, Off
<1>3. used \subseteq Slots /\ \A s \in Slots : s \in used <=> Off(s) < Read
  <2>1. Read \in 0 .. N
    BY <1>1, Numbers, Sizes
  <2>2. QED
    BY <1>1, <2>1, Numbers, RunMember DEF Between, Read, Off
<1>4. \A s \in Between(hwRd, bat_wr_idx) : s \in Slots /\ Read <= Off(s) /\ Off(s) < Ready
  <2>1. /\ Read \in Nat /\ Ready \in Nat /\ Ready < N /\ Off(bat_wr_idx) = Ready /\ rd_count(hwRd, hwWr) \in Nat
        /\ Ready = Read + rd_count(hwRd, hwWr) + Ahead /\ Ahead \in Nat
    BY <1>1, WriteIndex, Numbers, Sizes
  <2>2. Read <= Ready
    BY <2>1
  <2>3. rd_count(hwRd, bat_wr_idx) = Ready - Read
    BY <1>1, <2>1, <2>2, Numbers, CountDiff DEF Read, Off
  <2>4. Ready - Read \in 0 .. N /\ Read + (Ready - Read) = Ready
    BY <2>1, <2>2, Sizes
  <2>5. QED
    <3>1. PICK k \in 0 .. N : k = Ready - Read
      BY <2>4
    <3>2. Read = rd_count(bat_release_rd_idx, hwRd) /\ Read + k = Ready /\ Read + k <= N
      BY <2>1, <2>4, <3>1, Sizes DEF Read, Off
    <3>3. /\ Run(hwRd, k) \subseteq Slots
          /\ \A s \in Slots : s \in Run(hwRd, k) <=> Read <= Off(s) /\ Off(s) < Read + k
      BY <1>1, <3>2, Numbers, RunFrom DEF Off
    <3>4. QED
      BY <2>3, <3>1, <3>2, <3>3 DEF Between
<1>5. \A s \in Between(hwRd, bat_wr_idx) : skb[s] = "empty" /\ s \notin bat_bitmap
  <2>1. \A s \in Slots : Read <= Off(s) => ~(Off(s) < Read)
    <3>1. Read \in Nat /\ \A s \in Slots : Off(s) \in Nat
      BY <1>1, Numbers
    <3>2. QED
      BY <3>1
  <2>2. QED
    BY <1>1, <1>4, <2>1 DEF Emptied, Marked
<1>6. \A s : s \in pits <=> \E q \in Queues : s \in Elements(pit[q])
  BY DEF InPit, Elements, Queues
<1>7. ASSUME NEW q \in Queues
      PROVE  /\ pollPc[q] = "mask" => bid[q] \in Elements(pit[q])
             /\ \A s \in Elements(pit[q]) :
                   s \in used /\ s \notin bat_bitmap /\ skb[s] = IF Taken(q, s) THEN "none" ELSE "full"
  BY <1>1, <1>3, PitFacts
<1>8. waiting \subseteq pits
  BY <1>1, <1>3, <1>6 DEF Found, Marked
<1>9. taken \subseteq pits
  BY <1>6, <1>7
<1>10. pits \subseteq waiting \cup taken
  BY <1>6, <1>7 DEF Taken
<1>11. InPit(0) \cap InPit(1) = {}
  BY <1>1 DEF Apart, InPit, Elements, Queues
<1>12. bat_bitmap \subseteq used
  BY <1>1, <1>3, Numbers DEF Marked
<1>13. bat_bitmap \cap pits = {}
  BY <1>6, <1>7
<1>14. used \subseteq bat_bitmap \cup pits
  BY <1>1, <1>3, <1>6 DEF Found
<1>15. \A s \in used \ waiting : skb[s] = "none"
  BY <1>1, <1>6, <1>7, <1>14 DEF Marked
<1>16. waiting \cup taken = pits
  BY <1>8, <1>9, <1>10
<1>17. bat_bitmap = used \ (waiting \cup taken)
  BY <1>12, <1>13, <1>14, <1>16
<1> HIDE DEF used, waiting, taken, pits
<1>18. waiting \cup taken = InPit(0) \cup InPit(1)
  BY <1>16 DEF pits
<1>19. QED
  BY <1>2, <1>5, <1>11, <1>15, <1>17, <1>18 DEF used, waiting, taken, Ahead

(* While nothing has upset the ring, the device owns empty buffers only,     *)
(* every used slot waits for its packet to be taken in one queue's PITs or   *)
(* is marked, nothing else is marked, and the indices of the host and of the *)
(* device agree: the poll of either queue, the release work and the device   *)
(* change the ring of t7xx_hif_dpmaif_rx.c under no common lock              *)
THEOREM BufferIntactHolds == Spec => []BufferIntact
BY BatInvIntact, BatInvariant, PTL
=============================================================================
