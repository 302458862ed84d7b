------------------------- MODULE CldmaRxOrderProofs -------------------------
(***************************************************************************)
(* CldmaRx implements ReceiveChannel, for every length of the ring and of  *)
(* the port's list and every bound.  No message is in two places, whatever *)
(* happens; and while the promise of order holds, the messages from        *)
(* tr_done to where the device stands, those in the port's list and the    *)
(* one that is handled are in the order in which the modem wrote them.     *)
(***************************************************************************)
EXTENDS CldmaRxProofs

(* The work item has handed over what is in request i *)
Handed(i) == workPc = "advance" /\ i = req

Listed(k) == rx_skb_list[k]

(* No message is in two places *)
Unique ==
    /\ \A i \in Slots : data[i] <= written
    /\ \A i, j \in Slots : i # j /\ data[i] # NoMsg => data[i] # data[j]
    /\ \A m \in AtPort : m \in 1 .. written /\ m \notin Strays
    /\ \A i \in Slots : ~Handed(i) => data[i] \notin AtPort
    /\ \A k, l \in DOMAIN rx_skb_list : k # l => Listed(k) # Listed(l)
    /\ thread = "handle" => \A k \in DOMAIN rx_skb_list : Listed(k) # message

(* In the ring *)
RingOrder ==
    tr_done # NULL =>
        \A i, j \in Slots :
            data[i] # NoMsg /\ data[j] # NoMsg /\ Dist(tr_done, i) < Dist(tr_done, j) => data[i] < data[j]

(* In the port, and between the port and the ring *)
PortOrder ==
    /\ \A k, l \in DOMAIN rx_skb_list : k < l => Listed(k) < Listed(l)
    /\ thread = "handle" => \A k \in DOMAIN rx_skb_list : message < Listed(k)
    /\ \A i \in Slots : data[i] # NoMsg /\ ~Handed(i) => \A m \in AtPort : m < data[i]

(* The device has written the requests from tr_done up to where it stands:   *)
(* all or none of them if it stands at tr_done                               *)
Behind ==
    \A i \in Slots :
        data[i] # NoMsg <=> \/ Dist(tr_done, i) < Dist(tr_done, hwCur)
                            \/ hwCur = tr_done /\ data[tr_done] # NoMsg

Empty == \A i \in Slots : data[i] = NoMsg

OrderInv ==
    /\ Unique
    /\ ctl = "ports" => AtPort = {} /\ thread # "handle"
    /\ orderly => /\ RingOrder /\ PortOrder
                  /\ rxq_active => Behind
                  /\ ctl \in {"init", "ex_reset", "asleep"} => Empty
-----------------------------------------------------------------------------
(* Distances, lists and places                                               *)

LEMMA Distances ==
    ASSUME NEW t \in Slots, NEW i \in Slots
    PROVE  /\ Dist(t, i) \in 0 .. N - 1
           /\ Dist(t, i) = 0 <=> i = t
           /\ Dist(t, i) < N - 1 => Dist(t, Succ(i)) = Dist(t, i) + 1 /\ Succ(i) # t
           /\ Dist(t, i) = N - 1 => Succ(i) = t
           /\ i # t => Dist(Succ(t), i) = Dist(t, i) - 1
           /\ i = t => Dist(Succ(t), i) = N - 1
           /\ \A j \in Slots : Dist(t, i) = Dist(t, j) => i = j
BY RxRingAssumption DEF Dist, Slots, Succ

LEMMA Listing ==
    ASSUME PortTypeOK
    PROVE  /\ rx_skb_list \in Seq(Nat \ {NoMsg})
           /\ DOMAIN rx_skb_list = 1 .. Len(rx_skb_list) /\ Len(rx_skb_list) \in Nat
           /\ \A k \in DOMAIN rx_skb_list : Listed(k) \in Nat \ {NoMsg} /\ Listed(k) \in AtPort
           /\ \A m \in AtPort : (\E k \in DOMAIN rx_skb_list : m = Listed(k)) \/ (thread = "handle" /\ m = message)
           /\ thread = "handle" => message \in AtPort
BY DEF PortTypeOK, AtPort, Listed

(* A message is appended to the list *)
LEMMA Appending ==
    ASSUME PortTypeOK, NEW p \in Nat \ {NoMsg}, rx_skb_list' = Append(rx_skb_list, p), UNCHANGED <<thread, message>>
    PROVE  /\ DOMAIN rx_skb_list' = 1 .. Len(rx_skb_list) + 1
           /\ \A k \in DOMAIN rx_skb_list : Listed(k)' = Listed(k) /\ k \in DOMAIN rx_skb_list'
           /\ \A k : k = Len(rx_skb_list) + 1 => Listed(k)' = p
           /\ AtPort' = AtPort \cup {p}
<1>1. rx_skb_list \in Seq(Nat \ {NoMsg}) /\ Len(rx_skb_list) \in Nat /\ DOMAIN rx_skb_list = 1 .. Len(rx_skb_list)
  BY Listing
<1>2. /\ DOMAIN rx_skb_list' = 1 .. Len(rx_skb_list) + 1
      /\ \A k \in 1 .. Len(rx_skb_list) : rx_skb_list'[k] = rx_skb_list[k]
      /\ rx_skb_list'[Len(rx_skb_list) + 1] = p
  BY <1>1
<1>3. {rx_skb_list'[k] : k \in DOMAIN rx_skb_list'} = {rx_skb_list[k] : k \in DOMAIN rx_skb_list} \cup {p}
  BY <1>1, <1>2
<1>4. AtPort' = AtPort \cup {p}
  BY <1>3 DEF AtPort
<1>5. QED
  BY <1>1, <1>2, <1>4 DEF Listed

(* The thread takes the first message *)
LEMMA Taking ==
    ASSUME PortTypeOK, ThreadTakes
    PROVE  /\ AtPort' = AtPort /\ message' = Listed(1) /\ 1 \in DOMAIN rx_skb_list
           /\ \A k \in DOMAIN rx_skb_list' : Listed(k)' = Listed(k + 1) /\ k + 1 \in DOMAIN rx_skb_list /\ k \in Nat /\ k > 0
<1>1. /\ rx_skb_list \in Seq(Nat \ {NoMsg}) /\ Len(rx_skb_list) \in Nat /\ DOMAIN rx_skb_list = 1 .. Len(rx_skb_list)
      /\ rx_skb_list # <<>> /\ rx_skb_list' = Tail(rx_skb_list) /\ message' = Head(rx_skb_list)
      /\ thread = "wait" /\ thread' = "handle"
  BY Listing DEF ThreadTakes
<1>2. /\ Len(rx_skb_list) > 0 /\ DOMAIN rx_skb_list' = 1 .. Len(rx_skb_list) - 1
      /\ \A k \in 1 .. Len(rx_skb_list) - 1 : rx_skb_list'[k] = rx_skb_list[k + 1]
      /\ message' = rx_skb_list[1]
  BY <1>1
<1>3. {rx_skb_list'[k] : k \in DOMAIN rx_skb_list'} \cup {message'} = {rx_skb_list[k] : k \in DOMAIN rx_skb_list}
  <2>1. ASSUME NEW k \in 1 .. Len(rx_skb_list), k # 1
        PROVE  k - 1 \in DOMAIN rx_skb_list' /\ rx_skb_list'[k - 1] = rx_skb_list[k]
    BY <1>1, <1>2, <2>1
  <2>2. ASSUME NEW k \in 1 .. Len(rx_skb_list) - 1
        PROVE  k + 1 \in 1 .. Len(rx_skb_list) /\ rx_skb_list'[k] = rx_skb_list[k + 1]
    BY <1>1, <1>2
  <2>3. 1 \in 1 .. Len(rx_skb_list)
    BY <1>1, <1>2
  <2> DEFINE before == {rx_skb_list[k] : k \in DOMAIN rx_skb_list}
             after  == {rx_skb_list'[k] : k \in DOMAIN rx_skb_list'}
  <2>4. ASSUME NEW m \in after \cup {message'} PROVE m \in before
    <3>1. CASE m = message'
      BY <1>1, <1>2, <2>3, <3>1
    <3>2. CASE m \in after
      <4>1. PICK k \in DOMAIN rx_skb_list' : m = rx_skb_list'[k]
        BY <3>2
      <4>2. k + 1 \in DOMAIN rx_skb_list /\ m = rx_skb_list[k + 1]
        BY <1>1, <1>2, <2>2, <4>1
      <4>3. QED
        BY <4>2
    <3>3. QED
      BY <2>4, <3>1, <3>2
  <2>5. ASSUME NEW m \in before PROVE m \in after \cup {message'}
    <3>1. PICK k \in DOMAIN rx_skb_list : m = rx_skb_list[k]
      BY <2>5
    <3>2. CASE k = 1
      BY <1>2, <3>1, <3>2
    <3>3. CASE k # 1
      BY <1>1, <2>1, <3>1, <3>3
    <3>4. QED
      BY <3>2, <3>3
  <2>6. QED
    BY <2>4, <2>5
<1>4. AtPort' = AtPort
  BY <1>1, <1>3 DEF AtPort
<1>5. QED
  BY <1>1, <1>2, <1>4 DEF Listed

(* The list is emptied, or the port left alone *)
LEMMA Emptied ==
    ASSUME PortTypeOK, rx_skb_list' = <<>>, thread' # "handle"
    PROVE  DOMAIN rx_skb_list' = {} /\ AtPort' = {}
BY DEF AtPort

LEMMA PortSame ==
    ASSUME UNCHANGED <<rx_skb_list, thread, message>>
    PROVE  AtPort' = AtPort /\ \A k : Listed(k)' = Listed(k)
BY DEF AtPort, Listed
-----------------------------------------------------------------------------
(* The device writes a message                                               *)
LEMMA WriteOrder ==
    ASSUME RxInv, OrderInv, HwWrite
    PROVE  OrderInv'
<1>1. /\ PortTypeOK /\ data \in [Slots -> Nat] /\ hwo \in [Slots -> BOOLEAN] /\ written \in Nat /\ N \in Nat
      /\ hwCur \in Slots /\ hwo[hwCur] /\ rxq_active /\ tr_done \in Slots
      /\ ctl \in {"up", "exit_join", "exit_ports"}
  BY RxBoundAssumption, RxRingAssumption
     DEF RxInv, TypeOK, RingTypeOK, DeviceTypeOK, ThreadTypeOK, Placed, HwWrite
<1>2. /\ data' = [data EXCEPT ![hwCur] = written + 1] /\ written' = written + 1 /\ hwCur' = Succ(hwCur)
      /\ UNCHANGED <<tr_done, rx_skb_list, thread, message, workPc, req, rxq_active, ctl, orderly>>
  BY DEF HwWrite, portVars, workVars
<1>3. AtPort' = AtPort /\ DOMAIN rx_skb_list' = DOMAIN rx_skb_list /\ \A k : Listed(k)' = Listed(k)
  BY <1>2, PortSame
<1>4. /\ data'[hwCur] = written + 1 /\ \A i \in Slots : i # hwCur => data'[i] = data[i]
      /\ \A i \in Slots : Handed(i)' = Handed(i)
  BY <1>1, <1>2 DEF Handed
<1>5. Unique'
  <2>1. /\ \A i \in Slots : data[i] <= written /\ data[i] \in Nat
        /\ \A i, j \in Slots : i # j /\ data[i] # NoMsg => data[i] # data[j]
        /\ \A m \in AtPort : m \in 1 .. written /\ m \notin Strays
        /\ \A i \in Slots : ~Handed(i) => data[i] \notin AtPort
    BY <1>1 DEF OrderInv, Unique
  <2>2. \A i \in Slots : data'[i] <= written'
    BY <1>1, <1>2, <1>4, <2>1
  <2>3. ASSUME NEW i \in Slots, NEW j \in Slots, i # j, data'[i] # NoMsg PROVE data'[i] # data'[j]
    BY <1>1, <1>4, <2>1, <2>3
  <2>4. \A m \in AtPort' : m \in 1 .. written' /\ m \notin Strays
    BY <1>1, <1>2, <1>3, <2>1
  <2>5. ASSUME NEW i \in Slots, ~Handed(i)' PROVE data'[i] \notin AtPort'
    BY <1>1, <1>3, <1>4, <2>1, <2>5
  <2>6. QED
    BY <1>2, <1>3, <2>2, <2>3, <2>4, <2>5 DEF OrderInv, Unique
<1>6. ASSUME orderly PROVE RingOrder' /\ PortOrder' /\ Behind'
  <2>1. RingOrder /\ PortOrder /\ Behind /\ tr_done # NULL /\ data[hwCur] = NoMsg
    BY <1>1, <1>6, NullSlot DEF OrderInv, RxInv, RingIntact
  <2>2. \A i \in Slots : data[i] # NoMsg <=> Dist(tr_done, i) < Dist(tr_done, hwCur)
    BY <1>1, <2>1 DEF Behind
  <2>3. \A i \in Slots : data[i] <= written /\ data[i] \in Nat
    BY <1>1 DEF OrderInv, Unique
  <2>4. ASSUME NEW i \in Slots, NEW j \in Slots, data'[i] # NoMsg, data'[j] # NoMsg,
               Dist(tr_done, i) < Dist(tr_done, j)
        PROVE  data'[i] < data'[j]
    <3>0. Dist(tr_done, i) \in 0 .. N - 1 /\ Dist(tr_done, j) \in 0 .. N - 1
      BY <1>1, Distances
    <3>1. CASE i = hwCur
      <4>1. j # hwCur /\ data[j] # NoMsg
        BY <1>1, <1>4, <2>4, <3>0, <3>1
      <4>2. Dist(tr_done, j) < Dist(tr_done, i)
        BY <2>2, <3>1, <4>1
      <4>3. QED
        BY <1>1, <2>4, <3>0, <4>2
    <3>2. CASE i # hwCur /\ j = hwCur
      BY <1>1, <1>4, <2>3, <3>2
    <3>3. CASE i # hwCur /\ j # hwCur
      BY <1>1, <1>4, <2>1, <2>4, <3>3 DEF RingOrder
    <3>4. QED
      BY <3>1, <3>2, <3>3
  <2>5. PortOrder'
    <3>1. ASSUME NEW i \in Slots, data'[i] # NoMsg, ~Handed(i)', NEW m \in AtPort PROVE m < data'[i]
      <4>1. m \in 1 .. written
        BY DEF OrderInv, Unique
      <4>2. QED
        BY <1>1, <1>4, <2>1, <3>1, <4>1 DEF PortOrder
    <3>2. QED
      BY <1>2, <1>3, <2>1, <3>1 DEF PortOrder
  <2>6. Behind'
    <3>1. ASSUME NEW i \in Slots PROVE data'[i] # NoMsg <=> Dist(tr_done, i) <= Dist(tr_done, hwCur)
      <4>1. /\ Dist(tr_done, i) \in 0 .. N - 1 /\ Dist(tr_done, hwCur) \in 0 .. N - 1
            /\ Dist(tr_done, i) = Dist(tr_done, hwCur) => i = hwCur
        BY <1>1, Distances
      <4>2. QED
        BY <1>1, <1>4, <2>2, <4>1 DEF NoMsg
    <3>2. CASE Dist(tr_done, hwCur) < N - 1
      <4>1. PICK n \in Slots : n = Succ(hwCur)
        BY <1>1, SuccSlot
      <4>2. Dist(tr_done, n) = Dist(tr_done, hwCur) + 1 /\ n # tr_done
        BY <1>1, <3>2, <4>1, Distances
      <4>3. \A i \in Slots : data'[i] # NoMsg <=> Dist(tr_done, i) < Dist(tr_done, n)
        BY <1>1, <3>1, <4>2, Distances
      <4>4. QED
        BY <1>2, <4>1, <4>2, <4>3 DEF Behind, Dist
    <3>3. CASE Dist(tr_done, hwCur) = N - 1
      <4>1. hwCur' = tr_done' /\ tr_done' = tr_done
        BY <1>1, <1>2, <3>3, Distances
      <4>2. \A i \in Slots : data'[i] # NoMsg
        BY <1>1, <3>1, <3>3, Distances
      <4>3. QED
        BY <1>1, <4>1, <4>2 DEF Behind
    <3>4. QED
      BY <1>1, <3>2, <3>3, Distances
  <2>7. QED
    BY <1>2, <2>4, <2>5, <2>6 DEF RingOrder, Dist
<1>7. QED
  BY <1>1, <1>2, <1>5, <1>6 DEF OrderInv
-----------------------------------------------------------------------------
(* The work item                                                             *)

(* It hands a message over, or the port refuses it *)
LEMMA TakeOrder ==
    ASSUME RxInv, OrderInv, WorkTake
    PROVE  OrderInv'
<1> DEFINE p == data[tr_done]
<1>1. /\ PortTypeOK /\ data \in [Slots -> Nat] /\ written \in Nat
      /\ tr_done \in Slots /\ p \in Nat \ {NoMsg} /\ ctl \notin {"down", "join", "ports"}
      /\ workPc = "take" /\ \A i \in Slots : ~Handed(i)
  BY RxBoundAssumption
     DEF RxInv, TypeOK, RingTypeOK, ThreadTypeOK, Placed, WorkTake, Written, Filled, NoMsg, Handed
<1>2. UNCHANGED <<data, written, tr_done, hwCur, rxq_active, ctl, orderly, thread, message>>
  BY DEF WorkTake, NotWork, ringVars, hwVars, portVars, t7xx_port_proxy_recv_skb, t7xx_port_enqueue_skb
<1>3. RingOrder' = RingOrder /\ Behind' = Behind /\ Empty' = Empty
  BY <1>2 DEF RingOrder, Behind, Empty, Dist
<1>4. /\ \A i \in Slots : data[i] <= written /\ data[i] \in Nat
      /\ \A i, j \in Slots : i # j /\ data[i] # NoMsg => data[i] # data[j]
      /\ \A m \in AtPort : m \in 1 .. written /\ m \notin Strays
      /\ \A i \in Slots : data[i] \notin AtPort
      /\ p \in 1 .. written
  BY <1>1 DEF OrderInv, Unique, NoMsg
<1>5. CASE UNCHANGED portVars
  <2>1. AtPort' = AtPort /\ DOMAIN rx_skb_list' = DOMAIN rx_skb_list /\ \A k : Listed(k)' = Listed(k)
    BY <1>5, PortSame DEF portVars
  <2>2. Unique'
    BY <1>1, <1>2, <1>4, <2>1 DEF OrderInv, Unique
  <2>3. PortOrder => PortOrder'
    BY <1>1, <1>2, <2>1 DEF PortOrder
  <2>4. QED
    BY <1>1, <1>2, <1>3, <2>2, <2>3 DEF OrderInv
<1>6. CASE t7xx_port_enqueue_skb(p) /\ p \notin Strays /\ req' = tr_done /\ workPc' = "advance"
  <2>1. rx_skb_list' = Append(rx_skb_list, p)
    BY <1>6 DEF t7xx_port_enqueue_skb
  <2>2. /\ DOMAIN rx_skb_list' = 1 .. Len(rx_skb_list) + 1
        /\ \A k \in DOMAIN rx_skb_list : Listed(k)' = Listed(k) /\ k \in DOMAIN rx_skb_list'
        /\ \A k : k = Len(rx_skb_list) + 1 => Listed(k)' = p
        /\ AtPort' = AtPort \cup {p}
        /\ DOMAIN rx_skb_list = 1 .. Len(rx_skb_list) /\ Len(rx_skb_list) \in Nat
        /\ \A k \in DOMAIN rx_skb_list : Listed(k) \in AtPort
        /\ thread = "handle" => message \in AtPort
    BY <1>1, <1>2, <2>1, Appending, Listing
  <2>3. \A k \in DOMAIN rx_skb_list' : \/ k \in DOMAIN rx_skb_list /\ Listed(k)' = Listed(k)
                                       \/ k = Len(rx_skb_list) + 1 /\ Listed(k)' = p
    BY <2>2
  <2>4. \A i \in Slots : Handed(i)' <=> i = tr_done
    BY <1>6 DEF Handed
  <2>5. p \notin AtPort
    BY <1>1, <1>4
  <2>6. Unique'
    <3>1. \A m \in AtPort' : m \in 1 .. written' /\ m \notin Strays
      BY <1>2, <1>4, <1>6, <2>2
    <3>2. ASSUME NEW i \in Slots, ~Handed(i)' PROVE data'[i] \notin AtPort'
      <4>1. i # tr_done /\ data'[i] = data[i] /\ data[i] \notin AtPort /\ data[i] # p
        BY <1>1, <1>2, <1>4, <2>4, <3>2
      <4>2. QED
        BY <2>2, <4>1
    <3>3. ASSUME NEW k \in DOMAIN rx_skb_list', NEW l \in DOMAIN rx_skb_list', k # l PROVE Listed(k)' # Listed(l)'
      BY <2>2, <2>3, <2>5, <3>3 DEF OrderInv, Unique
    <3>4. thread' = "handle" => \A k \in DOMAIN rx_skb_list' : Listed(k)' # message'
      BY <1>2, <2>2, <2>3, <2>5 DEF OrderInv, Unique
    <3>5. QED
      BY <1>2, <1>4, <3>1, <3>2, <3>3, <3>4 DEF Unique
  <2>7. ASSUME orderly PROVE PortOrder'
    <3>1. /\ RingOrder /\ PortOrder /\ tr_done # NULL
          /\ \A m \in AtPort : m < p
      BY <1>1, <2>7, NullSlot DEF OrderInv, PortOrder
    <3>2. ASSUME NEW k \in DOMAIN rx_skb_list', NEW l \in DOMAIN rx_skb_list', k < l PROVE Listed(k)' < Listed(l)'
      <4>1. k \in DOMAIN rx_skb_list
        BY <2>2, <3>2
      <4>2. QED
        BY <2>2, <2>3, <3>1, <3>2, <4>1 DEF PortOrder
    <3>3. thread' = "handle" => \A k \in DOMAIN rx_skb_list' : message' < Listed(k)'
      BY <1>2, <2>2, <2>3, <3>1 DEF PortOrder
    <3>4. ASSUME NEW i \in Slots, data'[i] # NoMsg, ~Handed(i)', NEW m \in AtPort' PROVE m < data'[i]
      <4>1. i # tr_done /\ data'[i] = data[i] /\ data[i] # NoMsg
        BY <1>2, <2>4, <3>4
      <4>2. Dist(tr_done, tr_done) < Dist(tr_done, i)
        <5>1. /\ Dist(tr_done, tr_done) = 0 /\ Dist(tr_done, i) # 0 /\ Dist(tr_done, i) \in 0 .. N - 1
          BY <1>1, <4>1, Distances
        <5>2. QED
          BY <5>1
      <4>3. p < data[i]
        BY <1>1, <3>1, <4>1, <4>2 DEF RingOrder
      <4>4. m \in AtPort \/ m = p
        BY <2>2
      <4>5. QED
        BY <1>1, <3>1, <4>1, <4>3, <4>4 DEF PortOrder
    <3>5. QED
      BY <3>2, <3>3, <3>4 DEF PortOrder
  <2>8. QED
    BY <1>1, <1>2, <1>3, <2>6, <2>7 DEF OrderInv
<1>7. UNCHANGED portVars \/ (t7xx_port_enqueue_skb(p) /\ p \notin Strays /\ req' = tr_done /\ workPc' = "advance")
  <2>1. CASE t7xx_port_proxy_recv_skb(p) /\ req' = tr_done /\ workPc' = "advance"
    BY <2>1 DEF t7xx_port_proxy_recv_skb
  <2>2. CASE UNCHANGED <<portVars, req>>
    BY <2>2
  <2>3. QED
    BY <2>1, <2>2 DEF WorkTake, Goes
<1>8. QED
  BY <1>5, <1>6, <1>7

(* It goes on to the next request *)
LEMMA AdvanceOrder ==
    ASSUME RxInv, OrderInv, WorkAdvance
    PROVE  OrderInv'
<1>1. /\ data \in [Slots -> Nat] /\ N \in Nat /\ N > 0 /\ workPc = "advance" /\ req \in Slots
      /\ tr_done \in Slots /\ ctl \notin {"down", "join", "ports"} /\ tr_done # NULL
  BY RxBoundAssumption, RxRingAssumption
     DEF RxInv, TypeOK, RingTypeOK, WorkTypeOK, Midway, Placed, WorkAdvance
<1>2. /\ data' = [data EXCEPT ![req] = NoMsg] /\ tr_done' = Succ(req) /\ workPc' = "refill"
      /\ UNCHANGED <<written, hwCur, rxq_active, ctl, orderly, rx_skb_list, thread, message>>
  BY DEF WorkAdvance, Goes, NotWork, hwVars, portVars
<1>3. AtPort' = AtPort /\ DOMAIN rx_skb_list' = DOMAIN rx_skb_list /\ \A k : Listed(k)' = Listed(k)
  BY <1>2, PortSame
<1>4. /\ \A i \in Slots : Handed(i) <=> i = req
      /\ \A i \in Slots : data'[i] = IF i = req THEN NoMsg ELSE data[i]
  BY <1>1, <1>2 DEF Handed
<1>5. Unique'
  <2>1. ASSUME NEW i \in Slots PROVE data'[i] \notin AtPort'
    <3>1. AtPort \subseteq 1 .. written
      BY DEF OrderInv, Unique
    <3>2. CASE i = req
      BY <1>3, <1>4, <3>1, <3>2 DEF NoMsg
    <3>3. CASE i # req
      BY <1>3, <1>4, <3>3 DEF OrderInv, Unique
    <3>4. QED
      BY <3>2, <3>3
  <2>2. \A i \in Slots : data'[i] <= written'
    BY <1>1, <1>2, <1>4 DEF OrderInv, Unique, NoMsg, RxInv, TypeOK, ThreadTypeOK
  <2>3. \A i, j \in Slots : i # j /\ data'[i] # NoMsg => data'[i] # data'[j]
    BY <1>4 DEF OrderInv, Unique
  <2>4. QED
    BY <1>2, <1>3, <2>1, <2>2, <2>3 DEF OrderInv, Unique
<1>6. Empty => Empty'
  BY <1>4 DEF Empty
<1>7. ASSUME orderly PROVE RingOrder' /\ PortOrder' /\ (rxq_active => Behind')
  <2>1. RingOrder /\ PortOrder /\ req = tr_done /\ data[tr_done] # NoMsg
    BY <1>1, <1>7 DEF OrderInv, RxInv, Midway, Filled
  <2>2. PICK t \in Slots : t = Succ(tr_done) /\ t = tr_done'
    BY <1>1, <1>2, <2>1, SuccSlot
  <2>3. /\ \A i \in Slots : Dist(tr_done, i) \in 0 .. N - 1 /\ (Dist(tr_done, i) = 0 <=> i = tr_done)
        /\ \A i \in Slots : i # tr_done => Dist(t, i) = Dist(tr_done, i) - 1
        /\ Dist(t, tr_done) = N - 1
    <3>1. \A i \in Slots : Dist(tr_done, i) \in 0 .. N - 1 /\ (Dist(tr_done, i) = 0 <=> i = tr_done)
      BY <1>1, Distances
    <3>2. \A i \in Slots : i # tr_done => Dist(Succ(tr_done), i) = Dist(tr_done, i) - 1
      BY <1>1, Distances
    <3>3. Dist(Succ(tr_done), tr_done) = N - 1
      BY <1>1, Distances
    <3>4. QED
      BY <2>2, <3>1, <3>2, <3>3
  <2>4. RingOrder'
    <3>1. ASSUME NEW i \in Slots, NEW j \in Slots, data'[i] # NoMsg, data'[j] # NoMsg, Dist(t, i) < Dist(t, j)
          PROVE  data'[i] < data'[j]
      <4>1. i # tr_done /\ j # tr_done /\ data'[i] = data[i] /\ data'[j] = data[j]
        BY <1>4, <2>1, <3>1
      <4>2. Dist(tr_done, i) < Dist(tr_done, j)
        BY <1>1, <2>3, <3>1, <4>1
      <4>3. QED
        BY <1>1, <2>1, <3>1, <4>1, <4>2 DEF RingOrder
    <3>2. QED
      BY <2>2, <3>1 DEF RingOrder, Dist
  <2>5. PortOrder'
    BY <1>2, <1>3, <1>4, <2>1 DEF PortOrder
  <2>6. ASSUME rxq_active PROVE Behind'
    <3>1. hwCur \in Slots /\ Behind
      BY <1>7, <2>6 DEF OrderInv, RxInv, TypeOK, DeviceTypeOK, Placed
    <3>2. ASSUME NEW i \in Slots
          PROVE  data'[i] # NoMsg <=> \/ Dist(t, i) < Dist(t, hwCur)
                                      \/ hwCur = t /\ data'[t] # NoMsg
      <4>1. data'[i] # NoMsg <=> i # tr_done /\ data[i] # NoMsg
        BY <1>4, <2>1
      <4>2. CASE hwCur = tr_done
        <5>1. data[i] # NoMsg
          BY <2>1, <3>1, <4>2 DEF Behind
        <5>2. Dist(t, i) < N - 1 <=> i # tr_done
          BY <1>1, <2>3
        <5>3. ~(hwCur = t /\ data'[t] # NoMsg)
          BY <1>4, <2>1, <4>2
        <5>4. QED
          BY <2>3, <4>1, <4>2, <5>1, <5>2, <5>3
      <4>3. CASE hwCur # tr_done
        <5>1. data[i] # NoMsg <=> Dist(tr_done, i) < Dist(tr_done, hwCur)
          BY <3>1, <4>3 DEF Behind
        <5>2. Dist(t, hwCur) = Dist(tr_done, hwCur) - 1
          BY <2>3, <3>1, <4>3
        <5>3. hwCur = t => data'[t] = NoMsg
          <6>1. SUFFICES ASSUME hwCur = t PROVE data[t] = NoMsg
            BY <1>4
          <6>2. ~(Dist(tr_done, t) < Dist(tr_done, hwCur))
            BY <2>3, <6>1
          <6>3. QED
            BY <3>1, <4>3, <6>2 DEF Behind
        <5>4. i # tr_done /\ Dist(tr_done, i) < Dist(tr_done, hwCur) <=> Dist(t, i) < Dist(t, hwCur)
          BY <1>1, <2>3, <3>1, <4>3, <5>2
        <5>5. QED
          BY <4>1, <5>1, <5>3, <5>4
      <4>4. QED
        BY <4>2, <4>3
    <3>3. QED
      BY <1>2, <2>2, <3>2 DEF Behind, Dist
  <2>7. QED
    BY <2>4, <2>5, <2>6
<1>8. QED
  BY <1>1, <1>2, <1>5, <1>6, <1>7 DEF OrderInv

(* Nothing that OrderInv speaks of changes *)
LEMMA OrderFrame ==
    ASSUME OrderInv, UNCHANGED <<data, written, tr_done, hwCur, rxq_active, ctl, orderly, rx_skb_list, thread, message>>,
           \A i \in Slots : Handed(i)' <=> Handed(i)
    PROVE  OrderInv'
<1>1. AtPort' = AtPort /\ \A k : Listed(k)' = Listed(k)
  BY PortSame
<1>2. Unique'
  BY <1>1 DEF OrderInv, Unique
<1>3. PortOrder => PortOrder'
  BY <1>1 DEF PortOrder
<1>4. RingOrder' = RingOrder /\ Behind' = Behind /\ Empty' = Empty
  BY DEF RingOrder, Behind, Empty, Dist
<1>5. QED
  BY <1>1, <1>2, <1>3, <1>4 DEF OrderInv

LEMMA WorkOrder ==
    ASSUME RxInv, OrderInv, Work
    PROVE  OrderInv'
<1>1. CASE WorkTake
  BY <1>1, TakeOrder
<1>2. CASE WorkAdvance
  BY <1>2, AdvanceOrder
<1>3. CASE ~WorkTake /\ ~WorkAdvance
  <2>1. UNCHANGED <<data, written, tr_done, rxq_active, ctl, orderly, portVars>>
    BY <1>3 DEF Work, WorkBegin, WorkNothing, WorkRefill, Refill, WorkStatus, WorkDecide, WorkEnd, NotWork, ringVars
  <2>2. workPc # "advance" /\ workPc' # "advance"
    BY <1>3 DEF Work, WorkBegin, WorkNothing, WorkRefill, WorkStatus, WorkDecide, WorkEnd, Goes
  <2>3. UNCHANGED hwCur
    BY <1>3 DEF Work, WorkBegin, WorkNothing, WorkRefill, WorkStatus, WorkDecide, WorkEnd, hwVars
  <2>4. QED
    BY <2>1, <2>2, <2>3, OrderFrame DEF Handed, portVars
<1>4. QED
  BY <1>1, <1>2, <1>3
-----------------------------------------------------------------------------
(* The port's thread                                                         *)
LEMMA PortThreadOrder ==
    ASSUME RxInv, OrderInv, PortThread
    PROVE  OrderInv'
<1>1. /\ PortTypeOK
      /\ UNCHANGED <<data, written, tr_done, hwCur, rxq_active, ctl, orderly, workPc, req>>
  BY DEF RxInv, TypeOK, PortThread, ringVars, workVars, hwVars, histVars
<1>2. RingOrder' = RingOrder /\ Behind' = Behind /\ Empty' = Empty /\ \A i \in Slots : Handed(i)' <=> Handed(i)
  BY <1>1 DEF RingOrder, Behind, Empty, Dist, Handed
<1>3. CASE ThreadTakes
  <2>1. /\ AtPort' = AtPort /\ message' = Listed(1) /\ 1 \in DOMAIN rx_skb_list
        /\ \A k \in DOMAIN rx_skb_list' : Listed(k)' = Listed(k + 1) /\ k + 1 \in DOMAIN rx_skb_list /\ k \in Nat /\ k > 0
    BY <1>1, <1>3, Taking
  <2>2. Unique'
    <3>1. ASSUME NEW k \in DOMAIN rx_skb_list', NEW l \in DOMAIN rx_skb_list', k # l PROVE Listed(k)' # Listed(l)'
      <4>1. k + 1 # l + 1
        BY <2>1, <3>1
      <4>2. QED
        BY <2>1, <3>1, <4>1 DEF OrderInv, Unique
    <3>2. ASSUME NEW k \in DOMAIN rx_skb_list' PROVE Listed(k)' # message'
      <4>1. k + 1 # 1
        BY <2>1
      <4>2. QED
        BY <2>1, <4>1 DEF OrderInv, Unique
    <3>3. QED
      BY <1>1, <1>2, <2>1, <3>1, <3>2 DEF OrderInv, Unique
  <2>3. ASSUME PortOrder PROVE PortOrder'
    <3>1. ASSUME NEW k \in DOMAIN rx_skb_list', NEW l \in DOMAIN rx_skb_list', k < l PROVE Listed(k)' < Listed(l)'
      <4>1. k + 1 < l + 1
        BY <2>1, <3>1
      <4>2. QED
        BY <2>1, <2>3, <3>1, <4>1 DEF PortOrder
    <3>2. ASSUME NEW k \in DOMAIN rx_skb_list' PROVE message' < Listed(k)'
      <4>1. 1 < k + 1
        BY <2>1
      <4>2. QED
        BY <2>1, <2>3, <4>1 DEF PortOrder
    <3>3. QED
      BY <1>1, <1>2, <2>1, <2>3, <3>1, <3>2 DEF PortOrder
  <2>4. ctl # "ports"
    BY <1>1, <2>1, Listing DEF OrderInv
  <2>5. QED
    BY <1>1, <1>2, <2>2, <2>3, <2>4 DEF OrderInv
<1>4. CASE control_msg_handler \/ ThreadStops
  <2>1. UNCHANGED rx_skb_list /\ thread' # "handle"
    BY <1>4 DEF control_msg_handler, ThreadStops
  <2>2. AtPort' \subseteq AtPort /\ DOMAIN rx_skb_list' = DOMAIN rx_skb_list /\ \A k : Listed(k)' = Listed(k)
    BY <2>1 DEF AtPort, Listed
  <2>3. Unique'
    BY <1>1, <1>2, <2>1, <2>2 DEF OrderInv, Unique
  <2>4. PortOrder => PortOrder'
    BY <1>1, <1>2, <2>1, <2>2 DEF PortOrder
  <2>5. QED
    BY <1>1, <1>2, <2>1, <2>2, <2>3, <2>4 DEF OrderInv
<1>5. QED
  BY <1>3, <1>4 DEF PortThread, Thread
-----------------------------------------------------------------------------
(* The controlling threads                                                   *)

(* They leave the port's messages and the ring's alone or drop them all *)
LEMMA UniqueKept ==
    ASSUME PortTypeOK, Unique, written \in Nat, UNCHANGED <<written, workPc, req>>,
           UNCHANGED data \/ Empty',
           UNCHANGED <<rx_skb_list, thread, message>> \/ (rx_skb_list' = <<>> /\ thread' # "handle")
    PROVE  Unique'
<1>1. \/ AtPort' = AtPort /\ DOMAIN rx_skb_list' = DOMAIN rx_skb_list /\ \A k : Listed(k)' = Listed(k)
      \/ AtPort' = {} /\ DOMAIN rx_skb_list' = {}
  BY PortSame, Emptied
<1>2. thread' = "handle" => thread = "handle" /\ AtPort' = AtPort /\ message' = message
                            /\ DOMAIN rx_skb_list' = DOMAIN rx_skb_list /\ \A k : Listed(k)' = Listed(k)
  BY PortSame
<1>3. AtPort' \subseteq AtPort /\ AtPort \subseteq 1 .. written
  BY <1>1 DEF Unique
<1>4. \A i \in Slots : Handed(i)' <=> Handed(i)
  BY DEF Handed
<1>5. \A i \in Slots : data'[i] = data[i] \/ data'[i] = NoMsg
  BY DEF Empty
<1>6. /\ \A i \in Slots : data'[i] <= written'
      /\ \A i, j \in Slots : i # j /\ data'[i] # NoMsg => data'[i] # data'[j]
  BY <1>5 DEF Unique, Empty, NoMsg
<1>7. \A i \in Slots : ~Handed(i)' => data'[i] \notin AtPort'
  <2>1. NoMsg \notin AtPort'
    BY <1>3 DEF NoMsg
  <2>2. QED
    BY <1>3, <1>4, <1>5, <2>1 DEF Unique
<1>8. QED
  BY <1>1, <1>2, <1>3, <1>6, <1>7 DEF Unique

LEMMA PortOrderKept ==
    ASSUME PortTypeOK, PortOrder, UNCHANGED <<workPc, req>>,
           UNCHANGED data \/ Empty',
           UNCHANGED <<rx_skb_list, thread, message>> \/ (rx_skb_list' = <<>> /\ thread' # "handle")
    PROVE  PortOrder'
<1>1. \A i \in Slots : Handed(i)' <=> Handed(i)
  BY DEF Handed
<1>2. CASE UNCHANGED <<rx_skb_list, thread, message>>
  BY <1>1, <1>2, PortSame DEF PortOrder, Empty
<1>3. CASE rx_skb_list' = <<>> /\ thread' # "handle"
  BY <1>3, Emptied DEF PortOrder
<1>4. QED
  BY <1>2, <1>3

LEMMA ControlOrder ==
    ASSUME RxInv, OrderInv, Control
    PROVE  OrderInv'
<1> USE DEF Control, t7xx_port_proxy_set_cfg, t7xx_proxy_init_all_ports, t7xx_cldma_switch_cfg, Start, StartRx, HwContinue,
        ExStopRx, t7xx_cldma_stop, Flushed, ExClearRx, ResetBegin, ResetQueue, t7xx_cldma_suspend_late,
        t7xx_cldma_resume_early, ExitBegin, ExitPurges, NotControl
<1>1. PortTypeOK /\ Placed /\ written \in Nat /\ N \in Nat /\ N > 0 /\ UNCHANGED <<workPc, req, written>>
  BY RxBoundAssumption, RxRingAssumption DEF RxInv, TypeOK, ThreadTypeOK
<1>2. UNCHANGED <<rx_skb_list, thread, message>> \/ (rx_skb_list' = <<>> /\ thread' # "handle")
  <2>1. UNCHANGED portVars \/ UninitStops \/ UninitPurges \/ port_ctl_init
    OBVIOUS
  <2>2. QED
    BY <2>1 DEF portVars, UninitStops, UninitPurges, port_ctl_init
<1>3. UNCHANGED data \/ Empty'
  BY DEF Empty, ringVars, NoRing, t7xx_cldma_rx_ring_init, t7xx_cldma_clear_rxq, ClearFails
<1>4. Unique'
  BY <1>1, <1>2, <1>3, UniqueKept DEF OrderInv
<1>5. PortOrder => PortOrder'
  BY <1>1, <1>2, <1>3, PortOrderKept
<1>6. ctl' = "ports" => AtPort' = {} /\ thread' # "handle"
  <2>1. CASE t7xx_proxy_init_all_ports
    BY <1>1, <2>1, Emptied DEF port_ctl_init
  <2>2. CASE ~t7xx_proxy_init_all_ports
    BY <2>2
  <2>3. QED
    BY <2>1, <2>2
<1>7. Empty' => RingOrder'
  BY DEF Empty, RingOrder
<1>8. CASE t7xx_cldma_switch_cfg
  <2>1. AtPort' = AtPort /\ thread' # "handle" /\ AtPort = {} /\ UNCHANGED <<rx_skb_list, thread, message>>
    BY <1>8, PortSame DEF OrderInv, portVars
  <2>2. DOMAIN rx_skb_list' = {}
    BY <1>1, <2>1, Listing
  <2>3. Empty' /\ PortOrder'
    BY <1>8, <2>1, <2>2 DEF Empty, PortOrder, t7xx_cldma_rx_ring_init
  <2>4. ~rxq_active'
    BY <1>1, <1>8 DEF Placed
  <2>5. QED
    BY <1>4, <1>6, <1>7, <2>3, <2>4 DEF OrderInv
<1>9. CASE ExClearRx
  <2>1. Empty' /\ ~rxq_active' /\ (orderly' => orderly)
    BY <1>1, <1>9 DEF Placed, Empty, t7xx_cldma_rx_ring_init, t7xx_cldma_clear_rxq, ClearFails
  <2>2. QED
    BY <1>4, <1>5, <1>6, <1>7, <2>1 DEF OrderInv
<1>10. CASE ResetQueue
  <2>1. ~rxq_active' /\ Empty' /\ UNCHANGED orderly /\ ctl' = "down"
    BY <1>1, <1>10 DEF Placed, Empty, NoRing
  <2>2. QED
    BY <1>4, <1>5, <1>6, <1>7, <2>1 DEF OrderInv
<1>11. CASE Start \/ t7xx_cldma_resume_early
  <2>1. UNCHANGED <<data, tr_done, orderly>> /\ hwCur' = tr_done /\ ctl \in {"init", "ex_reset", "asleep"} /\ ctl' = "up"
    BY <1>11 DEF ringVars
  <2>2. tr_done \in Slots
    BY <1>1, <2>1 DEF RxInv, TypeOK, RingTypeOK, Placed
  <2>3. ASSUME orderly PROVE Behind'
    <3>1. Empty
      BY <2>1, <2>3 DEF OrderInv
    <3>2. \A i \in Slots : Dist(tr_done, i) \in 0 .. N - 1 /\ Dist(tr_done, tr_done) = 0
      BY <2>2, Distances
    <3>3. QED
      BY <1>1, <2>1, <2>2, <3>1, <3>2 DEF Empty, Behind, Dist
  <2>4. RingOrder => RingOrder'
    BY <2>1 DEF RingOrder, Dist
  <2>5. QED
    BY <1>4, <1>5, <2>1, <2>3, <2>4 DEF OrderInv
<1>12. CASE t7xx_cldma_suspend_late
  <2>1. UNCHANGED <<data, tr_done>> /\ ~rxq_active' /\ ctl' = "asleep"
        /\ (orderly' => orderly /\ InRing = {} /\ workPc # "advance")
    BY <1>12 DEF ringVars
  <2>2. orderly' => Empty'
    BY <2>1 DEF InRing, Empty
  <2>3. QED
    BY <1>4, <1>5, <1>7, <2>1, <2>2 DEF OrderInv
<1>13. CASE Flushed
  <2>1. CASE ctl' = "gone"
    BY <1>4, <1>6, <1>13, <2>1 DEF OrderInv
  <2>2. CASE ctl' # "gone"
    <3>1. UNCHANGED <<data, tr_done, hwCur, rxq_active, orderly>> /\ ctl' \in {"ex_clear", "stopped"}
      BY <1>13, <2>2 DEF ringVars, hwVars
    <3>2. (RingOrder => RingOrder') /\ (Behind => Behind')
      BY <3>1 DEF RingOrder, Behind, Dist
    <3>3. QED
      BY <1>4, <1>5, <3>1, <3>2 DEF OrderInv
  <2>3. QED
    BY <2>1, <2>2
<1>14. CASE \/ t7xx_port_proxy_set_cfg \/ t7xx_proxy_init_all_ports \/ ExStopRx \/ t7xx_cldma_stop \/ ResetBegin
            \/ ExitBegin \/ ExitPurges
  <2>1. UNCHANGED <<data, tr_done, orderly, hwCur>> /\ ctl' \notin {"init", "ex_reset", "asleep"}
    BY <1>14 DEF ringVars, hwVars
  <2>2. rxq_active' => rxq_active
    BY <1>14
  <2>3. (RingOrder => RingOrder') /\ (Behind => Behind')
    BY <2>1 DEF RingOrder, Behind, Dist
  <2>4. QED
    BY <1>4, <1>5, <1>6, <2>1, <2>2, <2>3 DEF OrderInv
<1>15. QED
  BY <1>8, <1>9, <1>10, <1>11, <1>12, <1>13, <1>14
-----------------------------------------------------------------------------
LEMMA OrderInit == Init => OrderInv
<1> SUFFICES ASSUME Init PROVE OrderInv
  OBVIOUS
<1>1. DOMAIN rx_skb_list = {} /\ AtPort = {}
  BY DEF Init, PortInit, AtPort
<1>2. QED
  BY <1>1 DEF Init, PortInit, OrderInv, Unique, RingOrder, PortOrder, NoMsg

(* OrderInv is inductive, given RxInv *)
LEMMA OrderStep == RxInv /\ OrderInv /\ [Next]_vars => OrderInv'
<1> SUFFICES ASSUME RxInv, OrderInv, [Next]_vars PROVE OrderInv'
  OBVIOUS
<1>1. CASE UNCHANGED vars
  BY <1>1, OrderFrame DEF vars, Handed, portVars, ringVars, workVars, hwVars, histVars
<1>2. CASE t7xx_cldma_irq_work_cb \/ IsrEnd
  <2>1. UNCHANGED <<portVars, ringVars, workPc, req, rxq_active, hwCur, ctl, histVars>>
    BY <1>2 DEF t7xx_cldma_irq_work_cb, IsrEnd, workVars, hwVars
  <2>2. QED
    BY <2>1, OrderFrame DEF Handed, portVars, ringVars, histVars
<1>3. CASE HwWrite \/ Work \/ Control \/ PortThread
  BY <1>3, WriteOrder, WorkOrder, ControlOrder, PortThreadOrder
<1>4. QED
  BY <1>1, <1>2, <1>3 DEF Next

LEMMA InvHolds == Spec => [](RxInv /\ OrderInv)
BY RxInit, RxStep, OrderInit, OrderStep, PTL DEF Spec
-----------------------------------------------------------------------------
(* The steps of the channel                                                  *)

UnderWay == (InRing \cup AtPort) \ Strays

(* A message between the ring and the port is in one of them *)
LEMMA Ring ==
    /\ \A i \in Slots : data[i] # NoMsg /\ ~Handed(i) => data[i] \in InRing
    /\ \A m \in InRing : m # NoMsg /\ \E i \in Slots : m = data[i] /\ ~Handed(i)
BY DEF InRing, Handed

LEMMA RingSame ==
    ASSUME UNCHANGED data, \A i \in Slots : Handed(i)' <=> Handed(i)
    PROVE  InRing' = InRing
BY DEF InRing, Handed

LEMMA RingCleared == ASSUME Empty' PROVE InRing' = {}
BY DEF InRing, Empty

(* The device writes a message *)
LEMMA Writing == ASSUME RxInv, OrderInv, HwWrite PROVE Channel!Next
<1>1. /\ data \in [Slots -> Nat] /\ hwo \in [Slots -> BOOLEAN] /\ written \in Nat
      /\ hwCur \in Slots /\ hwo[hwCur] /\ tr_done # NULL
  BY RxBoundAssumption DEF RxInv, TypeOK, RingTypeOK, DeviceTypeOK, ThreadTypeOK, Placed, HwWrite
<1>2. /\ data' = [data EXCEPT ![hwCur] = written + 1] /\ written' = written + 1
      /\ UNCHANGED <<rx_skb_list, thread, message, workPc, req, ctl, orderly>>
  BY DEF HwWrite, portVars, workVars
<1>3. AtPort' = AtPort /\ (\A i \in Slots : Handed(i)' <=> Handed(i)) /\ Open' = Open
  BY <1>2, PortSame DEF Handed, Open
<1>4. data'[hwCur] = written' /\ written' # NoMsg /\ \A i \in Slots : i # hwCur => data'[i] = data[i]
  BY <1>1, <1>2 DEF NoMsg
<1>5. InRing' \subseteq InRing \cup {written'}
  <2>1. ASSUME NEW i \in Slots, data'[i] # NoMsg, ~Handed(i)' PROVE data'[i] \in InRing \cup {written'}
    BY <1>3, <1>4, <2>1, Ring
  <2>2. QED
    BY <2>1 DEF InRing, Handed
<1>6. CASE orderly
  <2>1. data[hwCur] = NoMsg /\ ~Handed(hwCur)
    BY <1>1, <1>6 DEF RxInv, RingIntact, Midway, Handed
  <2>2. InRing' = InRing \cup {written'}
    <3>1. written' \in InRing'
      BY <1>1, <1>3, <1>4, <2>1 DEF InRing, Handed
    <3>2. ASSUME NEW m \in InRing PROVE m \in InRing'
      <4>1. PICK i \in Slots : m = data[i] /\ ~Handed(i) /\ m # NoMsg
        BY Ring
      <4>2. i # hwCur /\ data'[i] = m /\ ~Handed(i)'
        BY <1>3, <1>4, <2>1, <4>1
      <4>3. QED
        BY <4>1, <4>2 DEF InRing, Handed
    <3>3. QED
      BY <1>5, <3>1, <3>2
  <2>3. UnderWay' = UnderWay \cup ({written'} \ Strays)
    BY <1>3, <2>2 DEF UnderWay
  <2>4. QED
    BY <1>2, <1>3, <2>3 DEF Channel!Next, Channel!Write, UnderWay
<1>7. CASE ~orderly
  <2>1. UnderWay' \in SUBSET (UnderWay \cup {written'})
    BY <1>3, <1>5 DEF UnderWay
  <2>2. QED
    BY <1>2, <1>3, <1>7, <2>1 DEF Channel!Next, Channel!Write, UnderWay
<1>8. QED
  BY <1>6, <1>7

(* The port's thread handles a message *)
LEMMA Handling == ASSUME RxInv, OrderInv, PortThread, control_msg_handler PROVE Channel!Next
<1>1. /\ PortTypeOK /\ thread = "handle" /\ thread' # "handle" /\ UNCHANGED rx_skb_list
      /\ UNCHANGED <<data, written, ctl, orderly, workPc, req>>
  BY DEF RxInv, TypeOK, PortThread, ringVars, workVars, histVars, control_msg_handler
<1>2. InRing' = InRing /\ Open' = Open
  BY <1>1, RingSame DEF Handed, Open
<1>3. /\ message \in AtPort
      /\ \A m \in AtPort : (\E k \in DOMAIN rx_skb_list : m = Listed(k)) \/ m = message
      /\ \A k \in DOMAIN rx_skb_list : Listed(k) \in AtPort
  BY <1>1, Listing
<1>4. AtPort' = {Listed(k) : k \in DOMAIN rx_skb_list}
  BY <1>1 DEF AtPort, Listed
<1>5. AtPort' = AtPort \ {message}
  BY <1>1, <1>3, <1>4 DEF OrderInv, Unique
<1>6. message \notin InRing /\ message \notin Strays
  BY <1>3, Ring DEF OrderInv, Unique
<1>7. UnderWay' = UnderWay \ {message} /\ message \in UnderWay
  BY <1>2, <1>3, <1>5, <1>6 DEF UnderWay
<1>8. ASSUME orderly, NEW q \in UnderWay PROVE message <= q
  <2>1. PortOrder /\ message \in Nat
    BY <1>1, <1>8 DEF OrderInv, PortTypeOK
  <2>2. CASE q \in InRing
    <3>1. PICK i \in Slots : q = data[i] /\ ~Handed(i) /\ data[i] # NoMsg
      BY <2>2, Ring
    <3>2. q \in Nat /\ message < q
      BY <1>3, <2>1, <3>1 DEF PortOrder, RxInv, TypeOK, RingTypeOK
    <3>3. QED
      BY <2>1, <3>2
  <2>3. CASE q \in AtPort
    <3>1. CASE q = message
      BY <2>1, <3>1
    <3>2. CASE q # message
      <4>1. PICK k \in DOMAIN rx_skb_list : q = Listed(k)
        BY <1>3, <2>3, <3>2
      <4>2. Listed(k) \in Nat /\ message < Listed(k)
        BY <1>1, <2>1, <4>1, Listing DEF PortOrder
      <4>3. QED
        BY <2>1, <4>1, <4>2
    <3>3. QED
      BY <3>1, <3>2
  <2>4. QED
    BY <1>8, <2>2, <2>3 DEF UnderWay
<1>9. PICK p \in UnderWay : p = message
  BY <1>7
<1>10. Channel!Handle(p)
  BY <1>1, <1>2, <1>7, <1>8, <1>9 DEF Channel!Handle, UnderWay
<1>11. QED
  BY <1>10 DEF Channel!Next, UnderWay

(* The work item hands messages over, it handles none *)
LEMMA Working == ASSUME RxInv, OrderInv, Work PROVE UNCHANGED Channel!vars
<1>1. UNCHANGED <<written, ctl, orderly>>
  BY DEF Work, WorkBegin, WorkNothing, WorkTake, WorkAdvance, WorkRefill, WorkStatus, WorkDecide, WorkEnd, NotWork
<1>2. UnderWay' = UnderWay
  <2>1. CASE WorkTake
    <3>1. /\ PortTypeOK /\ workPc = "take" /\ UNCHANGED <<data, thread, message>> /\ tr_done \in Slots
          /\ data[tr_done] \in Nat \ {NoMsg}
      BY <2>1, RxBoundAssumption
         DEF RxInv, TypeOK, RingTypeOK, WorkTake, ringVars, portVars, t7xx_port_proxy_recv_skb, t7xx_port_enqueue_skb,
             Written, Filled
    <3>2. CASE t7xx_port_proxy_recv_skb(data[tr_done]) /\ req' = tr_done /\ workPc' = "advance"
      <4>1. InRing' \cup {data[tr_done]} = InRing
        BY <3>1, <3>2 DEF InRing
      <4>2. CASE data[tr_done] \in Strays /\ UNCHANGED portVars
        <5>1. AtPort' = AtPort
          BY <4>2, PortSame DEF portVars
        <5>2. QED
          BY <4>1, <4>2, <5>1 DEF UnderWay
      <4>3. CASE t7xx_port_enqueue_skb(data[tr_done])
        <5>1. rx_skb_list' = Append(rx_skb_list, data[tr_done])
          BY <4>3 DEF t7xx_port_enqueue_skb
        <5>2. AtPort' = AtPort \cup {data[tr_done]}
          BY <3>1, <5>1, Appending
        <5>3. QED
          BY <4>1, <5>2 DEF UnderWay
      <4>4. QED
        BY <3>2, <4>2, <4>3 DEF t7xx_port_proxy_recv_skb
    <3>3. CASE UNCHANGED <<portVars, req>> /\ workPc' = "decide"
      <4>1. InRing' = InRing /\ AtPort' = AtPort
        BY <3>1, <3>3, RingSame, PortSame DEF Handed, portVars
      <4>2. QED
        BY <4>1 DEF UnderWay
    <3>4. QED
      BY <2>1, <3>2, <3>3 DEF WorkTake, Goes
  <2>2. CASE WorkAdvance
    <3>1. /\ workPc = "advance" /\ workPc' = "refill" /\ req \in Slots /\ data' = [data EXCEPT ![req] = NoMsg]
          /\ UNCHANGED portVars
      BY <2>2 DEF RxInv, TypeOK, WorkTypeOK, Midway, WorkAdvance, Goes
    <3>2. data \in [Slots -> Nat]
      BY RxBoundAssumption DEF RxInv, TypeOK, RingTypeOK
    <3>3. InRing' = InRing
      BY <3>1, <3>2 DEF InRing
    <3>4. QED
      BY <3>1, <3>3, PortSame DEF UnderWay, portVars
  <2>3. CASE ~WorkTake /\ ~WorkAdvance
    <3>1. UNCHANGED <<data, portVars>>
      BY <2>3 DEF Work, WorkBegin, WorkNothing, WorkRefill, Refill, WorkStatus, WorkDecide, WorkEnd, ringVars
    <3>2. workPc # "advance" /\ workPc' # "advance"
      BY <2>3 DEF Work, WorkBegin, WorkNothing, WorkRefill, WorkStatus, WorkDecide, WorkEnd, Goes
    <3>3. InRing' = InRing /\ AtPort' = AtPort
      BY <3>1, <3>2, RingSame, PortSame DEF Handed, portVars
    <3>4. QED
      BY <3>3 DEF UnderWay
  <2>4. QED
    BY <2>1, <2>2, <2>3
<1>3. QED
  BY <1>1, <1>2 DEF Channel!vars, UnderWay, Open

(* The controlling threads open and close the channel, and what they drop    *)
(* they drop while it is closed                                              *)
LEMMA Controlling == ASSUME RxInv, RxInv', Control PROVE [Channel!Next]_Channel!vars
<1> USE DEF Control, t7xx_port_proxy_set_cfg, t7xx_proxy_init_all_ports, t7xx_cldma_switch_cfg, Start, StartRx, HwContinue,
        ExStopRx, t7xx_cldma_stop, Flushed, ExClearRx, ResetBegin, ResetQueue, t7xx_cldma_suspend_late,
        t7xx_cldma_resume_early, ExitBegin, ExitPurges, NotControl
<1>1. PortTypeOK /\ orderly' \in BOOLEAN /\ UNCHANGED <<workPc, req, written>>
  BY DEF RxInv, TypeOK, ThreadTypeOK
<1>2. \A i \in Slots : Handed(i)' <=> Handed(i)
  BY <1>1 DEF Handed
<1>3. UNCHANGED <<rx_skb_list, thread, message>> \/ (rx_skb_list' = <<>> /\ thread' # "handle")
  <2>1. UNCHANGED portVars \/ UninitStops \/ UninitPurges \/ port_ctl_init
    OBVIOUS
  <2>2. QED
    BY <2>1 DEF portVars, UninitStops, UninitPurges, port_ctl_init
<1>4. AtPort' = AtPort \/ AtPort' = {}
  BY <1>1, <1>3, PortSame, Emptied
<1>5. UNCHANGED data \/ Empty'
  BY DEF Empty, ringVars, NoRing, t7xx_cldma_rx_ring_init, t7xx_cldma_clear_rxq, ClearFails
<1>6. InRing' = InRing \/ InRing' = {}
  BY <1>2, <1>5, RingSame, RingCleared
<1>7. UnderWay' \in SUBSET UnderWay
  BY <1>4, <1>6 DEF UnderWay
<1>8. CASE ~Open /\ ~Open'
  <2>1. Open' = Open
    BY <1>8 DEF Open
  <2>2. QED
    BY <1>1, <1>7, <1>8, <2>1 DEF Channel!Next, Channel!Drop, UnderWay
<1>9. CASE Open \/ Open'
  <2>1. UNCHANGED <<data, rx_skb_list, thread, message>>
    <3>1. UNCHANGED ringVars /\ (UNCHANGED portVars \/ UninitStops)
      BY <1>9 DEF Open
    <3>2. QED
      BY <3>1 DEF ringVars, portVars, UninitStops
  <2>2. UnderWay' = UnderWay
    BY <1>2, <2>1, RingSame, PortSame DEF UnderWay
  <2>3. CASE UNCHANGED orderly
    <3>1. Open \in BOOLEAN /\ Open' \in BOOLEAN
      BY DEF Open
    <3>2. Open' = Open \/ Open' = ~Open
      BY <3>1
    <3>3. QED
      BY <1>1, <2>2, <2>3, <3>2 DEF Channel!Next, Channel!Switch, Channel!vars, UnderWay
  <2>4. CASE orderly' # orderly
    <3>1. t7xx_cldma_suspend_late
      BY <1>9, <2>4 DEF Open
    <3>2. orderly' = FALSE /\ Open' = Open
      BY <1>1, <2>4, <3>1 DEF Open, RxInv, TypeOK, ThreadTypeOK
    <3>3. QED
      BY <1>1, <2>2, <3>2 DEF Channel!Next, Channel!CutOff, UnderWay
  <2>5. QED
    BY <2>3, <2>4
<1>10. QED
  BY <1>8, <1>9

LEMMA ChannelStep == RxInv /\ RxInv' /\ OrderInv /\ [Next]_vars => [Channel!Next]_Channel!vars
<1> SUFFICES ASSUME RxInv, RxInv', OrderInv, [Next]_vars PROVE [Channel!Next]_Channel!vars
  OBVIOUS
<1>1. CASE HwWrite
  BY <1>1, Writing
<1>2. CASE Work
  BY <1>2, Working
<1>3. CASE Control
  BY <1>3, Controlling
<1>4. CASE PortThread /\ control_msg_handler
  BY <1>4, Handling
<1>5. CASE PortThread /\ ~control_msg_handler
  <2>1. UNCHANGED <<data, written, ctl, orderly, workPc, req>> /\ (ThreadTakes \/ ThreadStops)
    BY <1>5 DEF PortThread, Thread, ringVars, workVars, histVars
  <2>2. AtPort' = AtPort
    <3>1. CASE ThreadTakes
      BY <3>1, Taking DEF RxInv, TypeOK
    <3>2. CASE ThreadStops
      BY <3>2 DEF ThreadStops, AtPort
    <3>3. QED
      BY <2>1, <3>1, <3>2
  <2>3. InRing' = InRing
    BY <2>1, RingSame DEF Handed
  <2>4. QED
    BY <2>1, <2>2, <2>3 DEF Channel!vars, Open
<1>6. CASE t7xx_cldma_irq_work_cb \/ IsrEnd \/ UNCHANGED vars
  <2>1. UNCHANGED <<portVars, ringVars, workPc, req, ctl, histVars>>
    BY <1>6 DEF t7xx_cldma_irq_work_cb, IsrEnd, workVars, vars
  <2>2. InRing' = InRing /\ AtPort' = AtPort
    BY <2>1, RingSame, PortSame DEF Handed, ringVars, portVars
  <2>3. QED
    BY <2>1, <2>2 DEF Channel!vars, Open, histVars
<1>7. QED
  BY <1>1, <1>2, <1>3, <1>4, <1>5, <1>6 DEF Next

(* t7xx_hif_cldma.c and t7xx_port_proxy.c implement the abstract channel:    *)
(* what the modem writes is handled in the order in which it was written,    *)
(* none twice and none left out, unless the queue was cleared or suspended   *)
(* while messages were in it                                                 *)
THEOREM RxInOrderHolds == Spec => InOrder
<1>1. Init => Channel!Init
  BY DEF Init, PortInit, InRing, AtPort, Open, Channel!Init
<1>2. QED
  BY <1>1, ChannelStep, InvHolds, PTL DEF Spec, InOrder, Channel!Spec
=============================================================================
