--------------------------- MODULE ControlChannel ---------------------------
(***************************************************************************)
(* What a CLDMA transmit queue promises to its users: the packets it has   *)
(* accepted reach the modem in the order of acceptance, each at most once; *)
(* an exception or a reset drops those under way.  A sleep, a stop or a    *)
(* reset that cuts somebody off ends the promise of order, until a reset   *)
(* finds nobody using the queue.                                           *)
(***************************************************************************)
EXTENDS Naturals

VARIABLES
    under,      \* packets under way, numbered in the order of acceptance
    accepted,   \* how many have been accepted
    orderly     \* whether the promise of order holds

vars == <<under, accepted, orderly>>

Init == under = {} /\ accepted = 0 /\ orderly = TRUE

Accept ==
    /\ accepted' = accepted + 1
    /\ under' = under \cup {accepted'}
    /\ UNCHANGED orderly

(* A packet that never gets to the modem: the queue had been stopped, or the *)
(* packet could not be mapped                                                *)
Lose == accepted' = accepted + 1 /\ orderly' \in {orderly, FALSE} /\ UNCHANGED under

Transmit(p) ==
    /\ p \in under
    /\ orderly => \A q \in under : p <= q
    /\ under' = under \ {p}
    /\ UNCHANGED <<accepted, orderly>>

Drop == under' = {} /\ orderly' \in BOOLEAN /\ UNCHANGED accepted

CutOff == orderly' = FALSE /\ UNCHANGED <<under, accepted>>

Next == Accept \/ Lose \/ (\E p \in under : Transmit(p)) \/ Drop \/ CutOff

Spec == Init /\ [][Next]_vars
=============================================================================
