----------------------------- MODULE DataChannel -----------------------------
(***************************************************************************)
(* What the transmit side of the data path promises to the network device: *)
(* the packets it has accepted reach the modem in the order of acceptance, *)
(* each at most once; a stop drops the oldest of them, those that had got  *)
(* to the ring.                                                            *)
(***************************************************************************)
EXTENDS Naturals, Sequences

VARIABLES
    under,      \* packets under way, numbered in the order of acceptance
    accepted,   \* how many have been accepted
    sent,       \* those that have reached the modem
    orderly     \* whether the promise holds

vars == <<under, accepted, sent, orderly>>

Init == under = {} /\ accepted = 0 /\ sent = <<>> /\ orderly = TRUE

Accept ==
    /\ accepted' = accepted + 1
    /\ under' = under \cup {accepted'}
    /\ UNCHANGED <<sent, orderly>>

Transmit ==
    /\ \E p \in under :
        /\ \A q \in under : p <= q
        /\ under' = under \ {p}
        /\ sent' = Append(sent, p)
    /\ UNCHANGED <<accepted, orderly>>

Drop ==
    /\ \E p \in 0 .. accepted : under' = {q \in under : p < q}
    /\ UNCHANGED <<accepted, sent, orderly>>

(* A stop that did not wait for what is put into the ring or freed ends the *)
(* promise                                                                  *)
Disorder == orderly' = FALSE

Next == Accept \/ Transmit \/ Drop \/ Disorder

Spec == Init /\ [][Next]_vars
=============================================================================
