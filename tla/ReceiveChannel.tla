--------------------------- MODULE ReceiveChannel ---------------------------
(***************************************************************************)
(* What a CLDMA receive queue and the port behind it promise to the modem: *)
(* while the channel is open, messages are handled in the order in which   *)
(* the modem has written them, each at most once and none left out.  Only  *)
(* when it is closed are messages dropped, or when the promise has ended.  *)
(***************************************************************************)
EXTENDS Naturals

CONSTANT Strays \* messages that are for no port

VARIABLES
    under,      \* messages written and not yet handled, numbered as written
    written,    \* how many the modem has written
    open,       \* the channel is open
    orderly     \* whether the promise holds

vars == <<under, written, open, orderly>>

Init == under = {} /\ written = 0 /\ open = FALSE /\ orderly = TRUE

(* Without the promise a new message may take the place of another *)
Write ==
    /\ written' = written + 1
    /\ \/ under' = under \cup ({written'} \ Strays)
       \/ ~orderly /\ under' \in SUBSET (under \cup {written'})
    /\ UNCHANGED <<open, orderly>>

Handle(p) ==
    /\ p \in under
    /\ orderly => \A q \in under : p <= q
    /\ under' = under \ {p}
    /\ UNCHANGED <<written, open, orderly>>

(* A closed channel may lose anything *)
Drop ==
    /\ ~open
    /\ under' \in SUBSET under
    /\ orderly' \in BOOLEAN
    /\ UNCHANGED <<written, open>>

Switch == open' = ~open /\ UNCHANGED <<under, written, orderly>>

(* A sleep that cuts off messages ends the promise *)
CutOff == orderly' = FALSE /\ UNCHANGED <<under, written, open>>

Next == Write \/ (\E p \in under : Handle(p)) \/ Drop \/ Switch \/ CutOff

Spec == Init /\ [][Next]_vars
=============================================================================
