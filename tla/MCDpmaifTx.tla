----------------------------- MODULE MCDpmaifTx -----------------------------
(* Instances of DpmaifTx for TLC: the second packet lies over the end of the ring *)
EXTENDS DpmaifTx

Halves == [p \in Packets |-> 3]
=============================================================================
