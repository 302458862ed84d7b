----------------------------- MODULE MCControlRx -----------------------------
(* Instances of CldmaRx, with its port, for TLC *)
EXTENDS CldmaRx
=============================================================================
