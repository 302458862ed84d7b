---------------------------- MODULE MCDpmaifBat ----------------------------
(* Instances of DpmaifBat for TLC *)
EXTENDS DpmaifBat
=============================================================================
