------------------------------ MODULE MCCldmaTx ------------------------------
(* Instances of CldmaTx for TLC *)
EXTENDS CldmaTx, TLC

CONSTANTS s1, s2

Pair == {s1, s2}

SenderSymmetry == Permutations(Pair)
=============================================================================
