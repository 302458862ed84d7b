------------------------------- MODULE MCNapi -------------------------------
(* Instances of DpmaifNapi for TLC: the processors that run softirqs *)
EXTENDS DpmaifNapi, TLC

CONSTANTS c1, c2

OneCpu  == {c1}
TwoCpus == {c1, c2}
Swaps   == Permutations(TwoCpus)
=============================================================================
