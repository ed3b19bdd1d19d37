-------------------------------- MODULE MCDeque --------------------------------
(* Deque with two thieves.                                                     *)
EXTENDS Deque, TLC

CONSTANTS t1, t2

MCThieves == {t1, t2}
Symmetry == Permutations(MCThieves)
================================================================================
