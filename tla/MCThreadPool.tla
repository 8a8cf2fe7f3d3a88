---------------------------- MODULE MCThreadPool ----------------------------
(* Instances of ThreadPool for TLC.                                         *)
EXTENDS ThreadPool, TLC

CONSTANTS a1, a2, w1, w2

MCAdders == {a1, a2}
MCWorkers == {w1, w2}
Symmetry == Permutations(MCAdders) \cup Permutations(MCWorkers)
=============================================================================
