------------------------- MODULE MCRuntimeScheduler -------------------------
(* Instances of RuntimeScheduler for TLC.                                  *)
EXTENDS RuntimeScheduler, TLC

CONSTANTS h1, w1, w2, t1, t2

ThreadSymmetry == Permutations(Workers) \cup Permutations(Waiters)
=============================================================================
