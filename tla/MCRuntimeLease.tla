--------------------------- MODULE MCRuntimeLease ---------------------------
(* Small instances of RuntimeLease for TLC.                                *)
EXTENDS RuntimeLease, TLC

CONSTANTS w1, t1, t2, p1, q1

OneHost == [t \in Threads |-> w1]

Symmetry == Permutations(Threads)
=============================================================================
