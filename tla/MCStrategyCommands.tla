------------------------- MODULE MCStrategyCommands -------------------------
(* Instances of StrategyCommands for TLC: a single worker, and a pool of   *)
(* two; one or two requests at a time.                                     *)
EXTENDS StrategyCommands, TLC

CONSTANTS w1, w2, u1, u2

WorkerSymmetry == Permutations(Workers)
=============================================================================
