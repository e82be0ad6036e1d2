-------------------------- MODULE MCEvaluatorInbox --------------------------
(* Instances of EvaluatorInbox for TLC.                                    *)
EXTENDS EvaluatorInbox, TLC

CONSTANTS e1, e2

EvaluatorSymmetry == Permutations(Evaluators)
=============================================================================
