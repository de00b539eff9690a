--------------------------- MODULE MCExecutorHop ---------------------------
(* TLC instances of ExecutorHop.                                           *)
EXTENDS ExecutorHop, TLC

JobSymmetry == Permutations(Jobs)
=============================================================================
