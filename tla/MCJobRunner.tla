---------------------------- MODULE MCJobRunner ----------------------------
(* TLC instances of JobRunner.                                             *)
EXTENDS JobRunner, TLC

StraySymmetry == Permutations(Strays)
=============================================================================
