-------------------------- MODULE MCTableRegistry --------------------------
(* TLC instance of TableRegistry. *)
EXTENDS TableRegistry, TLC
RegistrySymmetry == Permutations(Admins)
=============================================================================
