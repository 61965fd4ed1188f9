---------------------------- MODULE MC_UserUnit ----------------------------
(* The user-unit manager on a small instance. *)
EXTENDS UserUnit, TLC
Symmetry == Permutations(Data)
=============================================================================
