-------------------------- MODULE MC_RelayManager --------------------------
(* RelayManager for TLC. *)
EXTENDS RelayManager, TLC

RelaySymmetry == Permutations(Relays)
=============================================================================
