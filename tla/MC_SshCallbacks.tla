-------------------------- MODULE MC_SshCallbacks --------------------------
(* SshCallbacks for TLC. *)
EXTENDS SshCallbacks, TLC

Symmetry == Permutations(Profiles) \cup Permutations(Principals) \cup Permutations(Jobs)
=============================================================================
