---------------------------- MODULE MC_PeerPath ----------------------------
(* PeerPath for TLC: durations keep their order, not their ratios. *)
EXTENDS PeerPath, TLC

TwoCliffs == <<2, 2>>

Symmetry == Permutations(PathTasks) \cup Permutations(PathSenders) \cup Permutations(Addrs)
=============================================================================
