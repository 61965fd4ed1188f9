------------------------- MODULE MC_SocketShutdown -------------------------
(* Instances of SocketShutdown for TLC. *)
EXTENDS SocketShutdown, TLC

Symmetry == Permutations(BackgroundTasks \ PeerTasks) \cup Permutations(Callers)
=============================================================================
