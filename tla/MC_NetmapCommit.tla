-------------------------- MODULE MC_NetmapCommit --------------------------
(* NetmapCommit on a few peers, keys and receive tasks. *)
EXTENDS NetmapCommit, TLC

\* Peers, disco keys, addresses and tasks are interchangeable.
Symmetry == Permutations(Peers) \cup Permutations(Discos) \cup Permutations(Receivers)
=============================================================================
