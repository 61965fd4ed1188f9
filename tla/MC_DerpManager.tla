-------------------------- MODULE MC_DerpManager --------------------------
(* DerpManager with one region for the interleavings around one connection *)
(* slot, or two regions for the state the regions share.                    *)
EXTENDS DerpManager, TLC
CONSTANTS r1, r2, c1, c2, c3, d1, s1, s2, t1, t2

OneRegion == [p \in {c1, c2, c3, s1, t1, t2} |-> r1]
TwoRegions == (c1 :> r1) @@ (d1 :> r2) @@ (s1 :> r1) @@ (s2 :> r2) @@ (t1 :> r1)

\* Tasks of one region are interchangeable; so are its connections.
Symmetry == Permutations({c1, c2, c3}) \cup Permutations({t1, t2})
=============================================================================
