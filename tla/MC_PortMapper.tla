--------------------------- MODULE MC_PortMapper ---------------------------
(* PortMapper with interchangeable gateways and local ports.                 *)
EXTENDS PortMapper, TLC
Symmetry == {g @@ p : g \in Permutations(Gateways), p \in Permutations(LocalPorts)}
=============================================================================
