--------------------------- MODULE MC_TunRouter ---------------------------
(* TunRouter with a LAN prefix 1, its more specific half 2 and a subnet      *)
(* route 3: no exit node, an exit node with and without LAN access.          *)
EXTENDS TunRouter

Plain == [addrs |-> {0}, routes |-> {3}, throws |-> {}, exit |-> FALSE, lan |-> TRUE]
LanDenied == [addrs |-> {0}, routes |-> {2}, throws |-> {}, exit |-> TRUE, lan |-> TRUE]
LanAllowed == [addrs |-> {0}, routes |-> {}, throws |-> {1}, exit |-> TRUE, lan |-> FALSE]

\* A connected host prefix 4 has no more specific half: it is itself captured.
HostDenied == [LanDenied EXCEPT !.routes = {4}]
HostAllowed == [LanAllowed EXCEPT !.throws = {4}]

AllConfigs == {Plain, LanDenied, LanAllowed, HostDenied, HostAllowed}
SomeConfigs == {Plain, LanDenied, LanAllowed}
=============================================================================
