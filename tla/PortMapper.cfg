SPECIFICATION Spec
CONSTANTS
  Gateways = {g1, g2}
  None = None
  Protocols = {"pmp", "upnp"}
  Services = {1}
  Ports = {1, 2}
  LocalPorts = {p1, p2}
  MaxEvents = 3
  MaxShutdown = 1
INVARIANTS LedgerCovers CachedIsCurrent CleanShutdown
SYMMETRY Symmetry
CHECK_DEADLOCK FALSE
