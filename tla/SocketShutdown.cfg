SPECIFICATION ShutdownFairSpec
CONSTANTS
  BackgroundTasks = {t1, t2}
  PeerTasks = {t1}
  Callers = {c1, c2}
  Requesters = {q1}
INVARIANTS ShutdownStopsAll
PROPERTIES ShutdownReturns CleanupFinishes
CHECK_DEADLOCK FALSE
