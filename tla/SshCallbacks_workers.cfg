SPECIFICATION Spec
CONSTANTS
  Profiles = {p1}
  Keys = {k1}
  Principals = {a}
  Producers = {t1}
  Jobs = {j1, j2, j3}
  MaxGens = 2
  MaxCalls = 1
  Workers = 2
  GlobalWorkers = 1
  QueueCap = 2
  PrincipalCap = 2
SYMMETRY Symmetry
INVARIANT WorkersBounded
CHECK_DEADLOCK FALSE
