SPECIFICATION Spec
CONSTANTS
  Profiles = {p1, p2}
  Keys = {k1}
  Principals = {a, b}
  Producers = {t1}
  Jobs = {j1, j2}
  MaxGens = 2
  MaxCalls = 1
  Workers = 2
  GlobalWorkers = 1
  QueueCap = 2
  PrincipalCap = 2
SYMMETRY Symmetry
INVARIANTS RevokedIsSilent LatchedKeyHasNoVoice NoWorkerLost CallbackNotForgotten
CHECK_DEADLOCK FALSE
