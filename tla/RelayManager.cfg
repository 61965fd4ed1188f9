CONSTANTS
  p1 = p1
  a = a
  b = b
  Nodes = {p1, a, b}
  Clients = {p1}
  Relays = {a, b}
  Vnis = {1}
  Lamports = {1}
  Ids = {1, 2, 3}
  MaxCommits = 2
  None = None
SPECIFICATION FairSpec
INVARIANTS TablesAgree NoStuckWork OwnCompletion CommittedWorkIsCurrent
PROPERTY CommitEnds
CHECK_DEADLOCK FALSE
