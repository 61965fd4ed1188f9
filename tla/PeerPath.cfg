SPECIFICATION PathSpec
CONSTANTS
  Addrs = {a, b}
  Txs = {x}
  PathTasks = {t1, t2}
  PathSenders = {s1, s2}
  InboxCap = 1
  HeartbeatInterval = 1
  PingTimeout = 1
  Trust = 1
  SessionTimeout = 2
  Cliffs <- TwoCliffs
  Never = 2
  None = None
SYMMETRY Symmetry
INVARIANTS SessionBeats DirectIsCurrent
