SPECIFICATION FairSpec
CONSTANTS
  Peers = {p1}
  Discos = {k1}
  Addrs = {a1}
  Receivers = {r1, r2}
  Credits = 1
  MaxCommits = 2
  DisableDirect = FALSE
  TunPump = {TRUE, FALSE}
  NoKey = NoKey
  Absent = Absent
  NoPeer = NoPeer
  NoAddr = NoAddr
INVARIANTS NoStaleDelivery ReverseMapsAuthorized EvidenceFresh PublisherNeverBlocks
PROPERTIES CommitCompletes
CHECK_DEADLOCK FALSE
