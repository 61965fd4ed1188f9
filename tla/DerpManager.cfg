SPECIFICATION FairSpec
CONSTANTS
  r1 = r1  r2 = r2  c1 = c1  c2 = c2  c3 = c3  d1 = d1
  s1 = s1  s2 = s2  t1 = t1  t2 = t2
  Regions = {r1}
  Home = r1
  Conns = {c1, c2}
  Senders = {s1}
  Tasks = {t1, t2}
  RegionOf <- OneRegion
  MaxSignals = 2
  NoConn = NoConn
  NoRegion = NoRegion
INVARIANTS NoLostReconnect SingleFeed ShutdownClosesAll
PROPERTIES RegionRecovers
