CONSTANTS
  n1 = n1  n2 = n2  s1 = s1  s2 = s2  w1 = w1  w2 = w2
  Nodes = {n1, n2}
  Conns = {s1, s2}
  PingRetry = 2
  Writers = {w1, w2}
  MaxCrashes = 1
SPECIFICATION FairSpec
INVARIANTS
  QuietRowIsTrue
  LiveRowIsTrue
  LiveIsRegistered
  DeadEntriesAreUnwatched
PROPERTIES
  OutageIsNoticed
CHECK_DEADLOCK FALSE
