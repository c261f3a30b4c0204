CONSTANTS
  n1 = n1  s1 = s1  s2 = s2  w1 = w1  a = a
  Nodes = {n1}
  Conns = {s1, s2}
  PingRetry = 1
  Writers = {}
  MaxCrashes = 1
  Reqs = {a}
SPECIFICATION QueueFairSpec
INVARIANTS
  LeftBehindHasCause
PROPERTIES
  ReturnIsReplayed
CHECK_DEADLOCK FALSE
