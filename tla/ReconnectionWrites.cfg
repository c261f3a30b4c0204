CONSTANTS
  n1 = n1  s1 = s1  s2 = s2  w1 = w1  a = a
  Nodes = {n1}
  Conns = {s1, s2}
  PingRetry = 1
  Writers = {w1}
  MaxCrashes = 0
  Reqs = {a}
SPECIFICATION QueueFairSpec
PROPERTIES
  ReturnIsReplayed
CHECK_DEADLOCK FALSE
