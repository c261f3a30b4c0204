CONSTANTS
  a1 = a1  g1 = g1  g2 = g2  q1 = q1  p1 = p1
  Reqs <- MCReqs
  Kind <- MCKind
  MaxDays = 1
  MaxRestarts = 1
SPECIFICATION Spec
INVARIANTS
  EchoIsUntouched
  NeverGivesUp
  ChainsBounded
CHECK_DEADLOCK FALSE
