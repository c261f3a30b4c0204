CONSTANTS
  a = a  b = b  c = c  s1 = s1  s2 = s2
  Reqs = {a, b, c}
  Keys = {"web", "any"}
  Key <- MCKey
  Covers <- MCCovers
  Sweeps = {s1, s2}
  MaxRows = 2
SPECIFICATION OrderSpec
CONSTRAINT TwoRequests
INVARIANTS
  QueueIsExact
  SyncedRowRan
  LoneRequestIsKept
  RowKeepsItsKey
PROPERTY
  RunsInOrder
CHECK_DEADLOCK FALSE
