CONSTANTS
  n1 = n1  n2 = n2  s1 = s1  s2 = s2   c1 = c1  c2 = c2  u1 = u1
  Nodes = {n1, n2}
  Conns = {s1, s2}
  Calls = {c1, c2}
  Uuids = {u1}
  UuidOf <- Replayed
  Mutating = {c1}
  Local = Local
  MaxCrashes = 1
SYMMETRY Symmetry
CONSTRAINT FailoverOrReplay
SPECIFICATION Spec
INVARIANTS
  HoldersBounded
  LockHasCause
  PayloadBeforeMessage
  SuccessWasRun
  SyncedRanOnce
  FailedIsQueued
CHECK_DEADLOCK FALSE
