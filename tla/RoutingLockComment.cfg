CONSTANTS
  n1 = n1  n2 = n2  s1 = s1  s2 = s2   c1 = c1  c2 = c2  u1 = u1
  Nodes = {n1, n2}
  Conns = {s1}
  Calls = {c1}
  Uuids = {u1}
  UuidOf <- OneCall
  Mutating = {c1}
  Local = Local
  MaxCrashes = 0
SPECIFICATION Spec
INVARIANT
  ConnectionStillThere
CHECK_DEADLOCK FALSE
