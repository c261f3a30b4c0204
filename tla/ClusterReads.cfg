CONSTANTS
  a = a  b = b  m1 = m1  m2 = m2
  Spaces = {1, 2}
  Names = {a, b}
  Nodes = {m1, m2}
  MaxStates = 3
SPECIFICATION Spec
CONSTRAINTS Relevant FewPods
INVARIANTS
  TypeOK
  ThrowHasCause
  RowIsOwn
  StillIsExact
  IllIsReported
CHECK_DEADLOCK FALSE
