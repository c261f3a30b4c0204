CONSTANTS
  o1 = o1  o2 = o2  o3 = o3  e1 = e1  e2 = e2  None = None
  Ops = {o1, o2, o3}
  EnvIds = {e1, e2}
  MaxNamed = 2
SYMMETRY Symmetry
SPECIFICATION Spec
INVARIANTS
  TypeOK
  AloneIsAtomic
  NoDuplicateEnvs
  KeysNeedCause
PROPERTY
  DeletionSticks
CHECK_DEADLOCK FALSE
