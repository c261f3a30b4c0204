CONSTANTS
  n1 = n1  n2 = n2  s1 = s1  s2 = s2  f1 = f1  f2 = f2  f3 = f3  None = None
  Nodes = {n1, n2}
  Shells = {s1, s2}
  Fronts = {f1, f2, f3}
  MaxCrashes = 1
SYMMETRY Symmetry
SPECIFICATION Spec
INVARIANTS
  TypeOK
  EntriesAreLive
  OnlyRivalsUnseat
  TerminalClosesWithShell
CHECK_DEADLOCK FALSE
