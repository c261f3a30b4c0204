---- MODULE MCShellRelay ----
(* Small instances of ShellRelay for TLC. *)
EXTENDS ShellRelay, TLC

CONSTANTS n1, n2, s1, s2, f1, f2, f3

Symmetry == Permutations(Nodes) \cup Permutations(Shells) \cup Permutations(Fronts)
====
