---- MODULE MCClusterRecords ----
(* Small instances of ClusterRecords for TLC. *)
EXTENDS ClusterRecords, TLC

CONSTANTS o1, o2, o3, e1, e2

Symmetry == Permutations(Ops) \cup Permutations(EnvIds)
====
