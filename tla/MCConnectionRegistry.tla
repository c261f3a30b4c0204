---- MODULE MCConnectionRegistry ----
(* A small instance of ConnectionRegistry for TLC. *)
EXTENDS ConnectionRegistry

CONSTANTS n1, n2, s1, s2, w1, w2
====
