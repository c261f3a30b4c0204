---- MODULE MCReconnection ----
(* A small instance of Reconnection for TLC. *)
EXTENDS Reconnection

CONSTANTS n1, s1, s2, w1, a
====
