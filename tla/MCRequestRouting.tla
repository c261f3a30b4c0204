---- MODULE MCRequestRouting ----
(* Small instances of RequestRouting for TLC. *)
EXTENDS RequestRouting, TLC

CONSTANTS n1, n2, s1, s2, c1, c2, u1

OneCall  == (c1 :> u1)
Replayed == (c1 :> u1) @@ (c2 :> u1)

(* Nodes, and sockets, are interchangeable: no constant tells them apart. *)
Symmetry == Permutations({n1, n2}) \cup Permutations({s1, s2})

(* Two corners of the instance with two calls and two sockets, which as a  *)
(* whole is too large: either one call, with sockets and a crash anywhere, *)
(* or that call and its replay, over one socket of one process, without    *)
(* expiry of the stored request.                                           *)
FailoverOrReplay ==
  \/ pc[c2] = "idle" /\ at[c2] = at[c1]
  \/ /\ pc[c1] # "idle"
     /\ \E n \in Nodes : at = [c \in Calls |-> n] /\ home = [s \in Conns |-> n]
     /\ Cardinality({s \in Conns : link[s] # "new"}) <= 1
     /\ crashes = 0 /\ dataLapses[u1] = 0
====
