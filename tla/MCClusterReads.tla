---- MODULE MCClusterReads ----
(* A small instance of ClusterReads for TLC. *)
EXTENDS ClusterReads

CONSTANTS a, b, m1, m2

(* A pod is there, or has a figure.                                        *)
Known(p) == \E c \in {cluster} \cup seen : c.pods[p] # "absent" \/ p \in c.figures

(* Two pods of one name in two namespaces while the cluster changes twice, *)
(* or two pods of one namespace while it changes once.                     *)
FewPods ==
  /\ ~Known(<<2, b>>)
  /\ Known(<<1, b>>) => ~Known(<<2, a>>) /\ Cardinality(seen) <= 2

(* The part of the cluster that a request does not look at stays empty.    *)
Relevant ==
  \A c \in {cluster} \cup seen :
    /\ kind = "nodes" => c.spaces = {} /\ c.figures \subseteq Nodes
    /\ kind # "nodes" => c.nodes = {} /\ c.figures \subseteq Pods
    /\ kind \in {"namespaces", "unhealthy"} => c.figures = {}
====
