---- MODULE MCCacheSync ----
(* A small instance of CacheSync and CacheOrder for TLC. *)
EXTENDS CacheOrder

CONSTANTS a, b, c, s1, s2

(* Two requests for one resource, and one whose undefined metadata matches *)
(* every row.                                                              *)
MCKey == (a :> "web") @@ (b :> "web") @@ (c :> "any")
MCCovers == [k \in {"web", "any"} |-> IF k = "any" THEN {"web", "any"} ELSE {k}]

(* Bounds: a and b with both sweeps while nothing overlaps, or a and c in  *)
(* either order with one sweep.                                            *)
TwoRequests ==
  \/ alone /\ issued \in {<<>>, <<a>>, <<a, b>>}
  \/ /\ issued \in {<<>>, <<a>>, <<c>>, <<a, c>>, <<c, a>>}
     /\ \A i \in 1..MaxRows : job[<<s2, i>>].comm = "idle"
====
