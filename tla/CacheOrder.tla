---- MODULE CacheOrder ----
(***************************************************************************)
(* CacheSync, with a history variable for what the queue promises only as  *)
(* long as nothing overlaps: no call and no sweep (cacheService.ts,        *)
(* cacheController.ts) has been started while the work of another, its     *)
(* writes that nobody awaits included, was outstanding.                    *)
(***************************************************************************)
EXTENDS CacheSync

VARIABLE alone   \* nothing has been started while work was outstanding

orderVars == <<vars, alone>>

OrderInit == Init /\ alone = TRUE

OrderNext ==
  \/ Start /\ alone' = (alone /\ Quiet)
  \/ Work /\ UNCHANGED alone

OrderSpec == OrderInit /\ [][OrderNext]_orderVars

----
(* Properties *)

(* r was issued after q.                                                   *)
Newer(r, q) == \E i, j \in DOMAIN issued : i > j /\ issued[i] = r /\ issued[j] = q

(* Requests whose upsert may find rows of key k, among those that made one.*)
Touching(k) == {r \in ToSet(issued) : k \in Covers[Key[r]] /\ job[r].say # None}

(* As long as nothing has overlapped: once all writes have landed, the     *)
(* table has one row for a fully named resource with requests, it holds    *)
(* the one issued last, and it says synced only if that one was run.       *)
QueueIsExact ==
  alone /\ Quiet =>
    \A k \in Keys :
      LET mine == {i \in DOMAIN rows : rows[i].key = k}
          last == {r \in Touching(k) : ~\E q \in Touching(k) : Newer(q, r)}
      IN Covers[k] = {k} /\ Touching(k) # {} /\ (\A r \in Touching(k) : Key[r] = k) =>
           \E i \in DOMAIN rows :
             /\ mine = {i} /\ {rows[i].req} = last
             /\ rows[i].status = "synced" => Ran(rows[i].req)

(* As long as nothing has overlapped and a resource's requests are fully   *)
(* named, no replay brings an older one back over a newer one.             *)
RunsInOrder ==
  [][alone' =>
       \A k \in Keys :
         /\ Covers[k] = {k} /\ \A r \in ToSet(issued) : k \in Covers[Key[r]] => Key[r] = k
         /\ applied[k] # None
         => ~Newer(applied[k], applied'[k])]_orderVars
====
