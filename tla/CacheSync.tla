---- MODULE CacheSync ----
(***************************************************************************)
(* The queue of mutating requests (server/services/cacheService.ts,        *)
(* server/controllers/cacheController.ts and the upserts of                *)
(* communicateWithCluster).                                                *)
(*                                                                         *)
(* Every apply or delete ends with an upsert, not awaited, that first      *)
(* looks for a row of the same resource and then inserts or updates.  A    *)
(* sweep (SyncClusterCache, retry-all, or the retry of one row) reads the  *)
(* rows in error and sends their requests again one after the other; each  *)
(* resend makes its own upsert, and the sweep writes the row's status too. *)
(* Writes land in any order.  How a request travels is RequestRouting's    *)
(* subject; here it is emitted, maybe run, and answered or rejected.       *)
(***************************************************************************)
EXTENDS Naturals, Sequences, FiniteSets, SequencesExt

CONSTANTS
  Reqs,     \* mutating requests
  Keys,     \* values of <<resourceId, namespace, name, kind>>, some undefined
  Key,      \* [Reqs -> Keys]: cacheMetadata
  Covers,   \* [Keys -> SUBSET Keys]: findOneBy ignores undefined fields
  Sweeps,   \* SyncClusterCache, retry-all or retry, once each
  MaxRows   \* bound on rows of the table

ASSUME KeyAssumption == Key \in [Reqs -> Keys]
ASSUME CoversAssumption ==
  /\ Covers \in [Keys -> SUBSET Keys]
  /\ \A k \in Keys : k \in Covers[k]

VARIABLES
  issued,   \* Reqs in the order the users issued them
  rows,     \* the cache table
  job,      \* each sending of a request, by a user or by a sweep
  applied   \* for each key, the request the cluster ran last

vars == <<issued, rows, job, applied>>

Items == Sweeps \X (1..MaxRows)    \* a sweep names its items by their rows
Senders == Reqs \cup Items
None == "none"

ASSUME SenderAssumption == MaxRows \in Nat /\ Reqs \cap Items = {}

Job == [req  : Reqs \cup {None},
        comm : {"idle", "queued", "waiting", "resolved", "rejected"},
        out  : BOOLEAN,             \* a copy may still reach the agent
        ran  : BOOLEAN,
        up   : {"off", "find", "save", "update"},
        row  : 0..MaxRows,          \* found by the upsert
        say  : {None, "synced", "error"},  \* status the upsert writes
        mark : {None, "synced", "error"},  \* the sweep's own write, pending
        fail : {None, "error"}]     \* what a rejection makes the sweep write

Row == [key : Keys, req : Reqs, status : {"synced", "error"}]

TypeOK ==
  /\ issued \in Seq(Reqs)
  /\ rows \in Seq(Row)
  /\ Len(rows) <= MaxRows
  /\ job \in [Senders -> Job]
  /\ applied \in [Keys -> Reqs \cup {None}]

Idle == [req |-> None, comm |-> "idle", out |-> FALSE, ran |-> FALSE, up |-> "off",
         row |-> 0, say |-> None, mark |-> None, fail |-> None]

Init ==
  /\ issued = <<>> /\ rows = <<>>
  /\ job = [b \in Senders |-> Idle]
  /\ applied = [k \in Keys |-> None]

----
(* Work that is outstanding for one sending, and for any.                  *)
Open(b) == job[b].comm \in {"queued", "waiting"} \/ job[b].out
           \/ job[b].up # "off" \/ job[b].mark # None
Quiet == \A b \in Senders : ~Open(b)

Ran(r) == \E b \in Senders : job[b].req = r /\ job[b].ran

(* A user's request enters communicateWithCluster.                         *)
Call(r) ==
  /\ job[r].comm = "idle"
  /\ issued' = Append(issued, r)
  /\ job' = [job EXCEPT ![r].comm = "queued", ![r].req = r]
  /\ UNCHANGED <<rows, applied>>

InError == {i \in DOMAIN rows : rows[i].status = "error"}

(* The sweep keeps the requests as it read them.                           *)
Enqueue(s, ids, fail) ==
  /\ ids # {} /\ \A i \in 1..MaxRows : job[<<s, i>>].comm = "idle"
  /\ job' = [b \in Senders |->
               IF b \in {<<s, i>> : i \in ids}
               THEN [Idle EXCEPT !.comm = "queued", !.req = rows[b[2]].req, !.fail = fail]
               ELSE job[b]]
  /\ UNCHANGED <<issued, rows, applied>>

SyncClusterCache(s) == Enqueue(s, InError, "error")
Retry(s) == \E i \in InError : Enqueue(s, {i}, None)

(* One item after the other, in the order find returned them.              *)
Turn(b) == b \in Items => \A i \in 1..MaxRows : job[<<b[1], i>>].comm # "waiting"

Emit(b) ==
  /\ job[b].comm = "queued" /\ Turn(b)
  /\ job' = [job EXCEPT ![b].comm = "waiting", ![b].out = TRUE]
  /\ UNCHANGED <<issued, rows, applied>>

(* GetSecret throws before the try block: no upsert.                       *)
SecretFails(b) ==
  /\ job[b].comm = "queued" /\ Turn(b)
  /\ job' = [job EXCEPT ![b].comm = "rejected", ![b].mark = job[b].fail]
  /\ UNCHANGED <<issued, rows, applied>>

(* A copy is run; while the sender waits it may emit another.              *)
AgentRuns(b) ==
  /\ job[b].out
  /\ \E more \in {FALSE, job[b].comm = "waiting"} :
       job' = [job EXCEPT ![b].out = more, ![b].ran = TRUE]
  /\ applied' = [applied EXCEPT ![Key[job[b].req]] = job[b].req]
  /\ UNCHANGED <<issued, rows>>

CopyLost(b) ==
  /\ job[b].out /\ job[b].comm # "waiting"
  /\ job' = [job EXCEPT ![b].out = FALSE]
  /\ UNCHANGED <<issued, rows, applied>>

(* The sender is answered: it starts its upsert and, in a sweep, the       *)
(* update of the row the request came from.                                *)
Conclude(b, comm, say, mark) ==
  /\ job[b].comm = "waiting"
  /\ job' = [job EXCEPT ![b].comm = comm, ![b].up = "find", ![b].say = say,
                        ![b].mark = IF b \in Items THEN mark ELSE None]
  /\ UNCHANGED <<issued, rows, applied>>

LocalAnswer(b) == job[b].ran /\ Conclude(b, "resolved", "synced", "synced")

(* A reply of success on the Redis channel, to any sending of the request, *)
(* since they share a uuid.  The upsert records an error all the same; the *)
(* sweep marks its row synced.                                             *)
RedisAnswer(b) == Ran(job[b].req) /\ Conclude(b, "resolved", "error", "synced")

(* Mutant: the reply channel's timeout is recorded as a success.           *)
RejectAsSynced(b) == Conclude(b, "rejected", "synced", job[b].fail)

(* A reply of status 'error', or none in time.                             *)
Reject(b) == Conclude(b, "rejected", "error", job[b].fail)

----
(* Mutant: the key is left out of the search.                              *)
FindsAnyRow(b) ==
  /\ job[b].up = "find"
  /\ IF rows = <<>>
       THEN job' = [job EXCEPT ![b].up = "save"]
       ELSE \E i \in DOMAIN rows : job' = [job EXCEPT ![b].up = "update", ![b].row = i]
  /\ UNCHANGED <<issued, rows, applied>>

(* Mutant: no search before the insert.                                    *)
NeverFinds(b) ==
  /\ job[b].up = "find"
  /\ job' = [job EXCEPT ![b].up = "save"]
  /\ UNCHANGED <<issued, rows, applied>>

(* CacheService.upsert: findOneBy, then save or update, which nobody       *)
(* awaits.                                                                 *)
UpsertFinds(b) ==
  /\ job[b].up = "find"
  /\ LET same == {i \in DOMAIN rows : rows[i].key \in Covers[Key[job[b].req]]}
     IN \/ same = {} /\ job' = [job EXCEPT ![b].up = "save"]
        \/ \E i \in same : job' = [job EXCEPT ![b].up = "update", ![b].row = i]
  /\ UNCHANGED <<issued, rows, applied>>

UpsertSaves(b) ==
  /\ job[b].up = "save" /\ Len(rows) < MaxRows
  /\ rows' = Append(rows, [key |-> Key[job[b].req], req |-> job[b].req, status |-> job[b].say])
  /\ job' = [job EXCEPT ![b].up = "off"]
  /\ UNCHANGED <<issued, applied>>

(* Mutant: the stored request is not replaced.                             *)
UpdateKeepsRequest(b) ==
  /\ job[b].up = "update"
  /\ rows' = [rows EXCEPT ![job[b].row].status = job[b].say]
  /\ job' = [job EXCEPT ![b].up = "off", ![b].row = 0]
  /\ UNCHANGED <<issued, applied>>

(* Undefined fields are left as they are, so the row keeps its key.        *)
UpsertUpdates(b) ==
  /\ job[b].up = "update"
  /\ rows' = [rows EXCEPT ![job[b].row].req = job[b].req, ![job[b].row].status = job[b].say]
  /\ job' = [job EXCEPT ![b].up = "off", ![b].row = 0]
  /\ UNCHANGED <<issued, applied>>

(* The sweep's update of the status alone.                                 *)
MarkLands(b) ==
  /\ job[b].mark # None
  /\ rows' = [rows EXCEPT ![b[2]].status = job[b].mark]
  /\ job' = [job EXCEPT ![b].mark = None]
  /\ UNCHANGED <<issued, applied>>

Start ==
  \/ \E r \in Reqs : Call(r)
  \/ \E s \in Sweeps : SyncClusterCache(s) \/ Retry(s)

Work ==
  \E b \in Senders :
    \/ Emit(b) \/ SecretFails(b) \/ AgentRuns(b) \/ CopyLost(b)
    \/ LocalAnswer(b) \/ RedisAnswer(b) \/ Reject(b)
    \/ UpsertFinds(b) \/ UpsertSaves(b) \/ UpsertUpdates(b) \/ MarkLands(b)

Next == Start \/ Work

Spec == Init /\ [][Next]_vars

----
(* Properties *)

(* The request that sweep s sent for row i was answered with success, after *)
(* an agent ran it; the row may hold another request by now.               *)
SweptAfterRun(s, i) == job[<<s, i>>].comm = "resolved" /\ Ran(job[<<s, i>>].req)

(* However calls and sweeps overlap, a row says synced only if an agent ran *)
(* its request, or the one that a sweep found there.                       *)
SyncedRowRan ==
  \A i \in DOMAIN rows :
    rows[i].status = "synced" => Ran(rows[i].req) \/ \E s \in Sweeps : SweptAfterRun(s, i)

(* However calls and sweeps overlap, the failed request of a resource that *)
(* no other request touches stays in the queue until it has been run.      *)
LoneRequestIsKept ==
  Quiet => \A r \in Reqs :
    /\ job[r].say # None
    /\ \A q \in ToSet(issued) \ {r} : Covers[Key[q]] \cap Covers[Key[r]] = {}
    /\ ~Ran(r)
    => \E i \in InError : rows[i].req = r

(* A row never ends up with the request of a resource it does not match,   *)
(* whatever lands between the search and the write.                        *)
RowKeepsItsKey == \A i \in DOMAIN rows : rows[i].key \in Covers[Key[rows[i].req]]
====
