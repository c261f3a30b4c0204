---- MODULE CacheSync_proofs ----
(* Proofs about CacheSync, in which calls and sweeps overlap at will, and  *)
(* about CacheOrder, which says what holds while they do not, for any      *)
(* requests, resources and sweeps.                                         *)
EXTENDS CacheOrder, TLAPS

(* What is outstanding for a sending has a request, and a sweep's item has *)
(* the row it came from.                                                   *)
HasRequest(b) ==
  /\ job[b].comm # "idle" => job[b].req \in Reqs
  /\ job[b].comm = "idle" => job[b] = Idle
  /\ job[b].comm # "idle" /\ b \in Items => b[2] \in DOMAIN rows
  /\ job[b].mark # None \/ job[b].fail # None => b \in Items

(* An upsert in progress knows what to write, and the row it found, which  *)
(* nothing deletes, still matches.                                         *)
UpsertIsSound(b) ==
  /\ job[b].up # "off" => job[b].say \in {"synced", "error"}
  /\ job[b].up = "update" =>
       /\ job[b].row \in DOMAIN rows
       /\ rows[job[b].row].key \in Covers[Key[job[b].req]]

(* Whoever is about to write "synced" has a reason.                        *)
SyncedIsEarned(b) ==
  /\ job[b].say = "synced" => job[b].ran
  /\ job[b].mark = "synced" => job[b].comm = "resolved" /\ Ran(job[b].req)

JobInv == \A b \in Senders : HasRequest(b) /\ UpsertIsSound(b) /\ SyncedIsEarned(b)

CacheInv == TypeOK /\ JobInv /\ RowKeepsItsKey /\ SyncedRowRan

----
(* A step that leaves the table alone keeps the invariant, if the jobs it  *)
(* leaves are sound and no run and no resolved item is forgotten.          *)
LEMMA TableUnchanged ==
  ASSUME CacheInv, rows' = rows, TypeOK', JobInv',
         \A b \in Senders : job[b].ran => job'[b].ran /\ job'[b].req = job[b].req,
         \A b \in Items : job[b].comm = "resolved" =>
                            job'[b].comm = "resolved" /\ job'[b].req = job[b].req
  PROVE  CacheInv'
<1>1. RowKeepsItsKey'
  BY DEF CacheInv, RowKeepsItsKey
<1>2. SyncedRowRan'
  <2> SUFFICES ASSUME NEW i \in DOMAIN rows, rows[i].status = "synced"
               PROVE  Ran(rows[i].req)' \/ \E s \in Sweeps : SweptAfterRun(s, i)'
    BY DEF SyncedRowRan
  <2>1. i \in 1..MaxRows
    BY SenderAssumption DEF CacheInv, TypeOK
  <2>2. CASE Ran(rows[i].req)
    BY <2>2 DEF Ran
  <2>3. ASSUME NEW s \in Sweeps, SweptAfterRun(s, i) PROVE SweptAfterRun(s, i)'
    <3>1. <<s, i>> \in Items
      BY <2>1 DEF Items
    <3>2. job'[<<s, i>>].comm = "resolved" /\ job'[<<s, i>>].req = job[<<s, i>>].req
      BY <2>3, <3>1 DEF SweptAfterRun
    <3> QED
      BY <2>3, <3>2 DEF SweptAfterRun, Ran
  <2> QED
    BY <2>2, <2>3 DEF CacheInv, SyncedRowRan
<1> QED
  BY <1>1, <1>2 DEF CacheInv

(* One sending moves on: what has to be shown of its new record.           *)
LEMMA OneJob ==
  ASSUME CacheInv, NEW b \in Senders, NEW j \in Job,
         rows' = rows, job' = [job EXCEPT ![b] = j], issued' \in Seq(Reqs),
         applied' \in [Keys -> Reqs \cup {None}],
         j.comm # "idle", j.req \in Reqs,
         b \in Items => b[2] \in DOMAIN rows,
         j.mark # None => b \in Items, j.fail = job[b].fail,
         j.up # "off" => j.say \in {"synced", "error"},
         j.up = "update" => j.row \in DOMAIN rows /\ rows[j.row].key \in Covers[Key[j.req]],
         j.say = "synced" => j.ran,
         j.mark = "synced" => j.comm = "resolved" /\ Ran(j.req),
         job[b].ran => j.ran /\ j.req = job[b].req,
         job[b].comm = "resolved" => j.comm = "resolved" /\ j.req = job[b].req
  PROVE  CacheInv'
<1>1. TypeOK'
  BY DEF CacheInv, TypeOK
<1>2. \A c \in Senders : job'[c] = IF c = b THEN j ELSE job[c]
  BY DEF CacheInv, TypeOK
<1>4. \A c \in Senders : job[c].ran => job'[c].ran /\ job'[c].req = job[c].req
  BY <1>2
<1>6. \A r : Ran(r) => Ran(r)'
  BY <1>4 DEF Ran
<1>3. JobInv'
  BY <1>2, <1>6 DEF CacheInv, JobInv, HasRequest, UpsertIsSound, SyncedIsEarned
<1>5. \A c \in Items : job[c].comm = "resolved" =>
                         job'[c].comm = "resolved" /\ job'[c].req = job[c].req
  BY <1>2 DEF Senders
<1> QED
  BY <1>1, <1>3, <1>4, <1>5, TableUnchanged

----
(* A write lands: rows keep their places and their keys, so what others    *)
(* have found still matches.                                               *)
LEMMA WriteKeepsJobs ==
  ASSUME CacheInv, NEW b \in Senders, NEW j \in Job,
         job' = [job EXCEPT ![b] = j], job[b].comm # "idle",
         j.req = job[b].req, j.comm = job[b].comm, j.say = job[b].say, j.ran = job[b].ran, j.fail = job[b].fail,
         \/ j.up = "off" /\ j.mark = job[b].mark
         \/ j.up = job[b].up /\ j.row = job[b].row /\ j.mark = None,
         DOMAIN rows \subseteq DOMAIN rows',
         \A i \in DOMAIN rows : rows'[i].key = rows[i].key
  PROVE  /\ JobInv'
         /\ \A c \in Senders : /\ job'[c].comm = job[c].comm /\ job'[c].req = job[c].req
                               /\ job'[c].ran = job[c].ran
         /\ job' \in [Senders -> Job]
<1>1. \A c \in Senders : job'[c] = IF c = b THEN j ELSE job[c]
  BY DEF CacheInv, TypeOK
<1>4. \A r : Ran(r) => Ran(r)'
  BY <1>1 DEF Ran
<1>2. ASSUME NEW c \in Senders
      PROVE  HasRequest(c)' /\ UpsertIsSound(c)' /\ SyncedIsEarned(c)'
  <2>1. HasRequest(c) /\ UpsertIsSound(c) /\ SyncedIsEarned(c)
    BY DEF CacheInv, JobInv
  <2>2. HasRequest(b) /\ UpsertIsSound(b) /\ SyncedIsEarned(b)
    BY DEF CacheInv, JobInv
  <2>3. CASE c = b
    BY <1>1, <1>4, <2>2, <2>3 DEF HasRequest, UpsertIsSound, SyncedIsEarned, None
  <2>4. CASE c # b
    BY <1>1, <1>4, <2>1, <2>4 DEF HasRequest, UpsertIsSound, SyncedIsEarned
  <2> QED
    BY <2>3, <2>4
<1>3. JobInv'
  BY <1>2 DEF JobInv
<1> QED
  BY <1>1, <1>3 DEF CacheInv, TypeOK

(* What was run stays run, and what was resolved, resolved.                *)
LEMMA ReasonsStay ==
  ASSUME CacheInv,
         \A c \in Senders : /\ job'[c].comm = job[c].comm /\ job'[c].req = job[c].req
                            /\ job'[c].ran = job[c].ran
  PROVE  /\ \A r : Ran(r) => Ran(r)'
         /\ \A i \in DOMAIN rows : \A s \in Sweeps : SweptAfterRun(s, i) => SweptAfterRun(s, i)'
<1>1. \A i \in DOMAIN rows : i \in 1..MaxRows
  BY SenderAssumption DEF CacheInv, TypeOK
<1> QED
  BY <1>1 DEF SweptAfterRun, Ran, Senders, Items

LEMMA UpsertSavesStep ==
  ASSUME CacheInv, NEW b \in Senders, UpsertSaves(b) PROVE CacheInv'
<1> DEFINE j == [job[b] EXCEPT !.up = "off"]
           new == [key |-> Key[job[b].req], req |-> job[b].req, status |-> job[b].say]
<1>1. HasRequest(b) /\ UpsertIsSound(b) /\ SyncedIsEarned(b)
  BY DEF CacheInv, JobInv
<1>2. job[b] \in Job /\ job[b].comm # "idle" /\ job[b].req \in Reqs /\ job[b].say \in {"synced", "error"}
  BY <1>1 DEF UpsertSaves, HasRequest, UpsertIsSound, Idle, CacheInv, TypeOK
<1>3. j \in Job /\ job' = [job EXCEPT ![b] = j]
  BY <1>2 DEF UpsertSaves, Job
<1>4. new \in Row /\ new.key \in Covers[Key[new.req]]
  BY <1>2, KeyAssumption, CoversAssumption DEF Row
<1>5. /\ rows \in Seq(Row) /\ rows' = Append(rows, new) /\ Len(rows) < MaxRows
      /\ UNCHANGED <<issued, applied>>
  BY DEF UpsertSaves, CacheInv, TypeOK
<1>6. /\ rows' \in Seq(Row) /\ Len(rows') <= MaxRows
      /\ DOMAIN rows' = DOMAIN rows \cup {Len(rows) + 1}
      /\ \A i \in DOMAIN rows : rows'[i] = rows[i]
      /\ rows'[Len(rows) + 1] = new
  BY <1>4, <1>5, SenderAssumption
<1>7. /\ JobInv' /\ job' \in [Senders -> Job]
      /\ \A c \in Senders : /\ job'[c].comm = job[c].comm /\ job'[c].req = job[c].req
                            /\ job'[c].ran = job[c].ran
  <2>1. /\ j.req = job[b].req /\ j.comm = job[b].comm /\ j.say = job[b].say /\ j.fail = job[b].fail
        /\ j.ran = job[b].ran /\ j.up = "off" /\ j.mark = job[b].mark
    BY <1>2 DEF Job
  <2>2. DOMAIN rows \subseteq DOMAIN rows' /\ \A i \in DOMAIN rows : rows'[i].key = rows[i].key
    BY <1>6
  <2> HIDE DEF j
  <2> QED
    BY <1>2, <1>3, <2>1, <2>2, WriteKeepsJobs
<1>8. TypeOK'
  BY <1>5, <1>6, <1>7 DEF CacheInv, TypeOK
<1>9. RowKeepsItsKey'
  BY <1>4, <1>6 DEF CacheInv, RowKeepsItsKey
<1>10. SyncedRowRan'
  <2>1. new.status = "synced" => job'[b].req = new.req /\ job'[b].ran
    BY <1>1, <1>7 DEF SyncedIsEarned
  <2> HIDE DEF new
  <2> SUFFICES ASSUME NEW i \in DOMAIN rows', rows'[i].status = "synced"
               PROVE  Ran(rows[i].req)' \/ \E s \in Sweeps : SweptAfterRun(s, i)'
    BY DEF SyncedRowRan
  <2>2. CASE i \in DOMAIN rows
    <3>1. rows'[i] = rows[i]
      BY <1>6, <2>2
    <3>2. Ran(rows[i].req) \/ \E s \in Sweeps : SweptAfterRun(s, i)
      BY <2>2, <3>1 DEF CacheInv, SyncedRowRan
    <3> QED
      BY <1>7, <2>2, <3>1, <3>2, ReasonsStay
  <2>3. CASE i = Len(rows) + 1
    BY <1>6, <2>1, <2>3 DEF Ran
  <2> QED
    BY <1>6, <2>2, <2>3
<1> QED
  BY <1>7, <1>8, <1>9, <1>10 DEF CacheInv

LEMMA UpsertUpdatesStep ==
  ASSUME CacheInv, NEW b \in Senders, UpsertUpdates(b) PROVE CacheInv'
<1> DEFINE j == [job[b] EXCEPT !.up = "off", !.row = 0]
           n == job[b].row
<1>1. HasRequest(b) /\ UpsertIsSound(b) /\ SyncedIsEarned(b)
  BY DEF CacheInv, JobInv
<1>2. /\ job[b] \in Job /\ job[b].comm # "idle" /\ job[b].req \in Reqs
      /\ job[b].say \in {"synced", "error"}
      /\ n \in DOMAIN rows /\ rows[n].key \in Covers[Key[job[b].req]]
  BY <1>1 DEF UpsertUpdates, HasRequest, UpsertIsSound, Idle, CacheInv, TypeOK
<1>3. j \in Job /\ job' = [job EXCEPT ![b] = j]
  <2>1. job \in [Senders -> Job] /\ 0 \in 0..MaxRows
    BY SenderAssumption DEF CacheInv, TypeOK
  <2> QED
    BY <1>2, <2>1 DEF UpsertUpdates, Job
<1>4. /\ rows \in Seq(Row) /\ UNCHANGED <<issued, applied>>
      /\ rows' = [rows EXCEPT ![n].req = job[b].req, ![n].status = job[b].say]
  BY DEF UpsertUpdates, CacheInv, TypeOK
<1>5. rows[n] \in Row
  BY <1>2, <1>4
<1>6. /\ rows' \in Seq(Row) /\ Len(rows') = Len(rows) /\ DOMAIN rows' = DOMAIN rows
      /\ \A i \in DOMAIN rows : i # n => rows'[i] = rows[i]
      /\ rows'[n].key = rows[n].key /\ rows'[n].req = job[b].req /\ rows'[n].status = job[b].say
  <2> DEFINE q == [rows[n] EXCEPT !.req = job[b].req]
             r == [q EXCEPT !.status = job[b].say]
  <2>1. rows' = [rows EXCEPT ![n] = r]
    BY <1>2, <1>4
  <2>2. q \in Row /\ q.key = rows[n].key /\ q.req = job[b].req
    BY <1>2, <1>5 DEF Row
  <2> HIDE DEF q
  <2>3. r \in Row /\ r.key = rows[n].key /\ r.req = job[b].req /\ r.status = job[b].say
    BY <1>2, <2>2 DEF Row
  <2> HIDE DEF r
  <2>4. rows' \in Seq(Row) /\ rows'[n] = r /\ Len(rows') = Len(rows)
        /\ DOMAIN rows' = DOMAIN rows /\ \A i \in DOMAIN rows : i # n => rows'[i] = rows[i]
    BY <1>2, <1>4, <2>1, <2>3
  <2> QED
    BY <2>3, <2>4
<1>7. /\ JobInv' /\ job' \in [Senders -> Job]
      /\ \A c \in Senders : /\ job'[c].comm = job[c].comm /\ job'[c].req = job[c].req
                            /\ job'[c].ran = job[c].ran
  <2>1. /\ j.req = job[b].req /\ j.comm = job[b].comm /\ j.say = job[b].say /\ j.fail = job[b].fail
        /\ j.ran = job[b].ran /\ j.up = "off" /\ j.mark = job[b].mark
    BY <1>2 DEF Job
  <2>2. DOMAIN rows \subseteq DOMAIN rows' /\ \A i \in DOMAIN rows : rows'[i].key = rows[i].key
    BY <1>6
  <2> HIDE DEF j
  <2> QED
    BY <1>2, <1>3, <2>1, <2>2, WriteKeepsJobs
<1>8. TypeOK'
  BY <1>4, <1>6, <1>7 DEF CacheInv, TypeOK
<1>9. RowKeepsItsKey'
  BY <1>2, <1>6 DEF CacheInv, RowKeepsItsKey
<1>10. SyncedRowRan'
  <2>1. job[b].say = "synced" => job'[b].req = job[b].req /\ job'[b].ran
    BY <1>1, <1>7 DEF SyncedIsEarned
  <2> SUFFICES ASSUME NEW i \in DOMAIN rows, rows'[i].status = "synced"
               PROVE  Ran(rows[i].req)' \/ \E s \in Sweeps : SweptAfterRun(s, i)'
    BY <1>6 DEF SyncedRowRan
  <2>2. CASE i # n
    <3>1. rows'[i] = rows[i]
      BY <1>6, <2>2
    <3>2. Ran(rows[i].req) \/ \E s \in Sweeps : SweptAfterRun(s, i)
      BY <3>1 DEF CacheInv, SyncedRowRan
    <3> QED
      BY <1>7, <3>1, <3>2, ReasonsStay
  <2>3. CASE i = n
    BY <1>6, <2>1, <2>3 DEF Ran
  <2> QED
    BY <2>2, <2>3
<1> QED
  BY <1>7, <1>8, <1>9, <1>10 DEF CacheInv

LEMMA MarkLandsStep ==
  ASSUME CacheInv, NEW b \in Senders, MarkLands(b) PROVE CacheInv'
<1> DEFINE j == [job[b] EXCEPT !.mark = None]
           n == b[2]
<1>1. HasRequest(b) /\ UpsertIsSound(b) /\ SyncedIsEarned(b)
  BY DEF CacheInv, JobInv
<1>2. /\ job[b] \in Job /\ job[b].comm # "idle" /\ b \in Items /\ n \in DOMAIN rows
      /\ job[b].mark \in {"synced", "error"}
  BY <1>1 DEF MarkLands, HasRequest, Idle, CacheInv, TypeOK, Job
<1>3. j \in Job /\ job' = [job EXCEPT ![b] = j]
  BY <1>2 DEF MarkLands, Job
<1>4. /\ rows \in Seq(Row) /\ UNCHANGED <<issued, applied>>
      /\ rows' = [rows EXCEPT ![n].status = job[b].mark]
  BY DEF MarkLands, CacheInv, TypeOK
<1>5. rows[n] \in Row
  BY <1>2, <1>4
<1>6. /\ rows' \in Seq(Row) /\ Len(rows') = Len(rows) /\ DOMAIN rows' = DOMAIN rows
      /\ \A i \in DOMAIN rows : i # n => rows'[i] = rows[i]
      /\ rows'[n] = [rows[n] EXCEPT !.status = job[b].mark]
  BY <1>2, <1>4, <1>5 DEF Row
<1>7. /\ JobInv' /\ job' \in [Senders -> Job]
      /\ \A c \in Senders : /\ job'[c].comm = job[c].comm /\ job'[c].req = job[c].req
                            /\ job'[c].ran = job[c].ran
  <2>1. /\ j.req = job[b].req /\ j.comm = job[b].comm /\ j.say = job[b].say /\ j.mark = None
        /\ j.fail = job[b].fail /\ j.ran = job[b].ran /\ j.up = job[b].up /\ j.row = job[b].row
    BY <1>2 DEF Job
  <2>2. DOMAIN rows \subseteq DOMAIN rows' /\ \A i \in DOMAIN rows : rows'[i].key = rows[i].key
    BY <1>5, <1>6 DEF Row
  <2> HIDE DEF j
  <2> QED
    BY <1>2, <1>3, <2>1, <2>2, WriteKeepsJobs
<1>8. TypeOK'
  BY <1>4, <1>6, <1>7 DEF CacheInv, TypeOK
<1>9. /\ rows'[n].key = rows[n].key /\ rows'[n].req = rows[n].req
      /\ rows'[n].status = job[b].mark
  BY <1>5, <1>6 DEF Row
<1>10. RowKeepsItsKey'
  BY <1>6, <1>9 DEF CacheInv, RowKeepsItsKey
<1>11. SyncedRowRan'
  <2>1. job[b].mark = "synced" => \E s \in Sweeps : SweptAfterRun(s, n)'
    <3>1. PICK s \in Sweeps : b = <<s, n>>
      BY <1>2 DEF Items
    <3>2. job[b].mark = "synced" => SweptAfterRun(s, n)
      BY <1>1, <3>1 DEF SyncedIsEarned, SweptAfterRun
    <3> QED
      BY <1>2, <1>7, <3>2, ReasonsStay
  <2> SUFFICES ASSUME NEW i \in DOMAIN rows, rows'[i].status = "synced"
               PROVE  Ran(rows[i].req)' \/ \E s \in Sweeps : SweptAfterRun(s, i)'
    BY <1>6 DEF SyncedRowRan
  <2>2. CASE i # n
    <3>1. rows'[i] = rows[i]
      BY <1>6, <2>2
    <3>2. Ran(rows[i].req) \/ \E s \in Sweeps : SweptAfterRun(s, i)
      BY <3>1 DEF CacheInv, SyncedRowRan
    <3> QED
      BY <1>7, <3>1, <3>2, ReasonsStay
  <2>3. CASE i = n
    BY <1>9, <2>1, <2>3
  <2> QED
    BY <2>2, <2>3
<1> QED
  BY <1>7, <1>8, <1>10, <1>11 DEF CacheInv

----
(* Steps of one sending that leave the table alone.                        *)
LEMMA SendingStep ==
  ASSUME CacheInv, NEW b \in Senders,
         \/ Emit(b) \/ SecretFails(b) \/ AgentRuns(b) \/ CopyLost(b)
         \/ LocalAnswer(b) \/ RedisAnswer(b) \/ Reject(b) \/ UpsertFinds(b)
  PROVE  CacheInv'
<1>1. HasRequest(b) /\ UpsertIsSound(b) /\ SyncedIsEarned(b)
  BY DEF CacheInv, JobInv
<1>2. /\ job \in [Senders -> Job] /\ job[b] \in Job /\ issued \in Seq(Reqs)
      /\ applied \in [Keys -> Reqs \cup {None}]
      /\ rows \in Seq(Row) /\ Len(rows) <= MaxRows
  BY DEF CacheInv, TypeOK
<1>3. job[b].comm # "idle"
  BY <1>1 DEF HasRequest, Idle, Emit, SecretFails, AgentRuns, CopyLost,
              LocalAnswer, RedisAnswer, Reject, Conclude, UpsertFinds
<1>4. /\ job[b].req \in Reqs
      /\ b \in Items => b[2] \in DOMAIN rows
      /\ job[b].mark # None \/ job[b].fail # None => b \in Items
  BY <1>1, <1>3 DEF HasRequest
<1>5. CASE Emit(b)
  <2> DEFINE j == [job[b] EXCEPT !.comm = "waiting", !.out = TRUE]
  <2>1. j \in Job /\ job' = [job EXCEPT ![b] = j]
    BY <1>2, <1>5 DEF Emit, Job
  <2>2. /\ j.comm = "waiting" /\ j.req = job[b].req /\ j.ran = job[b].ran /\ j.up = job[b].up
        /\ j.row = job[b].row /\ j.say = job[b].say /\ j.mark = job[b].mark /\ j.fail = job[b].fail
        /\ job[b].comm = "queued"
    BY <1>2, <1>5 DEF Job, Emit
  <2> HIDE DEF j
  <2>3. /\ j.comm # "idle" /\ j.req \in Reqs
        /\ rows' = rows /\ issued' \in Seq(Reqs) /\ applied' \in [Keys -> Reqs \cup {None}]
    BY <1>2, <1>4, <1>5, <2>2 DEF Emit
  <2>4. /\ j.up # "off" => j.say \in {"synced", "error"}
        /\ j.up = "update" => j.row \in DOMAIN rows /\ rows[j.row].key \in Covers[Key[j.req]]
        /\ j.say = "synced" => j.ran
        /\ j.mark = "synced" => j.comm = "resolved" /\ Ran(j.req)
        /\ job[b].comm = "resolved" => j.comm = "resolved"
        /\ j.mark # None => b \in Items
    BY <1>1, <1>4, <2>2 DEF UpsertIsSound, SyncedIsEarned
  <2> QED
    BY <1>4, <2>1, <2>2, <2>3, <2>4, OneJob
<1>6. CASE SecretFails(b)
  <2> DEFINE j == [job[b] EXCEPT !.comm = "rejected", !.mark = job[b].fail]
  <2>1. j \in Job /\ job' = [job EXCEPT ![b] = j]
    BY <1>2, <1>6 DEF SecretFails, Job
  <2>2. /\ j.comm = "rejected" /\ j.req = job[b].req /\ j.ran = job[b].ran /\ j.up = job[b].up
        /\ j.row = job[b].row /\ j.say = job[b].say /\ j.mark = job[b].fail /\ j.fail = job[b].fail
        /\ job[b].comm = "queued" /\ job[b].fail \in {None, "error"}
    BY <1>2, <1>6 DEF Job, SecretFails
  <2> HIDE DEF j
  <2>3. j.mark # None => b \in Items
    BY <1>4, <2>2
  <2>4. /\ j.up # "off" => j.say \in {"synced", "error"}
        /\ j.up = "update" => j.row \in DOMAIN rows /\ rows[j.row].key \in Covers[Key[j.req]]
        /\ j.say = "synced" => j.ran
        /\ j.mark # "synced"
    BY <1>1, <2>2 DEF UpsertIsSound, SyncedIsEarned, None
  <2>5. rows' = rows /\ issued' \in Seq(Reqs) /\ applied' \in [Keys -> Reqs \cup {None}]
    BY <1>2, <1>6 DEF SecretFails
  <2> QED
    BY <1>4, <2>1, <2>2, <2>3, <2>4, <2>5, OneJob
<1>7. CASE AgentRuns(b)
  <2>1. PICK more \in {FALSE, job[b].comm = "waiting"} :
          job' = [job EXCEPT ![b].out = more, ![b].ran = TRUE]
    BY <1>7 DEF AgentRuns
  <2> DEFINE j == [job[b] EXCEPT !.out = more, !.ran = TRUE]
  <2>2. j \in Job /\ job' = [job EXCEPT ![b] = j]
    BY <1>2, <2>1 DEF Job
  <2>3. /\ j.comm = job[b].comm /\ j.req = job[b].req /\ j.ran = TRUE /\ j.up = job[b].up
        /\ j.row = job[b].row /\ j.say = job[b].say /\ j.mark = job[b].mark /\ j.fail = job[b].fail
    BY <1>2 DEF Job
  <2> HIDE DEF j
  <2>4. /\ j.up # "off" => j.say \in {"synced", "error"}
        /\ j.up = "update" => j.row \in DOMAIN rows /\ rows[j.row].key \in Covers[Key[j.req]]
        /\ j.mark = "synced" => j.comm = "resolved" /\ Ran(j.req)
    BY <1>1, <2>3 DEF UpsertIsSound, SyncedIsEarned
  <2>5. rows' = rows /\ issued' \in Seq(Reqs) /\ applied' \in [Keys -> Reqs \cup {None}]
    BY <1>2, <1>4, <1>7 DEF AgentRuns
  <2> QED
    BY <1>3, <1>4, <2>2, <2>3, <2>4, <2>5, OneJob
<1>8. CASE CopyLost(b)
  <2> DEFINE j == [job[b] EXCEPT !.out = FALSE]
  <2>1. j \in Job /\ job' = [job EXCEPT ![b] = j]
    BY <1>2, <1>8 DEF CopyLost, Job
  <2>2. /\ j.comm = job[b].comm /\ j.req = job[b].req /\ j.ran = job[b].ran /\ j.up = job[b].up
        /\ j.row = job[b].row /\ j.say = job[b].say /\ j.mark = job[b].mark /\ j.fail = job[b].fail
    BY <1>2 DEF Job
  <2> HIDE DEF j
  <2>3. /\ j.up # "off" => j.say \in {"synced", "error"}
        /\ j.up = "update" => j.row \in DOMAIN rows /\ rows[j.row].key \in Covers[Key[j.req]]
        /\ j.say = "synced" => j.ran
        /\ j.mark = "synced" => j.comm = "resolved" /\ Ran(j.req)
    BY <1>1, <2>2 DEF UpsertIsSound, SyncedIsEarned
  <2>4. rows' = rows /\ issued' \in Seq(Reqs) /\ applied' \in [Keys -> Reqs \cup {None}]
    BY <1>2, <1>8 DEF CopyLost
  <2> QED
    BY <1>3, <1>4, <2>1, <2>2, <2>3, <2>4, OneJob
<1>9. ASSUME NEW comm \in {"resolved", "rejected"}, NEW say \in {"synced", "error"},
             NEW mark \in {None, "synced", "error"}, Conclude(b, comm, say, mark),
             say = "synced" => job[b].ran,
             mark = "synced" => comm = "resolved" /\ Ran(job[b].req)
      PROVE  CacheInv'
  <2> DEFINE m == IF b \in Items THEN mark ELSE None
             j == [job[b] EXCEPT !.comm = comm, !.up = "find", !.say = say, !.mark = m]
  <2>1. j \in Job /\ job' = [job EXCEPT ![b] = j]
    BY <1>2, <1>9 DEF Conclude, Job
  <2>2. /\ j.comm = comm /\ j.req = job[b].req /\ j.ran = job[b].ran /\ j.up = "find"
        /\ j.say = say /\ j.mark = m /\ j.fail = job[b].fail
    BY <1>2 DEF Job
  <2>3. m # None => b \in Items /\ m = mark
    OBVIOUS
  <2> HIDE DEF j, m
  <2>4. j.mark = "synced" => j.comm = "resolved" /\ Ran(j.req)
    BY <1>9, <2>2, <2>3 DEF None
  <2>5. /\ rows' = rows /\ issued' \in Seq(Reqs) /\ applied' \in [Keys -> Reqs \cup {None}]
        /\ job[b].comm = "waiting"
    BY <1>2, <1>9 DEF Conclude
  <2> QED
    BY <1>4, <1>9, <2>1, <2>2, <2>3, <2>4, <2>5, OneJob
<1>10. CASE LocalAnswer(b) \/ RedisAnswer(b)
  BY <1>9, <1>10 DEF LocalAnswer, RedisAnswer, Ran
<1>11. CASE Reject(b)
  <2>1. job[b].fail \in {None, "error"} /\ "synced" # None
    BY <1>2 DEF Job, None
  <2> QED
    BY <1>9, <1>11, <2>1 DEF Reject
<1>12. CASE UpsertFinds(b)
  <2>1. job[b].up = "find" /\ UNCHANGED <<issued, rows, applied>>
    BY <1>12 DEF UpsertFinds
  <2>2. PICK up \in {"save", "update"}, n \in 0..MaxRows :
          /\ up = "update" => n \in DOMAIN rows /\ rows[n].key \in Covers[Key[job[b].req]]
          /\ job' = [job EXCEPT ![b] = [job[b] EXCEPT !.up = up, !.row = n]]
    <3>1. job[b].row \in 0..MaxRows /\ job[b] = [job[b] EXCEPT !.row = job[b].row]
      BY <1>2 DEF Job
    <3>2. CASE job' = [job EXCEPT ![b].up = "save"]
      <4>1. [job[b] EXCEPT !.up = "save", !.row = job[b].row] = [job[b] EXCEPT !.up = "save"]
        BY <1>2 DEF Job
      <4> QED
        BY <1>2, <3>1, <3>2, <4>1
    <3>3. ASSUME NEW n \in DOMAIN rows, rows[n].key \in Covers[Key[job[b].req]],
                 job' = [job EXCEPT ![b].up = "update", ![b].row = n]
          PROVE  n \in 0..MaxRows /\ job' = [job EXCEPT ![b] = [job[b] EXCEPT !.up = "update", !.row = n]]
      <4>1. n \in 0..MaxRows
        BY <1>2, SenderAssumption
      <4>2. job' = [job EXCEPT ![b] = [job[b] EXCEPT !.up = "update", !.row = n]]
        BY <1>2, <3>3, <4>1 DEF Job
      <4> QED
        BY <4>1, <4>2
    <3> QED
      BY <1>12, <3>2, <3>3 DEF UpsertFinds
  <2> DEFINE j == [job[b] EXCEPT !.up = up, !.row = n]
  <2>3. j \in Job /\ job' = [job EXCEPT ![b] = j]
    BY <1>2, <2>2 DEF Job
  <2>4. /\ j.comm = job[b].comm /\ j.req = job[b].req /\ j.ran = job[b].ran /\ j.up = up
        /\ j.row = n /\ j.say = job[b].say /\ j.mark = job[b].mark /\ j.fail = job[b].fail
    BY <1>2 DEF Job
  <2> HIDE DEF j
  <2>5. /\ j.say \in {"synced", "error"}
        /\ j.up = "update" => j.row \in DOMAIN rows /\ rows[j.row].key \in Covers[Key[j.req]]
        /\ j.say = "synced" => j.ran
        /\ j.mark = "synced" => j.comm = "resolved" /\ Ran(j.req)
    BY <1>1, <2>1, <2>2, <2>4 DEF UpsertIsSound, SyncedIsEarned
  <2>6. rows' = rows /\ issued' \in Seq(Reqs) /\ applied' \in [Keys -> Reqs \cup {None}]
    BY <1>2, <2>1
  <2> QED
    BY <1>3, <1>4, <2>3, <2>4, <2>5, <2>6, OneJob
<1> QED
  BY <1>5, <1>6, <1>7, <1>8, <1>10, <1>11, <1>12

----
(* A user's call, or a sweep, starts sendings that were idle.              *)
LEMMA StartStep ==
  ASSUME CacheInv, Start PROVE CacheInv'
<1>1. /\ job \in [Senders -> Job] /\ issued \in Seq(Reqs) /\ rows \in Seq(Row)
      /\ applied \in [Keys -> Reqs \cup {None}]
      /\ \A b \in Senders : HasRequest(b) /\ UpsertIsSound(b) /\ SyncedIsEarned(b)
  BY DEF CacheInv, TypeOK, JobInv
<1>2. Idle \in Job /\ Idle.comm = "idle" /\ ~Idle.ran /\ Idle.mark = None /\ Idle.fail = None
      /\ Idle.up = "off" /\ Idle.say = None
  BY SenderAssumption DEF Idle, Job
<1>3. ASSUME NEW r \in Reqs, Call(r) PROVE CacheInv'
  <2> DEFINE j == [job[r] EXCEPT !.comm = "queued", !.req = r]
  <2>1. r \in Senders /\ r \notin Items /\ job[r] = Idle
    BY <1>1, <1>3, SenderAssumption DEF Senders, Call, HasRequest
  <2>2. j \in Job /\ job' = [job EXCEPT ![r] = j]
    BY <1>1, <1>3, <2>1 DEF Call, Job
  <2>3. /\ j.comm = "queued" /\ j.req = r /\ ~j.ran /\ j.mark = None /\ j.fail = None
        /\ j.up = "off" /\ j.say = None
    BY <1>2, <2>1 DEF Job
  <2>4. rows' = rows /\ issued' \in Seq(Reqs) /\ applied' \in [Keys -> Reqs \cup {None}]
    BY <1>1, <1>3 DEF Call
  <2> HIDE DEF j
  <2> QED
    BY <1>2, <2>1, <2>2, <2>3, <2>4, OneJob DEF None
<1>4. ASSUME NEW s \in Sweeps, NEW ids \in SUBSET DOMAIN rows, NEW fail \in {None, "error"},
             Enqueue(s, ids, fail)
      PROVE  CacheInv'
  <2> DEFINE fresh == {<<s, i>> : i \in ids}
             j(b) == [Idle EXCEPT !.comm = "queued", !.req = rows[b[2]].req, !.fail = fail]
  <2>1. /\ job' = [b \in Senders |-> IF b \in fresh THEN j(b) ELSE job[b]]
        /\ UNCHANGED <<issued, rows, applied>>
    BY <1>4 DEF Enqueue
  <2>2. DOMAIN rows \subseteq 1..MaxRows
    BY <1>1, SenderAssumption DEF CacheInv, TypeOK
  <2>3. ASSUME NEW b \in fresh
        PROVE  /\ b \in Items /\ b[2] \in DOMAIN rows /\ job[b] = Idle
               /\ j(b) \in Job /\ j(b).comm = "queued" /\ j(b).req \in Reqs /\ ~j(b).ran
               /\ j(b).mark = None /\ j(b).up = "off" /\ j(b).say = None
    <3>1. PICK i \in ids : b = <<s, i>>
      OBVIOUS
    <3>2. b \in Items /\ b[2] \in DOMAIN rows /\ b \in Senders
      BY <2>2, <3>1 DEF Items, Senders
    <3>3. job[b] = Idle
      <4>1. job[<<s, i>>].comm = "idle"
        BY <1>4, <2>2 DEF Enqueue
      <4>2. HasRequest(b)
        BY <1>1, <3>2
      <4> QED
        BY <3>1, <4>1, <4>2 DEF HasRequest
    <3>4. rows[b[2]].req \in Reqs
      <4>1. rows \in Seq(Row) /\ b[2] \in DOMAIN rows
        BY <1>1, <3>2
      <4>2. rows[b[2]] \in Row
        BY <4>1
      <4> QED
        BY <4>2 DEF Row
    <3> QED
      BY <1>2, <3>2, <3>3, <3>4 DEF Job
  <2> HIDE DEF j, fresh
  <2>4. TypeOK'
    BY <2>1, <2>3 DEF CacheInv, TypeOK
  <2>7. \A b \in Senders : job[b].ran => job'[b].ran /\ job'[b].req = job[b].req
    BY <1>2, <2>1, <2>3
  <2>8. \A b \in Items : job[b].comm = "resolved" =>
                            job'[b].comm = "resolved" /\ job'[b].req = job[b].req
    BY <1>2, <2>1, <2>3 DEF Senders
  <2>9. \A r : Ran(r) => Ran(r)'
    BY <2>7 DEF Ran
  <2>5. ASSUME NEW b \in Senders
        PROVE  HasRequest(b)' /\ UpsertIsSound(b)' /\ SyncedIsEarned(b)'
    <3>1. CASE b \in fresh
      <4>1. job'[b] = j(b) /\ rows' = rows
        BY <2>1, <3>1
      <4>2. b \in Items /\ b[2] \in DOMAIN rows
            /\ job'[b].comm = "queued" /\ job'[b].req \in Reqs /\ job'[b].mark = None
            /\ job'[b].up = "off" /\ job'[b].say = None
        BY <2>3, <3>1, <4>1
      <4> QED
        BY <4>1, <4>2 DEF HasRequest, UpsertIsSound, SyncedIsEarned, None
    <3>2. CASE b \notin fresh
      BY <1>1, <2>1, <2>9, <3>2 DEF HasRequest, UpsertIsSound, SyncedIsEarned
    <3> QED
      BY <3>1, <3>2
  <2>6. JobInv'
    BY <2>5 DEF JobInv
  <2> QED
    BY <2>1, <2>4, <2>6, <2>7, <2>8, TableUnchanged
<1>5. InError \subseteq DOMAIN rows
  BY DEF InError
<1>6. ASSUME NEW s \in Sweeps, SyncClusterCache(s) \/ Retry(s) PROVE CacheInv'
  BY <1>4, <1>5, <1>6 DEF SyncClusterCache, Retry
<1> QED
  BY <1>3, <1>6 DEF Start

(* Nothing is outstanding at first.                                        *)
LEMMA InitHolds == Init => CacheInv
<1> SUFFICES ASSUME Init PROVE CacheInv
  OBVIOUS
<1>1. Idle \in Job /\ Idle.comm = "idle" /\ ~Idle.ran /\ Idle.mark = None /\ Idle.fail = None
      /\ Idle.up = "off" /\ Idle.say = None
  BY SenderAssumption DEF Idle, Job
<1>2. rows \in Seq(Row) /\ Len(rows) = 0 /\ DOMAIN rows = {} /\ issued \in Seq(Reqs)
  BY DEF Init
<1>3. TypeOK
  BY <1>1, <1>2, SenderAssumption DEF Init, TypeOK
<1>4. JobInv
  BY <1>1 DEF Init, JobInv, HasRequest, UpsertIsSound, SyncedIsEarned, None
<1> QED
  BY <1>2, <1>3, <1>4 DEF CacheInv, RowKeepsItsKey, SyncedRowRan

LEMMA NextStep == CacheInv /\ [Next]_vars => CacheInv'
<1> SUFFICES ASSUME CacheInv, [Next]_vars PROVE CacheInv'
  OBVIOUS
<1>1. CASE Start
  BY <1>1, StartStep
<1>2. CASE Work
  BY <1>2, SendingStep, UpsertSavesStep, UpsertUpdatesStep, MarkLandsStep DEF Work
<1>3. CASE UNCHANGED vars
  <2>1. TypeOK' /\ JobInv'
    BY <1>3 DEF vars, CacheInv, TypeOK, JobInv, HasRequest, UpsertIsSound, SyncedIsEarned, Ran
  <2> QED
    BY <1>3, <2>1, TableUnchanged DEF vars
<1> QED
  BY <1>1, <1>2, <1>3 DEF Next

(* The queue's table and the records of all sendings keep their types.     *)
THEOREM CacheTypeCorrect == Spec => []TypeOK
<1>1. Spec => []CacheInv
  BY InitHolds, NextStep, PTL DEF Spec
<1> QED
  BY <1>1, PTL DEF CacheInv

(* The write of an upsert, however late, never gives a row the request of  *)
(* another resource.                                                       *)
THEOREM CacheRowKeepsItsKey == Spec => []RowKeepsItsKey
<1>1. Spec => []CacheInv
  BY InitHolds, NextStep, PTL DEF Spec
<1> QED
  BY <1>1, PTL DEF CacheInv

(* A row says synced only if an agent ran its request, or the one that a   *)
(* sweep found there.                                                      *)
THEOREM CacheSyncedRowRan == Spec => []SyncedRowRan
<1>1. Spec => []CacheInv
  BY InitHolds, NextStep, PTL DEF Spec
<1> QED
  BY <1>1, PTL DEF CacheInv
----
(* LoneRequestIsKept: where requests come from.  A user's sending is of    *)
(* its own request, every request in the system has been issued, and the   *)
(* row a sweep's item came from still matches the item's request, though   *)
(* it may hold another by now.                                             *)
ComesFromUser(b) ==
  job[b].comm # "idle" =>
    /\ job[b].req \in ToSet(issued)
    /\ b \in Reqs => job[b].req = b
    /\ b \in Items => rows[b[2]].key \in Covers[Key[job[b].req]]

RowsComeFromUsers == \A i \in DOMAIN rows : rows[i].req \in ToSet(issued)

(* No other request touches the resource.                                  *)
Lone(r) == \A q \in ToSet(issued) \ {r} : Covers[Key[q]] \cap Covers[Key[r]] = {}

(* From its answer on, a lone request that no agent has run is in the      *)
(* queue or has its upsert outstanding.                                    *)
Kept(r) ==
  job[r].say # None /\ Lone(r) /\ ~Ran(r)
    => job[r].up # "off" \/ \E i \in InError : rows[i].req = r

KeptInv ==
  /\ \A b \in Senders : ComesFromUser(b)
  /\ RowsComeFromUsers
  /\ \A r \in Reqs : Kept(r)

(* A step of one sending: it stays what it is, forgets neither run nor     *)
(* answer, and an upsert, once started, is not given up.                   *)
Proceeds(b) ==
  /\ UNCHANGED <<issued, rows>>
  /\ \A c \in Senders \ {b} : job'[c] = job[c]
  /\ job[b].comm # "idle" /\ job'[b].req = job[b].req
  /\ job[b].ran => job'[b].ran
  /\ job[b].up # "off" => job'[b].up # "off"
  /\ job'[b].say = job[b].say \/ job'[b].up # "off"

LEMMA SendingProceeds ==
  ASSUME CacheInv, NEW b \in Senders,
         \/ Emit(b) \/ SecretFails(b) \/ AgentRuns(b) \/ CopyLost(b)
         \/ LocalAnswer(b) \/ RedisAnswer(b) \/ Reject(b) \/ UpsertFinds(b)
  PROVE  Proceeds(b)
<1>1. job \in [Senders -> Job] /\ job[b] \in Job /\ HasRequest(b)
  BY DEF CacheInv, TypeOK, JobInv
<1>2. job[b].comm # "idle"
  BY <1>1 DEF HasRequest, Idle, Emit, SecretFails, AgentRuns, CopyLost,
              LocalAnswer, RedisAnswer, Reject, Conclude, UpsertFinds
<1>3. CASE Emit(b) \/ SecretFails(b) \/ CopyLost(b)
  BY <1>1, <1>2, <1>3 DEF Emit, SecretFails, CopyLost, Proceeds, Job
<1>4. CASE AgentRuns(b)
  BY <1>1, <1>2, <1>4 DEF AgentRuns, Proceeds, Job
<1>5. CASE LocalAnswer(b) \/ RedisAnswer(b) \/ Reject(b)
  <2>1. PICK comm, say, mark : Conclude(b, comm, say, mark)
    BY <1>5 DEF LocalAnswer, RedisAnswer, Reject
  <2> QED
    BY <1>1, <1>2, <2>1 DEF Conclude, Proceeds, Job
<1>6. CASE UpsertFinds(b)
  <2>1. CASE job' = [job EXCEPT ![b].up = "save"]
    BY <1>1, <1>2, <1>6, <2>1 DEF UpsertFinds, Proceeds, Job
  <2>2. ASSUME NEW i, job' = [job EXCEPT ![b].up = "update", ![b].row = i]
        PROVE  Proceeds(b)
    BY <1>1, <1>2, <1>6, <2>2 DEF UpsertFinds, Proceeds, Job
  <2> QED
    BY <1>6, <2>1, <2>2 DEF UpsertFinds
<1> QED
  BY <1>3, <1>4, <1>5, <1>6

LEMMA ProceedsKeepsKept ==
  ASSUME CacheInv, KeptInv, NEW b \in Senders, Proceeds(b)
  PROVE  KeptInv'
<1>1. \A r : Ran(r) => Ran(r)'
  BY DEF Proceeds, Ran
<1>2. ASSUME NEW c \in Senders
      PROVE  ComesFromUser(c)'
  BY DEF KeptInv, Proceeds, ComesFromUser
<1>3. RowsComeFromUsers'
  BY DEF KeptInv, Proceeds, RowsComeFromUsers
<1>4. ASSUME NEW r \in Reqs
      PROVE  Kept(r)'
  <2>1. r \in Senders /\ Kept(r)
    BY DEF Senders, KeptInv
  <2>2. Lone(r)' => Lone(r)
    BY DEF Lone, Proceeds
  <2>3. job'[r].say = job[r].say \/ job'[r].up # "off"
    BY <2>1 DEF Proceeds
  <2>4. job[r].up # "off" => job'[r].up # "off"
    BY <2>1 DEF Proceeds
  <2> QED
    BY <1>1, <2>1, <2>2, <2>3, <2>4 DEF Kept, Proceeds, InError
<1> QED
  BY <1>2, <1>3, <1>4 DEF KeptInv

(* A write of b lands in row n: the row takes b's request and status, or   *)
(* the status alone; others keep theirs.                                   *)
Lands(b, n) ==
  /\ UNCHANGED issued
  /\ \A c \in Senders : /\ job'[c].comm = job[c].comm /\ job'[c].req = job[c].req
                        /\ job'[c].ran = job[c].ran /\ job'[c].say = job[c].say
                        /\ c # b => job'[c].up = job[c].up
  /\ DOMAIN rows' = DOMAIN rows \cup {n}
  /\ \A i \in DOMAIN rows \ {n} : rows'[i] = rows[i]
  /\ n \in DOMAIN rows => rows'[n].key = rows[n].key
  /\ job[b].comm # "idle"

(* Whatever lands in the row of a lone request comes from itself.          *)
LEMMA LandsKeepsKept ==
  ASSUME CacheInv, CacheInv', KeptInv, NEW b \in Senders, NEW n, Lands(b, n),
         rows'[n].req \in ToSet(issued),
         \/ /\ rows'[n].req = job[b].req /\ rows'[n].status = job[b].say
            /\ job[b].say \in {"synced", "error"}
         \/ /\ n \in DOMAIN rows /\ b \in Items /\ n = b[2]
            /\ job'[b].up = job[b].up
            /\ rows'[n].req = rows[n].req /\ rows'[n].status = job[b].mark
            /\ job[b].mark \in {"synced", "error"}
  PROVE  KeptInv'
<1>1. \A r : Ran(r) <=> Ran(r)'
  BY DEF Lands, Ran
<1>2. ASSUME NEW c \in Senders
      PROVE  ComesFromUser(c)'
  <2>1. HasRequest(c)
    BY DEF CacheInv, JobInv
  <2>2. job[c].comm # "idle" /\ c \in Items => rows'[c[2]].key = rows[c[2]].key
    BY <2>1 DEF HasRequest, Lands
  <2> QED
    BY <2>2 DEF KeptInv, Lands, ComesFromUser
<1>3. RowsComeFromUsers'
  BY DEF KeptInv, Lands, RowsComeFromUsers
<1>4. ASSUME NEW r \in Reqs, job[r].say # None, Lone(r), ~Ran(r)
      PROVE  job'[r].up # "off" \/ \E i \in DOMAIN rows' : rows'[i].req = r /\ rows'[i].status = "error"
  <2>1. r \in Senders /\ Kept(r) /\ HasRequest(r) /\ ComesFromUser(r)
    BY DEF Senders, KeptInv, CacheInv, JobInv
  <2>2. job[r].req = r /\ job[r].comm # "idle"
    BY <1>4, <2>1 DEF HasRequest, ComesFromUser, Idle
  <2>3. HasRequest(b) /\ SyncedIsEarned(b) /\ ComesFromUser(b)
    BY DEF CacheInv, JobInv, KeptInv
  \* No write of r's own request says synced.
  <2>4. job[b].req = r => job[b].say # "synced" /\ job[b].mark # "synced"
    BY <1>4, <2>3 DEF SyncedIsEarned, Ran
  \* One of another request cannot meet a row that matches r.
  <2>5. job[b].req # r => Covers[Key[job[b].req]] \cap Covers[Key[r]] = {}
    BY <1>4, <2>3 DEF Lone, ComesFromUser, Lands
  <2>6. CASE job[r].up # "off"
    <3>1. CASE b # r \/ job'[b].up = job[b].up
      BY <2>1, <2>6, <3>1 DEF Lands
    <3>2. CASE b = r /\ rows'[n].req = job[b].req /\ rows'[n].status = job[b].say
               /\ job[b].say \in {"synced", "error"}
      BY <2>2, <2>4, <3>2 DEF Lands
    <3> QED
      BY <3>1, <3>2
  <2>7. ASSUME NEW i \in InError, rows[i].req = r
        PROVE  rows'[i].req = r /\ rows'[i].status = "error"
    <3>1. i \in DOMAIN rows /\ rows[i].status = "error" /\ rows[i].key \in Covers[Key[r]]
      BY <2>7 DEF InError, CacheInv, RowKeepsItsKey
    <3>2. CASE i # n
      BY <2>7, <3>1, <3>2 DEF Lands
    <3>3. CASE i = n /\ job[b].req = r
      BY <2>4, <2>7, <3>3
    <3>4. CASE i = n /\ job[b].req # r
      <4>1. rows'[n].key = rows[n].key /\ n \in DOMAIN rows'
        BY <3>1, <3>4 DEF Lands
      <4>2. CASE rows'[n].req = job[b].req
        \* The row it writes matches both requests.
        <5>1. rows'[n].key \in Covers[Key[job[b].req]]
          BY <4>1, <4>2 DEF CacheInv, RowKeepsItsKey
        <5> QED
          BY <2>5, <3>1, <3>4, <4>1, <5>1
      <4>3. CASE b \in Items /\ n = b[2]
        \* So does the row the sweep's item came from.
        BY <2>3, <2>5, <3>1, <3>4, <4>3 DEF ComesFromUser, Lands
      <4> QED
        BY <4>2, <4>3
    <3> QED
      BY <3>2, <3>3, <3>4
  <2>8. InError \subseteq DOMAIN rows'
    BY DEF InError, Lands
  <2> QED
    BY <1>4, <2>1, <2>6, <2>7, <2>8 DEF Kept
<1>5. ASSUME NEW r \in Reqs
      PROVE  Kept(r)'
  <2>1. r \in Senders /\ (Lone(r)' => Lone(r)) /\ job'[r].say = job[r].say
    BY DEF Senders, Lone, Lands
  <2> QED
    BY <1>1, <1>4, <2>1 DEF Kept, InError
<1> QED
  BY <1>2, <1>3, <1>5 DEF KeptInv

LEMMA WritesKeepKept ==
  ASSUME CacheInv, CacheInv', KeptInv, NEW b \in Senders,
         UpsertSaves(b) \/ UpsertUpdates(b) \/ MarkLands(b)
  PROVE  KeptInv'
<1>1. /\ job \in [Senders -> Job] /\ job[b] \in Job /\ rows \in Seq(Row)
      /\ HasRequest(b) /\ UpsertIsSound(b) /\ ComesFromUser(b)
  BY DEF CacheInv, TypeOK, JobInv, KeptInv
<1>2. job[b].comm # "idle"
  BY <1>1 DEF HasRequest, Idle, UpsertSaves, UpsertUpdates, MarkLands
<1>3. job[b].req \in ToSet(issued) /\ (job[b].up # "off" => job[b].say \in {"synced", "error"})
  BY <1>1, <1>2 DEF ComesFromUser, UpsertIsSound
<1>4. CASE UpsertSaves(b)
  <2> DEFINE n == Len(rows) + 1
             new == [key |-> Key[job[b].req], req |-> job[b].req, status |-> job[b].say]
  <2>1. rows' = Append(rows, new) /\ UNCHANGED issued /\ job[b].up = "save"
    BY <1>4 DEF UpsertSaves
  <2>2. /\ DOMAIN rows' = DOMAIN rows \cup {n} /\ n \notin DOMAIN rows
        /\ \A i \in DOMAIN rows : rows'[i] = rows[i]
        /\ rows'[n] = new
    <3> HIDE DEF new
    <3> QED
      BY <1>1, <2>1
  <2>3. Lands(b, n)
    BY <1>1, <1>2, <1>4, <2>1, <2>2 DEF UpsertSaves, Lands, Job
  <2>4. rows'[n].req = job[b].req /\ rows'[n].status = job[b].say
    BY <2>2
  <2> HIDE DEF n
  <2> QED
    BY <1>3, <2>1, <2>3, <2>4, LandsKeepsKept
<1>5. CASE UpsertUpdates(b)
  <2> DEFINE n == job[b].row
  <2>1. /\ n \in DOMAIN rows /\ UNCHANGED issued /\ job[b].up = "update"
        /\ rows' = [rows EXCEPT ![n].req = job[b].req, ![n].status = job[b].say]
    BY <1>1, <1>5 DEF UpsertUpdates, UpsertIsSound
  <2>2. rows[n] \in Row
    BY <1>1, <2>1
  <2>3. /\ DOMAIN rows' = DOMAIN rows
        /\ \A i \in DOMAIN rows \ {n} : rows'[i] = rows[i]
        /\ rows'[n].key = rows[n].key /\ rows'[n].req = job[b].req /\ rows'[n].status = job[b].say
    BY <1>1, <2>1, <2>2 DEF Row
  <2>4. Lands(b, n)
    BY <1>1, <1>2, <1>5, <2>1, <2>3 DEF UpsertUpdates, Lands, Job
  <2> HIDE DEF n
  <2> QED
    BY <1>3, <2>1, <2>3, <2>4, LandsKeepsKept
<1>6. CASE MarkLands(b)
  <2> DEFINE n == b[2]
  <2>1. /\ b \in Items /\ n \in DOMAIN rows /\ UNCHANGED issued
        /\ job[b].mark \in {"synced", "error"}
        /\ rows' = [rows EXCEPT ![n].status = job[b].mark]
    BY <1>1, <1>2, <1>6 DEF MarkLands, HasRequest, Job
  <2>2. rows[n] \in Row
    BY <1>1, <2>1
  <2>3. /\ DOMAIN rows' = DOMAIN rows
        /\ \A i \in DOMAIN rows \ {n} : rows'[i] = rows[i]
        /\ rows'[n].key = rows[n].key /\ rows'[n].req = rows[n].req
        /\ rows'[n].status = job[b].mark
    BY <1>1, <2>1, <2>2 DEF Row
  <2>4. Lands(b, n) /\ job'[b].up = job[b].up
    BY <1>1, <1>2, <1>6, <2>1, <2>3 DEF MarkLands, Lands, Job
  <2>5. rows'[n].req \in ToSet(issued)
    BY <2>1, <2>3 DEF KeptInv, RowsComeFromUsers
  <2> HIDE DEF n
  <2>6. n = b[2]
    BY DEF n
  <2> QED
    BY <2>1, <2>3, <2>4, <2>5, <2>6, LandsKeepsKept
<1> QED
  BY <1>4, <1>5, <1>6

(* More requests make fewer of them lone; a sweep's item starts with the   *)
(* request of its row.                                                     *)
LEMMA StartKeepsKept ==
  ASSUME CacheInv, CacheInv', KeptInv, Start
  PROVE  KeptInv'
<1>1. /\ job \in [Senders -> Job] /\ issued \in Seq(Reqs) /\ rows \in Seq(Row)
      /\ \A b \in Senders : HasRequest(b) /\ ComesFromUser(b)
  BY DEF CacheInv, TypeOK, JobInv, KeptInv
<1>2. Idle.say = None /\ Idle.comm = "idle" /\ ~Idle.ran
  BY DEF Idle
<1>3. ASSUME NEW r \in Reqs, Call(r)
      PROVE  KeptInv'
  <2>1. r \in Senders /\ r \notin Items /\ job[r] = Idle
    BY <1>1, <1>3, SenderAssumption DEF Senders, Call, HasRequest
  <2>2. ToSet(issued') = ToSet(issued) \cup {r}
    <3>1. issued' = Append(issued, r)
      BY <1>3 DEF Call
    <3>2. /\ DOMAIN issued' = DOMAIN issued \cup {Len(issued) + 1}
          /\ \A i \in DOMAIN issued : issued'[i] = issued[i]
          /\ issued'[Len(issued) + 1] = r
      BY <1>1, <3>1
    <3> QED
      BY <3>2 DEF ToSet
  <2>3. /\ \A c \in Senders \ {r} : job'[c] = job[c]
        /\ job'[r].req = r /\ job'[r].say = None /\ rows' = rows
    BY <1>1, <1>2, <1>3, <2>1 DEF Call, Job
  <2>4. ASSUME NEW c \in Senders
        PROVE  ComesFromUser(c)'
    BY <1>1, <2>1, <2>2, <2>3 DEF ComesFromUser
  <2>5. RowsComeFromUsers'
    BY <2>2, <2>3 DEF KeptInv, RowsComeFromUsers
  <2>6. \A q : Ran(q) => Ran(q)'
    BY <1>2, <2>1, <2>3 DEF Ran
  <2>7. ASSUME NEW q \in Reqs
        PROVE  Kept(q)'
    <3>1. q \in Senders /\ Kept(q) /\ (Lone(q)' => Lone(q))
      BY <2>2 DEF Senders, KeptInv, Lone
    <3> QED
      BY <2>3, <2>6, <3>1 DEF Kept, InError
  <2> QED
    BY <2>4, <2>5, <2>7 DEF KeptInv
<1>4. ASSUME NEW s \in Sweeps, NEW ids \in SUBSET DOMAIN rows, NEW fail, Enqueue(s, ids, fail)
      PROVE  KeptInv'
  <2> DEFINE fresh == {<<s, i>> : i \in ids}
  <2>1. /\ \A c \in Senders \ fresh : job'[c] = job[c]
        /\ \A c \in Senders \cap fresh : job'[c].req = rows[c[2]].req
        /\ UNCHANGED <<issued, rows>>
    BY <1>4 DEF Enqueue, Idle
  <2>2. DOMAIN rows \subseteq 1..MaxRows
    BY <1>1, SenderAssumption DEF CacheInv, TypeOK
  <2>3. ASSUME NEW c \in fresh
        PROVE  c \in Items /\ c \in Senders /\ c[2] \in DOMAIN rows /\ job[c].comm = "idle"
    <3>1. PICK i \in ids : c = <<s, i>>
      OBVIOUS
    <3> QED
      BY <1>4, <2>2, <3>1 DEF Enqueue, Items, Senders
  <2>4. fresh \cap Reqs = {}
    BY <2>3, SenderAssumption
  <2> HIDE DEF fresh
  <2>5. \A q : Ran(q) => Ran(q)'
    <3>1. \A c \in fresh : ~job[c].ran
      BY <1>1, <1>2, <2>3 DEF HasRequest
    <3> QED
      BY <2>1, <3>1 DEF Ran
  <2>6. ASSUME NEW c \in Senders
        PROVE  ComesFromUser(c)'
    <3>1. CASE c \in fresh
      BY <2>1, <2>3, <2>4, <3>1 DEF ComesFromUser, KeptInv, RowsComeFromUsers, CacheInv,
                                    RowKeepsItsKey
    <3>2. CASE c \notin fresh
      BY <1>1, <2>1, <3>2 DEF ComesFromUser
    <3> QED
      BY <3>1, <3>2
  <2>7. RowsComeFromUsers'
    BY <2>1 DEF KeptInv, RowsComeFromUsers
  <2>8. ASSUME NEW q \in Reqs
        PROVE  Kept(q)'
    <3>1. q \in Senders /\ Kept(q) /\ job'[q] = job[q] /\ (Lone(q)' => Lone(q))
      BY <2>1, <2>4 DEF Senders, KeptInv, Lone
    <3> QED
      BY <2>1, <2>5, <3>1 DEF Kept, InError
  <2> QED
    BY <2>6, <2>7, <2>8 DEF KeptInv
<1>5. InError \subseteq DOMAIN rows
  BY DEF InError
<1>6. ASSUME NEW s \in Sweeps, SyncClusterCache(s) \/ Retry(s)
      PROVE  KeptInv'
  BY <1>4, <1>5, <1>6 DEF SyncClusterCache, Retry
<1> QED
  BY <1>3, <1>6 DEF Start

(* However calls, sweeps and their writes overlap, requests stay traceable *)
(* to users and lone ones are kept.                                        *)
THEOREM CacheKeptInvariant == Spec => [](CacheInv /\ KeptInv)
<1>1. Init => KeptInv
  <2> SUFFICES ASSUME Init
               PROVE  KeptInv
    OBVIOUS
  <2>1. Idle.comm = "idle" /\ Idle.say = None /\ DOMAIN rows = {}
    BY DEF Idle, Init
  <2>2. \A b \in Senders : job[b] = Idle
    BY DEF Init
  <2> QED
    BY <2>1, <2>2 DEF KeptInv, ComesFromUser, RowsComeFromUsers, Kept, Senders
<1>2. CacheInv /\ KeptInv /\ [Next]_vars => (CacheInv /\ KeptInv)'
  <2> SUFFICES ASSUME CacheInv, KeptInv, [Next]_vars
               PROVE  (CacheInv /\ KeptInv)'
    OBVIOUS
  <2>1. CacheInv'
    BY NextStep
  <2>2. CASE Start
    BY <2>1, <2>2, StartKeepsKept
  <2>3. CASE Work
    BY <2>1, <2>3, SendingProceeds, ProceedsKeepsKept, WritesKeepKept DEF Work
  <2>4. CASE UNCHANGED vars
    BY <2>1, <2>4 DEF vars, KeptInv, ComesFromUser, RowsComeFromUsers, Kept, Lone, Ran, InError
  <2> QED
    BY <2>1, <2>2, <2>3, <2>4 DEF Next
<1> QED
  BY <1>1, <1>2, InitHolds, PTL DEF Spec

(* When all writes have landed, the failed request of a resource that no   *)
(* other touches is in the queue, in error, until an agent has run it.     *)
THEOREM CacheLoneRequestIsKept == Spec => []LoneRequestIsKept
<1>1. CacheInv /\ KeptInv => LoneRequestIsKept
  BY DEF KeptInv, Kept, Lone, LoneRequestIsKept, Quiet, Open, Senders
<1> QED
  BY <1>1, CacheKeptInvariant, PTL

----
(* CacheOrder: what holds while nothing overlaps.                          *)

(* A request is issued once.                                               *)
IssuedOnce ==
  /\ \A i, j \in DOMAIN issued : issued[i] = issued[j] => i = j
  /\ \A r \in ToSet(issued) : job[r].comm # "idle"

(* It was emitted, and its sender waits for the answer or had one.         *)
Sent(b) == job[b].comm = "waiting" \/ job[b].say # None

(* Only an answered request is in the table, so a sweep never sends one    *)
(* whose first sending is under way, and finds the row it came from.       *)
RowsAreAnswered ==
  /\ \A i \in DOMAIN rows : job[rows[i].req].say # None
  /\ \A b \in Items : job[b].comm # "idle" => job[job[b].req].say # None /\ job[b].up # "save"

(* What runs has been sent, and the cluster ran what a user had sent.      *)
RunsWereSent ==
  /\ \A b \in Senders : job[b].ran \/ job[b].out => Sent(b)
  /\ \A k \in Keys : applied[k] # None =>
       applied[k] \in ToSet(issued) /\ Key[applied[k]] = k /\ Sent(applied[k])

(* A user's request that is at work is the last one and works alone; of    *)
(* sweeps one is at work.                                                  *)
OneAtWork ==
  /\ \A r \in Reqs : Open(r) => r = issued[Len(issued)] /\ \A b \in Senders \ {r} : ~Open(b)
  /\ \A b, c \in Items : Open(b) /\ Open(c) => b[1] = c[1]

Mine(k)      == {i \in DOMAIN rows : rows[i].key = k}
Named(k)     == Covers[k] = {k} /\ \A r \in Touching(k) : Key[r] = k
Newest(k, r) == r \in Touching(k) /\ \A q \in Touching(k) : ~Newer(q, r)
Recording(k) == \E r \in Reqs : job[r].up # "off" /\ Key[r] = k

(* A fully named resource has one row at most, with the newest request,    *)
(* unless the upsert of a newer one is under way.  A sweep's item still    *)
(* finds its request in its row.                                           *)
RowIsNewest(k) ==
  /\ \A i, j \in Mine(k) : i = j
  /\ Touching(k) # {} => Mine(k) # {} \/ Recording(k)
  /\ \A i \in Mine(k) : Newest(k, rows[i].req) \/ Recording(k)
  /\ \A i \in Mine(k) : rows[i].status = "synced" => Ran(rows[i].req)
  /\ \A r \in Reqs : job[r].up = "save" /\ Key[r] = k => Mine(k) = {}
  /\ \A b \in Items : Open(b) /\ b[2] \in Mine(k) => rows[b[2]].req = job[b].req

InOrder == OneAtWork /\ \A k \in Keys : Named(k) => RowIsNewest(k)

OrderInv == IssuedOnce /\ RowsAreAnswered /\ RunsWereSent /\ (alone => InOrder)

(* Positions order what was issued, and the last one is the newest.        *)
LEMMA Positions ==
  ASSUME CacheInv, IssuedOnce
  PROVE  /\ \A q : ~Newer(q, issued[Len(issued)])
         /\ \A q : ~Newer(q, q)
         /\ \A q, r \in ToSet(issued) : q # r => Newer(q, r) \/ Newer(r, q)
<1>1. /\ DOMAIN issued = 1..Len(issued) /\ Len(issued) \in Nat
      /\ \A i, j \in DOMAIN issued : issued[i] = issued[j] => i = j
  BY DEF CacheInv, TypeOK, IssuedOnce
<1>2. ASSUME NEW q, Newer(q, issued[Len(issued)])
      PROVE  FALSE
  <2>1. PICK i, j \in DOMAIN issued : i > j /\ issued[j] = issued[Len(issued)]
    BY <1>2 DEF Newer
  <2>2. j = Len(issued)
    BY <1>1, <2>1
  <2> QED
    BY <1>1, <2>1, <2>2
<1>3. ASSUME NEW q, Newer(q, q)
      PROVE  FALSE
  <2>1. PICK i, j \in DOMAIN issued : i > j /\ issued[i] = issued[j]
    BY <1>3 DEF Newer
  <2> QED
    BY <1>1, <2>1
<1>4. ASSUME NEW q \in ToSet(issued), NEW r \in ToSet(issued), q # r
      PROVE  Newer(q, r) \/ Newer(r, q)
  <2>1. PICK i, j \in DOMAIN issued : issued[i] = q /\ issued[j] = r
    BY DEF ToSet
  <2>2. i > j \/ j > i
    BY <1>1, <1>4, <2>1
  <2> QED
    BY <2>1, <2>2 DEF Newer
<1> QED
  BY <1>2, <1>3, <1>4

(* A step of the work on b.                                                *)
Works(b) ==
  /\ UNCHANGED <<issued, alone>>
  /\ \A c \in Senders \ {b} : job'[c] = job[c]
  /\ Open(b) /\ job[b].comm # "idle" /\ job'[b].comm # "idle"
  /\ job'[b].req = job[b].req
  /\ job[b].ran => job'[b].ran
  /\ job[b].say # None => job'[b].say # None
  /\ Sent(b) => Sent(b)'
  /\ job'[b].ran \/ job'[b].out => Sent(b)'

LEMMA WorkOnOne ==
  ASSUME CacheInv, RunsWereSent, UNCHANGED alone, NEW b \in Senders,
         \/ Emit(b) \/ SecretFails(b) \/ AgentRuns(b) \/ CopyLost(b)
         \/ LocalAnswer(b) \/ RedisAnswer(b) \/ Reject(b)
         \/ UpsertFinds(b) \/ UpsertSaves(b) \/ UpsertUpdates(b) \/ MarkLands(b)
  PROVE  Works(b)
<1>1. /\ job \in [Senders -> Job] /\ job[b] \in Job /\ HasRequest(b) /\ UpsertIsSound(b)
      /\ job[b].ran \/ job[b].out => Sent(b)
  BY DEF CacheInv, TypeOK, JobInv, RunsWereSent
<1>2. CASE Emit(b) \/ SecretFails(b) \/ CopyLost(b)
  BY <1>1, <1>2 DEF Emit, SecretFails, CopyLost, Works, Sent, Open, HasRequest, Idle, Job
<1>3. CASE AgentRuns(b)
  BY <1>1, <1>3 DEF AgentRuns, Works, Sent, Open, HasRequest, Idle, Job
<1>4. CASE LocalAnswer(b) \/ RedisAnswer(b) \/ Reject(b)
  <2>1. PICK comm \in {"resolved", "rejected"}, say \in {"synced", "error"},
              mark \in {None, "synced", "error"} : Conclude(b, comm, say, mark)
    BY <1>1, <1>4 DEF Job, LocalAnswer, RedisAnswer, Reject
  <2>2. say # None
    BY DEF None
  <2>3. /\ job[b].comm = "waiting" /\ UNCHANGED issued
        /\ \A c \in Senders \ {b} : job'[c] = job[c]
        /\ job'[b].comm = comm /\ job'[b].say = say
        /\ job'[b].req = job[b].req /\ job'[b].ran = job[b].ran
    BY <1>1, <2>1 DEF Conclude, Job
  <2> QED
    BY <2>2, <2>3 DEF Works, Sent, Open
<1>5. CASE UpsertFinds(b)
  <2>1. job[b].up = "find" /\ UNCHANGED issued
    BY <1>5 DEF UpsertFinds
  <2>2. \/ job' = [job EXCEPT ![b].up = "save"]
        \/ \E i \in DOMAIN rows : job' = [job EXCEPT ![b].up = "update", ![b].row = i]
    BY <1>5 DEF UpsertFinds
  <2>3. /\ \A c \in Senders \ {b} : job'[c] = job[c]
        /\ job'[b].comm = job[b].comm /\ job'[b].req = job[b].req /\ job'[b].ran = job[b].ran
        /\ job'[b].say = job[b].say /\ job'[b].out = job[b].out
    BY <1>1, <2>2 DEF Job
  <2>4. job[b].comm # "idle"
    BY <1>1, <2>1 DEF HasRequest, Idle
  <2> QED
    BY <1>1, <2>1, <2>3, <2>4 DEF Works, Sent, Open
<1>6. CASE UpsertSaves(b) \/ UpsertUpdates(b) \/ MarkLands(b)
  BY <1>1, <1>6 DEF UpsertSaves, UpsertUpdates, MarkLands, Works, Sent, Open, HasRequest, Idle, Job
<1> QED
  BY <1>2, <1>3, <1>4, <1>5, <1>6

(* What any work leaves as it is.                                          *)
LEMMA WorkFrame ==
  ASSUME CacheInv, KeptInv, OrderInv, NEW b \in Senders, Works(b)
  PROVE  /\ IssuedOnce'
         /\ OneAtWork => OneAtWork'
         /\ \A c \in Senders : Open(c)' => Open(c)
         /\ \A r : Ran(r) => Ran(r)'
         /\ \A r, q : Newer(r, q)' <=> Newer(r, q)
         /\ \A k \in Keys : /\ Touching(k) \subseteq Touching(k)'
                            /\ Touching(k)' \subseteq Touching(k) \cup {b}
                            /\ Named(k)' => Named(k)
                            /\ job'[b].say = job[b].say => Touching(k)' = Touching(k)
         /\ \A c \in Senders : job'[c].ran \/ job'[c].out => Sent(c)'
         /\ \A r \in ToSet(issued) : job[r].say # None => job'[r].say # None
         /\ \A r \in ToSet(issued) : Sent(r) => Sent(r)'
<1> USE DEF Works
<1>1. ToSet(issued) \subseteq Reqs /\ Reqs \subseteq Senders
  BY DEF CacheInv, TypeOK, ToSet, Senders
<1>2. IssuedOnce'
  BY <1>1 DEF OrderInv, IssuedOnce
<1>3. \A c \in Senders : Open(c)' => Open(c)
  BY DEF Open
<1>4. OneAtWork => OneAtWork'
  BY <1>3 DEF OneAtWork, Senders
<1>5. \A r : Ran(r) => Ran(r)'
  BY DEF Ran
<1>6. \A r, q : Newer(r, q)' <=> Newer(r, q)
  BY DEF Newer
<1>7. \A r \in ToSet(issued) : (job[r].say # None => job'[r].say # None) /\ (Sent(r) => Sent(r)')
  BY <1>1 DEF Sent
<1>8. ASSUME NEW k \in Keys
      PROVE  /\ Touching(k) \subseteq Touching(k)'
             /\ Touching(k)' \subseteq Touching(k) \cup {b}
             /\ Named(k)' => Named(k)
             /\ job'[b].say = job[b].say => Touching(k)' = Touching(k)
  <2>1. Touching(k) \subseteq Touching(k)'
    BY <1>7 DEF Touching
  <2>2. Touching(k)' \subseteq Touching(k) \cup {b}
    BY <1>1 DEF Touching
  <2>3. job'[b].say = job[b].say => Touching(k)' = Touching(k)
    BY <1>1 DEF Touching
  <2>4. Named(k)' => Named(k)
    BY <2>1 DEF Named
  <2> QED
    BY <2>1, <2>2, <2>3, <2>4
<1>9. ASSUME NEW c \in Senders
      PROVE  job'[c].ran \/ job'[c].out => Sent(c)'
  BY DEF OrderInv, RunsWereSent, Sent
<1> QED
  BY <1>2, <1>3, <1>4, <1>5, <1>6, <1>7, <1>8, <1>9

(* What a step of the work on b does to the table and to the upsert: it    *)
(* leaves both, it starts or decides the upsert, or a write lands.         *)
SameUpsert(b) == job'[b].up = job[b].up /\ job'[b].say = job[b].say

Waits(b) ==
  /\ rows' = rows /\ SameUpsert(b)
  /\ \/ applied' = applied
     \/ job[b].out /\ applied' = [applied EXCEPT ![Key[job[b].req]] = job[b].req]

Concludes(b) ==
  /\ UNCHANGED <<rows, applied>>
  /\ job'[b].up = "find" /\ job'[b].say # None

Finds(b) ==
  /\ UNCHANGED <<rows, applied>> /\ job[b].up = "find" /\ job'[b].say = job[b].say
  /\ \/ job'[b].up = "update"
     \/ /\ job'[b].up = "save"
        /\ \A i \in DOMAIN rows : rows[i].key \notin Covers[Key[job[b].req]]

Writes(b, n) ==
  /\ UNCHANGED applied
  /\ job[b].up # "off" /\ job'[b].up = "off" /\ job'[b].say = job[b].say
  /\ DOMAIN rows' = DOMAIN rows \cup {n}
  /\ \A i \in DOMAIN rows \ {n} : rows'[i] = rows[i]
  /\ rows'[n].req = job[b].req /\ rows'[n].status = job[b].say
  /\ \/ job[b].up = "save" /\ n \notin DOMAIN rows /\ rows'[n].key = Key[job[b].req]
     \/ job[b].up = "update" /\ n \in DOMAIN rows /\ rows'[n].key = rows[n].key

Marks(b) ==
  /\ UNCHANGED applied /\ SameUpsert(b)
  /\ b \in Items /\ b[2] \in DOMAIN rows
  /\ DOMAIN rows' = DOMAIN rows
  /\ \A i \in DOMAIN rows \ {b[2]} : rows'[i] = rows[i]
  /\ rows'[b[2]].key = rows[b[2]].key /\ rows'[b[2]].req = rows[b[2]].req
  /\ rows'[b[2]].status = job[b].mark

KindOfWork(b) == Waits(b) \/ Concludes(b) \/ Finds(b) \/ Marks(b) \/ \E n : Writes(b, n)

LEMMA KindsOfWork ==
  ASSUME CacheInv, NEW b \in Senders,
         \/ Emit(b) \/ SecretFails(b) \/ AgentRuns(b) \/ CopyLost(b)
         \/ LocalAnswer(b) \/ RedisAnswer(b) \/ Reject(b)
         \/ UpsertFinds(b) \/ UpsertSaves(b) \/ UpsertUpdates(b) \/ MarkLands(b)
  PROVE  KindOfWork(b)
<1> USE DEF KindOfWork
<1>1. /\ job \in [Senders -> Job] /\ job[b] \in Job /\ rows \in Seq(Row)
      /\ HasRequest(b) /\ UpsertIsSound(b)
  BY DEF CacheInv, TypeOK, JobInv
<1>2. CASE Emit(b) \/ SecretFails(b) \/ CopyLost(b)
  BY <1>1, <1>2 DEF Emit, SecretFails, CopyLost, Waits, SameUpsert, Job
<1>3. CASE AgentRuns(b)
  BY <1>1, <1>3 DEF AgentRuns, Waits, SameUpsert, Job
<1>4. CASE LocalAnswer(b) \/ RedisAnswer(b) \/ Reject(b)
  <2>1. PICK comm \in {"resolved", "rejected"}, say \in {"synced", "error"},
              mark \in {None, "synced", "error"} : Conclude(b, comm, say, mark)
    BY <1>1, <1>4 DEF Job, LocalAnswer, RedisAnswer, Reject
  <2>2. say # None
    BY DEF None
  <2> QED
    BY <1>1, <2>1, <2>2 DEF Conclude, Concludes, Job
<1>5. CASE UpsertFinds(b)
  <2>1. job[b].up = "find" /\ UNCHANGED <<rows, applied>>
    BY <1>5 DEF UpsertFinds
  <2>2. CASE job' = [job EXCEPT ![b].up = "save"]
             /\ \A i \in DOMAIN rows : rows[i].key \notin Covers[Key[job[b].req]]
    BY <1>1, <2>1, <2>2 DEF Finds, Job
  <2>3. ASSUME NEW i \in DOMAIN rows, job' = [job EXCEPT ![b].up = "update", ![b].row = i]
        PROVE  Finds(b)
    BY <1>1, <2>1, <2>3 DEF Finds, Job
  <2> QED
    BY <1>5, <2>2, <2>3 DEF UpsertFinds
<1>6. CASE UpsertSaves(b)
  <2> DEFINE n == Len(rows) + 1
             new == [key |-> Key[job[b].req], req |-> job[b].req, status |-> job[b].say]
  <2>1. rows' = Append(rows, new) /\ UNCHANGED applied /\ job[b].up = "save"
    BY <1>6 DEF UpsertSaves
  <2>2. /\ DOMAIN rows' = DOMAIN rows \cup {n} /\ n \notin DOMAIN rows
        /\ \A i \in DOMAIN rows : rows'[i] = rows[i]
        /\ rows'[n] = new
    <3> HIDE DEF new
    <3> QED
      BY <1>1, <2>1
  <2>3. job'[b].up = "off" /\ job'[b].say = job[b].say
    BY <1>1, <1>6 DEF UpsertSaves, Job
  <2>4. Writes(b, n)
    BY <2>1, <2>2, <2>3 DEF Writes
  <2> QED
    BY <2>4
<1>7. CASE UpsertUpdates(b)
  <2> DEFINE n == job[b].row
  <2>1. /\ n \in DOMAIN rows /\ UNCHANGED applied /\ job[b].up = "update"
        /\ rows' = [rows EXCEPT ![n].req = job[b].req, ![n].status = job[b].say]
    BY <1>1, <1>7 DEF UpsertUpdates, UpsertIsSound
  <2>2. rows[n] \in Row
    BY <1>1, <2>1
  <2>3. /\ DOMAIN rows' = DOMAIN rows
        /\ \A i \in DOMAIN rows \ {n} : rows'[i] = rows[i]
        /\ rows'[n].key = rows[n].key /\ rows'[n].req = job[b].req /\ rows'[n].status = job[b].say
    BY <1>1, <2>1, <2>2 DEF Row
  <2>4. job'[b].up = "off" /\ job'[b].say = job[b].say
    BY <1>1, <1>7 DEF UpsertUpdates, Job
  <2>5. Writes(b, n)
    BY <2>1, <2>3, <2>4 DEF Writes
  <2> QED
    BY <2>5
<1>8. CASE MarkLands(b)
  <2> DEFINE n == b[2]
  <2>1. /\ b \in Items /\ n \in DOMAIN rows /\ UNCHANGED applied
        /\ rows' = [rows EXCEPT ![n].status = job[b].mark]
    BY <1>1, <1>8 DEF MarkLands, HasRequest, Idle
  <2>2. rows[n] \in Row
    BY <1>1, <2>1
  <2>3. /\ DOMAIN rows' = DOMAIN rows
        /\ \A i \in DOMAIN rows \ {n} : rows'[i] = rows[i]
        /\ rows'[n].key = rows[n].key /\ rows'[n].req = rows[n].req
        /\ rows'[n].status = job[b].mark
    BY <1>1, <2>1, <2>2 DEF Row
  <2>4. SameUpsert(b)
    BY <1>1, <1>8 DEF MarkLands, SameUpsert, Job
  <2> QED
    BY <2>1, <2>3, <2>4 DEF Marks
<1> QED
  BY <1>2, <1>3, <1>4, <1>5, <1>6, <1>7, <1>8

(* A write puts an answered request in the table, a run one that was sent. *)
LEMMA WorkIsAnswered ==
  ASSUME CacheInv, KeptInv, OrderInv, NEW b \in Senders, Works(b), KindOfWork(b)
  PROVE  RowsAreAnswered' /\ RunsWereSent'
<1>1. /\ rows \in Seq(Row) /\ job[b].req \in ToSet(issued) /\ job[b].comm # "idle"
      /\ HasRequest(b) /\ UpsertIsSound(b) /\ ComesFromUser(b)
      /\ ToSet(issued) \subseteq Reqs /\ applied \in [Keys -> Reqs \cup {None}]
  BY DEF CacheInv, TypeOK, JobInv, KeptInv, ComesFromUser, Works, ToSet
<1>2. /\ \A r \in ToSet(issued) : job[r].say # None => job'[r].say # None
      /\ \A r \in ToSet(issued) : Sent(r) => Sent(r)'
      /\ \A c \in Senders : job'[c].ran \/ job'[c].out => Sent(c)'
      /\ UNCHANGED issued /\ job'[b].req = job[b].req
      /\ \A c \in Senders \ {b} : job'[c] = job[c]
  BY WorkFrame DEF Works
<1>3. b \in Items => job[job[b].req].say # None /\ job[b].up # "save"
  BY <1>1 DEF OrderInv, RowsAreAnswered
<1>4. b \in Reqs => job[b].req = b
  BY <1>1 DEF ComesFromUser
<1>5. \A i \in DOMAIN rows : rows[i].req \in ToSet(issued) /\ job[rows[i].req].say # None
  BY DEF KeptInv, RowsComeFromUsers, OrderInv, RowsAreAnswered
<1>6. ASSUME NEW i \in DOMAIN rows'
      PROVE  job'[rows'[i].req].say # None
  <2>1. CASE i \in DOMAIN rows /\ rows'[i].req = rows[i].req
    BY <1>2, <1>5, <2>1
  <2>2. CASE rows'[i].req = job[b].req /\ job[b].up # "off"
    <3>1. job[b].say # None
      BY <1>1, <2>2 DEF UpsertIsSound, None
    <3>2. job[job[b].req].say # None
      BY <1>3, <1>4, <3>1 DEF Senders
    <3> QED
      BY <1>1, <1>2, <2>2, <3>2
  <2> QED
    BY <2>1, <2>2 DEF KindOfWork, Waits, Concludes, Finds, Marks, Writes
<1>7. ASSUME NEW c \in Items, job'[c].comm # "idle"
      PROVE  job'[job'[c].req].say # None /\ job'[c].up # "save"
  <2>1. c \in Senders /\ job[c].comm # "idle" /\ job'[c].req = job[c].req
    BY <1>1, <1>2, <1>7 DEF Senders
  <2>2. job[job[c].req].say # None /\ job[c].up # "save" /\ job[c].req \in ToSet(issued)
    BY <2>1 DEF OrderInv, RowsAreAnswered, KeptInv, ComesFromUser
  <2>3. job'[c].up # "save"
    <3>1. CASE c = b /\ Finds(b)
      \* The search of an item meets the row it came from.
      <4>1. b[2] \in DOMAIN rows /\ rows[b[2]].key \in Covers[Key[job[b].req]]
        BY <1>1, <1>7, <3>1 DEF HasRequest, ComesFromUser
      <4> QED
        BY <3>1, <4>1 DEF Finds
    <3>2. CASE c # b
      BY <1>2, <2>1, <2>2, <3>2
    <3> QED
      BY <2>2, <3>1, <3>2 DEF KindOfWork, Waits, Concludes, Marks, Writes, SameUpsert
  <2> QED
    BY <1>2, <2>1, <2>2, <2>3
<1>8. ASSUME NEW k \in Keys, applied'[k] # None
      PROVE  applied'[k] \in ToSet(issued) /\ Key[applied'[k]] = k /\ Sent(applied[k])'
  <2>1. CASE applied'[k] = applied[k]
    BY <1>2, <1>8, <2>1 DEF OrderInv, RunsWereSent
  <2>2. CASE applied'[k] # applied[k]
    <3>1. job[b].out /\ applied'[k] = job[b].req /\ k = Key[job[b].req]
      BY <1>1, <2>2 DEF KindOfWork, Waits, Concludes, Finds, Marks, Writes
    <3>2. Sent(job[b].req)
      <4>1. Sent(b)
        BY <3>1 DEF OrderInv, RunsWereSent
      <4> QED
        BY <1>3, <1>4, <4>1 DEF Sent, Senders
    <3> QED
      BY <1>1, <1>2, <3>1, <3>2
  <2> QED
    BY <2>1, <2>2
<1>9. RowsAreAnswered'
  BY <1>6, <1>7 DEF RowsAreAnswered
<1>10. RunsWereSent'
  BY <1>2, <1>8 DEF RunsWereSent
<1> QED
  BY <1>9, <1>10

(* Who is at work while nothing overlaps.                                  *)
LEMMA WorkAlone ==
  ASSUME CacheInv, KeptInv, OrderInv, alone, NEW b \in Senders, Works(b)
  PROVE  /\ OneAtWork
         /\ b \in Reqs => /\ b = issued[Len(issued)] /\ job[b].req = b /\ b \notin Items
                          /\ \A c \in Senders \ {b} : ~Open(c) /\ job'[c] = job[c]
         /\ b \in Items => \A r \in Reqs : ~Open(r) /\ job'[r] = job[r]
         /\ \A c \in Items : c \in Senders /\ job'[c].req = job[c].req
<1>1. OneAtWork
  BY DEF OrderInv, InOrder
<1>2. /\ job[b].comm # "idle" /\ Open(b) /\ ComesFromUser(b) /\ Reqs \cap Items = {}
      /\ Reqs \subseteq Senders /\ Items \subseteq Senders
      /\ \A c \in Senders \ {b} : job'[c] = job[c]
      /\ job'[b].req = job[b].req
  BY SenderAssumption DEF Works, KeptInv, Senders
<1> QED
  BY <1>1, <1>2 DEF OneAtWork, ComesFromUser

(* What leaves the row of k its request, and says synced only of one that  *)
(* was run, keeps it the newest.                                           *)
LEMMA RowUntouched ==
  ASSUME CacheInv, KeptInv, OrderInv, alone, NEW b \in Senders, Works(b), NEW k \in Keys,
         Named(k), Touching(k)' = Touching(k), Recording(k)' <=> Recording(k),
         Mine(k)' = Mine(k),
         \A i \in Mine(k) : /\ rows'[i].req = rows[i].req
                            /\ rows'[i].status = "synced" =>
                                 rows[i].status = "synced" \/ Ran(rows[i].req)',
         \A r \in Reqs : job'[r].up = "save" /\ Key[r] = k => Mine(k) = {}
  PROVE  RowIsNewest(k)'
<1>1. RowIsNewest(k)
  BY DEF OrderInv, InOrder
<1>2. /\ \A r : Ran(r) => Ran(r)'
      /\ \A r, q : Newer(r, q)' <=> Newer(r, q)
      /\ \A c \in Senders : Open(c)' => Open(c)
  BY WorkFrame DEF OrderInv
<1>3. \A c \in Items : c \in Senders /\ job'[c].req = job[c].req
  BY WorkAlone
<1>4. \A r \in Touching(k) : Newest(k, r) => Newest(k, r)'
  BY <1>2 DEF Newest
<1>5. \A i \in Mine(k)' : Newest(k, rows[i].req)' \/ Recording(k)'
  BY <1>1, <1>4 DEF RowIsNewest, Newest
<1>6. \A i \in Mine(k)' : rows'[i].status = "synced" => Ran(rows[i].req)'
  BY <1>1, <1>2 DEF RowIsNewest
<1>7. \A c \in Items : Open(c)' /\ c[2] \in Mine(k)' => rows'[c[2]].req = job'[c].req
  BY <1>1, <1>2, <1>3 DEF RowIsNewest
<1> QED
  BY <1>1, <1>5, <1>6, <1>7 DEF RowIsNewest

(* The kinds of work, for a fully named resource.                          *)
LEMMA WaitsOrder ==
  ASSUME CacheInv, KeptInv, OrderInv, alone, NEW b \in Senders, Works(b), NEW k \in Keys,
         Named(k)', Waits(b) \/ Finds(b)
  PROVE  RowIsNewest(k)'
<1>1. Named(k) /\ Touching(k)' = Touching(k)
  BY WorkFrame DEF Waits, Finds, SameUpsert
<1>2. RowIsNewest(k) /\ Mine(k)' = Mine(k) /\ rows' = rows
  BY <1>1 DEF OrderInv, InOrder, Waits, Finds, Mine
<1>3. \A c \in Senders \ {b} : job'[c] = job[c]
  BY DEF Works
<1>4. Recording(k)' <=> Recording(k)
  BY <1>3 DEF Recording, Waits, Finds, SameUpsert, Senders
<1>5. ASSUME NEW r \in Reqs, job'[r].up = "save", Key[r] = k
      PROVE  Mine(k) = {}
  <2>1. CASE job[r].up = "save"
    BY <1>2, <1>5, <2>1 DEF RowIsNewest
  <2>2. CASE r = b /\ Finds(b) /\ job[b].up = "find"
    \* A search that misses has met no row of k.
    <3>1. job[b].req = b /\ k \in Covers[k]
      BY <1>5, <2>2, WorkAlone, CoversAssumption
    <3> QED
      BY <1>5, <2>2, <3>1 DEF Finds, Mine
  <2> QED
    BY <1>3, <1>5, <2>1, <2>2 DEF Waits, Finds, SameUpsert, Senders
<1> QED
  BY <1>1, <1>2, <1>4, <1>5, RowUntouched

LEMMA ConcludesOrder ==
  ASSUME CacheInv, KeptInv, OrderInv, alone, NEW b \in Senders, Works(b), NEW k \in Keys,
         Named(k)', Concludes(b)
  PROVE  RowIsNewest(k)'
<1>1. Named(k) /\ rows' = rows /\ Mine(k)' = Mine(k)
  BY WorkFrame DEF Concludes, Mine
<1>2. RowIsNewest(k)
  BY <1>1 DEF OrderInv, InOrder
<1>3. \A c \in Senders \ {b} : job'[c] = job[c]
  BY DEF Works
<1>4. ASSUME NEW r \in Reqs, job'[r].up = "save", Key[r] = k
      PROVE  Mine(k) = {}
  BY <1>2, <1>3, <1>4 DEF RowIsNewest, Concludes, Senders
<1>5. CASE b \in Reqs /\ Key[b] = k
  <2>1. Recording(k)'
    BY <1>5 DEF Recording, Concludes
  <2>2. /\ \A c \in Senders : Open(c)' => Open(c)
        /\ \A r : Ran(r) => Ran(r)'
    BY WorkFrame
  <2>3. \A c \in Items : ~Open(c)'
    BY <1>5, <2>2, WorkAlone
  <2>4. \A i \in Mine(k)' : rows'[i].status = "synced" => Ran(rows[i].req)'
    BY <1>1, <1>2, <2>2 DEF RowIsNewest
  <2> QED
    BY <1>1, <1>2, <1>4, <2>1, <2>3, <2>4 DEF RowIsNewest
<1>6. CASE ~(b \in Reqs /\ Key[b] = k)
  <2>1. Touching(k)' = Touching(k)
    <3>1. Touching(k) \subseteq Touching(k)' /\ Touching(k)' \subseteq Touching(k) \cup {b}
      BY WorkFrame
    <3>2. b \in Touching(k)' => b \in Reqs /\ Key[b] = k
      BY DEF Named, Touching, CacheInv, TypeOK, ToSet, Works
    <3> QED
      BY <1>6, <3>1, <3>2
  <2>2. Recording(k)' <=> Recording(k)
    BY <1>3, <1>6 DEF Recording, Senders
  <2> QED
    BY <1>1, <1>4, <2>1, <2>2, RowUntouched
<1> QED
  BY <1>5, <1>6

LEMMA MarksOrder ==
  ASSUME CacheInv, KeptInv, OrderInv, alone, NEW b \in Senders, Works(b), NEW k \in Keys,
         Named(k)', Marks(b)
  PROVE  RowIsNewest(k)'
<1>1. Named(k) /\ Touching(k)' = Touching(k) /\ Mine(k)' = Mine(k)
  <2>1. \A i \in DOMAIN rows : rows'[i].key = rows[i].key
    BY DEF Marks
  <2> QED
    BY <2>1, WorkFrame DEF Marks, SameUpsert, Mine
<1>2. RowIsNewest(k)
  BY <1>1 DEF OrderInv, InOrder
<1>3. \A r \in Reqs : job'[r] = job[r]
  BY WorkAlone DEF Marks
<1>4. Recording(k)' <=> Recording(k)
  BY <1>3 DEF Recording
<1>5. ASSUME NEW i \in Mine(k)
      PROVE  /\ rows'[i].req = rows[i].req
             /\ rows'[i].status = "synced" =>
                  rows[i].status = "synced" \/ Ran(rows[i].req)'
  <2>1. CASE i # b[2]
    BY <2>1 DEF Marks, Mine
  <2>2. CASE i = b[2]
    \* The row still holds the request that the item sent.
    <3>1. rows[i].req = job[b].req
      BY <1>2, <2>2 DEF RowIsNewest, Works, Marks
    <3>2. rows'[i].status = "synced" => Ran(job[b].req)
      BY <2>2 DEF Marks, CacheInv, JobInv, SyncedIsEarned
    <3>3. Ran(job[b].req) => Ran(rows[i].req)'
      BY <2>2, <3>1, WorkFrame DEF Marks
    <3> QED
      BY <2>2, <3>2, <3>3 DEF Marks
  <2> QED
    BY <2>1, <2>2
<1> QED
  BY <1>1, <1>2, <1>3, <1>4, <1>5, RowUntouched DEF RowIsNewest

LEMMA WritesOrder ==
  ASSUME CacheInv, CacheInv', KeptInv, OrderInv, alone, NEW b \in Senders, Works(b),
         NEW k \in Keys, Named(k)', NEW n, Writes(b, n)
  PROVE  RowIsNewest(k)'
<1>1. Named(k) /\ Touching(k)' = Touching(k) /\ Covers[k] = {k}
  BY WorkFrame DEF Writes, Named
<1>2. RowIsNewest(k)
  BY <1>1 DEF OrderInv, InOrder
<1>3. /\ \A c \in Senders \ {b} : job'[c] = job[c]
      /\ job'[b].req = job[b].req /\ UNCHANGED issued
  BY DEF Works
<1>4. /\ HasRequest(b) /\ UpsertIsSound(b) /\ SyncedIsEarned(b) /\ ComesFromUser(b)
      /\ job[b].comm # "idle" /\ job[b].req \in ToSet(issued) /\ job[b].req \in Reqs
      /\ job[b].say \in {"synced", "error"}
  BY DEF CacheInv, JobInv, HasRequest, UpsertIsSound, KeptInv, ComesFromUser, Works, Writes
<1>5. job[job[b].req].say # None
  BY <1>4 DEF OrderInv, RowsAreAnswered, ComesFromUser, Senders, None
<1>6. rows'[n].status = "synced" => Ran(rows[n].req)'
  <2>1. job[b].say = "synced" => Ran(job[b].req)
    BY <1>4 DEF SyncedIsEarned, Ran
  <2> QED
    BY <2>1, WorkFrame DEF Writes
<1>7. ASSUME NEW r \in Reqs, job'[r].up = "save", Key[r] = k
      PROVE  job[r].up = "save" /\ Mine(k) = {}
  BY <1>2, <1>3, <1>7 DEF RowIsNewest, Writes, Senders
\* What is written into a row of k is a request of k.
<1>8. CASE rows'[n].key = k
  <2>1. job[b].req \in Touching(k) /\ Key[job[b].req] = k
    <3>1. k \in Covers[Key[job[b].req]]
      BY <1>8 DEF CacheInv, RowKeepsItsKey, Writes
    <3> QED
      BY <1>1, <1>4, <1>5, <3>1 DEF Touching, Named
  <2>2. CASE b \in Reqs
    <3>1. /\ b = issued[Len(issued)] /\ job[b].req = b /\ b \notin Items
          /\ \A c \in Senders \ {b} : ~Open(c)
      BY <2>2, WorkAlone
    <3>2. Newest(k, rows[n].req)'
      <4>1. \A q : ~Newer(q, b)'
        BY <3>1, WorkFrame, Positions DEF OrderInv
      <4> QED
        BY <1>1, <2>1, <3>1, <4>1 DEF Newest, Writes
    <3>3. Mine(k)' = {n}
      <4>1. CASE job[b].up = "save"
        BY <1>2, <1>8, <2>1, <2>2, <3>1, <4>1 DEF RowIsNewest, Mine, Writes
      <4>2. CASE job[b].up = "update"
        BY <1>2, <1>8, <4>2 DEF RowIsNewest, Mine, Writes
      <4> QED
        BY <4>1, <4>2 DEF Writes
    <3>4. \A r \in Reqs : job'[r].up # "save"
      BY <1>3, <3>1 DEF Writes, Open, Senders
    <3>5. \A c \in Items : ~Open(c)'
      BY <3>1, WorkFrame DEF Senders
    <3> QED
      BY <1>6, <3>2, <3>3, <3>4, <3>5 DEF RowIsNewest
  \* A sweep's item finds its own row, with the request that it sent.
  <2>3. CASE b \in Items
    <3>1. \A r \in Reqs : job'[r] = job[r]
      BY <2>3, WorkAlone
    <3>2. job[b].up = "update" /\ n \in Mine(k) /\ rows'[n].key = rows[n].key
      BY <1>4, <1>8, <2>3 DEF OrderInv, RowsAreAnswered, Writes, Mine
    <3>3. b[2] \in Mine(k)
      BY <1>1, <1>4, <2>1, <2>3 DEF HasRequest, ComesFromUser, Mine
    <3>4. rows[n].req = job[b].req
      BY <1>2, <2>3, <3>2, <3>3 DEF RowIsNewest, Works
    <3>5. Mine(k)' = Mine(k) /\ Mine(k) = {n}
      BY <1>2, <3>2 DEF RowIsNewest, Mine, Writes
    <3>6. Recording(k)' <=> Recording(k)
      BY <3>1 DEF Recording
    <3> QED
      BY <1>1, <1>6, <1>7, <3>4, <3>5, <3>6, RowUntouched DEF Writes
  <2> QED
    BY <2>2, <2>3 DEF Senders
\* A row of another resource.
<1>9. CASE rows'[n].key # k
  <2>1. Mine(k)' = Mine(k) /\ \A i \in Mine(k) : rows'[i] = rows[i]
    BY <1>9 DEF Mine, Writes
  <2>2. ~(b \in Reqs /\ Key[b] = k)
    <3>1. rows'[n].key \in Covers[Key[job[b].req]]
      BY DEF CacheInv, RowKeepsItsKey, Writes
    <3> QED
      BY <1>1, <1>4, <1>9, <3>1 DEF ComesFromUser
  <2>3. Recording(k)' <=> Recording(k)
    BY <1>3, <2>2 DEF Recording, Senders
  <2> QED
    BY <1>1, <1>7, <2>1, <2>3, RowUntouched
<1> QED
  BY <1>8, <1>9

LEMMA WorkKeepsOrder ==
  ASSUME CacheInv, CacheInv', KeptInv, OrderInv, Work, UNCHANGED alone
  PROVE  OrderInv'
<1>1. PICK b \in Senders : Works(b) /\ KindOfWork(b)
  BY KindsOfWork, WorkOnOne DEF Work, OrderInv
<1>2. IssuedOnce' /\ RowsAreAnswered' /\ RunsWereSent'
  BY <1>1, WorkFrame, WorkIsAnswered
<1>3. ASSUME alone
      PROVE  OneAtWork' /\ \A k \in Keys : Named(k)' => RowIsNewest(k)'
  BY <1>1, <1>3, WorkAlone, WorkFrame, WaitsOrder, ConcludesOrder, MarksOrder, WritesOrder
     DEF KindOfWork
<1> QED
  BY <1>2, <1>3 DEF OrderInv, InOrder

(* A call that finds all quiet is the last one issued, and alone at work.  *)
LEMMA CallKeepsOrder ==
  ASSUME CacheInv, KeptInv, OrderInv, NEW r \in Reqs, Call(r), alone' = (alone /\ Quiet)
  PROVE  OrderInv'
<1>1. /\ job \in [Senders -> Job] /\ issued \in Seq(Reqs) /\ r \in Senders /\ r \notin Items
      /\ Reqs \subseteq Senders /\ Items \subseteq Senders /\ ToSet(issued) \subseteq Reqs
      /\ job[r] = Idle /\ Idle.comm = "idle" /\ Idle.say = None /\ Idle.up = "off" /\ ~Idle.ran
      /\ ~Idle.out
  <2>1. r \in Senders /\ HasRequest(r) /\ job[r].comm = "idle"
    BY DEF Senders, CacheInv, JobInv, Call
  <2> QED
    BY <2>1, SenderAssumption DEF CacheInv, TypeOK, Senders, HasRequest, Idle, ToSet
<1>2. /\ issued' = Append(issued, r) /\ UNCHANGED <<rows, applied>>
      /\ \A c \in Senders \ {r} : job'[c] = job[c]
      /\ job'[r].comm = "queued" /\ job'[r].req = r /\ job'[r].say = None /\ ~job'[r].ran
      /\ job'[r].up = "off" /\ ~job'[r].out
  BY <1>1 DEF Call, Job
<1>3. r \notin ToSet(issued)
  BY <1>1 DEF OrderInv, IssuedOnce
<1>4. /\ Len(issued) \in Nat /\ DOMAIN issued = 1..Len(issued)
      /\ DOMAIN issued' = DOMAIN issued \cup {Len(issued) + 1} /\ Len(issued') = Len(issued) + 1
      /\ \A i \in DOMAIN issued : issued'[i] = issued[i] /\ issued[i] \in ToSet(issued)
      /\ issued'[Len(issued) + 1] = r
  BY <1>1, <1>2 DEF ToSet
<1>5. ToSet(issued') = ToSet(issued) \cup {r}
  BY <1>4 DEF ToSet
<1>6. IssuedOnce'
  <2>1. \A i, j \in DOMAIN issued' : issued'[i] = issued'[j] => i = j
    BY <1>3, <1>4 DEF OrderInv, IssuedOnce
  <2>2. \A q \in ToSet(issued') : job'[q].comm # "idle"
    BY <1>1, <1>2, <1>5 DEF OrderInv, IssuedOnce
  <2> QED
    BY <2>1, <2>2 DEF IssuedOnce
<1>7. /\ \A q \in Reqs : job'[q].say = job[q].say
      /\ \A q \in Reqs : Sent(q) => Sent(q)'
  BY <1>1, <1>2 DEF Sent
<1>8. RowsAreAnswered'
  <2>1. \A i \in DOMAIN rows : rows[i].req \in ToSet(issued)
    BY DEF KeptInv, RowsComeFromUsers
  <2>2. \A b \in Items : job[b].comm # "idle" => job[b].req \in ToSet(issued)
    BY <1>1 DEF KeptInv, ComesFromUser
  <2> QED
    BY <1>1, <1>2, <1>7, <2>1, <2>2 DEF OrderInv, RowsAreAnswered
<1>9. RunsWereSent'
  <2>1. \A b \in Senders : job'[b].ran \/ job'[b].out => Sent(b)'
    BY <1>1, <1>2 DEF OrderInv, RunsWereSent, Sent
  <2> QED
    BY <1>1, <1>2, <1>5, <1>7, <2>1 DEF OrderInv, RunsWereSent
<1>10. ASSUME alone, Quiet
       PROVE  InOrder'
  <2>1. \A c \in Senders : Open(c)' => c = r
    BY <1>2, <1>10 DEF Quiet, Open
  <2>2. OneAtWork'
    BY <1>1, <1>4, <2>1 DEF OneAtWork
  <2>3. \A q, p \in ToSet(issued) : Newer(q, p)' => Newer(q, p)
    BY <1>3, <1>4 DEF Newer
  <2>4. \A q \in Reqs : job[q].up = "off" /\ job'[q].up = "off"
    BY <1>1, <1>2, <1>10 DEF Quiet, Open
  <2>5. \A q : Ran(q) => Ran(q)'
    BY <1>1, <1>2 DEF Ran
  <2>6. ASSUME NEW k \in Keys, Named(k)'
        PROVE  RowIsNewest(k)'
    <3>1. Touching(k)' = Touching(k)
      BY <1>1, <1>2, <1>5, <1>7 DEF Touching
    <3>2. RowIsNewest(k) /\ Mine(k)' = Mine(k)
      BY <1>2, <1>10, <2>6, <3>1 DEF OrderInv, InOrder, Named, Mine
    <3>3. \A q : Newest(k, q) => Newest(k, q)'
      BY <2>3, <3>1 DEF Newest, Touching
    <3>4. ~Recording(k) /\ \A c \in Items : ~Open(c)'
      BY <1>1, <2>1, <2>4 DEF Recording
    <3> QED
      BY <1>2, <2>4, <2>5, <3>1, <3>2, <3>3, <3>4 DEF RowIsNewest
  <2> QED
    BY <2>2, <2>6 DEF InOrder
<1> QED
  BY <1>6, <1>8, <1>9, <1>10 DEF OrderInv

(* A sweep that finds all quiet takes from each row its newest request.    *)
LEMMA EnqueueKeepsOrder ==
  ASSUME CacheInv, KeptInv, OrderInv, NEW s \in Sweeps, NEW ids \in SUBSET DOMAIN rows, NEW fail,
         Enqueue(s, ids, fail), alone' = (alone /\ Quiet)
  PROVE  OrderInv'
<1> DEFINE fresh == {<<s, i>> : i \in ids}
<1>1. /\ job \in [Senders -> Job] /\ Reqs \subseteq Senders /\ Items \subseteq Senders
      /\ Reqs \cap Items = {} /\ DOMAIN rows \subseteq 1..MaxRows /\ ToSet(issued) \subseteq Reqs
  BY SenderAssumption DEF CacheInv, TypeOK, Senders, ToSet
<1>2. /\ \A c \in Senders \ fresh : job'[c] = job[c]
      /\ \A c \in Senders \cap fresh :
           /\ job'[c].req = rows[c[2]].req /\ ~job'[c].ran /\ ~job'[c].out /\ job'[c].up = "off"
      /\ UNCHANGED <<issued, rows, applied>>
  BY DEF Enqueue, Idle
<1>3. ASSUME NEW c \in fresh
      PROVE  c \in Items /\ c[1] = s /\ c[2] \in DOMAIN rows /\ ~job[c].ran
  <2>1. PICK i \in ids : c = <<s, i>>
    OBVIOUS
  <2>2. c \in Items /\ job[c].comm = "idle"
    BY <1>1, <2>1 DEF Enqueue, Items
  <2>3. HasRequest(c)
    BY <1>1, <2>2 DEF CacheInv, JobInv
  <2> QED
    BY <2>1, <2>2, <2>3 DEF HasRequest, Idle
<1> HIDE DEF fresh
<1>4. \A q \in Reqs : job'[q] = job[q]
  BY <1>1, <1>2, <1>3
<1>5. IssuedOnce'
  BY <1>1, <1>2, <1>4 DEF OrderInv, IssuedOnce
<1>6. RowsAreAnswered'
  <2>1. \A i \in DOMAIN rows : rows[i].req \in Reqs /\ job[rows[i].req].say # None
    BY <1>1 DEF KeptInv, RowsComeFromUsers, OrderInv, RowsAreAnswered
  <2>2. \A b \in Items : job[b].comm # "idle" =>
                           job[b].req \in Reqs /\ job[job[b].req].say # None /\ job[b].up # "save"
    BY <1>1 DEF KeptInv, ComesFromUser, OrderInv, RowsAreAnswered
  <2> QED
    BY <1>1, <1>2, <1>3, <1>4, <2>1, <2>2 DEF RowsAreAnswered
<1>7. RunsWereSent'
  <2>1. \A b \in Senders : job'[b].ran \/ job'[b].out => Sent(b)'
    BY <1>2 DEF OrderInv, RunsWereSent, Sent
  <2> QED
    BY <1>1, <1>2, <1>4, <2>1 DEF OrderInv, RunsWereSent, Sent
<1>8. ASSUME alone, Quiet
      PROVE  InOrder'
  <2>1. \A c \in Senders : Open(c)' => c \in fresh
    BY <1>2, <1>8 DEF Quiet, Open
  <2>2. OneAtWork'
    BY <1>1, <1>3, <2>1 DEF OneAtWork
  <2>3. \A q : Ran(q) => Ran(q)'
    BY <1>2, <1>3 DEF Ran
  <2>4. \A q \in Reqs : job[q].up = "off"
    BY <1>1, <1>8 DEF Quiet, Open
  <2>5. ASSUME NEW k \in Keys, Named(k)'
        PROVE  RowIsNewest(k)'
    <3>1. Touching(k)' = Touching(k)
      BY <1>1, <1>2, <1>4 DEF Touching
    <3>2. RowIsNewest(k) /\ Mine(k)' = Mine(k)
      BY <1>2, <1>8, <2>5, <3>1 DEF OrderInv, InOrder, Named, Mine
    <3>3. \A q : Newest(k, q) => Newest(k, q)'
      BY <1>2, <3>1 DEF Newest, Newer
    <3>4. ~Recording(k)
      BY <2>4 DEF Recording
    <3>5. \A c \in Items : Open(c)' => rows'[c[2]].req = job'[c].req
      BY <1>1, <1>2, <2>1
    <3> QED
      BY <1>2, <1>4, <2>3, <2>4, <3>1, <3>2, <3>3, <3>4, <3>5 DEF RowIsNewest
  <2> QED
    BY <2>2, <2>5 DEF InOrder
<1> QED
  BY <1>5, <1>6, <1>7, <1>8 DEF OrderInv

(* With the history variable, the queue is still the queue.                *)
LEMMA OrderSpecIsSpec == OrderSpec => Spec
<1>1. OrderInit => Init
  BY DEF OrderInit
<1>2. [OrderNext]_orderVars => [Next]_vars
  BY DEF OrderNext, orderVars, Next, vars
<1> QED
  BY <1>1, <1>2, PTL DEF OrderSpec, Spec

(* As long as nothing overlaps, a fully named resource has one row at most *)
(* with the newest request, or its upsert is under way.                    *)
THEOREM CacheOrderInvariant == OrderSpec => [](CacheInv /\ KeptInv /\ OrderInv)
<1>1. Spec => [](CacheInv /\ KeptInv)
  BY CacheKeptInvariant
<1>2. OrderInit => OrderInv
  <2> SUFFICES ASSUME OrderInit
               PROVE  OrderInv
    OBVIOUS
  <2>1. /\ DOMAIN issued = {} /\ DOMAIN rows = {} /\ ToSet(issued) = {}
        /\ \A b \in Senders : job[b] = Idle
        /\ Reqs \subseteq Senders /\ Items \subseteq Senders
        /\ \A k \in Keys : applied[k] = None
    BY DEF OrderInit, Init, Senders, ToSet
  <2>2. /\ Idle.comm = "idle" /\ ~Idle.ran /\ ~Idle.out /\ Idle.up = "off" /\ Idle.mark = None
        /\ Idle.say = None
    BY DEF Idle
  <2>3. \A b \in Senders : ~Open(b)
    BY <2>1, <2>2 DEF Open
  <2>4. IssuedOnce /\ RowsAreAnswered /\ RunsWereSent /\ OneAtWork
    BY <2>1, <2>2, <2>3 DEF IssuedOnce, RowsAreAnswered, RunsWereSent, OneAtWork
  <2>5. \A k \in Keys : RowIsNewest(k)
    BY <2>1, <2>2 DEF RowIsNewest, Mine, Touching
  <2> QED
    BY <2>4, <2>5 DEF OrderInv, InOrder
<1>3. CacheInv /\ KeptInv /\ OrderInv /\ CacheInv' /\ KeptInv' /\ [OrderNext]_orderVars => OrderInv'
  <2> SUFFICES ASSUME CacheInv, KeptInv, OrderInv, CacheInv', KeptInv', [OrderNext]_orderVars
               PROVE  OrderInv'
    OBVIOUS
  <2>1. CASE Start /\ alone' = (alone /\ Quiet)
    <3>1. InError \subseteq DOMAIN rows
      BY DEF InError
    <3>2. ASSUME NEW s \in Sweeps, SyncClusterCache(s) \/ Retry(s)
          PROVE  OrderInv'
      BY <2>1, <3>1, <3>2, EnqueueKeepsOrder DEF SyncClusterCache, Retry
    <3> QED
      BY <2>1, <3>2, CallKeepsOrder DEF Start
  <2>2. CASE Work /\ UNCHANGED alone
    BY <2>2, WorkKeepsOrder
  <2>3. CASE UNCHANGED orderVars
    BY <2>3 DEF orderVars, vars, OrderInv, IssuedOnce, RowsAreAnswered, RunsWereSent, Sent, InOrder,
                OneAtWork, Open, Named, Touching, RowIsNewest, Mine, Newest, Newer, Recording, Ran
  <2> QED
    BY <2>1, <2>2, <2>3 DEF OrderNext
<1> QED
  BY <1>1, <1>2, <1>3, OrderSpecIsSpec, PTL DEF OrderSpec

(* If calls and sweeps never overlap, then once all writes have landed the *)
(* one row of a fully named resource holds the request issued last, and it *)
(* says synced only if that one was run.                                   *)
THEOREM CacheQueueIsExact == OrderSpec => []QueueIsExact
<1>1. CacheInv /\ OrderInv => QueueIsExact
  <2> SUFFICES ASSUME CacheInv, OrderInv, alone, Quiet, NEW k \in Keys,
                      Covers[k] = {k}, Touching(k) # {}, \A r \in Touching(k) : Key[r] = k
               PROVE  \E i \in DOMAIN rows :
                        /\ Mine(k) = {i}
                        /\ {rows[i].req} = {r \in Touching(k) : ~\E q \in Touching(k) : Newer(q, r)}
                        /\ rows[i].status = "synced" => Ran(rows[i].req)
    BY DEF QueueIsExact, Mine
  <2>1. RowIsNewest(k)
    BY DEF OrderInv, InOrder, Named
  <2>2. ~Recording(k)
    BY DEF Quiet, Open, Recording, Senders
  <2>3. PICK i \in DOMAIN rows : Mine(k) = {i}
    BY <2>1, <2>2 DEF RowIsNewest, Mine
  <2>4. Newest(k, rows[i].req) /\ (rows[i].status = "synced" => Ran(rows[i].req))
    BY <2>1, <2>2, <2>3 DEF RowIsNewest
  <2>5. ASSUME NEW r \in Touching(k), \A q \in Touching(k) : ~Newer(q, r)
        PROVE  r = rows[i].req
    <3>1. r \in ToSet(issued) /\ rows[i].req \in ToSet(issued)
      BY <2>4 DEF Newest, Touching
    <3> QED
      BY <2>4, <2>5, <3>1, Positions DEF Newest, OrderInv
  <2> QED
    BY <2>3, <2>4, <2>5 DEF Newest
<1> QED
  BY <1>1, CacheOrderInvariant, PTL

(* If calls and sweeps never overlap, no replay of a sweep brings back a   *)
(* request of a fully named resource that is older than the one applied.   *)
THEOREM CacheRunsInOrder == OrderSpec => RunsInOrder
<1>1. CacheInv /\ KeptInv /\ OrderInv /\ [OrderNext]_orderVars =>
        [alone' =>
           \A k \in Keys :
             /\ Covers[k] = {k} /\ \A r \in ToSet(issued) : k \in Covers[Key[r]] => Key[r] = k
             /\ applied[k] # None
             => ~Newer(applied[k], applied'[k])]_orderVars
  <2> SUFFICES ASSUME CacheInv, KeptInv, OrderInv, OrderNext, alone', NEW k \in Keys,
                      Covers[k] = {k}, \A r \in ToSet(issued) : k \in Covers[Key[r]] => Key[r] = k,
                      applied[k] # None
               PROVE  ~Newer(applied[k], applied'[k])
    OBVIOUS
  <2>1. IssuedOnce /\ Named(k)
    BY DEF OrderInv, Named, Touching
  <2>2. CASE applied'[k] = applied[k]
    BY <2>1, <2>2, Positions
  <2>3. CASE Start
    BY <2>2, <2>3 DEF Start, Call, SyncClusterCache, Retry, Enqueue
  <2>4. CASE Work /\ UNCHANGED alone /\ applied'[k] # applied[k]
    <3>1. PICK b \in Senders : Works(b) /\ KindOfWork(b)
      BY <2>4, KindsOfWork, WorkOnOne DEF Work, OrderInv
    <3>2. job[b].out /\ applied'[k] = job[b].req /\ k = Key[job[b].req]
      <4>1. applied \in [Keys -> Reqs \cup {None}]
        BY DEF CacheInv, TypeOK
      <4> QED
        BY <2>4, <3>1, <4>1 DEF KindOfWork, Waits, Concludes, Finds, Marks, Writes
    <3>3. CASE b \in Reqs
      BY <2>1, <2>4, <3>1, <3>2, <3>3, WorkAlone, Positions
    <3>4. CASE b \in Items
      <4>1. HasRequest(b) /\ ComesFromUser(b) /\ job[b].comm # "idle" /\ Open(b)
        BY <3>1 DEF CacheInv, JobInv, KeptInv, Works
      \* The item's row holds its request, the newest.
      <4>2. b[2] \in Mine(k)
        BY <3>2, <3>4, <4>1 DEF HasRequest, ComesFromUser, Mine
      <4>3. RowIsNewest(k) /\ ~Recording(k)
        BY <2>1, <2>4, <3>1, <3>4, WorkAlone DEF OrderInv, InOrder, Recording, Open
      <4>4. Newest(k, job[b].req)
        BY <3>4, <4>1, <4>2, <4>3 DEF RowIsNewest
      \* What was applied has been answered, as no user's request is open.
      <4>5. applied[k] \in Touching(k)
        <5>1. /\ applied[k] \in ToSet(issued) /\ Key[applied[k]] = k /\ Sent(applied[k])
              /\ applied[k] \in Reqs
          BY DEF OrderInv, RunsWereSent, CacheInv, TypeOK
        <5>2. ~Open(applied[k])
          BY <2>4, <3>1, <3>4, <5>1, WorkAlone
        <5> QED
          BY <5>1, <5>2 DEF Touching, Sent, Open
      <4> QED
        BY <3>2, <4>4, <4>5 DEF Newest
    <3> QED
      BY <3>3, <3>4 DEF Senders
  <2> QED
    BY <2>2, <2>3, <2>4 DEF OrderNext
<1> QED
  BY <1>1, CacheOrderInvariant, PTL DEF OrderSpec, RunsInOrder
====
