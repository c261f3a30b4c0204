---- MODULE ConnectionRegistry_proofs ----
(***************************************************************************)
(* Proofs about ConnectionRegistry: its type invariant, that the list of   *)
(* sockets and the sockets themselves agree, and that the row tells the    *)
(* truth, with the exceptions its two properties name.                     *)
(***************************************************************************)
EXTENDS ConnectionRegistry, TLAPS

(* A socket that is still up has not been checked, nor has one whose row   *)
(* is being read; attempts are counted within one check only.              *)
CheckComesLate(s) ==
  /\ tcp[s] \in {"new", "up"} \/ stage[s] = "finding" => ping[s] = "off"
  /\ ping[s] \in {"off", "armed"} => tries[s] = 0
  /\ ping[s] = "trying" => tries[s] < PingRetry

(* With it the two properties of the list are inductive.                   *)
ListAgrees(s) ==
  /\ tcp[s] = "up" => s \in entries
  /\ s \in entries /\ tcp[s] = "down" => ping[s] = "off"

Inv == TypeOK /\ \A s \in Conns : CheckComesLate(s) /\ ListAgrees(s)

(* The steps of the callback and of the disconnect handler preserve it.    *)
LEMMA CallbackKeepsInv ==
  ASSUME Inv, NEW s \in Conns,
         Accept(s) \/ Register(s) \/ Refuse(s) \/ Settle(s) \/ Disconnect(s)
  PROVE  Inv'
<1> USE DEF Inv, TypeOK, Stages, CheckComesLate, ListAgrees
<1>1. CASE Accept(s)
  BY <1>1 DEF Accept, rowVars, pingVars
<1>2. CASE Register(s)
  BY <1>2 DEF Register, rowVars, pingVars
<1>3. CASE Refuse(s)
  BY <1>3 DEF Refuse, rowVars, pingVars
<1>4. CASE Settle(s)
  BY <1>4 DEF Settle, pingVars
<1>5. CASE Disconnect(s)
  BY <1>5 DEF Disconnect, HasHandler, rowVars
<1> QED
  BY <1>1, <1>2, <1>3, <1>4, <1>5

(* So do those of a check.  Its last attempt ends it, which bounds tries.  *)
LEMMA PingKeepsInv ==
  ASSUME Inv, NEW s \in Conns,
         \/ PingFires(s) \/ PingReadFails(s) \/ PingSucceeds(s) \/ PingFails(s)
         \/ MarkDisconnected(s)
  PROVE  Inv'
<1> USE PingRetryAssumption DEF Inv, TypeOK, CheckComesLate, ListAgrees
<1>1. CASE PingFires(s)
  BY <1>1 DEF PingFires, sockVars, rowVars
<1>2. CASE PingReadFails(s)
  BY <1>2 DEF PingReadFails, sockVars, rowVars
<1>3. CASE PingSucceeds(s)
  BY <1>3 DEF PingSucceeds, sockVars, rowVars
<1>4. CASE PingFails(s)
  BY <1>4 DEF PingFails, sockVars, rowVars
<1>5. CASE MarkDisconnected(s)
  BY <1>5 DEF MarkDisconnected, sockVars
<1> QED
  BY <1>1, <1>2, <1>3, <1>4, <1>5

(* And a crash, which takes the entries of its process along.              *)
LEMMA CrashKeepsInv ==
  ASSUME Inv, NEW n \in Nodes, Crash(n)
  PROVE  Inv'
<1> DEFINE lost == {s \in Conns : home[s] = n /\ (tcp[s] = "up" \/ Pending(s))}
<1>1. /\ tcp' = [s \in Conns |-> IF s \in lost THEN "down" ELSE tcp[s]]
      /\ stage' = [s \in Conns |-> IF s \in lost THEN "killed" ELSE stage[s]]
      /\ ping' = [s \in Conns |-> IF s \in lost THEN "over" ELSE ping[s]]
      /\ entries' = {s \in entries : home[s] # n}
      /\ UNCHANGED <<home, seen, cluster, connected, undone, held, tries, syncs>>
  BY DEF Crash, rowVars
<1>2. TypeOK'
  <2>1. crashes' \in 0..MaxCrashes
    BY CrashBoundAssumption DEF Crash, Inv, TypeOK
  <2> QED
    BY <1>1, <2>1 DEF Inv, TypeOK, Stages
<1>3. ASSUME NEW s \in Conns
      PROVE  CheckComesLate(s)' /\ ListAgrees(s)'
  <2>1. CheckComesLate(s) /\ ListAgrees(s) /\ tcp[s] \in {"new", "up", "down"}
    BY DEF Inv, TypeOK
  <2>2. CASE s \in lost
    BY <1>1, <2>1, <2>2 DEF CheckComesLate, ListAgrees
  <2>3. CASE s \notin lost
    BY <1>1, <2>1, <2>3 DEF CheckComesLate, ListAgrees
  <2> QED
    BY <2>2, <2>3
<1> QED
  BY <1>2, <1>3 DEF Inv

(* Deletion and whole-row writes touch the row only.                       *)
LEMMA RowKeepsInv ==
  ASSUME Inv, DeleteCluster \/ \E w \in Writers : WriterReads(w) \/ WriterWrites(w)
  PROVE  Inv'
<1> USE DEF Inv, TypeOK, CheckComesLate, ListAgrees, sockVars, rowVars, pingVars
<1>1. CASE DeleteCluster
  BY <1>1 DEF DeleteCluster
<1>2. ASSUME NEW w \in Writers, WriterReads(w)
      PROVE  Inv'
  BY <1>2 DEF WriterReads
<1>3. ASSUME NEW w \in Writers, WriterWrites(w)
      PROVE  Inv'
  BY <1>3 DEF WriterWrites
<1> QED
  BY <1>1, <1>2, <1>3

(* The registry keeps its types, and the list its relation to the sockets, *)
(* for any number of nodes, sockets and attempts.                          *)
THEOREM RegistryInvariant == Spec => []Inv
<1>1. Init => Inv
  <2> SUFFICES ASSUME Init
               PROVE  Inv
    OBVIOUS
  <2>1. TypeOK
    <3>1. crashes \in 0..MaxCrashes /\ 0 \in 0..PingRetry
      BY PingRetryAssumption, CrashBoundAssumption DEF Init
    <3>2. tries \in [Conns -> 0..PingRetry]
      BY <3>1 DEF Init
    <3>3. stage \in [Conns -> Stages]
      BY DEF Init, Stages
    <3>4. held \in [Writers -> {"idle", "on", "off", "done"}]
      BY DEF Init
    <3> QED
      BY <3>1, <3>2, <3>3, <3>4 DEF Init, TypeOK
  <2>2. ASSUME NEW s \in Conns
        PROVE  CheckComesLate(s) /\ ListAgrees(s)
    BY DEF Init, CheckComesLate, ListAgrees
  <2> QED
    BY <2>1, <2>2 DEF Inv
<1>2. Inv /\ [Next]_vars => Inv'
  <2> SUFFICES ASSUME Inv, [Next]_vars
               PROVE  Inv'
    OBVIOUS
  <2>1. CASE Next
    BY <2>1, CallbackKeepsInv, PingKeepsInv, CrashKeepsInv, RowKeepsInv
       DEF Next, Database, Ping
  <2>2. CASE UNCHANGED vars
    BY <2>2 DEF vars, sockVars, rowVars, pingVars, Inv, TypeOK, CheckComesLate, ListAgrees
  <2> QED
    BY <2>1, <2>2
<1> QED
  BY <1>1, <1>2, PTL DEF Spec

(* The variables of socketService and agentService keep their types; tries *)
(* never exceeds CLUSTER_PING_RETRY.                                       *)
THEOREM RegistryTypeCorrect == Spec => []TypeOK
<1>1. Inv => TypeOK
  BY DEF Inv
<1> QED
  BY <1>1, RegistryInvariant, PTL

(* getConnection finds every live socket: removeConnection of one never    *)
(* takes the entry of another.                                             *)
THEOREM RegistryLiveIsRegistered == Spec => []LiveIsRegistered
<1>1. Inv => LiveIsRegistered
  BY DEF Inv, ListAgrees, LiveIsRegistered
<1> QED
  BY <1>1, RegistryInvariant, PTL

(* An entry of a closed socket has never had its disconnect handler run.   *)
THEOREM RegistryDeadAreUnwatched == Spec => []DeadEntriesAreUnwatched
<1>1. Inv => DeadEntriesAreUnwatched
  BY DEF Inv, TypeOK, ListAgrees, DeadEntriesAreUnwatched, Unwatched
<1> QED
  BY <1>1, RegistryInvariant, PTL

(* What the row says rests on more.  A socket has no callback before it    *)
(* connects; its check does not start before the callback's update has     *)
(* been made (the 20 s); and it gives up after its last attempt only.      *)
StepsInOrder(s) ==
  /\ tcp[s] = "new" => stage[s] = "none"
  /\ stage[s] = "registered" => ping[s] \in {"off", "armed"}
  /\ ping[s] = "marking" => tries[s] = PingRetry

Answers(s) == tcp[s] = "up" \/ Pending(s) \/ Unnoticed(s)
GaveUp(s)  == tries[s] = PingRetry /\ ping[s] = "over"

(* Some socket answers for a row that says "connected": it is up, its work *)
(* is outstanding, or its end went unnoticed.  A row that says "not        *)
(* connected" beside a recorded agent had a check give up.  So it is while *)
(* the row can be seen, and until a write of the whole row undoes it.      *)
RowInv ==
  /\ \A s \in Conns : StepsInOrder(s)
  /\ rowExists /\ ~undone =>
       /\ connected => \E s \in Conns : Answers(s)
       /\ ~connected /\ (\E s \in Conns : tcp[s] = "up" /\ stage[s] = "settled")
            => \E s \in Conns : GaveUp(s)

(* What a step does to a socket that does not write the row: whoever       *)
(* answers goes on answering, and no agent is recorded.                    *)
Carries(t) ==
  /\ StepsInOrder(t)'
  /\ Answers(t) => Answers(t)'
  /\ GaveUp(t) => GaveUp(t)'
  /\ (tcp[t] = "up" /\ stage[t] = "settled")' => tcp[t] = "up" /\ stage[t] = "settled"

LEMMA CarriedRowInv ==
  ASSUME RowInv, \A t \in Conns : Carries(t), UNCHANGED rowVars
  PROVE  RowInv'
BY DEF RowInv, Carries, rowVars, rowExists

(* The row is written by the callback's end only; its other steps hand the *)
(* socket on to its check, or leave it closed and unwatched.               *)
LEMMA CallbackKeepsRowInv ==
  ASSUME Inv, RowInv, NEW s \in Conns,
         Accept(s) \/ Register(s) \/ Refuse(s) \/ Settle(s) \/ Disconnect(s)
  PROVE  RowInv'
<1> USE DEF Inv, TypeOK, Stages, CheckComesLate, StepsInOrder, Answers, GaveUp, Pending,
            Unnoticed, Unwatched
<1>1. CASE Accept(s)
  <2>1. ASSUME NEW t \in Conns
        PROVE  Carries(t)
    BY <1>1 DEF Accept, RowInv, Carries, pingVars
  <2> QED
    BY <1>1, <2>1, CarriedRowInv DEF Accept
<1>2. CASE Register(s)
  <2>1. ASSUME NEW t \in Conns
        PROVE  Carries(t)
    BY <1>2 DEF Register, RowInv, Carries, pingVars
  <2> QED
    BY <1>2, <2>1, CarriedRowInv DEF Register
<1>3. CASE Refuse(s)
  <2>1. ASSUME NEW t \in Conns
        PROVE  Carries(t)
    BY <1>3 DEF Refuse, RowInv, Carries, pingVars
  <2> QED
    BY <1>3, <2>1, CarriedRowInv DEF Refuse
<1>4. CASE Settle(s)
  \* Recorded, the row says what is so; unrecorded, nothing has changed it.
  <2>1. ASSUME NEW t \in Conns
        PROVE  StepsInOrder(t)' /\ (Answers(t) => Answers(t)') /\ (GaveUp(t) => GaveUp(t)')
    BY <1>4 DEF Settle, RowInv, pingVars
  <2>2. Answers(s)'
    BY <1>4 DEF Settle, RowInv, pingVars
  <2>3. CASE connected' = (cluster # "gone")
    BY <1>4, <2>1, <2>2, <2>3 DEF Settle, RowInv, rowExists
  <2>4. CASE connected' = connected /\ undone' = undone /\ stage'[s] = "unrecorded"
    BY <1>4, <2>1, <2>4 DEF Settle, RowInv, rowExists
  <2> QED
    BY <1>4, <2>3, <2>4 DEF Settle
<1>5. CASE Disconnect(s)
  <2>1. ASSUME NEW t \in Conns
        PROVE  Carries(t)
    BY <1>5 DEF Disconnect, HasHandler, RowInv, Carries
  <2> QED
    BY <1>5, <2>1, CarriedRowInv DEF Disconnect
<1> QED
  BY <1>1, <1>2, <1>3, <1>4, <1>5

(* A check ends because an agent answers it, or the row is gone or cannot  *)
(* be read, or it has cleared the row after its last attempt.              *)
LEMMA PingKeepsRowInv ==
  ASSUME Inv, RowInv, NEW s \in Conns,
         \/ PingFires(s) \/ PingReadFails(s) \/ PingSucceeds(s) \/ PingFails(s)
         \/ MarkDisconnected(s)
  PROVE  RowInv'
<1> USE PingRetryAssumption DEF Inv, TypeOK, CheckComesLate, StepsInOrder, Answers, GaveUp,
        Pending, Unnoticed, Unwatched
<1>1. CASE PingFires(s)
  <2>1. ASSUME NEW t \in Conns
        PROVE  /\ StepsInOrder(t)' /\ (GaveUp(t) => GaveUp(t)')
               /\ rowExists => (Answers(t) => Answers(t)')
    BY <1>1 DEF PingFires, RowInv, sockVars
  <2> QED
    BY <1>1, <2>1 DEF PingFires, RowInv, sockVars, rowVars, rowExists
<1>2. CASE PingReadFails(s)
  <2>1. ASSUME NEW t \in Conns
        PROVE  Carries(t)
    BY <1>2 DEF PingReadFails, RowInv, Carries, sockVars
  <2> QED
    BY <1>2, <2>1, CarriedRowInv DEF PingReadFails
<1>3. CASE PingSucceeds(s)
  <2>1. PICK u \in Conns : tcp[u] = "up"
    BY <1>3 DEF PingSucceeds, Reachable
  <2>2. ASSUME NEW t \in Conns
        PROVE  StepsInOrder(t)' /\ (GaveUp(t) => GaveUp(t)')
    BY <1>3 DEF PingSucceeds, RowInv, sockVars
  <2>3. Answers(u)'
    BY <1>3, <2>1 DEF PingSucceeds, sockVars
  <2> QED
    BY <1>3, <2>2, <2>3 DEF PingSucceeds, RowInv, sockVars, rowVars, rowExists
<1>4. CASE PingFails(s)
  <2>1. ASSUME NEW t \in Conns
        PROVE  Carries(t)
    BY <1>4 DEF PingFails, RowInv, Carries, sockVars
  <2> QED
    BY <1>4, <2>1, CarriedRowInv DEF PingFails
<1>5. CASE MarkDisconnected(s)
  <2>1. ASSUME NEW t \in Conns
        PROVE  StepsInOrder(t)'
    BY <1>5 DEF MarkDisconnected, RowInv, sockVars
  <2>2. GaveUp(s)' /\ ~connected'
    BY <1>5 DEF MarkDisconnected, RowInv
  <2> QED
    BY <2>1, <2>2 DEF RowInv
<1> QED
  BY <1>1, <1>2, <1>3, <1>4, <1>5

(* A crash kills what it does not leave alone, and that is an exception.   *)
LEMMA CrashKeepsRowInv ==
  ASSUME Inv, RowInv, NEW n \in Nodes, Crash(n)
  PROVE  RowInv'
<1>1. ASSUME NEW t \in Conns
      PROVE  Carries(t)
  <2>1. IF home[t] = n /\ (tcp[t] = "up" \/ Pending(t))
        THEN tcp'[t] = "down" /\ stage'[t] = "killed" /\ ping'[t] = "over"
        ELSE tcp'[t] = tcp[t] /\ stage'[t] = stage[t] /\ ping'[t] = ping[t]
    BY DEF Crash
  <2>2. tries'[t] = tries[t]
    BY DEF Crash
  <2>3. CheckComesLate(t) /\ StepsInOrder(t)
    BY DEF Inv, RowInv
  <2> QED
    BY <2>1, <2>2, <2>3 DEF CheckComesLate, StepsInOrder, Answers, GaveUp, Pending, Unnoticed,
                            Unwatched, Carries
<1> QED
  BY <1>1, CarriedRowInv DEF Crash

(* A deleted row is seen again only if a whole-row write brings it back,   *)
(* and such a write is remembered when it changes anything.                *)
LEMMA RowKeepsRowInv ==
  ASSUME Inv, RowInv, DeleteCluster \/ \E w \in Writers : WriterReads(w) \/ WriterWrites(w)
  PROVE  RowInv'
<1> USE DEF RowInv, rowExists, StepsInOrder, Answers, GaveUp, Pending, Unnoticed, Unwatched,
            sockVars, rowVars, pingVars
<1>1. CASE DeleteCluster
  BY <1>1 DEF DeleteCluster
<1>2. ASSUME NEW w \in Writers, WriterReads(w)
      PROVE  RowInv'
  BY <1>2 DEF WriterReads
<1>3. ASSUME NEW w \in Writers, WriterWrites(w)
      PROVE  RowInv'
  <2>1. CASE UNCHANGED rowVars
    BY <1>3, <2>1 DEF WriterWrites
  <2>2. CASE undone'
    BY <1>3, <2>2 DEF WriterWrites
  <2>3. CASE cluster = "there" /\ cluster' = "there" /\ connected' = connected /\ ~undone
    BY <1>3, <2>3 DEF WriterWrites
  <2>4. cluster \in {"there", "soft", "gone"} /\ undone \in BOOLEAN
    BY DEF Inv, TypeOK
  <2> QED
    BY <1>3, <2>1, <2>2, <2>3, <2>4 DEF WriterWrites
<1> QED
  BY <1>1, <1>2, <1>3

(* Whatever the order of connections, disconnections, checks, late and     *)
(* whole-row updates and crashes, the row is what RowInv says, for any     *)
(* number of sockets and writers.                                          *)
THEOREM RegistryRowInvariant == Spec => []RowInv
<1>1. Init => RowInv
  BY DEF Init, RowInv, StepsInOrder
<1>2. Inv /\ RowInv /\ [Next]_vars => RowInv'
  <2> SUFFICES ASSUME Inv, RowInv, [Next]_vars
               PROVE  RowInv'
    OBVIOUS
  <2>1. CASE UNCHANGED vars
    BY <2>1 DEF vars, sockVars, rowVars, pingVars, RowInv, rowExists, StepsInOrder, Answers,
                GaveUp, Pending, Unnoticed, Unwatched
  <2> QED
    BY <2>1, CallbackKeepsRowInv, PingKeepsRowInv, CrashKeepsRowInv, RowKeepsRowInv
       DEF Next, Database, Ping
<1> QED
  BY <1>1, <1>2, RegistryInvariant, PTL DEF Spec

(* When the dust has settled without an agent, the connected column is     *)
(* true only after one of the three named ways to lose the check, or after *)
(* a whole-row write has undone it.                                        *)
THEOREM RegistryQuietRowIsTrue == Spec => []QuietRowIsTrue
<1>1. RowInv => QuietRowIsTrue
  BY DEF RowInv, QuietRowIsTrue, Answers
<1> QED
  BY <1>1, RegistryRowInvariant, PTL

(* The column is false beside a recorded agent only if a check has given   *)
(* up after CLUSTER_PING_RETRY failed attempts, or after such a write.     *)
THEOREM RegistryLiveRowIsTrue == Spec => []LiveRowIsTrue
<1>1. RowInv => LiveRowIsTrue
  BY DEF RowInv, LiveRowIsTrue, GaveUp
<1> QED
  BY <1>1, RegistryRowInvariant, PTL
====
