---- MODULE Reconnection_proofs ----
(***************************************************************************)
(* Proofs about Reconnection: its connections behave as those of           *)
(* ConnectionRegistry, and the requests an outage leaves behind have a     *)
(* cause.                                                                  *)
(***************************************************************************)
EXTENDS Reconnection, ConnectionRegistry_proofs

(* Beside the queue the connections do what they do alone.                 *)
LEMMA QueueStepsAreRegistrySteps ==
  ASSUME [QueueNext]_<<vars, queueVars>>
  PROVE  [Next]_vars
<1>1. CASE ConnectionStep
  BY <1>1 DEF ConnectionStep, Next
<1>2. CASE \E n \in Nodes : SweepsDie(n)
  BY <1>2 DEF SweepsDie, Next
<1>3. CASE \E r \in Reqs : Apply(r) \/ Recorded(r)
  BY <1>3 DEF Apply, Recorded
<1>4. CASE \E s \in Conns : SweepReads(s) \/ \E r \in Reqs : SweepSends(s, r)
  BY <1>4 DEF SweepReads, SweepSends
<1>5. CASE \E w \in Writers : RowIsWritten(w)
  BY <1>5 DEF RowIsWritten, Next
<1> QED
  BY <1>1, <1>2, <1>3, <1>4, <1>5 DEF QueueNext

(* The composition implements ConnectionRegistry, whose theorems hold of   *)
(* it therefore.                                                           *)
THEOREM ReconnectionRefinesRegistry == QueueSpec => Spec
<1>1. QueueInit => Init
  BY DEF QueueInit
<1> QED
  BY <1>1, QueueStepsAreRegistrySteps, PTL DEF QueueSpec, Spec

(* A sweep is started at the end of a callback.                            *)
SweepComesLast(s) == s \in syncs => stage[s] \in {"settled", "unrecorded", "killed"}

(* A socket is up without a break until it is down for good, so while one  *)
(* that has found the row "not connected" is up, a failure for want of an  *)
(* agent that its sweep has missed was recorded after it had come.         *)
SweepIsThorough(s, r) ==
  Settled(s) /\ ~seen[s] =>
    /\ s \in syncs
    /\ s \in read /\ row[r] = "error" /\ r \in offline => r \in late \/ r \in todo[s]

QueueInv ==
  /\ QueueTypeOK
  /\ \A s \in Conns : SweepComesLast(s)
  /\ \A s \in Conns, r \in Reqs : SweepIsThorough(s, r)

(* A step of the connections or a whole-row write: the callback's end      *)
(* starts the sweep, and what a sweep has to send does not change.         *)
LEMMA ConnectionKeepsQueueInv ==
  ASSUME Inv, RowInv, QueueInv, ConnectionStep \/ \E w \in Writers : RowIsWritten(w)
  PROVE  QueueInv'
<1> USE DEF Inv, TypeOK, QueueInv, QueueTypeOK, SweepComesLast, SweepIsThorough, Settled, Stages
<1>1. /\ UNCHANGED <<row, call, read, todo, offline, late>>
      /\ owed' \in SUBSET Reqs
  BY DEF ConnectionStep, QueueStays, RowIsWritten, Owed
<1>2. ASSUME NEW s \in Conns, Settle(s)
      PROVE  QueueInv'
  <2>1. s \notin syncs /\ s \notin read
    BY <1>2 DEF Settle
  <2>2. syncs' = (IF seen[s] THEN syncs ELSE syncs \cup {s}) /\ UNCHANGED <<tcp, seen>>
    BY <1>2 DEF Settle
  <2>3. /\ stage'[s] \in {"settled", "unrecorded"}
        /\ \A t \in Conns \ {s} : stage'[t] = stage[t]
    BY <1>2 DEF Settle
  <2> QED
    BY <1>1, <2>1, <2>2, <2>3
<1>3. ASSUME NEW s \in Conns, Accept(s) \/ Register(s) \/ Refuse(s) \/ Disconnect(s)
      PROVE  QueueInv'
  <2>1. UNCHANGED syncs
    BY <1>3 DEF Accept, Register, Refuse, Disconnect
  <2>2. \A t \in Conns : Settled(t)' => Settled(t) /\ seen'[t] = seen[t]
    BY <1>3 DEF Accept, Register, Refuse, Disconnect
  <2>3. \A t \in Conns : stage'[t] = stage[t] \/ t \notin syncs
    BY <1>3 DEF Accept, Register, Refuse, Disconnect, RowInv, StepsInOrder
  <2> QED
    BY <1>1, <2>1, <2>2, <2>3
<1>4. CASE UNCHANGED <<tcp, stage, seen, syncs>>
  BY <1>1, <1>4
<1>5. ASSUME NEW s \in Conns, Ping(s)
      PROVE  UNCHANGED <<tcp, stage, seen, syncs>>
  BY <1>5 DEF Ping, PingFires, PingReadFails, PingSucceeds, PingFails, MarkDisconnected, sockVars
<1>6. CASE DeleteCluster
  BY <1>4, <1>6 DEF DeleteCluster, sockVars
<1>7. ASSUME NEW w \in Writers, WriterReads(w) \/ RowIsWritten(w)
      PROVE  UNCHANGED <<tcp, stage, seen, syncs>>
  BY <1>7 DEF WriterReads, RowIsWritten, WriterWrites, sockVars
<1> QED
  BY <1>2, <1>3, <1>4, <1>5, <1>6, <1>7 DEF ConnectionStep, Database

(* A request recorded for want of an agent beside a settled socket is      *)
(* late; one that a sweep sends beside it has found an agent.              *)
LEMMA SendingKeepsQueueInv ==
  ASSUME Inv, QueueInv, NEW r \in Reqs,
         Apply(r) \/ Recorded(r) \/ \E s \in Conns : SweepSends(s, r)
  PROVE  QueueInv'
<1> USE DEF QueueInv, QueueTypeOK, SweepComesLast, SweepIsThorough, Settled
<1>1. UNCHANGED <<tcp, stage, seen, syncs, read>>
  BY DEF Apply, Recorded, SweepSends, vars, sockVars
<1>2. CASE Apply(r)
  BY <1>1, <1>2 DEF Apply, Owed
<1>3. CASE Recorded(r)
  <2>1. QueueTypeOK'
    BY <1>1, <1>3 DEF Recorded, Owed
  <2>2. ASSUME NEW s \in Conns, NEW q \in Reqs
        PROVE  SweepIsThorough(s, q)'
    <3>1. CASE q # r
      BY <1>1, <1>3, <3>1 DEF Recorded
    <3>2. CASE q = r
      BY <1>1, <1>3, <3>2 DEF Recorded, AgentUp
    <3> QED
      BY <3>1, <3>2
  <2> QED
    BY <1>1, <2>1, <2>2
<1>4. ASSUME NEW s \in Conns, SweepSends(s, r)
      PROVE  QueueInv'
  <2>1. QueueTypeOK'
    BY <1>1, <1>4 DEF SweepSends
  <2>2. ASSUME NEW t \in Conns, NEW q \in Reqs
        PROVE  SweepIsThorough(t, q)'
    <3>1. CASE q # r
      BY <1>1, <1>4, <3>1 DEF SweepSends
    <3>2. CASE q = r
      BY <1>1, <1>4, <3>2 DEF SweepSends, AgentUp
    <3> QED
      BY <3>1, <3>2
  <2> QED
    BY <1>1, <2>1, <2>2
<1> QED
  BY <1>2, <1>3, <1>4

(* A sweep takes on all that is in error.                                  *)
LEMMA ReadingKeepsQueueInv ==
  ASSUME QueueInv, NEW s \in Conns, SweepReads(s)
  PROVE  QueueInv'
<1>1. UNCHANGED <<tcp, stage, seen, syncs>>
  BY DEF SweepReads, vars, sockVars
<1>2. QueueTypeOK'
  BY <1>1 DEF QueueInv, QueueTypeOK, SweepReads
<1>3. ASSUME NEW t \in Conns, NEW r \in Reqs
      PROVE  SweepIsThorough(t, r)'
  BY <1>1 DEF QueueInv, QueueTypeOK, SweepReads, SweepIsThorough, Settled
<1> QED
  BY <1>1, <1>2, <1>3 DEF QueueInv, SweepComesLast

(* A crash takes the settled sockets of its process with their sweeps.     *)
LEMMA CrashKeepsQueueInv ==
  ASSUME Inv, QueueInv, NEW n \in Nodes, SweepsDie(n)
  PROVE  QueueInv'
<1>1. \A s \in Conns : /\ Settled(s)' => Settled(s) /\ home[s] # n
                       /\ stage'[s] \in {stage[s], "killed"}
  BY DEF SweepsDie, Crash, Settled, Inv, TypeOK
<1>2. UNCHANGED <<seen, syncs, row, call, offline, late>>
  BY DEF SweepsDie, Crash
<1>3. /\ read' = read \cup {s \in syncs : home[s] = n}
      /\ todo' = [s \in Conns |-> IF s \in syncs /\ home[s] = n THEN {} ELSE todo[s]]
      /\ owed' \subseteq Reqs
  BY DEF SweepsDie, Owed, QueueInv, QueueTypeOK
<1>4. QueueTypeOK'
  BY <1>2, <1>3 DEF QueueInv, QueueTypeOK
<1>5. ASSUME NEW s \in Conns, NEW r \in Reqs
      PROVE  SweepIsThorough(s, r)'
  BY <1>1, <1>2, <1>3 DEF QueueInv, SweepIsThorough
<1> QED
  BY <1>1, <1>2, <1>4, <1>5 DEF QueueInv, SweepComesLast

(* The queue keeps its types, and sweeps are thorough, for any number of   *)
(* nodes, sockets and requests.                                            *)
THEOREM QueueInvariant == QueueSpec => []QueueInv
<1>1. QueueInit => QueueInv
  BY DEF QueueInit, Init, QueueInv, QueueTypeOK, SweepComesLast, SweepIsThorough, Settled
<1>2. Inv /\ RowInv /\ QueueInv /\ [QueueNext]_<<vars, queueVars>> => QueueInv'
  <2> SUFFICES ASSUME Inv, RowInv, QueueInv, [QueueNext]_<<vars, queueVars>>
               PROVE  QueueInv'
    OBVIOUS
  <2>1. CASE UNCHANGED <<vars, queueVars>>
    BY <2>1 DEF vars, sockVars, queueVars, QueueInv, QueueTypeOK, SweepComesLast,
                SweepIsThorough, Settled
  <2> QED
    BY <2>1, ConnectionKeepsQueueInv, SendingKeepsQueueInv, ReadingKeepsQueueInv,
       CrashKeepsQueueInv DEF QueueNext
<1>3. QueueSpec => [](Inv /\ RowInv)
  BY ReconnectionRefinesRegistry, RegistryInvariant, RegistryRowInvariant, PTL
<1> QED
  BY <1>1, <1>2, <1>3, PTL DEF QueueSpec

(* A request that failed for want of an agent is in the queue beside one   *)
(* that is back only if SyncClusterCache was not started, since the row    *)
(* said "connected", still or again, or if its failure was recorded late.  *)
THEOREM QueueLeftBehindHasCause == QueueSpec => []LeftBehindHasCause
<1>1. QueueInv => LeftBehindHasCause
  BY DEF QueueInv, SweepIsThorough, SweepsAreOver, LeftBehindHasCause
<1> QED
  BY <1>1, QueueInvariant, PTL
====
