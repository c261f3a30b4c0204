---- MODULE RequestRouting_proofs ----
(***************************************************************************)
(* Proofs about RequestRouting, for every set of nodes, sockets and calls  *)
(* and every assignment of uuids to calls.                                 *)
(***************************************************************************)
EXTENDS RequestRouting, FiniteSetTheorems, TLAPS

(* The state of a call, its emissions and the handlers stay in the sets    *)
(* declared for them: no handler of communicateWithCluster, of the channel *)
(* listener or of the sockets leaves its stages.                           *)
THEOREM TypeCorrect == Spec => []TypeOK
<1>1. Init => TypeOK
  BY MaxCrashesAssumption DEF Init, TypeOK, CallStages, HandlerStages, Emitters
<1>2. TypeOK /\ [Next]_vars => TypeOK'
  <2> SUFFICES ASSUME TypeOK, [Next]_vars
               PROVE  TypeOK'
    OBVIOUS
  <2> USE UuidOfAssumption, LocalAssumption, MaxCrashesAssumption
      DEF TypeOK, CallStages, Settled, HandlerStages, Holding, Orphaned,
          Handlers, Emitters, connVars, callVars, emitVars, redisVars
  <2>1. ASSUME NEW s \in Conns, Connect(s) \/ Subscribe(s) \/ Disconnect(s)
        PROVE  TypeOK'
    BY <2>1 DEF Connect, Subscribe, Disconnect
  <2>2. ASSUME NEW e \in Emitters, Run(e)
        PROVE  TypeOK'
    BY <2>2 DEF Run
  <2>3. ASSUME NEW c \in Calls, GetSecret(c) \/ GetSecretFails(c) \/ CallStep(c)
        PROVE  TypeOK'
    <3>1. CASE GetSecret(c) \/ GetSecretFails(c)
      BY <3>1 DEF GetSecret, GetSecretFails, Goto
    <3>2. CASE EmitLocally(c)
      <4>1. PICK s \in Conns : Emit(<<Local, c>>, s)
        BY <3>2 DEF EmitLocally, Available
      <4> QED
        BY <3>2, <4>1 DEF EmitLocally, Emit, Goto
    <3>3. CASE NoLocalConnection(c) \/ LocalTimeout(c) \/ SubscribeReply(c)
      BY <3>3 DEF NoLocalConnection, LocalTimeout, SubscribeReply, Goto
    <3>4. CASE LocalAnswer(c) \/ RedisFails(c) \/ ReplyTimeout(c)
      BY <3>4 DEF LocalAnswer, RedisFails, ReplyTimeout, Settle, Upserted
    <3>5. CASE InsertPayload(c)
      BY <3>5 DEF InsertPayload, Goto
    <3>6. CASE Publish(c)
      BY <3>6 DEF Publish, Goto
    <3> QED
      BY <2>3, <3>1, <3>2, <3>3, <3>4, <3>5, <3>6 DEF CallStep
  <2>4. ASSUME NEW h \in Handlers, HandlerStep(h)
        PROVE  TypeOK'
    <3>1. CASE CheckConnection(h) \/ LockNotAcquired(h) \/ LoadPayload(h)
               \/ PayloadMissing(h) \/ ReleaseFails(h)
      BY <3>1 DEF CheckConnection, LockNotAcquired, LoadPayload, PayloadMissing,
                  ReleaseFails, HandlerGoto
    <3>2. CASE AcquireLock(h) \/ ReleaseLock(h)
      BY <3>2 DEF AcquireLock, ReleaseLock
    <3>3. CASE EmitToAgent(h)
      <4>1. PICK s \in Conns : Emit(h, s)
        BY <3>3 DEF EmitToAgent, Available
      <4> QED
        BY <3>3, <4>1 DEF EmitToAgent, Emit, HandlerGoto
    <3>4. CASE ConnectionGone(h) \/ AgentAnswer(h) \/ AgentTimeout(h)
      BY <3>4 DEF ConnectionGone, AgentAnswer, AgentTimeout, Reply, HandlerGoto
    <3> QED
      BY <2>4, <3>1, <3>2, <3>3, <3>4 DEF HandlerStep
  <2>5. ASSUME NEW r \in replies, PublishReply(r)
        PROVE  TypeOK'
    BY <2>5 DEF PublishReply, Upserted
  <2>6. ASSUME NEW u \in Uuids, LockExpires(u) \/ PayloadExpires(u)
        PROVE  TypeOK'
    <3>1. CASE LockExpires(u)
      BY <3>1 DEF LockExpires
    <3>2. CASE PayloadExpires(u)
      BY <3>2 DEF PayloadExpires
    <3> QED
      BY <2>6, <3>1, <3>2
  <2>7. ASSUME NEW n \in Nodes, Crash(n)
        PROVE  TypeOK'
    BY <2>7 DEF Crash
  <2>8. CASE UNCHANGED vars
    BY <2>8 DEF vars
  <2> QED
    BY <2>1, <2>2, <2>3, <2>4, <2>5, <2>6, <2>7, <2>8 DEF Next
<1> QED
  BY <1>1, <1>2, PTL DEF Spec

----
(* The Redis lock *)

LEMMA HoldersFinite == \A u \in Uuids : IsFiniteSet(HoldersOf(u))
<1> TAKE u \in Uuids
<1>1. IsFiniteSet(Handlers)
  BY FiniteAssumption, FS_Product DEF Handlers
<1> QED
  BY <1>1, FS_Subset DEF HoldersOf

(* A step after which nobody new holds the lock of u, and which takes      *)
(* nothing from the other side of the bound, keeps the bound.              *)
LEMMA NobodyNew ==
  ASSUME TypeOK, HoldersBounded, NEW u \in Uuids,
         HoldersOf(u)' \subseteq HoldersOf(u),
         lapses' = lapses, lock' = lock
  PROVE  Cardinality(HoldersOf(u)') <= lapses'[u] + LockHeld(u)'
<1>1. /\ IsFiniteSet(HoldersOf(u))
      /\ IsFiniteSet(HoldersOf(u)')
      /\ Cardinality(HoldersOf(u)') <= Cardinality(HoldersOf(u))
  BY HoldersFinite, FS_Subset
<1>2. /\ Cardinality(HoldersOf(u)) \in Nat
      /\ Cardinality(HoldersOf(u)') \in Nat
  BY <1>1, FS_CardinalityType
<1>3. LockHeld(u)' = LockHeld(u)
  BY DEF LockHeld
<1> QED
  BY <1>1, <1>2, <1>3 DEF HoldersBounded, TypeOK, LockHeld

(* The Redis lock lets two listeners work on one request at a time only    *)
(* after its key has expired, and each expiry lets in one more at most:    *)
(* releasing a lock that another listener has taken over, replays, crashes *)
(* and failing listeners add nothing to that.                              *)
THEOREM LockBound == Spec => []HoldersBounded
<1>1. Init => HoldersBounded
  <2> SUFFICES ASSUME Init, NEW u \in Uuids
               PROVE  Cardinality(HoldersOf(u)) <= lapses[u] + LockHeld(u)
    BY DEF HoldersBounded
  <2>1. HoldersOf(u) = {}
    BY DEF Init, HoldersOf, Holding
  <2>2. lapses[u] = 0 /\ LockHeld(u) = 0
    BY DEF Init, LockHeld
  <2> QED
    BY <2>1, <2>2, FS_EmptySet
<1>2. TypeOK /\ HoldersBounded /\ [Next]_vars => HoldersBounded'
  <2> SUFFICES ASSUME TypeOK, HoldersBounded, [Next]_vars, NEW u \in Uuids
               PROVE  Cardinality(HoldersOf(u)') <= lapses'[u] + LockHeld(u)'
    BY DEF HoldersBounded
  <2> DEFINE Framed == lapses' = lapses /\ lock' = lock
  <2>0. ASSUME Framed, hs' = hs
        PROVE  Cardinality(HoldersOf(u)') <= lapses'[u] + LockHeld(u)'
    <3>1. HoldersOf(u)' \subseteq HoldersOf(u)
      BY <2>0 DEF HoldersOf
    <3> QED
      BY <3>1, <2>0, NobodyNew
  <2>1. ASSUME NEW s \in Conns, Connect(s) \/ Subscribe(s) \/ Disconnect(s)
        PROVE  Framed /\ hs' = hs
    BY <2>1 DEF Connect, Subscribe, Disconnect, redisVars
  <2>2. ASSUME NEW e \in Emitters, Run(e)
        PROVE  Framed /\ hs' = hs
    BY <2>2 DEF Run, redisVars
  <2>3. ASSUME NEW c \in Calls, GetSecret(c) \/ GetSecretFails(c) \/ CallStep(c)
        PROVE  Cardinality(HoldersOf(u)') <= lapses'[u] + LockHeld(u)'
    <3>1. CASE Publish(c)
      <4>1. Framed
        BY <3>1 DEF Publish, redisVars
      <4>2. HoldersOf(u)' \subseteq HoldersOf(u)
        BY <3>1 DEF Publish, HoldersOf, Holding
      <4> QED
        BY <4>1, <4>2, NobodyNew
    <3>2. CASE ~Publish(c)
      <4>1. Framed /\ hs' = hs
        BY <2>3, <3>2 DEF GetSecret, GetSecretFails, CallStep, EmitLocally,
           NoLocalConnection, LocalAnswer, LocalTimeout, InsertPayload,
           RedisFails, SubscribeReply, ReplyTimeout, redisVars
      <4> QED
        BY <4>1, <2>0
    <3> QED
      BY <3>1, <3>2
  <2>4. ASSUME NEW h \in Handlers, HandlerStep(h)
        PROVE  Cardinality(HoldersOf(u)') <= lapses'[u] + LockHeld(u)'
    <3>1. CASE AcquireLock(h)
      <4>1. CASE u = UuidOf[h[2]]
        <5>1. HoldersOf(u)' = HoldersOf(u) \cup {h} /\ h \notin HoldersOf(u)
          BY <3>1, <4>1 DEF AcquireLock, HoldersOf, Holding, TypeOK
        <5>2. /\ IsFiniteSet(HoldersOf(u))
              /\ Cardinality(HoldersOf(u)) \in Nat
              /\ Cardinality(HoldersOf(u)') = Cardinality(HoldersOf(u)) + 1
          BY <5>1, HoldersFinite, FS_AddElement, FS_CardinalityType
        <5>3. LockHeld(u) = 0 /\ LockHeld(u)' = 1 /\ lapses' = lapses
          BY <3>1, <4>1 DEF AcquireLock, LockHeld
        <5> QED
          BY <5>2, <5>3 DEF HoldersBounded, TypeOK
      <4>2. CASE u # UuidOf[h[2]]
        <5>1. HoldersOf(u)' = HoldersOf(u)
          BY <3>1, <4>2 DEF AcquireLock, HoldersOf, TypeOK
        <5>2. LockHeld(u)' = LockHeld(u) /\ lapses' = lapses
          BY <3>1, <4>2 DEF AcquireLock, LockHeld
        <5> QED
          BY <5>1, <5>2 DEF HoldersBounded
      <4> QED
        BY <4>1, <4>2
    <3>2. CASE ReleaseLock(h)
      <4>1. CASE u = UuidOf[h[2]]
        <5>1. HoldersOf(u)' = HoldersOf(u) \ {h} /\ h \in HoldersOf(u)
          BY <3>2, <4>1 DEF ReleaseLock, HoldersOf, Holding, TypeOK
        <5>2. /\ IsFiniteSet(HoldersOf(u))
              /\ Cardinality(HoldersOf(u)) \in Nat
              /\ Cardinality(HoldersOf(u)') = Cardinality(HoldersOf(u)) - 1
          BY <5>1, HoldersFinite, FS_RemoveElement, FS_CardinalityType
        <5>3. LockHeld(u) \in {0, 1} /\ LockHeld(u)' = 0 /\ lapses' = lapses
          BY <3>2, <4>1 DEF ReleaseLock, LockHeld
        <5> QED
          BY <5>2, <5>3 DEF HoldersBounded, TypeOK
      <4>2. CASE u # UuidOf[h[2]]
        <5>1. HoldersOf(u)' = HoldersOf(u)
          BY <3>2, <4>2 DEF ReleaseLock, HoldersOf, TypeOK
        <5>2. LockHeld(u)' = LockHeld(u) /\ lapses' = lapses
          BY <3>2, <4>2 DEF ReleaseLock, LockHeld
        <5> QED
          BY <5>1, <5>2 DEF HoldersBounded
      <4> QED
        BY <4>1, <4>2
    <3>3. CASE ~AcquireLock(h) /\ ~ReleaseLock(h)
      <4>1. PICK stage \in HandlerStages :
              /\ HandlerGoto(h, stage)
              /\ stage \in Holding => hs[h] \in Holding
        BY <2>4, <3>3 DEF HandlerStep, CheckConnection, LockNotAcquired, LoadPayload,
           PayloadMissing, EmitToAgent, ConnectionGone, AgentAnswer, AgentTimeout,
           ReleaseFails, HandlerStages, Holding, Orphaned
      <4>2. Framed
        BY <4>1 DEF HandlerGoto, redisVars
      <4>3. HoldersOf(u)' \subseteq HoldersOf(u)
        BY <4>1 DEF HandlerGoto, HoldersOf, TypeOK
      <4> QED
        BY <4>2, <4>3, NobodyNew
    <3> QED
      BY <3>1, <3>2, <3>3
  <2>5. ASSUME NEW r \in replies, PublishReply(r)
        PROVE  Framed /\ hs' = hs
    BY <2>5 DEF PublishReply, redisVars
  <2>6. ASSUME NEW v \in Uuids, LockExpires(v)
        PROVE  Cardinality(HoldersOf(u)') <= lapses'[u] + LockHeld(u)'
    <3>1. HoldersOf(u)' = HoldersOf(u)
      BY <2>6 DEF LockExpires, HoldersOf
    <3>2. /\ Cardinality(HoldersOf(u)) \in Nat
          /\ Cardinality(HoldersOf(u)) <= lapses[u] + LockHeld(u)
          /\ lapses[u] \in Nat
      BY HoldersFinite, FS_CardinalityType DEF HoldersBounded, TypeOK
    <3>3. lapses'[u] + LockHeld(u)' >= lapses[u] + LockHeld(u)
      BY <2>6, <3>2 DEF LockExpires, LockHeld, TypeOK
    <3>4. lapses'[u] \in Nat /\ LockHeld(u)' \in Nat /\ LockHeld(u) \in Nat
      BY <2>6, <3>2 DEF LockExpires, LockHeld, TypeOK
    <3> QED
      BY <3>1, <3>2, <3>3, <3>4
  <2>7. ASSUME NEW v \in Uuids, PayloadExpires(v)
        PROVE  Framed /\ hs' = hs
    BY <2>7 DEF PayloadExpires
  <2>8. ASSUME NEW n \in Nodes, Crash(n)
        PROVE  Cardinality(HoldersOf(u)') <= lapses'[u] + LockHeld(u)'
    <3>1. Framed
      BY <2>8 DEF Crash, redisVars
    <3>2. HoldersOf(u)' \subseteq HoldersOf(u)
      BY <2>8 DEF Crash, HoldersOf, Holding
    <3> QED
      BY <3>1, <3>2, NobodyNew
  <2>9. CASE UNCHANGED vars
    BY <2>9, <2>0 DEF vars, redisVars
  <2> QED
    BY <2>0, <2>1, <2>2, <2>3, <2>4, <2>5, <2>6, <2>7, <2>8, <2>9 DEF Next
<1> QED
  BY <1>1, <1>2, TypeCorrect, PTL DEF Spec

----
(* What was emitted, and what was answered *)

BeforePublish == {"idle", "keyed", "local", "failover", "inserted"}
BeforeEmit == {"none", "delivered", "checked", "locked", "loaded"}

(* A call or handler has emitted nothing before the stage in which it      *)
(* does, so a run is never forgotten; a success reply is only ever written *)
(* for a request that ran, and 'synced' only by a local answer.            *)
RunInv ==
  /\ \A c \in Calls : pc[c] \in {"idle", "keyed"} => job[<<Local, c>>] = "none"
  /\ \A c \in Calls, s \in Conns : pc[c] \in BeforePublish => hs[<<s, c>>] = "none"
  /\ \A h \in Handlers : hs[h] \in BeforeEmit => job[h] = "none"
  /\ \A r \in replies : r[2] = "success" => job[r[1]] = "ran"
  /\ \A c \in Calls : upsert[c] = "synced" =>
       /\ pc[c] = "ok" /\ job[<<Local, c>>] = "ran"
       /\ \A s \in Conns : hs[<<s, c>>] = "none"

LEMMA RunInvCall ==
  ASSUME TypeOK, RunInv, NEW c \in Calls,
         GetSecret(c) \/ GetSecretFails(c) \/ CallStep(c)
  PROVE  RunInv'
<1> USE LocalAssumption DEF RunInv, TypeOK, BeforePublish, BeforeEmit, Handlers, Emitters
<1>1. CASE GetSecret(c) \/ GetSecretFails(c)
  BY <1>1 DEF GetSecret, GetSecretFails, Goto, emitVars
<1>2. CASE EmitLocally(c)
  <2>1. PICK s \in Conns : Emit(<<Local, c>>, s)
    BY <1>2 DEF EmitLocally, Available
  <2>2. \A h \in Handlers : h # <<Local, c>>
    OBVIOUS
  <2> QED
    BY <1>2, <2>1, <2>2 DEF EmitLocally, Emit, Goto
<1>3. CASE NoLocalConnection(c) \/ LocalTimeout(c) \/ SubscribeReply(c)
  BY <1>3 DEF NoLocalConnection, LocalTimeout, SubscribeReply, Goto, emitVars
<1>4. CASE LocalAnswer(c)
  BY <1>4 DEF LocalAnswer, Answered, Settle, Upserted, emitVars
<1>5. CASE RedisFails(c) \/ ReplyTimeout(c)
  BY <1>5 DEF RedisFails, ReplyTimeout, Settle, Upserted, emitVars
<1>6. CASE InsertPayload(c)
  BY <1>6 DEF InsertPayload, Goto, emitVars
<1>7. CASE Publish(c)
  BY <1>7 DEF Publish, Goto, emitVars
<1> QED
  BY <1>1, <1>2, <1>3, <1>4, <1>5, <1>6, <1>7 DEF CallStep

LEMMA RunInvHandler ==
  ASSUME TypeOK, RunInv, NEW h \in Handlers, HandlerStep(h)
  PROVE  RunInv'
<1> USE LocalAssumption DEF RunInv, TypeOK, BeforePublish, BeforeEmit, Handlers, Emitters
<1>1. CASE CheckConnection(h) \/ LockNotAcquired(h) \/ LoadPayload(h)
           \/ PayloadMissing(h) \/ ReleaseFails(h)
  BY <1>1 DEF CheckConnection, LockNotAcquired, LoadPayload, PayloadMissing,
              ReleaseFails, HandlerGoto, callVars, emitVars
<1>2. CASE AcquireLock(h) \/ ReleaseLock(h)
  BY <1>2 DEF AcquireLock, ReleaseLock, callVars, emitVars
<1>3. CASE EmitToAgent(h)
  <2>1. PICK s \in Conns : Emit(h, s)
    BY <1>3 DEF EmitToAgent, Available
  <2>2. \A c \in Calls : h # <<Local, c>>
    OBVIOUS
  <2>3. \A r \in replies : r[2] = "success" => r[1] # h
    BY <1>3 DEF EmitToAgent
  <2> QED
    BY <1>3, <2>1, <2>2, <2>3 DEF EmitToAgent, Emit, HandlerGoto, callVars
<1>4. CASE ConnectionGone(h) \/ AgentTimeout(h)
  BY <1>4 DEF ConnectionGone, AgentTimeout, Reply, HandlerGoto, callVars, emitVars
<1>5. CASE AgentAnswer(h)
  BY <1>5 DEF AgentAnswer, Answered, Reply, HandlerGoto, callVars, emitVars
<1> QED
  BY <1>1, <1>2, <1>3, <1>4, <1>5 DEF HandlerStep

LEMMA RunInvariant == Spec => []RunInv
<1>1. Init => RunInv
  BY DEF Init, RunInv, Handlers, Emitters
<1>2. TypeOK /\ RunInv /\ [Next]_vars => RunInv'
  <2> SUFFICES ASSUME TypeOK, RunInv, [Next]_vars
               PROVE  RunInv'
    OBVIOUS
  <2>1. ASSUME NEW s \in Conns, Connect(s) \/ Subscribe(s) \/ Disconnect(s)
        PROVE  RunInv'
    BY <2>1 DEF Connect, Subscribe, Disconnect, callVars, emitVars, RunInv
  <2>2. ASSUME NEW e \in Emitters, Run(e)
        PROVE  RunInv'
    BY <2>2 DEF Run, callVars, RunInv, TypeOK, Handlers, Emitters
  <2>3. ASSUME NEW c \in Calls, GetSecret(c) \/ GetSecretFails(c) \/ CallStep(c)
        PROVE  RunInv'
    BY <2>3, RunInvCall
  <2>4. ASSUME NEW h \in Handlers, HandlerStep(h)
        PROVE  RunInv'
    BY <2>4, RunInvHandler
  <2>5. ASSUME NEW r \in replies, PublishReply(r)
        PROVE  RunInv'
    BY <2>5 DEF PublishReply, Upserted, emitVars, RunInv, TypeOK, BeforePublish
  <2>6. ASSUME NEW u \in Uuids, LockExpires(u) \/ PayloadExpires(u)
        PROVE  RunInv'
    BY <2>6 DEF LockExpires, PayloadExpires, callVars, emitVars, RunInv
  <2>7. ASSUME NEW n \in Nodes, Crash(n)
        PROVE  RunInv'
    BY <2>7 DEF Crash, emitVars, RunInv, TypeOK, Settled, BeforePublish, BeforeEmit,
                Holding, Handlers
  <2>8. CASE UNCHANGED vars
    BY <2>8 DEF vars, callVars, emitVars, RunInv
  <2> QED
    BY <2>1, <2>2, <2>3, <2>4, <2>5, <2>6, <2>7, <2>8 DEF Next
<1> QED
  BY <1>1, <1>2, TypeCorrect, PTL DEF Spec

(* A run is never forgotten: an emission is made once.                     *)
LEMMA RunsStay ==
  ASSUME TypeOK, RunInv, [Next]_vars, NEW e \in Emitters, job[e] = "ran"
  PROVE  job'[e] = "ran"
<1> USE DEF TypeOK, Emitters, Handlers
<1>1. ASSUME NEW f \in Emitters, Run(f)
      PROVE  job'[e] = "ran"
  BY <1>1 DEF Run
<1>2. ASSUME NEW c \in Calls, GetSecret(c) \/ GetSecretFails(c) \/ CallStep(c)
      PROVE  job'[e] = "ran"
  <2>1. CASE EmitLocally(c)
    <3>1. job[<<Local, c>>] = "none"
      BY <2>1 DEF EmitLocally, RunInv
    <3> QED
      BY <2>1, <3>1 DEF EmitLocally, Emit
  <2>2. CASE ~EmitLocally(c)
    BY <1>2, <2>2 DEF GetSecret, GetSecretFails, CallStep, NoLocalConnection,
       LocalAnswer, LocalTimeout, InsertPayload, Publish, RedisFails,
       SubscribeReply, ReplyTimeout, emitVars
  <2> QED
    BY <2>1, <2>2
<1>3. ASSUME NEW h \in Handlers, HandlerStep(h)
      PROVE  job'[e] = "ran"
  <2>1. CASE EmitToAgent(h)
    <3>1. job[h] = "none"
      BY <2>1 DEF EmitToAgent, RunInv, BeforeEmit
    <3> QED
      BY <2>1, <3>1 DEF EmitToAgent, Emit
  <2>2. CASE ~EmitToAgent(h)
    BY <1>3, <2>2 DEF HandlerStep, CheckConnection, AcquireLock, LockNotAcquired,
       LoadPayload, PayloadMissing, ConnectionGone, AgentAnswer, AgentTimeout,
       ReleaseLock, ReleaseFails, emitVars
  <2> QED
    BY <2>1, <2>2
<1>4. CASE \/ \E s \in Conns : Connect(s) \/ Subscribe(s) \/ Disconnect(s)
           \/ \E r \in replies : PublishReply(r)
           \/ \E u \in Uuids : LockExpires(u) \/ PayloadExpires(u)
           \/ \E n \in Nodes : Crash(n)
           \/ UNCHANGED vars
  BY <1>4 DEF Connect, Subscribe, Disconnect, PublishReply, LockExpires,
     PayloadExpires, Crash, emitVars, vars
<1> QED
  BY <1>1, <1>2, <1>3, <1>4 DEF Next

(* A call that reports success had its request run by an agent: no replay, *)
(* lost reply, expired lock or crash yields a success out of nothing.      *)
THEOREM SuccessIsReal == Spec => []SuccessWasRun
<1>1. Init => SuccessWasRun
  BY DEF Init, SuccessWasRun
<1>2. TypeOK /\ RunInv /\ SuccessWasRun /\ [Next]_vars => SuccessWasRun'
  <2> SUFFICES ASSUME TypeOK, RunInv, SuccessWasRun, [Next]_vars,
                      NEW c \in Calls, pc'[c] = "ok"
               PROVE  \E e \in Emitters : UuidOf[e[2]] = UuidOf[c] /\ job'[e] = "ran"
    BY DEF SuccessWasRun
  <2>1. CASE pc[c] = "ok"
    BY <2>1, RunsStay DEF SuccessWasRun
  <2>2. CASE pc[c] # "ok" /\ LocalAnswer(c)
    <3>1. <<Local, c>> \in Emitters /\ job[<<Local, c>>] = "ran"
      BY <2>2 DEF LocalAnswer, Answered, Emitters
    <3> QED
      BY <3>1, RunsStay
  <2>3. ASSUME pc[c] # "ok", NEW r \in replies, PublishReply(r)
        PROVE  \E e \in Emitters : UuidOf[e[2]] = UuidOf[c] /\ job'[e] = "ran"
    <3>1. UuidOf[c] = UuidOf[r[1][2]] /\ r[2] = "success"
      BY <2>3 DEF PublishReply
    <3>2. r[1] \in Emitters /\ job[r[1]] = "ran"
      BY <2>3, <3>1 DEF RunInv, TypeOK, Handlers, Emitters
    <3> QED
      BY <3>1, <3>2, RunsStay
  <2>4. CASE /\ pc[c] # "ok" /\ ~LocalAnswer(c)
             /\ ~\E r \in replies : PublishReply(r)
    <3>1. ASSUME NEW d \in Calls, GetSecret(d) \/ GetSecretFails(d) \/ CallStep(d)
          PROVE  FALSE
      <4>1. CASE LocalAnswer(d)
        BY <2>4, <4>1 DEF LocalAnswer, Settle, TypeOK
      <4>2. CASE ~LocalAnswer(d)
        BY <2>4, <3>1, <4>2 DEF GetSecret, GetSecretFails, CallStep, EmitLocally,
           NoLocalConnection, LocalTimeout, InsertPayload, Publish, RedisFails,
           SubscribeReply, ReplyTimeout, Goto, Settle, TypeOK
      <4> QED
        BY <4>1, <4>2
    <3>2. ASSUME NEW h \in Handlers, HandlerStep(h)
          PROVE  FALSE
      BY <2>4, <3>2 DEF HandlerStep, CheckConnection, AcquireLock, LockNotAcquired,
         LoadPayload, PayloadMissing, EmitToAgent, ConnectionGone, AgentAnswer,
         AgentTimeout, ReleaseLock, ReleaseFails, HandlerGoto, callVars
    <3>3. ASSUME \/ \E s \in Conns : Connect(s) \/ Subscribe(s) \/ Disconnect(s)
                 \/ \E e \in Emitters : Run(e)
                 \/ \E u \in Uuids : LockExpires(u) \/ PayloadExpires(u)
                 \/ \E n \in Nodes : Crash(n)
                 \/ UNCHANGED vars
          PROVE  FALSE
      BY <2>4, <3>3 DEF Connect, Subscribe, Disconnect, Run, LockExpires,
         PayloadExpires, Crash, callVars, vars
    <3> QED
      BY <2>4, <3>1, <3>2, <3>3 DEF Next
  <2> QED
    BY <2>1, <2>2, <2>3, <2>4
<1> QED
  BY <1>1, <1>2, TypeCorrect, RunInvariant, PTL DEF Spec

(* 'synced' is recorded only for a request that the recording call had run *)
(* exactly once, locally, and that no listener was ever given.             *)
THEOREM SyncedIsExact == Spec => []SyncedRanOnce
<1>1. ASSUME TypeOK, RunInv, NEW c \in Calls, upsert[c] = "synced"
      PROVE  /\ {e \in Emitters : e[2] = c /\ job[e] # "none"} = {<<Local, c>>}
             /\ job[<<Local, c>>] = "ran"
  <2>1. job[<<Local, c>>] = "ran" /\ \A s \in Conns : hs[<<s, c>>] = "none"
    BY <1>1 DEF RunInv
  <2>2. ASSUME NEW s \in Conns
        PROVE  job[<<s, c>>] = "none"
    BY <1>1, <2>1 DEF RunInv, BeforeEmit, Handlers
  <2>3. ASSUME NEW e \in Emitters, e[2] = c, job[e] # "none"
        PROVE  e = <<Local, c>>
    <3>1. e = <<e[1], c>> /\ e[1] \in Conns \cup {Local}
      BY <2>3 DEF Emitters
    <3> QED
      BY <2>3, <3>1, <2>2
  <2>4. <<Local, c>> \in Emitters
    BY DEF Emitters
  <2> QED
    BY <2>1, <2>3, <2>4
<1>2. TypeOK /\ RunInv => SyncedRanOnce
  BY <1>1 DEF SyncedRanOnce
<1> QED
  BY <1>2, TypeCorrect, RunInvariant, PTL

(* A mutating call that fails once its secret is known has always started  *)
(* the upsert that queues it for the next synchronisation: no error path   *)
(* of communicateWithCluster misses it.                                    *)
THEOREM FailuresAreQueued == Spec => []FailedIsQueued
<1>1. Init => FailedIsQueued
  BY MutatingAssumption DEF Init, FailedIsQueued
<1>2. TypeOK /\ FailedIsQueued /\ [Next]_vars => FailedIsQueued'
  <2> SUFFICES ASSUME TypeOK, FailedIsQueued, [Next]_vars
               PROVE  FailedIsQueued'
    OBVIOUS
  <2> USE MutatingAssumption DEF FailedIsQueued, TypeOK
  <2>1. ASSUME pc' = pc, upsert' = upsert
        PROVE  FailedIsQueued'
    BY <2>1
  <2>2. ASSUME NEW c \in Calls, GetSecret(c) \/ GetSecretFails(c) \/ CallStep(c)
        PROVE  FailedIsQueued'
    <3>1. CASE RedisFails(c) \/ ReplyTimeout(c)
      <4>1. Settle(c, "failed", "error")
        BY <3>1 DEF RedisFails, ReplyTimeout
      <4> QED
        BY <4>1 DEF Settle, Upserted
    <3>2. CASE LocalAnswer(c)
      BY <3>2 DEF LocalAnswer, Settle, Upserted
    <3>3. CASE ~RedisFails(c) /\ ~ReplyTimeout(c) /\ ~LocalAnswer(c)
      <4>1. PICK stage \in CallStages \ {"failed"} : Goto(c, stage)
        BY <2>2, <3>3 DEF GetSecret, GetSecretFails, CallStep, EmitLocally,
           NoLocalConnection, LocalTimeout, InsertPayload, Publish, SubscribeReply,
           CallStages, Settled
      <4> QED
        BY <4>1 DEF Goto
    <3> QED
      BY <3>1, <3>2, <3>3
  <2>3. ASSUME NEW r \in replies, PublishReply(r)
        PROVE  FailedIsQueued'
    BY <2>3 DEF PublishReply, Upserted
  <2>4. ASSUME NEW n \in Nodes, Crash(n)
        PROVE  FailedIsQueued'
    BY <2>4 DEF Crash
  <2>5. ASSUME NEW h \in Handlers, HandlerStep(h)
        PROVE  pc' = pc /\ upsert' = upsert
    BY <2>5 DEF HandlerStep, CheckConnection, AcquireLock, LockNotAcquired,
       LoadPayload, PayloadMissing, EmitToAgent, ConnectionGone, AgentAnswer,
       AgentTimeout, ReleaseLock, ReleaseFails, HandlerGoto, callVars
  <2>6. ASSUME \/ \E s \in Conns : Connect(s) \/ Subscribe(s) \/ Disconnect(s)
               \/ \E e \in Emitters : Run(e)
               \/ \E u \in Uuids : LockExpires(u) \/ PayloadExpires(u)
               \/ UNCHANGED vars
        PROVE  pc' = pc /\ upsert' = upsert
    BY <2>6 DEF Connect, Subscribe, Disconnect, Run, LockExpires, PayloadExpires,
       callVars, vars
  <2> QED
    BY <2>1, <2>2, <2>3, <2>4, <2>5, <2>6 DEF Next
<1> QED
  BY <1>1, <1>2, TypeCorrect, PTL DEF Spec

----
(* What is left in Redis *)

(* Stages at which the stored request is about to be announced, or sought. *)
PayloadInv ==
  /\ \A c \in Calls : pc[c] = "inserted" =>
       UuidOf[c] \in payload \/ dataLapses[UuidOf[c]] > 0
  /\ PayloadBeforeMessage

(* A listener that has a uuid finds the request stored, unless the stored  *)
(* copy had the time to expire: no order of the steps of the caller, of a  *)
(* replay or of other listeners makes the message overtake its request.    *)
THEOREM PayloadFirst == Spec => []PayloadBeforeMessage
<1>1. Init => PayloadInv
  BY DEF Init, PayloadInv, PayloadBeforeMessage
<1>2. TypeOK /\ PayloadInv /\ [Next]_vars => PayloadInv'
  <2> SUFFICES ASSUME TypeOK, PayloadInv, [Next]_vars
               PROVE  PayloadInv'
    OBVIOUS
  <2> USE UuidOfAssumption DEF PayloadInv, PayloadBeforeMessage, TypeOK, Handlers
  <2>1. ASSUME \/ \E s \in Conns : Connect(s) \/ Subscribe(s) \/ Disconnect(s)
               \/ \E e \in Emitters : Run(e)
               \/ UNCHANGED vars
        PROVE  PayloadInv'
    BY <2>1 DEF Connect, Subscribe, Disconnect, Run, callVars, redisVars, vars
  <2>2. ASSUME NEW c \in Calls, GetSecret(c) \/ GetSecretFails(c) \/ CallStep(c)
        PROVE  PayloadInv'
    <3>1. CASE InsertPayload(c)
      BY <3>1 DEF InsertPayload, Goto
    <3>2. CASE Publish(c)
      BY <3>2 DEF Publish, Goto, redisVars
    <3>3. CASE ~InsertPayload(c) /\ ~Publish(c)
      <4>1. /\ hs' = hs /\ payload' = payload /\ dataLapses' = dataLapses
            /\ \E stage \in CallStages \ {"inserted"} : pc' = [pc EXCEPT ![c] = stage]
        BY <2>2, <3>3 DEF GetSecret, GetSecretFails, CallStep, EmitLocally,
           NoLocalConnection, LocalAnswer, LocalTimeout, RedisFails, SubscribeReply,
           ReplyTimeout, Goto, Settle, redisVars, CallStages, Settled
      <4> QED
        BY <4>1
    <3> QED
      BY <3>1, <3>2, <3>3
  <2>3. ASSUME NEW h \in Handlers, HandlerStep(h)
        PROVE  PayloadInv'
    <3>1. /\ pc' = pc /\ payload' = payload /\ dataLapses' = dataLapses
          /\ \E stage \in HandlerStages :
               /\ hs' = [hs EXCEPT ![h] = stage]
               /\ stage \in {"delivered", "checked", "locked"} =>
                    hs[h] \in {"delivered", "checked", "locked"}
      BY <2>3 DEF HandlerStep, CheckConnection, AcquireLock, LockNotAcquired,
         LoadPayload, PayloadMissing, EmitToAgent, ConnectionGone, AgentAnswer,
         AgentTimeout, ReleaseLock, ReleaseFails, HandlerGoto, callVars, redisVars,
         HandlerStages, Holding, Orphaned
    <3> QED
      BY <3>1
  <2>4. ASSUME NEW r \in replies, PublishReply(r)
        PROVE  PayloadInv'
    BY <2>4 DEF PublishReply, redisVars
  <2>5. ASSUME NEW u \in Uuids, LockExpires(u)
        PROVE  PayloadInv'
    BY <2>5 DEF LockExpires, callVars
  <2>6. ASSUME NEW u \in Uuids, PayloadExpires(u)
        PROVE  PayloadInv'
    <3>1. \A v \in Uuids : v \in payload \/ dataLapses[v] > 0
                           => v \in payload' \/ dataLapses'[v] > 0
      BY <2>6 DEF PayloadExpires
    <3>2. pc' = pc /\ hs' = hs
      BY <2>6 DEF PayloadExpires, callVars
    <3> QED
      BY <3>1, <3>2
  <2>7. ASSUME NEW n \in Nodes, Crash(n)
        PROVE  PayloadInv'
    BY <2>7 DEF Crash, redisVars, Settled, Holding
  <2> QED
    BY <2>1, <2>2, <2>3, <2>4, <2>5, <2>6, <2>7 DEF Next
<1>3. PayloadInv => PayloadBeforeMessage
  BY DEF PayloadInv
<1> QED
  BY <1>1, <1>2, <1>3, TypeCorrect, PTL DEF Spec

(* A lock key is set only while a listener works on the request, or after  *)
(* one died or threw under it: no other path leaves a lock behind, so what *)
(* LOCK_TIMEOUT has to clean up is exactly that.                           *)
THEOREM LocksHaveCauses == Spec => []LockHasCause
<1> DEFINE Cause(h, u) == UuidOf[h[2]] = u /\ hs[h] \in Holding \cup Orphaned
<1>1. Init => LockHasCause
  BY DEF Init, LockHasCause
<1>2. TypeOK /\ RunInv /\ LockHasCause /\ [Next]_vars => LockHasCause'
  <2> SUFFICES ASSUME TypeOK, RunInv, LockHasCause, [Next]_vars,
                      NEW u, u \in lock'
               PROVE  \E h \in Handlers : Cause(h, u)'
    BY DEF LockHasCause
  <2>1. ASSUME NEW h \in Handlers, AcquireLock(h), u = UuidOf[h[2]]
        PROVE  Cause(h, u)'
    BY <2>1 DEF AcquireLock, TypeOK, Holding
  <2>2. CASE ~\E h \in Handlers : AcquireLock(h) /\ u = UuidOf[h[2]]
    <3>1. u \in lock
      <4>1. ASSUME NEW h \in Handlers, HandlerStep(h)
            PROVE  u \in lock
        BY <2>2, <4>1 DEF HandlerStep, CheckConnection, AcquireLock, LockNotAcquired,
           LoadPayload, PayloadMissing, EmitToAgent, ConnectionGone, AgentAnswer,
           AgentTimeout, ReleaseLock, ReleaseFails, HandlerGoto, redisVars
      <4>2. ASSUME NEW c \in Calls, GetSecret(c) \/ GetSecretFails(c) \/ CallStep(c)
            PROVE  u \in lock
        BY <4>2 DEF GetSecret, GetSecretFails, CallStep, EmitLocally, Publish,
           NoLocalConnection, LocalAnswer, LocalTimeout, InsertPayload,
           RedisFails, SubscribeReply, ReplyTimeout, redisVars
      <4>3. ASSUME \/ \E s \in Conns : Connect(s) \/ Subscribe(s) \/ Disconnect(s)
                   \/ \E e \in Emitters : Run(e)
                   \/ \E r \in replies : PublishReply(r)
                   \/ \E v \in Uuids : LockExpires(v) \/ PayloadExpires(v)
                   \/ \E n \in Nodes : Crash(n)
                   \/ UNCHANGED vars
            PROVE  u \in lock
        BY <4>3 DEF Connect, Subscribe, Disconnect, Run, PublishReply, LockExpires,
           PayloadExpires, Crash, redisVars, vars
      <4> QED
        BY <4>1, <4>2, <4>3 DEF Next
    <3>2. PICK h \in Handlers : Cause(h, u)
      BY <3>1 DEF LockHasCause
    <3>3. ASSUME NEW g \in Handlers, HandlerStep(g)
          PROVE  Cause(h, u)'
      <4>1. CASE ReleaseLock(g)
        BY <2>2, <3>2, <4>1 DEF ReleaseLock, TypeOK
      <4>2. CASE ~ReleaseLock(g)
        BY <3>2, <3>3, <4>2 DEF HandlerStep, CheckConnection, AcquireLock,
           LockNotAcquired, LoadPayload, PayloadMissing, EmitToAgent, ConnectionGone,
           AgentAnswer, AgentTimeout, ReleaseFails, HandlerGoto, TypeOK, Holding, Orphaned
      <4> QED
        BY <4>1, <4>2
    <3>4. ASSUME NEW c \in Calls, GetSecret(c) \/ GetSecretFails(c) \/ CallStep(c)
          PROVE  Cause(h, u)'
      <4>1. CASE Publish(c)
        <5>1. h[2] # c
          BY <3>2, <4>1 DEF Publish, RunInv, BeforePublish, Handlers, Holding, Orphaned
        <5> QED
          BY <3>2, <4>1, <5>1 DEF Publish, TypeOK
      <4>2. CASE ~Publish(c)
        BY <3>2, <3>4, <4>2 DEF GetSecret, GetSecretFails, CallStep, EmitLocally,
           NoLocalConnection, LocalAnswer, LocalTimeout, InsertPayload,
           RedisFails, SubscribeReply, ReplyTimeout
      <4> QED
        BY <4>1, <4>2
    <3>5. ASSUME NEW n \in Nodes, Crash(n)
          PROVE  Cause(h, u)'
      BY <3>2, <3>5 DEF Crash, Holding, Orphaned
    <3>6. ASSUME \/ \E s \in Conns : Connect(s) \/ Subscribe(s) \/ Disconnect(s)
                 \/ \E e \in Emitters : Run(e)
                 \/ \E r \in replies : PublishReply(r)
                 \/ \E v \in Uuids : LockExpires(v) \/ PayloadExpires(v)
                 \/ UNCHANGED vars
          PROVE  Cause(h, u)'
      BY <3>2, <3>6 DEF Connect, Subscribe, Disconnect, Run, PublishReply,
         LockExpires, PayloadExpires, vars
    <3> QED
      BY <3>3, <3>4, <3>5, <3>6 DEF Next
  <2> QED
    BY <2>1, <2>2
<1> QED
  BY <1>1, <1>2, TypeCorrect, RunInvariant, PTL DEF Spec

----
(* The promise of RequestReply *)

ranUuids == {u \in Uuids : \E e \in Emitters : UuidOf[e[2]] = u /\ job[e] = "ran"}
phases == [c \in Calls |-> Phase(c)]

LEMMA RunsNeverShrink ==
  ASSUME TypeOK, RunInv, [Next]_vars
  PROVE  ranUuids \subseteq ranUuids'
BY RunsStay DEF ranUuids

(* What was emitted was brought by a call that has begun.                  *)
LEMMA EmittedWasOpened ==
  ASSUME TypeOK, RunInv, NEW e \in Emitters, job[e] # "none"
  PROVE  e[2] \in Calls /\ pc[e[2]] # "idle"
<1>1. e = <<e[1], e[2]>> /\ e[1] \in Conns \cup {Local} /\ e[2] \in Calls
  BY DEF Emitters
<1>2. CASE e[1] = Local
  BY <1>1, <1>2 DEF RunInv
<1>3. CASE e[1] \in Conns
  <2>1. hs[e] # "none"
    BY <1>1, <1>3 DEF RunInv, Handlers, BeforeEmit
  <2> QED
    BY <1>1, <1>3, <2>1 DEF RunInv, BeforePublish
<1> QED
  BY <1>1, <1>2, <1>3

(* A step that runs nothing and moves no call between phases is invisible. *)
LEMMA Stutter ==
  ASSUME job' = job, \A c \in Calls : Phase(c)' = Phase(c)
  PROVE  phases' = phases /\ ranUuids' = ranUuids
BY DEF phases, ranUuids

(* Routing through sockets, Redis and locks implements RequestReply: every *)
(* step opens, rejects, runs or closes calls as it allows, or is invisible.*)
THEOREM Refinement == Spec => ImplementsRequestReply
<1>1. Init => Abstract!Init
  <2> SUFFICES ASSUME Init
               PROVE  Abstract!Init
    OBVIOUS
  <2>1. phases = [c \in Calls |-> "idle"]
    BY DEF Init, phases, Phase
  <2>2. ranUuids = {}
    BY DEF Init, ranUuids
  <2> QED
    BY <2>1, <2>2 DEF Abstract!Init, phases, ranUuids
<1>2. TypeOK /\ RunInv /\ RunInv' /\ [Next]_vars => [Abstract!Next]_(Abstract!vars)
  <2> SUFFICES ASSUME TypeOK, RunInv, RunInv', [Next]_vars
               PROVE  Abstract!Next \/ (phases' = phases /\ ranUuids' = ranUuids)
    BY DEF Abstract!vars, phases, ranUuids
  <2>1. CASE \/ \E s \in Conns : Connect(s) \/ Subscribe(s) \/ Disconnect(s)
             \/ \E u \in Uuids : LockExpires(u) \/ PayloadExpires(u)
             \/ UNCHANGED vars
    <3>1. job' = job /\ pc' = pc
      BY <2>1 DEF Connect, Subscribe, Disconnect, LockExpires, PayloadExpires,
         callVars, emitVars, vars
    <3> QED
      BY <3>1 DEF phases, ranUuids, Phase
  <2>2. ASSUME NEW e \in Emitters, Run(e)
        PROVE  Abstract!Next
    <3>1. e[2] \in Calls /\ UuidOf[e[2]] \in Uuids /\ pc[e[2]] # "idle"
      BY <2>2, EmittedWasOpened, UuidOfAssumption DEF Run
    <3>2. phases' = phases /\ phases[e[2]] # "idle"
      BY <2>2, <3>1 DEF Run, callVars, phases, Phase, TypeOK, CallStages, Settled
    <3>3. ranUuids' = ranUuids \cup {UuidOf[e[2]]}
      BY <2>2, <3>1 DEF Run, ranUuids, TypeOK
    <3>4. Abstract!RunRequest(UuidOf[e[2]])
      BY <3>1, <3>2, <3>3 DEF Abstract!RunRequest, phases, ranUuids
    <3> QED
      BY <3>1, <3>4 DEF Abstract!Next
  <2>3. ASSUME NEW c \in Calls, GetSecret(c) \/ GetSecretFails(c) \/ CallStep(c)
        PROVE  Abstract!Next \/ (phases' = phases /\ ranUuids' = ranUuids)
    <3>1. CASE GetSecret(c)
      <4>1. phases[c] = "idle" /\ phases' = [phases EXCEPT ![c] = "open"]
        BY <3>1 DEF GetSecret, Goto, phases, Phase, TypeOK
      <4>2. ranUuids' = ranUuids
        BY <3>1 DEF GetSecret, emitVars, ranUuids
      <4> QED
        BY <4>1, <4>2 DEF Abstract!Next, Abstract!Open, phases, ranUuids
    <3>2. CASE GetSecretFails(c)
      <4>1. phases[c] = "idle" /\ phases' = [phases EXCEPT ![c] = "failed"]
        BY <3>2 DEF GetSecretFails, Goto, phases, Phase, TypeOK
      <4>2. ranUuids' = ranUuids
        BY <3>2 DEF GetSecretFails, emitVars, ranUuids
      <4> QED
        BY <4>1, <4>2 DEF Abstract!Next, Abstract!Reject, phases, ranUuids
    <3>3. CASE LocalAnswer(c)
      <4>1. phases[c] = "open" /\ phases' = [phases EXCEPT ![c] = "ok"]
        BY <3>3 DEF LocalAnswer, Settle, phases, Phase, TypeOK
      <4>2. ranUuids' = ranUuids /\ UuidOf[c] \in ranUuids
        <5>1. job' = job /\ job[<<Local, c>>] = "ran" /\ <<Local, c>> \in Emitters
          BY <3>3 DEF LocalAnswer, Answered, emitVars, Emitters
        <5>2. UuidOf[c] \in Uuids /\ <<Local, c>>[2] = c
          BY UuidOfAssumption
        <5> QED
          BY <5>1, <5>2 DEF ranUuids
      <4>3. Abstract!Close({c}, "ok")
        <5>1. phases' = [d \in Calls |-> IF d \in {c} THEN "ok" ELSE phases[d]]
          BY <4>1 DEF phases
        <5> QED
          BY <4>1, <4>2, <5>1 DEF Abstract!Close, phases, ranUuids
      <4> QED
        BY <4>3 DEF Abstract!Next, Abstract!Closed
    <3>4. CASE RedisFails(c) \/ ReplyTimeout(c)
      <4>1. phases[c] = "open" /\ phases' = [phases EXCEPT ![c] = "failed"]
        <5>1. /\ pc[c] \in {"failover", "inserted", "published", "waiting"}
              /\ pc' = [pc EXCEPT ![c] = "failed"]
          BY <3>4 DEF RedisFails, ReplyTimeout, Settle
        <5> QED
          BY <5>1 DEF phases, Phase, TypeOK
      <4>2. ranUuids' = ranUuids
        BY <3>4 DEF RedisFails, ReplyTimeout, emitVars, ranUuids
      <4>3. Abstract!Close({c}, "failed")
        BY <4>1, <4>2 DEF Abstract!Close, phases, ranUuids
      <4> QED
        BY <4>3 DEF Abstract!Next, Abstract!Closed
    <3>5. CASE EmitLocally(c)
      <4>1. phases' = phases
        BY <3>5 DEF EmitLocally, Goto, phases, Phase, TypeOK
      <4>2. job[<<Local, c>>] = "none"
        BY <3>5 DEF EmitLocally, RunInv
      <4>3. ranUuids' = ranUuids
        BY <3>5, <4>2 DEF EmitLocally, Emit, ranUuids, TypeOK
      <4> QED
        BY <4>1, <4>3
    <3>6. CASE NoLocalConnection(c) \/ LocalTimeout(c) \/ InsertPayload(c)
               \/ Publish(c) \/ SubscribeReply(c)
      <4>1. phases' = phases
        BY <3>6 DEF NoLocalConnection, LocalTimeout, InsertPayload, Publish,
           SubscribeReply, Goto, phases, Phase, TypeOK
      <4>2. ranUuids' = ranUuids
        BY <3>6 DEF NoLocalConnection, LocalTimeout, InsertPayload, Publish,
           SubscribeReply, emitVars, ranUuids
      <4> QED
        BY <4>1, <4>2
    <3> QED
      BY <2>3, <3>1, <3>2, <3>3, <3>4, <3>5, <3>6 DEF CallStep
  <2>4. ASSUME NEW h \in Handlers, HandlerStep(h)
        PROVE  phases' = phases /\ ranUuids' = ranUuids
    <3>1. pc' = pc
      BY <2>4 DEF HandlerStep, CheckConnection, AcquireLock, LockNotAcquired,
         LoadPayload, PayloadMissing, EmitToAgent, ConnectionGone, AgentAnswer,
         AgentTimeout, ReleaseLock, ReleaseFails, HandlerGoto, callVars
    <3>2. CASE EmitToAgent(h)
      <4>1. job[h] = "none"
        BY <3>2 DEF EmitToAgent, RunInv, BeforeEmit
      <4> QED
        BY <3>1, <3>2, <4>1 DEF EmitToAgent, Emit, phases, Phase, ranUuids, TypeOK
    <3>3. CASE ~EmitToAgent(h)
      <4>1. job' = job
        BY <2>4, <3>3 DEF HandlerStep, CheckConnection, AcquireLock, LockNotAcquired,
           LoadPayload, PayloadMissing, ConnectionGone, AgentAnswer, AgentTimeout,
           ReleaseLock, ReleaseFails, emitVars
      <4> QED
        BY <3>1, <4>1 DEF phases, Phase, ranUuids
    <3> QED
      BY <3>2, <3>3
  <2>5. ASSUME NEW r \in replies, PublishReply(r)
        PROVE  Abstract!Next
    <3> DEFINE takers == {c \in Calls : pc[c] = "waiting" /\ UuidOf[c] = UuidOf[r[1][2]]}
               outcome == IF r[2] = "success" THEN "ok" ELSE "failed"
    <3>1. /\ \A c \in takers : phases[c] = "open"
          /\ phases' = [c \in Calls |-> IF c \in takers THEN outcome ELSE phases[c]]
      BY <2>5 DEF PublishReply, phases, Phase
    <3>2. ranUuids' = ranUuids
      BY <2>5 DEF PublishReply, emitVars, ranUuids
    <3>3. ASSUME outcome = "ok", NEW c \in takers
          PROVE  UuidOf[c] \in ranUuids
      <4>1. r[1] \in Emitters /\ job[r[1]] = "ran"
        BY <2>5, <3>3 DEF RunInv, TypeOK, Handlers, Emitters
      <4>2. UuidOf[c] = UuidOf[r[1][2]] /\ UuidOf[c] \in Uuids
        BY UuidOfAssumption
      <4> QED
        BY <4>1, <4>2 DEF ranUuids
    <3>4. Abstract!Close(takers, outcome)
      BY <3>1, <3>2, <3>3 DEF Abstract!Close, phases, ranUuids
    <3>5. takers \in SUBSET Calls /\ outcome \in Abstract!Closed
      BY DEF Abstract!Closed
    <3> QED
      BY <3>4, <3>5 DEF Abstract!Next
  <2>6. ASSUME NEW n \in Nodes, Crash(n)
        PROVE  Abstract!Next
    <3> DEFINE D == {c \in Calls : at[c] = n /\ pc[c] \notin Settled \cup {"idle"}}
    <3>1. /\ \A c \in D : phases[c] = "open"
          /\ phases' = [c \in Calls |-> IF c \in D THEN "aborted" ELSE phases[c]]
      BY <2>6 DEF Crash, phases, Phase, Settled
    <3>2. ranUuids' = ranUuids
      BY <2>6 DEF Crash, emitVars, ranUuids
    <3>3. Abstract!Close(D, "aborted")
      BY <3>1, <3>2 DEF Abstract!Close, phases, ranUuids
    <3> QED
      BY <3>3 DEF Abstract!Next, Abstract!Closed
  <2> QED
    BY <2>1, <2>2, <2>3, <2>4, <2>5, <2>6 DEF Next
<1> QED
  BY <1>1, <1>2, TypeCorrect, RunInvariant, PTL DEF Spec, ImplementsRequestReply, Abstract!Spec
====
