---- MODULE RequestRouting ----
(***************************************************************************)
(* How a request reaches the agent of one cluster and how its answer comes *)
(* back (server/services/agentService.ts, redisService.ts).                *)
(*                                                                         *)
(* Several server nodes run the same code.  An agent holds its socket to   *)
(* one of them.  communicateWithCluster first tries a socket of the node   *)
(* it runs on; when there is none, or the attempt fails in any way, it     *)
(* stores the request in Redis, publishes its uuid on the cluster's        *)
(* channel and then waits for one message on the reply channel.  Every     *)
(* socket that was ever added has a listener on the cluster's channel; the *)
(* listeners compete for a Redis lock with an expiry, and the one that has *)
(* it forwards the request to an agent socket of its node.                 *)
(*                                                                         *)
(* Everything in this code is keyed by the cluster, so one cluster is      *)
(* modelled.  Timers are untimed: one that is armed may fire at any time.  *)
(* An empty acknowledgement (agentService.ts 90-94, 128-131) has the       *)
(* effect of a fired timer and shares its action.                          *)
(***************************************************************************)
EXTENDS FiniteSets, Naturals

CONSTANTS
  Nodes,      \* server processes
  Conns,      \* agent sockets; a reconnecting agent gets a new one
  Calls,      \* invocations of communicateWithCluster
  Uuids,      \* identities of requests
  UuidOf,     \* the uuid a call carries; a replay of a cached request repeats it
  Mutating,   \* calls whose event is APPLY_RESOURCE, DELETE_RESOURCE or KAPP_DELETE
  Local,      \* stands for "the caller itself" among the emitters
  MaxCrashes  \* bound on process crashes

ASSUME UuidOfAssumption == UuidOf \in [Calls -> Uuids]
ASSUME MutatingAssumption == Mutating \subseteq Calls
ASSUME LocalAssumption == Local \notin Conns
ASSUME FiniteAssumption == IsFiniteSet(Conns) /\ IsFiniteSet(Calls)
ASSUME MaxCrashesAssumption == MaxCrashes \in Nat

VARIABLES
  link,       \* state of each agent socket ("lost" with the process that held it)
  home,       \* node that accepted it
  listening,  \* sockets whose channel listener is installed
  pc,         \* stage of each call
  at,         \* node a call runs on
  upsert,     \* status the call passed to CacheService.upsert
  hs,         \* stage of each handling of a call's message by a listener
  job,        \* what became of each request emitted on a socket
  via,        \* the socket it was emitted on
  lock,       \* uuids with a lock key in Redis
  payload,    \* uuids with a stored request in Redis
  replies,    \* replies being published
  lapses,     \* how often the lock of a uuid has expired
  dataLapses, \* how often the stored request of a uuid has expired
  crashes

connVars  == <<link, home, listening>>
callVars  == <<pc, at, upsert>>
emitVars  == <<job, via>>
redisVars == <<lock, payload, lapses, dataLapses>>
vars == <<connVars, callVars, hs, emitVars, redisVars, replies, crashes>>

(* A listener of socket h[1] handles the message that call h[2] published. *)
Handlers == Conns \X Calls
(* Who may emit on a socket: such a handler, or the call itself.           *)
Emitters == (Conns \cup {Local}) \X Calls

Settled == {"ok", "failed", "rejected", "aborted"}
CallStages == {"idle", "keyed", "local", "failover", "inserted", "published",
               "waiting"} \cup Settled

(* Between the acquisition of the lock and the end of its release.         *)
Holding == {"locked", "loaded", "emitted", "releasing"}
(* Over, with the lock it acquired left in place.                          *)
Orphaned == {"abandoned", "dead"}
HandlerStages == {"none", "delivered", "checked", "done"} \cup Holding \cup Orphaned

TypeOK ==
  /\ link \in [Conns -> {"new", "up", "down", "lost"}]
  /\ home \in [Conns -> Nodes]
  /\ listening \subseteq Conns
  /\ pc \in [Calls -> CallStages]
  /\ at \in [Calls -> Nodes]
  /\ upsert \in [Calls -> {"none", "synced", "error"}]
  /\ hs \in [Handlers -> HandlerStages]
  /\ job \in [Emitters -> {"none", "sent", "ran"}]
  /\ via \in [Emitters -> Conns \cup {Local}]
  /\ lock \subseteq Uuids
  /\ payload \subseteq Uuids
  /\ replies \subseteq Handlers \X {"success", "error"}
  /\ lapses \in [Uuids -> Nat]
  /\ dataLapses \in [Uuids -> Nat]
  /\ crashes \in 0..MaxCrashes

Init ==
  /\ link = [s \in Conns |-> "new"]
  /\ home \in [Conns -> Nodes]
  /\ listening = {}
  /\ pc = [c \in Calls |-> "idle"]
  /\ at \in [Calls -> Nodes]
  /\ upsert = [c \in Calls |-> "none"]
  /\ hs = [h \in Handlers |-> "none"]
  /\ job = [e \in Emitters |-> "none"]
  /\ via = [e \in Emitters |-> Local]
  /\ lock = {}
  /\ payload = {}
  /\ replies = {}
  /\ lapses = [u \in Uuids |-> 0]
  /\ dataLapses = [u \in Uuids |-> 0]
  /\ crashes = 0

----
(* Agent sockets *)

(* getConnection: the sockets it may return; it throws when there is none. *)
Available(n) == {s \in Conns : home[s] = n /\ link[s] = "up"}

(* addConnection: the socket is entered; its subscription is started.      *)
Connect(s) ==
  /\ link[s] = "new"
  /\ link' = [link EXCEPT ![s] = "up"]
  /\ UNCHANGED <<home, listening, callVars, hs, emitVars, redisVars, replies, crashes>>

(* The subscription that addConnection started takes effect.               *)
Subscribe(s) ==
  /\ link[s] \in {"up", "down"} /\ s \notin listening
  /\ listening' = listening \cup {s}
  /\ UNCHANGED <<link, home, callVars, hs, emitVars, redisVars, replies, crashes>>

(* The socket closes and removeConnection drops it.  The unsubscribe there *)
(* is sent on a client of its own, so the listener stays.                  *)
Disconnect(s) ==
  /\ link[s] = "up"
  /\ link' = [link EXCEPT ![s] = "down"]
  /\ UNCHANGED <<home, listening, callVars, hs, emitVars, redisVars, replies, crashes>>

----
(* The agent behind a socket: kubectl runs, with or without an answer.     *)

Run(e) ==
  /\ job[e] = "sent"
  /\ job' = [job EXCEPT ![e] = "ran"]
  /\ UNCHANGED <<connVars, callVars, hs, via, redisVars, replies, crashes>>

(* The agent's acknowledgement can reach the emitter.                      *)
Answered(e) == job[e] = "ran" /\ link[via[e]] = "up"

Emit(e, s) ==
  /\ job' = [job EXCEPT ![e] = "sent"]
  /\ via' = [via EXCEPT ![e] = s]

----
(* communicateWithCluster *)

(* The upsert a call starts when it ends; only mutating events have one.   *)
Upserted(c, status) == IF c \in Mutating THEN status ELSE upsert[c]

Settle(c, outcome, status) ==
  /\ pc' = [pc EXCEPT ![c] = outcome]
  /\ upsert' = [upsert EXCEPT ![c] = Upserted(c, status)]

Goto(c, stage) ==
  /\ pc' = [pc EXCEPT ![c] = stage]
  /\ UNCHANGED upsert

(* The secret is known and the data encrypted.                             *)
GetSecret(c) ==
  /\ pc[c] = "idle"
  /\ Goto(c, "keyed")
  /\ UNCHANGED <<connVars, at, hs, emitVars, redisVars, replies, crashes>>

(* The secret is fetched outside the try: its failure leaves no upsert.    *)
GetSecretFails(c) ==
  /\ pc[c] = "idle"
  /\ Goto(c, "rejected")
  /\ UNCHANGED <<connVars, at, hs, emitVars, redisVars, replies, crashes>>

EmitLocally(c) ==
  /\ pc[c] = "keyed"
  /\ \E s \in Available(at[c]) : Emit(<<Local, c>>, s)
  /\ Goto(c, "local")
  /\ UNCHANGED <<connVars, at, hs, redisVars, replies, crashes>>

NoLocalConnection(c) ==
  /\ pc[c] = "keyed"
  /\ Available(at[c]) = {}
  /\ Goto(c, "failover")
  /\ UNCHANGED <<connVars, at, hs, emitVars, redisVars, replies, crashes>>

(* Mutant: an acknowledgement is taken whenever it comes.                  *)
LateAnswer(c) ==
  /\ pc[c] \in {"local", "failover", "inserted", "published", "waiting"}
  /\ Answered(<<Local, c>>)
  /\ Settle(c, "ok", "synced")
  /\ UNCHANGED <<connVars, at, hs, emitVars, redisVars, replies, crashes>>

LocalAnswer(c) ==
  /\ pc[c] = "local"
  /\ Answered(<<Local, c>>)
  /\ Settle(c, "ok", "synced")
  /\ UNCHANGED <<connVars, at, hs, emitVars, redisVars, replies, crashes>>

(* The timer of the emit, or any other error of the local attempt: the     *)
(* catch sends the same request again through Redis.                       *)
LocalTimeout(c) ==
  /\ pc[c] = "local"
  /\ Goto(c, "failover")
  /\ UNCHANGED <<connVars, at, hs, emitVars, redisVars, replies, crashes>>

InsertPayload(c) ==
  /\ pc[c] = "failover"
  /\ payload' = payload \cup {UuidOf[c]}
  /\ Goto(c, "inserted")
  /\ UNCHANGED <<connVars, at, hs, emitVars, lock, lapses, dataLapses, replies, crashes>>

(* Mutant: the message goes out without waiting for the stored request.    *)
PublishUnawaited(c) ==
  /\ pc[c] \in {"failover", "inserted"}
  /\ hs' = [h \in Handlers |->
              IF h[2] = c /\ h[1] \in listening THEN "delivered" ELSE hs[h]]
  /\ Goto(c, "published")
  /\ UNCHANGED <<connVars, at, emitVars, redisVars, replies, crashes>>

(* Every listener installed at this moment gets the message.               *)
Publish(c) ==
  /\ pc[c] = "inserted"
  /\ hs' = [h \in Handlers |->
              IF h[2] = c /\ h[1] \in listening THEN "delivered" ELSE hs[h]]
  /\ Goto(c, "published")
  /\ UNCHANGED <<connVars, at, emitVars, redisVars, replies, crashes>>

(* Redis refuses one of the two commands above.                            *)
RedisFails(c) ==
  /\ pc[c] \in {"failover", "inserted"}
  /\ Settle(c, "failed", "error")
  /\ UNCHANGED <<connVars, at, hs, emitVars, redisVars, replies, crashes>>

(* The reply channel is subscribed only after the request was published.   *)
SubscribeReply(c) ==
  /\ pc[c] = "published"
  /\ Goto(c, "waiting")
  /\ UNCHANGED <<connVars, at, hs, emitVars, redisVars, replies, crashes>>

(* Mutants: the timeout of a call is not recorded, or never fires.         *)
ReplyTimeoutUnrecorded(c) ==
  /\ pc[c] \in {"published", "waiting"}
  /\ Goto(c, "failed")
  /\ UNCHANGED <<connVars, at, hs, emitVars, redisVars, replies, crashes>>

ReplyTimeoutCleared(c) ==
  /\ pc[c] = "published"
  /\ Settle(c, "failed", "error")
  /\ UNCHANGED <<connVars, at, hs, emitVars, redisVars, replies, crashes>>

ReplyTimeout(c) ==
  /\ pc[c] \in {"published", "waiting"}
  /\ Settle(c, "failed", "error")
  /\ UNCHANGED <<connVars, at, hs, emitVars, redisVars, replies, crashes>>

(* A reply is published: the calls waiting for that uuid take it, and when *)
(* there is none it is lost.  The upsert is 'error' even for a success.    *)
PublishReply(r) ==
  LET takers == {c \in Calls : pc[c] = "waiting" /\ UuidOf[c] = UuidOf[r[1][2]]}
      outcome == IF r[2] = "success" THEN "ok" ELSE "failed"
  IN /\ r \in replies
     /\ replies' = replies \ {r}
     /\ pc' = [c \in Calls |-> IF c \in takers THEN outcome ELSE pc[c]]
     /\ upsert' = [c \in Calls |->
                     IF c \in takers THEN Upserted(c, "error") ELSE upsert[c]]
     /\ UNCHANGED <<connVars, at, hs, emitVars, redisVars, crashes>>

----
(* The listener of SubscribeToChannelWithLock, and sendAgentRequest *)

HandlerGoto(h, stage) ==
  /\ hs' = [hs EXCEPT ![h] = stage]
  /\ UNCHANGED <<connVars, callVars, redisVars, crashes>>

(* getConnection before the lock: a node without a socket stays out.       *)
CheckConnection(h) ==
  /\ hs[h] = "delivered"
  /\ HandlerGoto(h, IF Available(home[h[1]]) = {} THEN "done" ELSE "checked")
  /\ UNCHANGED <<emitVars, replies>>

(* Mutant: SET without NX.                                                 *)
AcquireLockUnconditionally(h) ==
  /\ hs[h] = "checked"
  /\ lock' = lock \cup {UuidOf[h[2]]}
  /\ hs' = [hs EXCEPT ![h] = "locked"]
  /\ UNCHANGED <<connVars, callVars, emitVars, payload, lapses, dataLapses, replies, crashes>>

(* SET lock:uuid PX NX succeeds.                                           *)
AcquireLock(h) ==
  /\ hs[h] = "checked"
  /\ UuidOf[h[2]] \notin lock
  /\ lock' = lock \cup {UuidOf[h[2]]}
  /\ hs' = [hs EXCEPT ![h] = "locked"]
  /\ UNCHANGED <<connVars, callVars, emitVars, payload, lapses, dataLapses, replies, crashes>>

(* The key exists, or Redis refuses the command: nothing more is done.     *)
LockNotAcquired(h) ==
  /\ hs[h] = "checked"
  /\ HandlerGoto(h, "done")
  /\ UNCHANGED <<emitVars, replies>>

LoadPayload(h) ==
  /\ hs[h] = "locked"
  /\ UuidOf[h[2]] \in payload
  /\ HandlerGoto(h, "loaded")
  /\ UNCHANGED <<emitVars, replies>>

(* GET returns nothing, or fails: the handler throws and keeps its lock.   *)
PayloadMissing(h) ==
  /\ hs[h] = "locked"
  /\ HandlerGoto(h, "abandoned")
  /\ UNCHANGED <<emitVars, replies>>

(* sendAgentRequest takes a socket of the node, any that is available now. *)
EmitToAgent(h) ==
  /\ hs[h] = "loaded"
  /\ \E s \in Available(home[h[1]]) : Emit(h, s)
  /\ HandlerGoto(h, "emitted")
  /\ UNCHANGED replies

Reply(h, status) == replies' = replies \cup {<<h, status>>}

(* getConnection throws: the sockets went away since the check.            *)
ConnectionGone(h) ==
  /\ hs[h] = "loaded"
  /\ Available(home[h[1]]) = {}
  /\ Reply(h, "error")
  /\ HandlerGoto(h, "releasing")
  /\ UNCHANGED emitVars

AgentAnswer(h) ==
  /\ hs[h] = "emitted"
  /\ Answered(h)
  /\ Reply(h, "success")
  /\ HandlerGoto(h, "releasing")
  /\ UNCHANGED emitVars

(* Mutants: no test for an empty answer; a wait without a timer.           *)
AgentTimeoutAsSuccess(h) ==
  /\ hs[h] = "emitted"
  /\ Reply(h, "success")
  /\ HandlerGoto(h, "releasing")
  /\ UNCHANGED emitVars

AgentTimeoutNever(h) ==
  /\ FALSE
  /\ UNCHANGED vars

AgentTimeout(h) ==
  /\ hs[h] = "emitted"
  /\ Reply(h, "error")
  /\ HandlerGoto(h, "releasing")
  /\ UNCHANGED emitVars

(* Mutant: the listener ends without deleting its lock.                    *)
ReleaseLockForgotten(h) ==
  /\ hs[h] = "releasing"
  /\ HandlerGoto(h, "done")
  /\ UNCHANGED <<emitVars, replies>>

(* DEL without a check that the key is still the one this handler set.     *)
ReleaseLock(h) ==
  /\ hs[h] = "releasing"
  /\ lock' = lock \ {UuidOf[h[2]]}
  /\ hs' = [hs EXCEPT ![h] = "done"]
  /\ UNCHANGED <<connVars, callVars, emitVars, payload, lapses, dataLapses, replies, crashes>>

(* Redis refuses the DEL.                                                  *)
ReleaseFails(h) ==
  /\ hs[h] = "releasing"
  /\ HandlerGoto(h, "abandoned")
  /\ UNCHANGED <<emitVars, replies>>

----
(* Redis expiries and process crashes *)

LockExpires(u) ==
  /\ u \in lock
  /\ lock' = lock \ {u}
  /\ lapses' = [lapses EXCEPT ![u] = @ + 1]
  /\ UNCHANGED <<connVars, callVars, hs, emitVars, payload, dataLapses, replies, crashes>>

PayloadExpires(u) ==
  /\ u \in payload
  /\ payload' = payload \ {u}
  /\ dataLapses' = [dataLapses EXCEPT ![u] = @ + 1]
  /\ UNCHANGED <<connVars, callVars, hs, emitVars, lock, lapses, replies, crashes>>

(* A server process dies (an unhandled rejection ends it) and is started   *)
(* again: its sockets, listeners, calls, handlers and unsent replies are   *)
(* gone; what is in Redis and what agents have received stays.             *)
Crash(n) ==
  /\ crashes < MaxCrashes
  /\ crashes' = crashes + 1
  /\ link' = [s \in Conns |->
                IF home[s] = n /\ link[s] # "new" THEN "lost" ELSE link[s]]
  /\ listening' = {s \in listening : home[s] # n}
  /\ pc' = [c \in Calls |->
              IF at[c] = n /\ pc[c] \notin Settled \cup {"idle"}
              THEN "aborted" ELSE pc[c]]
  /\ hs' = [h \in Handlers |->
              IF home[h[1]] # n THEN hs[h]
              ELSE IF hs[h] \in Holding THEN "dead"
              ELSE IF hs[h] \in {"delivered", "checked"} THEN "done"
              ELSE hs[h]]
  /\ replies' = {r \in replies : home[r[1][1]] # n}
  /\ UNCHANGED <<home, at, upsert, emitVars, redisVars>>

----
CallStep(c) ==
  \/ EmitLocally(c) \/ NoLocalConnection(c)
  \/ LocalAnswer(c) \/ LocalTimeout(c)
  \/ InsertPayload(c) \/ Publish(c) \/ RedisFails(c)
  \/ SubscribeReply(c) \/ ReplyTimeout(c)

HandlerStep(h) ==
  \/ CheckConnection(h) \/ AcquireLock(h) \/ LockNotAcquired(h)
  \/ LoadPayload(h) \/ PayloadMissing(h)
  \/ EmitToAgent(h) \/ ConnectionGone(h)
  \/ AgentAnswer(h) \/ AgentTimeout(h)
  \/ ReleaseLock(h) \/ ReleaseFails(h)

Next ==
  \/ \E s \in Conns : Connect(s) \/ Subscribe(s) \/ Disconnect(s)
  \/ \E e \in Emitters : Run(e)
  \/ \E c \in Calls : GetSecret(c) \/ GetSecretFails(c) \/ CallStep(c)
  \/ \E h \in Handlers : HandlerStep(h)
  \/ \E r \in replies : PublishReply(r)
  \/ \E u \in Uuids : LockExpires(u) \/ PayloadExpires(u)
  \/ \E n \in Nodes : Crash(n)

Spec == Init /\ [][Next]_vars

(* The event loop runs what is ready, and every wait of a call or a        *)
(* listener has a timer.  Nothing is assumed of agents, sockets, expiries, *)
(* the delivery of replies or the start of a call.                         *)
Fairness ==
  /\ \A c \in Calls : WF_vars(CallStep(c))
  /\ \A h \in Handlers : WF_vars(HandlerStep(h))

FairSpec == Spec /\ Fairness

----
(* Properties *)

HoldersOf(u) == {h \in Handlers : UuidOf[h[2]] = u /\ hs[h] \in Holding}
LockHeld(u) == IF u \in lock THEN 1 ELSE 0

(* What the Redis lock is worth: the listeners that work on one uuid at    *)
(* the same time never exceed the lock key that is set plus the number of  *)
(* times that key has expired.  A lock outlived by its 20 s agent call     *)
(* (LOCK_TIMEOUT is 10 s) lets one more listener in, and DEL of a lock     *)
(* taken over by another listener never makes it worse than that.          *)
HoldersBounded ==
  \A u \in Uuids : Cardinality(HoldersOf(u)) <= lapses[u] + LockHeld(u)

(* A lock key on which nobody works was left by a handler that died with   *)
(* its process or threw after it had taken the lock; every other way out   *)
(* of the listener removes the key.                                        *)
LockHasCause ==
  \A u \in lock : \E h \in Handlers :
    UuidOf[h[2]] = u /\ hs[h] \in Holding \cup Orphaned

(* The request is stored before its uuid is published: a listener fails to *)
(* find it only after the stored copy has expired.                         *)
PayloadBeforeMessage ==
  \A h \in Handlers :
    hs[h] \in {"delivered", "checked", "locked"} =>
      UuidOf[h[2]] \in payload \/ dataLapses[UuidOf[h[2]]] > 0

(* A call never reports success for a request no agent has run, on either  *)
(* path and whichever call of the same uuid the reply was meant for.       *)
SuccessWasRun ==
  \A c \in Calls : pc[c] = "ok" =>
    \E e \in Emitters : UuidOf[e[2]] = UuidOf[c] /\ job[e] = "ran"

(* The cache is told 'synced' only for a request that this call had run    *)
(* once, on its own node, and that was not sent again through Redis.       *)
SyncedRanOnce ==
  \A c \in Calls : upsert[c] = "synced" =>
    /\ {e \in Emitters : e[2] = c /\ job[e] # "none"} = {<<Local, c>>}
    /\ job[<<Local, c>>] = "ran"

(* A mutating request that failed after its secret was resolved is queued  *)
(* for the next synchronisation of the cluster.                            *)
FailedIsQueued ==
  \A c \in Mutating : pc[c] = "failed" => upsert[c] = "error"

(* agentService.ts:83: with the lock taken the connection needs no check.  *)
ConnectionStillThere ==
  \A h \in Handlers : hs[h] = "loaded" => Available(home[h[1]]) # {}

(* A listener that received a message always comes to an end with it.      *)
HandlersFinish ==
  \A h \in Handlers :
    hs[h] = "delivered" ~> hs[h] \in {"done"} \cup Orphaned

----
(* Refinement of RequestReply *)

Phase(c) ==
  CASE pc[c] = "idle" -> "idle"
    [] pc[c] \in {"failed", "rejected"} -> "failed"
    [] pc[c] \in {"ok", "aborted"} -> pc[c]
    [] OTHER -> "open"

Abstract == INSTANCE RequestReply WITH
  state <- [c \in Calls |-> Phase(c)],
  run <- {u \in Uuids : \E e \in Emitters : UuidOf[e[2]] = u /\ job[e] = "ran"}

(* The routing keeps the promise of RequestReply: no interleaving of       *)
(* failover, replays, lost replies, expiries and crashes lets a call       *)
(* succeed without a run, or end twice.                                    *)
ImplementsRequestReply == Abstract!Spec

(* communicateWithCluster always ends, whatever agents, sockets, replies   *)
(* and processes do.                                                       *)
CallsEnd == Abstract!EveryCallEnds
====
