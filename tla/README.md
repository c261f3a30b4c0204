# A specification of test-service in TLA+

test-service keeps a control plane in touch with Kubernetes clusters. An *agent*
runs in each cluster and holds a socket.io connection to one of several *server*
processes; users' HTTP requests arrive at any of them and are carried to the
agent, run there with `kubectl`, and answered. When the agent is away, requests
that change the cluster are queued in a table and sent again later. Paths below
are relative to `src/src/` unless they start with `src/`.

The modules here describe the parts of that system that hold state, one module
per part and one for two parts together. TLC checks them on small instances, and
TLAPS proves their safety invariants for every value of the constants.

## 1. The system

### Components

| Part | State | Operations | Correct when |
|---|---|---|---|
| Request routing (`server/services/agentService.ts`, `redisService.ts`) | sockets per cluster in each process; in Redis a lock and a stored request per uuid, a channel per cluster, a reply channel per uuid | `communicateWithCluster`, `addConnection`, `removeConnection`, the channel listener, `sendAgentRequest` | every call ends; success means that an agent ran the request; a lock is kept only while someone works under it, or died so; failures of mutating requests are queued |
| Agent connections (`server/services/socketService.ts`) | entries of the process; the column `connected` | the `/agent` connection callback, its disconnect handler, `pingClusterAndUpdateStatus` | a live socket can be found; when nothing is connected the row says so, and in the end always does; it does not deny a connected agent |
| Offline queue (`server/services/cacheService.ts`, `controllers/cacheController.ts`) | one row per resource: request, status | `upsert`, `SyncClusterCache`, `syncAll`, `sync` | one row per resource with the newest request; `synced` only if it was run; replays keep the order; what an outage left is sent when an agent is back |
| Cluster records (`server/controllers/clusterController.ts`) | the row of a cluster | `create`, `update`, `updateEnvs`, `delete`, soft deletion, plugin and read handlers | updates do not undo each other; keys are set; deletion is final |
| Shell relay (`server/services/socketService.ts`, `controllers/shellController.ts`) | two maps from shell id to socket in each process | `POST /shell`, the `/shell` and `/frontend` namespaces | entries name live sockets; a terminal ends with its shell |
| Agent process (`agent/main.ts`, `agent/controllers`) | requests being run, the cached k8sGPT answer, its timers, the key | start, one handler per event, command runners | one request's failure does not lose another's; the analysis is refreshed; a table shows each object its own data |
| Resource, request, health and observability API (`server/controllers`) | none | turn an HTTP request into a call of `communicateWithCluster` | as routing; the cache metadata identifies the resource |
| Secrets, notification, credential and auth clients (`server/services`) | a cache of cluster keys in each process | HTTP calls to other services | out of scope, see section 7 |
| Shell process (`shell/main.ts`) | a pseudo-terminal | connects, relays, exits when disconnected | the client side of the relay |
| Common code, entities, middlewares, configuration, mock server | none or constants | | |

### How they interact

- An HTTP handler calls `communicateWithCluster`, which *awaits* the cluster's
  secret, then either emits on a socket of its own process with a timeout, or
  stores the request in Redis, publishes its uuid on the channel of the cluster
  and waits for one message on the reply channel.
- Every socket ever added has a channel listener. The listeners of all processes
  receive the uuid and compete for a lock with an expiry; the winner forwards
  the request to a socket of its process and publishes the answer.
- When a mutating request ends, `communicateWithCluster` starts an upsert of the
  queue and *does not await it*.
- A connecting agent starts a sweep of its queue if the row said that it was not
  connected; a disconnecting one starts a timer and then pings *through the
  HTTP API*, so through routing again. Both write the cluster's row, which the HTTP
  handlers of cluster records read and write back as a whole, `connected` included.
- An unhandled rejection, or a Redis error, ends a process with everything it
  holds in memory; Redis, the database and the agents live on.

### What is hard

State read before an `await` and used after it (the socket checked before the
lock, the row read before `connected` is set, the entity read before it is
written back, the queue's row found before it is inserted); several commands
whose outputs are joined although each saw the cluster at another moment; writes
that nobody awaits and that land in any order; a lock that expires under its holder;
messages published before the reader subscribes; timeouts racing late answers,
after which the same uuid is sent again; processes that die in between; handlers
without a `catch`. `PROJECT.json` lists these hazards by line, with the
properties that would show each of them going wrong.

## 2. The modules

| Module | Models | Abstract view or companion |
|---|---|---|
| `RequestRouting` | request routing for one cluster, all processes | implements `RequestReply` |
| `RequestReply` | what a caller is promised | |
| `ConnectionRegistry` | connections of one cluster and `connected` | |
| `CacheSync` | the offline queue of one cluster | |
| `CacheOrder` | the same, with what it promises while nothing overlaps | extends `CacheSync` by a history variable |
| `Reconnection` | an outage and the agent's return: connections together with the queue | extends `ConnectionRegistry`; the queue is an abstraction of `CacheSync` |
| `ClusterRecords` | the row of one cluster and its writers | a ledger of atomic operations, kept beside the row |
| `ShellRelay` | the relay for one shell id | |
| `AgentProcess` | one agent, through restarts | |
| `ClusterReads` | one request for a table, beside a cluster that changes | |
| `MC*` | instances for TLC | |
| `*_proofs` | theorems and proofs | |

Everything in the code is keyed by the cluster id, the resource or the shell id,
so each module has one of them. What happens between two `await`s of a handler
is one action, since JavaScript does not interrupt it. Each action is named
after the function, event or timer it stands for. Timers are untimed: one that
is armed may fire at any moment, which covers every length of delay the
constants of the code may have. Some definitions directly before an action are
marked "Mutant": they are plausible mistakes in that action, and each property
below is known to fail with one of them put in the action's place.

### RequestRouting

`pc` is where a call of `communicateWithCluster` stands: `keyed` (the secret is
known), `local` (emitted on its own process), `failover`, `inserted`,
`published`, `waiting` (subscribed to the reply), and how it settled. `hs` is
the same for each pair of a listener and a call whose message it received:
`delivered`, `checked` (`getConnection` found a socket), `locked`, `loaded`,
`emitted`, `releasing`, `done`; `abandoned` and `dead` have left their lock
behind. `link`, `home` and `listening` describe the sockets, `lock` and
`payload` the keys in Redis, `replies` what is being published, `job` and `via`
what agents have received and run. `upsert` is the status that a call passed to
the cache.

Details that matter and are kept: `removeConnection` unsubscribes on a client of
its own, so the listener stays; the check of the connection precedes the lock,
its use follows it; `DEL` does not compare the lock's value; a handler that
throws after taking the lock keeps it; the reply channel is subscribed to after
the message is published; every call with the same uuid takes the same reply;
the upsert after a reply is `error` even when the reply is a success; an emitted
request may be run after its emitter has given up.

### RequestReply

A call is idle, open or closed; it may close as `ok` only if its request was
run; a closed call stays as it is. It deliberately does not promise that a
failed request was not run, or that a request is run once: the code does neither.

### ConnectionRegistry

`stage` follows the connection callback: `finding` (entered, awaiting the row),
`registered` (handlers installed, update issued), `settled`, or `refused`. The
disconnect handler exists only from `registered` on. `ping` is the check started
by a disconnect: `armed` (20 s timer), `trying`, `marking` (the update that is not
awaited), `over`, or `blind` when the row could not be read and the check ended
there. A callback whose update fails ends in `unrecorded` instead of `settled`,
and goes on to the sweep all the same. `seen` is `connected` as the callback read
it and `syncs` the sockets that started a sweep of the queue for it.

`cluster` is the state of the row: `there`, softly deleted (which `findOneBy`
does not see, but an update by id reaches) or gone. `Writers` are requests to
`ClusterController` that write the whole row back: `update` and `updateEnvs`, and
one creation whose last update, not awaited, may still be under way. `held` is
the `connected` each has read and not yet written; it may land at any time, after
`MarkDisconnected`, after `Settle` or after a soft deletion, which it reverts.
`undone` remembers that such a write was the last to change what the row says;
the callback's and the check's own updates make it false again.

One ordering is assumed: an update issued when a socket connected has been
applied by the time the 20 s timer of its disconnection fires.

### CacheSync

Each sending of a request, by a user or for a row in a sweep, has a job: its
communication, whether a copy may still reach the agent, its upsert (`find`,
then `save` or `update`) and, in a sweep, the second write (`mark`) of the row's
status. `Key` and `Covers` stand for the metadata: TypeORM's `findOneBy` ignores
undefined members, so an undefined one matches more rows. Routing is reduced to
its outcomes: answered locally, answered with success through Redis (recorded as
`error` by the upsert, as `synced` by the sweep), or rejected. A success through
Redis may be that of another sending of the request, since all of them carry its
uuid.

What the queue promises without overlaps needs to know that there were none:
`CacheOrder` adds the history variable `alone` for that, which becomes false for
good when a call or a sweep starts while work of another is outstanding. Its
steps are those of `CacheSync`.

### Reconnection

The steps of `ConnectionRegistry` and, beside them, those of the queue: users'
calls, which find an agent or do not, the upsert that ends them, and for each
socket in `syncs` the sweep that its callback started (`read`, `todo`). Each
request has a row of its own, so the searches of `CacheSync` are left out, and a
sweep's resend with its two writes is one step. A sweep dies with its process.
`Noticed` is a state in which the server knows of the outage and no work is
left; the rows in error then are `owed`, until they are sent, by the sweep or by
the user, until a crash takes the sweep that had them, or until a whole-row write
sets `connected` again (`RowIsWritten`), so that the next callback starts no
sweep. `offline` and `late` remember how a request failed.

### ClusterRecords

An operation reads the entity, changes it and later writes all of it
(`WriteRow`). `ledger` is what the same operations would have made of the row at
once, `alone` says that no two writers have overlapped so far. The row can be
live, softly deleted or gone. Of the list of environments only how often each is
in it is kept, since nothing depends on its order: `UpdatedEnvs` pushes an
environment as often as a request names it, if the row did not have it, and
filters a removed one out only if the row had it. So an environment that the row
lacks and the request names in both lists is added, and one that the row has is
removed. `delete` finds the visible row (`DeleteFinds`) and deletes by id later,
whatever the row has become.

### ShellRelay

`remoteShellClients` and `frontendClients` are the maps of the code, per
process. Connecting overwrites an entry, disconnecting deletes the entry of the
id, whosever it is. The pod's request is sent by a timer that does not look at
the outcome of the first request. Handlers that forward bytes change nothing and
are not actions.

### AgentProcess

`Kind` sorts the events by what their handlers catch: `apply` stands for
`APPLY_RESOURCE` and `SHELL` (a `try` block, and an answer that echoes the
request when it fails), `read` for the commands and tables without one, `gpt`
for `K8SGPT`, `ping` for `PING`. `proc` is `starting`, `up`, `down` or `deaf`: a
start whose first command fails, swallowed by `main().catch`. `gpt` is the
cached answer, `resting` and `analysing` count the chains of
`setK8sGPTResponse`, `boot` follows the block that asks for the key. What nothing
catches ends the process (`HandlerThrows`): a rejection in any handler but those
of `apply`, and an error on the stdin of a running command, of an `apply` too. A
deaf process answers `/healthz` with 404 and is restarted by the liveness probe of
`server/configs/connect-template.yaml`; `Killed` stands for that and for any other
end from outside.

### ClusterReads

One request (`kind`, for all namespaces or one), the commands it starts at the
same time, what each printed (`snap`) and how it ended (`outcome`), the answer
(`end`, `rows`), and the cluster, which changes in between. `void` is exit code 0
without usable output: text that is no JSON, or nothing from a `kubectl` that
failed in front of `gawk`. A row is known by the pod of its line; of its columns
only the status and the owner of the usage figures are kept. A pod has a phase,
which the list of a join prints, and kubectl's STATUS, which the plain listing and
the one behind the filter print; they differ for a pod that is `crashing`, whose
phase is Running and whose STATUS is CrashLoopBackOff (or Terminating). The join
is the code's: a row starts with the phase and gets the STATUS if the plain
listing has the pod; both maps are keyed by the pod's name alone, so a later line
of the same name wins (`LastOf`). The column arithmetic fits the output for all
namespaces only: with a namespace no STATUS is found (`StatusesByName`), and usage
is found only in the request for the pods of all namespaces (`FiguresByName`).
When `top` fails the join is not done and the rows stay as the list has them, with
the phase; a namespace or node that was not listed
throws, and with it ends the process (`HandlerThrows` of `AgentProcess`).

## 3. Runs

A run marked ✗ is expected to be violated (section 6). Where the type invariant
is proved (section 4) no run repeats it.

| Run | Instance | Question |
|---|---|---|
| `routing_failover` | 2 processes, 2 sockets, 1 mutating call, 1 crash; or that call and a replay with its uuid, 1 process, 1 socket | are lock, stored request, replies and recorded status consistent through failover, lost replies, expiries and replays? |
| `routing_liveness` | 2 processes, 1 socket, 1 call, 1 crash, fairness | do calls and listeners come to an end, and is `RequestReply` implemented? |
| `routing_lock_comment` ✗ | as above, no crash | is a connection still there once the lock is taken? |
| `registry` | 2 processes, 2 sockets, 2 attempts per ping, 2 whole-row writers, deletion, 1 crash, fairness | do entries and `connected` agree with the sockets, in both directions, and is an outage noticed? |
| `cache_sync` | 2 requests for one resource and 2 sweeps, or a named request, one with undefined metadata and 1 sweep | is the queue exact when nothing overlaps, and what remains true in spite of the races? |
| `reconnection` | 1 process, 2 sockets, 1 request, 1 attempt per ping, deletion, 1 crash, fairness | is what a noticed outage left in the queue sent again, and why may something stay? |
| `reconnection_writes` | the same with 1 whole-row writer and no crash | can a stale row keep the queue from being sent? |
| `cluster_records` | 3 operations of any kind, 2 environments, status changes, deletion | what do whole-row writes preserve? |
| `shell_relay` | 2 processes, 2 shells, 3 frontends, 1 crash | do the maps name live sockets, and whom can a disconnection hurt? |
| `shell_refusal` ✗ | the same | is a refused frontend disconnected? |
| `agent` | 5 requests of all kinds, 2 lives, 2 days of chains | does an echo mean that nothing was done, and does the analysis go on? |
| `cluster_reads` | 2 namespaces, 3 pods of which two share a name, 2 nodes, up to 2 changes during the request, any failing commands | when does a torn view end the process, and what can a row show, of whom? |

The properties, and what each says about the code:

- **Routing.** `HoldersBounded`: at most one listener works on a uuid for the
  lock that is set plus one for each time it expired, although `DEL` may remove
  another's lock. `LockHasCause`: a lock without a worker was left by a crash or
  a throw. `PayloadBeforeMessage`: a listener misses the stored request only
  after it expired. `SuccessWasRun`: no success without a run. `SyncedRanOnce`:
  `synced` means run once and not sent through Redis as well. `FailedIsQueued`:
  a failed mutating call is recorded as `error`. `CallsEnd`,
  `HandlersFinish`: under fairness nothing waits for ever, even across a crash.
  `ImplementsRequestReply`: the refinement.
- **Registry.** `QuietRowIsTrue`: when no work is outstanding and nothing is
  connected, the row agrees, unless a socket closed while its row was being
  read, a crash took the timer, the check could not read the row, or a whole-row
  write undid what the row said since it was read for that write. `OutageIsNoticed`
  is its temporal form. `LiveRowIsTrue` is the other direction: the row denies an
  agent whose connection it recorded only after a check that failed to the last
  attempt and whose update came late, or after such a write.
  `LiveIsRegistered` and `DeadEntriesAreUnwatched`: entries of live sockets are
  kept, and those of dead ones remain only without a disconnect handler.
- **Queue.** `QueueIsExact` and `RunsInOrder` hold as long as nothing is started
  while work is outstanding (`alone`); both fail as soon as calls overlap. In
  spite of every overlap: `SyncedRowRan` (a row is `synced` only if its request
  was run, or one that a sweep sent for it), `LoneRequestIsKept` (a failed
  request that shares no row stays queued until it is run), `RowKeepsItsKey`.
- **Reconnection.** `ReturnIsReplayed`: what is in the queue of a noticed outage is
  sent again once an agent is back, however it comes and goes meanwhile, unless the
  write of a stale row hid the outage. `LeftBehindHasCause`: a request that found no
  agent is left in the queue beside a connected one only if the agent came back
  before the outage was noticed (within the 20 s and the attempts of the ping, or
  after an exception of `QuietRowIsTrue`, a stale write included), or the failure
  was recorded after its return.
- **Records.** `AloneIsAtomic`: without overlap the row is what atomic
  operations make of it. `NoDuplicateEnvs` (an environment is listed twice only
  if one request named it twice when the row did not have it), `KeysNeedCause` (a
  row without keys has a failed or overlapped creation behind it) and
  `DeletionSticks` hold however writers overlap.
- **Shell.** `EntriesAreLive`, `OnlyRivalsUnseat` (an entry is lost only to
  another connection with the same id on the same process),
  `TerminalClosesWithShell`.
- **Agent.** `EchoIsUntouched`: an echoed request did nothing to the cluster, though
  the server takes the echo for a success. `NeverGivesUp` and `ChainsBounded`:
  the refreshing chains neither end without an answer, except through a
  request's failing run, nor multiply.
- **Tables.** `ThrowHasCause`: a read whose commands all succeed ends the process
  only if a namespace came or went meanwhile, or a figure belongs to a node that
  was not there. `RowIsOwn`: a row shows its pod's own usage or none, and a STATUS
  the pod had during the read; a phase it had only if a listing failed, a namespace
  was named or the pod was away at some time; all this unless another namespace has
  a pod of that name. `StillIsExact`: if nothing changes or fails, the answer is
  the cluster, with phases for the pods of one namespace. `IllIsReported`: a pod
  whose STATUS was unhealthy all the time is in the answer, unless
  `kubectl` failed in front of the filter.

### Bounds

- Two processes and two sockets are the least that let a lock be contested, a
  failover cross processes and a socket be replaced; placements are not fixed, so
  both on one process is included. One uuid suffices because keys of different
  uuids do not meet. The instance with two calls and two sockets is too large as a
  whole; a constraint keeps two corners of it, the failover of one call, and a
  replay at one socket without a crash or an expiry of the stored request.
  Expiries are otherwise not bounded: a lock can lapse between any two steps, and
  each step that takes a lock happens once per listener and call.
- Two sockets in `registry` allow an old check beside a live connection; two
  writers allow a creation's late update and a request, or two requests whose
  writes cross; two attempts tell the last failure from the others. One crash,
  because the exceptions it causes are stable.
- Two rows, two requests and one or two sweeps in the queue: enough for a lost
  insert, a stale replay and a row that is found by a wrong key. `MaxRows` bounds
  the table, and two requests never need a third row: only a user's own sending
  inserts, since an item of a sweep finds at least the row it came from
  (`RowKeepsItsKey`).
- One request in `reconnection`, since requests there do not meet; two sockets let
  an agent return while the check of its predecessor runs. The crash of the only
  process is the one that takes a sweep along. The crash and the writer are in runs
  of their own, since together they take too long; `LeftBehindHasCause` is proved
  with both.
- Two pods of one name, or two of one namespace, in `cluster_reads` show a join
  with the wrong line; two changes let a pod come and change between three
  snapshots (one change for the pods of one namespace). What a request does not look
  at stays empty.
- Three operations on a record allow a creation, a stale writer and a third that
  writes between them; two environments allow one to be added and one removed;
  `MaxNamed` is how often one request may name an environment, twice here.
- Two shells and three frontends: one pair, one rival of each kind and a
  frontend that is refused.
- One request per kind, and two of k8sGPT, which meet in the cached answer; one
  more day and one restart give two concurrent chains and a second life.

Deadlock is not looked for: every part may rest with all of its bounded work
done. Where something must go on, a liveness property says so.

### Fairness

- `RequestRouting!Fairness`: a call or a listener that can take a step does so,
  because the event loop runs what is ready and every wait there has a timer
  (`emitWithAck` with a timeout, the reply's `setTimeout`). Nothing is assumed of
  agents, sockets, expiries in Redis, replies being delivered, or calls being made.
- `ConnectionRegistry!FairSpec`: the database answers the callback (with or
  without a row), a timer fires, and an attempt of a ping ends, which the HTTP
  client's and routing's timeouts guarantee (`CallsEnd`). Nothing obliges a
  whole-row write to land.
- `Reconnection!QueueFairSpec`: the same, and a sweep's reading and each of its
  sendings end. Nothing is assumed of agents, users or the success of anything.

## 4. Proofs

TLAPS proves the following for all values of the constants that satisfy the
assumptions in the modules. The assumptions only type the constants, say that
the sets of calls, sockets and namespaces are finite, and keep names of different
kinds apart.

`RequestRouting_proofs`:

| Theorem | Property |
|---|---|
| `TypeCorrect` | `TypeOK` |
| `LockBound` | `HoldersBounded` |
| `SuccessIsReal` | `SuccessWasRun` |
| `SyncedIsExact` | `SyncedRanOnce` |
| `FailuresAreQueued` | `FailedIsQueued` |
| `PayloadFirst` | `PayloadBeforeMessage` |
| `LocksHaveCauses` | `LockHasCause` |
| `Refinement` | `ImplementsRequestReply` |

`HoldersBounded` is inductive with `TypeOK`; the work is in the cardinality of
the set of holders, which `AcquireLock` enlarges by at most one (`NX` requires
the key to be absent) and no other action does. `SuccessWasRun` is not: a
success reply must already be known to have been earned when it is taken. `RunInv`
adds what holds of requests on their way: a call or a listener has emitted nothing
before the stage in which it does (so that emitting never forgets a run), no
listener has a call's message before it is published, a reply of success in
flight comes from a job that ran, and a call recorded as `synced` ended with a
local answer and was never published. The
refinement uses it for the step that closes a call with `ok`; the other steps
map to a step of `RequestReply` or to a stutter because a run never becomes
undone and only calls that were opened have emitted anything.

`CacheSync_proofs`:

| Theorem | Property |
|---|---|
| `CacheTypeCorrect` | `TypeOK` |
| `CacheRowKeepsItsKey` | `RowKeepsItsKey` |
| `CacheSyncedRowRan` | `SyncedRowRan` |
| `CacheLoneRequestIsKept` | `LoneRequestIsKept` |
| `CacheQueueIsExact` | `QueueIsExact`, of `CacheOrder` |
| `CacheRunsInOrder` | `RunsInOrder`, of `CacheOrder` |

`CacheInv` strengthens them by `HasRequest` (work in progress has a request),
`UpsertIsSound` (the row an upsert found still matches its request: rows keep
their keys and are never removed) and `SyncedIsEarned` (an upsert that is about
to write `synced` belongs to a request that ran, and a mark of `synced` to an
item that was answered with success after an agent ran its request). The type
theorem needs these too: an upsert indexes the table with the row it found
earlier.

`LoneRequestIsKept` speaks of states in which all work is done; `KeptInv` says how
they are reached. Every row and every item of a sweep has a request that a user
issued (`RowsComeFromUsers`), so what works for the resource of a lone request is
a sending of that request. As long as the request has not been run, each of its
sendings can only write `error`; hence, once a sending has been answered, either
its row is in error or an upsert that will make it so is under way (`Kept`).

`QueueIsExact` speaks of quiet states as well, and `RunsInOrder` of one step;
between two quiet states there is one call, or one sweep, at work (`OneAtWork`),
and `RowIsNewest` says how far it has come: a fully named resource has at most
one row, and the row holds the newest answered request unless the upsert of a
newer one is under way, which is then the only work there is. An upsert that
will insert has met no row of the resource, and nothing else can insert one in
between. A sweep's item writes back the request that its row still holds, so a
replay never goes back behind what the cluster ran last. Three facts hold
without `alone` and carry these: a request is issued once, so positions order
the requests (`IssuedOnce`); the table holds only requests that have been
answered, so an item finds at least its own row and never inserts
(`RowsAreAnswered`); and what the cluster ran was emitted by a user's sending
(`RunsWereSent`). `CacheOrderInvariant` states all of it, on top of `CacheInv`
and `KeptInv`, which `CacheOrder` inherits because its steps are those of
`CacheSync` (`OrderSpecIsSpec`).

`ConnectionRegistry_proofs`:

| Theorem | Property |
|---|---|
| `RegistryTypeCorrect` | `TypeOK` |
| `RegistryLiveIsRegistered` | `LiveIsRegistered` |
| `RegistryDeadAreUnwatched` | `DeadEntriesAreUnwatched` |
| `RegistryQuietRowIsTrue` | `QuietRowIsTrue` |
| `RegistryLiveRowIsTrue` | `LiveRowIsTrue` |

`CheckComesLate` is what makes them inductive: a socket that is up, or whose row
is still being read, has not been checked. So a disconnection that finds the
handler removes an entry whose check it starts, and one that does not leaves
both alone; and a check starts with no attempt counted, which bounds `tries`.

The two properties of the column `connected` need `RowInv`. A row that says
"connected" has a socket that answers for it (`Answers`): one that is up, has work
outstanding, or ended unnoticed in one of the ways that `QuietRowIsTrue` names;
or the write of a stale row has undone what it said.
A row that denies a recorded agent has a check that gave up (`GaveUp`), or was
undone likewise. A stale write that changes nothing keeps either reason, one that
changes the row is the new one, and each update of a callback or a check gives a
reason of its own.
`StepsInOrder` makes that hold at the two writes: a check does not try before the
update of its own connection has landed, and one that is about to clear the column
has counted all attempts.

`Reconnection_proofs`:

| Theorem | Property |
|---|---|
| `ReconnectionRefinesRegistry` | every behaviour is one of `ConnectionRegistry` |
| `QueueLeftBehindHasCause` | `LeftBehindHasCause` |

The first maps each step to one of the registry or to a stutter, so the theorems
above hold beside the queue too, and the second may use `RowInv`. `QueueInv` adds
what holds of sweeps: one is started at the end of a callback (`SweepComesLast`),
and beside a socket that is up and whose callback had read the row denying it, a
sweep was started that has, once it has read the table, every failed request still
in its list, unless the failure was recorded after the return (`SweepIsThorough`).

`ClusterRecords_proofs`:

| Theorem | Property |
|---|---|
| `RecordsTypeCorrect` | `TypeOK` |
| `RecordsAloneIsAtomic` | `AloneIsAtomic` |
| `RecordsNoDuplicateEnvs` | `NoDuplicateEnvs` |
| `RecordsKeysNeedCause` | `KeysNeedCause` |
| `RecordsDeletionSticks` | `DeletionSticks` |

`CarriesSense` says what an entity that waits to be written may be: it was read
from a visible row, a creation has its keys in it, and an environment it lists
twice has a request to explain it. `OneWriter` is what `alone` means: at most one
operation is between its read and its write, the row is still as it was read, and
the entity is what an atomic operation would make of the ledger. Only with it does
the write of all columns give the ledger's row (`AloneIsAtomic`), and does no
write meet a softly deleted row (`DeletionSticks`). `ListArithmetic` is the lemma
that the pushes and filters of `updateEnvs` leave, as a set, what the row had and
the request does not remove, and what the row lacked and the request adds.

`ShellRelay_proofs`:

| Theorem | Property |
|---|---|
| `RelayTypeCorrect` | `TypeOK` |
| `RelayEntriesAreLive` | `EntriesAreLive` |
| `RelayOnlyRivalsUnseat` | `OnlyRivalsUnseat` |
| `RelayTerminalCloses` | `TerminalClosesWithShell` |

The four are inductive only together, and with `EntriesAreAccepted` (an entry of a
frontend is of one that passed the check of its shell id). A frontend connects
where a shell has an entry, which is live, so it does not start without a shell; a
shell's disconnection closes the frontend of the entry, which is all of them but
those whose entry a rival has taken.

`ClusterReads_proofs`:

| Theorem | Property |
|---|---|
| `ReadsTypeCorrect` | `TypeOK` |
| `ReadsThrowHasCause` | `ThrowHasCause` |
| `ReadsRowIsOwn` | `RowIsOwn` |
| `ReadsStillIsExact` | `StillIsExact` |
| `ReadsIllIsReported` | `IllIsReported` |

`SnapshotsAreSeen` is the invariant behind all of them: what a command that
succeeded has printed is what some state of the cluster since the request has,
each command a state of its own. `ReadInOrder` adds that an answer is given once,
when all commands have ended, and that nothing changes after it, so that each
property is decided in the step of the join. `StatusOfRow` and `UsageOfRow` are
the lemmas about the join of pods: a STATUS that is shown was printed for the pod
itself if there is no twin, and a phase is left standing only where the lookup
cannot succeed or the pod was not there. The type theorem needs that the last of
several namesakes exists, so that there are finitely many namespaces;
`GreatestExists` proves it from the well-foundedness of strict inclusion among
finite sets, since the library's induction on finite sets has an operator for its
parameter.

`AgentProcess_proofs`:

| Theorem | Property |
|---|---|
| `AgentTypeCorrect` | `TypeOK` |
| `AgentNeverGivesUp` | `NeverGivesUp` |
| `AgentChainsBounded` | `ChainsBounded` |
| `AgentEchoIsUntouched` | `EchoIsUntouched` |

`ChainInv` adds that there is no chain before the block that starts one has got
there; `EarlyIsUntouched` that a request which has not started, and one that was
echoed, has started no command.

### Only model-checked

Liveness and everything under fairness (`CallsEnd`, `HandlersFinish`,
`OutageIsNoticed`, `ReturnIsReplayed`) is out of the prover's reach. So are the
two violations of section 6, which are counterexamples. Every invariant and every
action property of the passing runs is a theorem.

## 5. What is assumed of the outside

- *socket.io*: an acknowledgement reaches its emitter only while the socket
  lives; each connection is a new socket; `emitWithAck` with a timeout ends.
- *Redis*: commands are atomic and may fail; a publication reaches the
  subscribers of that moment, or is lost; keys with an expiry disappear.
- *TypeORM*: `findOneBy` ignores undefined members; `update` with an entity
  writes every column that is defined, `deletedAt: null` included, and does
  nothing when the row is gone; `save` inserts.
- *kubectl* and other commands: `executeKubectl` resolves whatever the exit code
  is, so "run" in the routing and the queue means that a handler of the agent took
  the request. A command that fails is still an answer, and so is a request that
  the handler echoes after a failure of its own; a queue row can be `synced` for
  either. kubectl lists by namespace, then by name.
- *The metrics server* lags: it may have figures of what is gone, and none of what
  is new.
- *Identifiers*: shells and frontends have socket ids of their own; the ids of
  calls, sockets, rows and sweeps are of different kinds. A cluster has finitely
  many namespaces.
- *The environment*: agents, users and processes may come, go and fail at any time.

## 6. Findings

1. `server/services/agentService.ts:83` says that the connection needs no check
   once the lock is taken. It was checked before two awaits, and can be gone:
   `getConnection` throws, the caller gets an error, and other processes that
   may hold a connection were kept out by the lock (`routing_lock_comment`).
2. `server/services/socketService.ts:158-161` says and logs that a frontend whose
   shell id is unknown is disconnected. It is told so, but stays connected
   without handlers and can no longer be paired (`shell_refusal`).

Exceptions that the properties name, and that a maintainer may want to know: an
entry for a socket that closes while its row is read is never removed, and no
check is started for it (`Unwatched`); a crash leaves `connected` set until an agent
has connected and left again (`killed` in `Unnoticed`), and so does a check that
could not read the row (`blind`); an agent that is back before the outage is
noticed leaves its queue as it is until the next outage or a user's retry
(`LeftBehindHasCause`); a failing ping of an old connection can mark a connected
agent as disconnected (`LiveRowIsTrue`); whole-row updates undo a concurrent soft
deletion (`DeletionSticks` allows it when writers overlap); listing namespaces
while one is created, or nodes without a metrics server, ends the agent's process
(`ThrowHasCause`); pods of one name in two namespaces show each other's status
and usage (`HasTwin`), and requests for one namespace, or for namespaces, show no
usage at all (`FiguresByName`); a request for the pods of one namespace shows
phases, so that a crashing pod reads Running, and so does any request for pods
while the metrics server is away (`StatusesByName`, `StatusShown`); a `PUT` of a cluster
writes `connected` back as it was read, and with it may hide an outage from the
returning agent's callback, so that the queue stays (`undone`, `RowIsWritten`); an
environment named in both lists of `updateEnvs` is added if the row lacks it.

## 7. Not modelled

- Notification, credential and auth clients; middlewares; entities of plugins;
  shared types; the mock server: no state of their own, or one HTTP call.
- Encryption, logging, configuration, the pseudo-terminal: data and I/O. That
  decryption fails is a step of the agent's handlers.
- The cache of cluster keys in `ClusterSecrets`, and the configuration template
  of `connectController`.
- Plugin handlers of cluster records and of the agent.
- Of the agent's tables: services, logs and events, each one command; labels; and
  the conversion of quantities (`convertCpuToCores` yields `NaN` for whole cores,
  against the comment at `kubectlController.ts:577`, and memory in Ti, or K, M, G
  without `i`, counts as 0), which is a function of one value.
- Sweeps that a user starts, and several requests for one resource, in
  `Reconnection`; `CacheSync` has both.
- Failures of Redis inside the reply listener, and the unhandled rejection of
  the server at `clusterController.ts:173`, whose effect is `Crash`. A command
  that failed in that listener after it cleared its timer would leave the call
  open for ever.

## 8. Plan

The order followed the weight of the parts: routing first, since everything else
relies on it, then what its callers do with the outcome (queue), what feeds it
(connections) and both together, the shared row, the shell, the agent and its
tables. What is left:

1. *Extend.* Failures in the reply listener of `RequestRouting`. The cache of
   cluster keys in `ClusterSecrets`, whose entries are never dropped.
2. *Prove.* That the queue of `Reconnection` implements `CacheSync` for requests
   with a row of their own. The safety half of the liveness properties: that a
   sending, a handler or a ping that has not ended has a step left to take.

To repeat the results, with TLC and tlapm in the path: `tlc -config X.cfg MCModule`
for each row of the runs in `PROJECT.json`, and `tlapm Module_proofs.tla`.
