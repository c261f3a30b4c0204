---- MODULE Reconnection ----
(***************************************************************************)
(* An outage and its end: the connections of ConnectionRegistry together   *)
(* with the queue, of which CacheSync has the details.                     *)
(*                                                                         *)
(* The callback of a connecting socket starts SyncClusterCache, without    *)
(* awaiting it, if the row it read at first said "not connected"           *)
(* (server/services/socketService.ts 113-115).  The sweep reads the rows   *)
(* in error somewhat later and sends their requests one after the other,   *)
(* in the process that holds the socket: a crash of that process ends it.  *)
(* Here a sweep's sending is one step, and each request has a row of its   *)
(* own; sweeps that a user asks for are left out.                          *)
(***************************************************************************)
EXTENDS ConnectionRegistry

CONSTANT Reqs   \* mutating requests, each of a resource of its own

VARIABLES
  row,     \* status of each request's row in the queue
  call,    \* a user's sending of it; "away" if there was no agent to take it
  read,    \* sockets whose sweep has read the queue
  todo,    \* requests that each sweep has yet to send
  owed,    \* requests found in the queue of a noticed outage and not sent since
  offline, \* requests whose last finished sending found no agent
  late     \* those of them whose failure was recorded beside a connected agent

queueVars == <<row, call, read, todo, owed, offline, late>>

QueueTypeOK ==
  /\ row \in [Reqs -> {"none", "synced", "error"}]
  /\ call \in [Reqs -> {"idle", "open", "away"}]
  /\ read \subseteq syncs
  /\ todo \in [Conns -> SUBSET Reqs]
  /\ owed \subseteq Reqs /\ offline \subseteq Reqs /\ late \subseteq offline

QueueInit ==
  /\ Init
  /\ row = [r \in Reqs |-> "none"] /\ call = [r \in Reqs |-> "idle"]
  /\ read = {} /\ todo = [s \in Conns |-> {}]
  /\ owed = {} /\ offline = {} /\ late = {}

----
AgentUp == \E s \in Conns : tcp[s] = "up"

SweepsAreOver == syncs = read /\ \A s \in Conns : todo[s] = {}

(* The server has noticed an outage, and no work is left.                  *)
Noticed ==
  /\ rowExists /\ ~connected
  /\ \A s \in Conns : tcp[s] # "up" /\ ~Pending(s)
  /\ SweepsAreOver

(* What is in the queue then is owed to the user from the next step on.    *)
Owed == IF Noticed THEN owed \cup {r \in Reqs : row[r] = "error"} ELSE owed

(* A user applies or deletes the resource.                                 *)
Apply(r) ==
  /\ call[r] = "idle"
  /\ call' = [call EXCEPT ![r] = IF AgentUp THEN "open" ELSE "away"]
  /\ owed' = Owed
  /\ UNCHANGED <<vars, row, read, todo, offline, late>>

(* The call ends and its upsert lands.  Without an agent it ends by a      *)
(* timeout, by which time an agent may have come.                          *)
Recorded(r) ==
  /\ call[r] # "idle"
  /\ call' = [call EXCEPT ![r] = "idle"]
  /\ \E status \in {"synced", "error"} :
       /\ call[r] = "away" => status = "error"
       /\ row' = [row EXCEPT ![r] = status]
  /\ offline' = IF call[r] = "away" THEN offline \cup {r} ELSE offline \ {r}
  /\ late' = IF call[r] = "away" /\ AgentUp THEN late \cup {r} ELSE late \ {r}
  /\ owed' = Owed \ {r}
  /\ UNCHANGED <<vars, read, todo>>

(* SyncClusterCache finds the rows in error.                               *)
SweepReads(s) ==
  /\ s \in syncs \ read
  /\ read' = read \cup {s}
  /\ todo' = [todo EXCEPT ![s] = {r \in Reqs : row[r] = "error"}]
  /\ UNCHANGED <<vars, row, call, owed, offline, late>>

(* It sends the next of them.  A failure keeps the row in error; so may    *)
(* the upsert that follows a success through Redis.                        *)
SweepSends(s, r) ==
  /\ r \in todo[s]
  /\ todo' = [todo EXCEPT ![s] = @ \ {r}]
  /\ \E status \in {"synced", "error"} :
       /\ status = "synced" => AgentUp
       /\ row' = [row EXCEPT ![r] = status]
  /\ owed' = owed \ {r}
  /\ offline' = IF AgentUp THEN offline \ {r} ELSE offline \cup {r}
  /\ late' = late \ {r}
  /\ UNCHANGED <<vars, call, read>>

(* The process dies with its sweeps, and what they had to send.            *)
SweepsDie(n) ==
  /\ Crash(n)
  /\ LET lost == {s \in syncs : home[s] = n}
     IN /\ read' = read \cup lost
        /\ todo' = [s \in Conns |-> IF s \in lost THEN {} ELSE todo[s]]
        /\ owed' = {r \in Owed : \A s \in lost : s \in read /\ r \notin todo[s]}
  /\ UNCHANGED <<row, call, offline, late>>

(* The queue, beside a step of the connections.                            *)
QueueStays ==
  /\ owed' = Owed
  /\ UNCHANGED <<row, call, read, todo, offline, late>>

ConnectionStep ==
  /\ \/ \E s \in Conns : Accept(s) \/ Database(s) \/ Disconnect(s) \/ Ping(s)
     \/ DeleteCluster
     \/ \E w \in Writers : WriterReads(w)
  /\ QueueStays

(* The whole row is written back.  If that hides a noticed outage from the *)
(* agents to come, nothing is owed any more.                               *)
RowIsWritten(w) ==
  /\ WriterWrites(w)
  /\ owed' = IF connected' /\ ~connected THEN {} ELSE Owed
  /\ UNCHANGED <<row, call, read, todo, offline, late>>

QueueNext ==
  \/ ConnectionStep
  \/ \E w \in Writers : RowIsWritten(w)
  \/ \E n \in Nodes : SweepsDie(n)
  \/ \E r \in Reqs : Apply(r) \/ Recorded(r)
  \/ \E s \in Conns : SweepReads(s) \/ \E r \in Reqs : SweepSends(s, r)

QueueSpec == QueueInit /\ [][QueueNext]_<<vars, queueVars>>

(* The database answers, timers fire, an attempt of a ping ends, and so    *)
(* does each sending of a sweep.                                           *)
QueueFairSpec ==
  /\ QueueSpec
  /\ \A s \in Conns :
       /\ WF_<<vars, queueVars>>(Database(s) /\ QueueStays)
       /\ WF_<<vars, queueVars>>(Ping(s) /\ QueueStays)
       /\ WF_<<vars, queueVars>>(SweepReads(s) \/ \E r \in Reqs : SweepSends(s, r))

----
(* Properties *)

(* An agent is there and its callback has ended.                           *)
Settled(s) == tcp[s] = "up" /\ stage[s] \in {"settled", "unrecorded"}

(* A request that failed because no agent was there is still in the queue, *)
(* though one has come back, only if the server had not yet noticed the    *)
(* outage when the agent came back, or a whole-row write had undone it, so *)
(* that the callback read "connected", or if the failure was recorded      *)
(* after that.                                                             *)
LeftBehindHasCause ==
  \A r \in Reqs : \A s \in Conns :
    row[r] = "error" /\ r \in offline /\ Settled(s) /\ SweepsAreOver
    => seen[s] \/ r \in late

(* A request in the queue of a noticed outage is sent again once an agent  *)
(* is back: the callback that sets connected has read the row before it    *)
(* did, and starts the sweep.  What a crash takes along, what the user has *)
(* sent anew, and what a whole-row write has hidden, is owed no more.      *)
ReturnIsReplayed ==
  \A r \in Reqs : r \in owed /\ (\E s \in Conns : Settled(s)) ~> r \notin owed
====
