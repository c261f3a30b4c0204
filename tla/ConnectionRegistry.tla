---- MODULE ConnectionRegistry ----
(***************************************************************************)
(* Agent connections of one cluster and the "connected" column of its row  *)
(* (server/services/socketService.ts, addConnection and removeConnection   *)
(* of agentService.ts).                                                    *)
(*                                                                         *)
(* The connection callback registers the socket, awaits the cluster's row, *)
(* installs the disconnect handler only then, and awaits the update that   *)
(* sets connected.  A disconnect that the handler sees arms a timer; when  *)
(* it fires the cluster is pinged up to PingRetry times through the HTTP   *)
(* API, and connected is cleared when every attempt has failed.            *)
(*                                                                         *)
(* The handlers of ClusterController read the whole row, connected         *)
(* included, and write it back later: create, update and updateEnvs.       *)
(***************************************************************************)
EXTENDS Naturals

CONSTANTS
  Nodes,
  Conns,      \* sockets; an agent that comes back has a new one
  PingRetry,  \* CLUSTER_PING_RETRY
  Writers,    \* requests whose handler writes the whole row back
  MaxCrashes  \* bound on process crashes

ASSUME PingRetryAssumption == PingRetry \in Nat \ {0}
ASSUME CrashBoundAssumption == MaxCrashes \in Nat

VARIABLES
  tcp,        \* of each socket
  home,       \* node that holds it
  stage,      \* how far the connection callback is
  seen,       \* cluster.connected as the callback read it
  entries,    \* sockets in AgentService.instance
  cluster,    \* the row: there, soft-deleted (still updated by id) or gone
  connected,  \* its column
  held,       \* what each writer has read in the column and not yet written
  undone,     \* a whole-row write was the last to change what the row says
  ping,       \* stage of the check that a disconnect starts
  tries,      \* its failed attempts
  syncs,      \* sockets whose callback started SyncClusterCache
  crashes

sockVars == <<tcp, home, stage, seen, entries>>
rowVars  == <<cluster, connected, undone>>
pingVars == <<ping, tries>>
vars == <<sockVars, rowVars, held, pingVars, syncs, crashes>>

Stages == {"none", "finding", "refused", "registered", "settled", "unrecorded", "killed"}

TypeOK ==
  /\ tcp \in [Conns -> {"new", "up", "down"}]
  /\ home \in [Conns -> Nodes]
  /\ stage \in [Conns -> Stages]
  /\ seen \in [Conns -> BOOLEAN]
  /\ entries \subseteq Conns
  /\ cluster \in {"there", "soft", "gone"}
  /\ connected \in BOOLEAN /\ undone \in BOOLEAN
  /\ held \in [Writers -> {"idle", "on", "off", "done"}]
  /\ ping \in [Conns -> {"off", "armed", "trying", "marking", "over", "blind"}]
  /\ tries \in [Conns -> 0..PingRetry]
  /\ syncs \subseteq Conns
  /\ crashes \in 0..MaxCrashes

(* The row has been created, and the last update of its creation, which is *)
(* not awaited, may be still to come.                                      *)
Init ==
  /\ tcp = [s \in Conns |-> "new"]
  /\ home \in [Conns -> Nodes]
  /\ stage = [s \in Conns |-> "none"]
  /\ seen = [s \in Conns |-> FALSE]
  /\ entries = {}
  /\ cluster = "there" /\ connected = FALSE /\ undone = FALSE
  /\ held \in {[w \in Writers |-> IF w = creator THEN "off" ELSE "idle"] :
                creator \in Writers \cup {"none"}}
  /\ ping = [s \in Conns |-> "off"]
  /\ tries = [s \in Conns |-> 0]
  /\ syncs = {}
  /\ crashes = 0

(* findOneBy does not see a soft-deleted row.                              *)
rowExists == cluster = "there"

----
(* addConnection; the callback then waits for the cluster's row.           *)
Accept(s) ==
  /\ tcp[s] = "new"
  /\ tcp' = [tcp EXCEPT ![s] = "up"]
  /\ stage' = [stage EXCEPT ![s] = "finding"]
  /\ entries' = entries \cup {s}
  /\ UNCHANGED <<home, seen, rowVars, held, pingVars, syncs, crashes>>

(* The row is there: its connected is kept, the handlers are installed,    *)
(* even on a socket that has closed in the meantime.                       *)
Register(s) ==
  /\ stage[s] = "finding" /\ rowExists
  /\ stage' = [stage EXCEPT ![s] = "registered"]
  /\ seen' = [seen EXCEPT ![s] = connected]
  /\ UNCHANGED <<tcp, home, entries, rowVars, held, pingVars, syncs, crashes>>

(* Cluster not found: the socket is closed; no handler removes its entry.  *)
Refuse(s) ==
  /\ stage[s] = "finding" /\ ~rowExists
  /\ stage' = [stage EXCEPT ![s] = "refused"]
  /\ tcp' = [tcp EXCEPT ![s] = "down"]
  /\ UNCHANGED <<home, seen, entries, rowVars, held, pingVars, syncs, crashes>>

(* Mutant: the decision is taken from the row as it has become.            *)
SettleByNewRow(s) ==
  /\ stage[s] = "registered"
  /\ \E recorded \in BOOLEAN :
       /\ stage' = [stage EXCEPT ![s] = IF recorded THEN "settled" ELSE "unrecorded"]
       /\ connected' = IF recorded THEN cluster # "gone" ELSE connected
       /\ undone' = IF recorded THEN FALSE ELSE undone
  /\ syncs' = IF connected' THEN syncs ELSE syncs \cup {s}
  /\ UNCHANGED <<tcp, home, seen, entries, cluster, held, pingVars, crashes>>

(* The end of the callback: the update of the row, which may fail, and the *)
(* synchronisation when the row read before said "not connected".          *)
Settle(s) ==
  /\ stage[s] = "registered"
  /\ \E recorded \in BOOLEAN :
       /\ stage' = [stage EXCEPT ![s] = IF recorded THEN "settled" ELSE "unrecorded"]
       /\ connected' = IF recorded THEN cluster # "gone" ELSE connected
       /\ undone' = IF recorded THEN FALSE ELSE undone
  /\ syncs' = IF seen[s] THEN syncs ELSE syncs \cup {s}
  /\ UNCHANGED <<tcp, home, seen, entries, cluster, held, pingVars, crashes>>

HasHandler(s) == stage[s] \in {"registered", "settled", "unrecorded"}

(* Mutant: the disconnect handler forgets the check.                       *)
DisconnectUnchecked(s) ==
  /\ tcp[s] = "up"
  /\ tcp' = [tcp EXCEPT ![s] = "down"]
  /\ entries' = IF HasHandler(s) THEN entries \ {s} ELSE entries
  /\ ping' = IF HasHandler(s) THEN [ping EXCEPT ![s] = "over"] ELSE ping
  /\ UNCHANGED <<home, stage, seen, rowVars, held, tries, syncs, crashes>>

(* Mutant: the cluster's whole list is dropped on its first disconnect.    *)
DisconnectDropsList(s) ==
  /\ tcp[s] = "up"
  /\ tcp' = [tcp EXCEPT ![s] = "down"]
  /\ entries' = IF HasHandler(s) THEN {c \in entries : home[c] # home[s]} ELSE entries
  /\ ping' = IF HasHandler(s) THEN [ping EXCEPT ![s] = "armed"] ELSE ping
  /\ UNCHANGED <<home, stage, seen, rowVars, held, tries, syncs, crashes>>

(* Mutant: the entry stays when its socket is gone.                        *)
DisconnectKeepsEntry(s) ==
  /\ tcp[s] = "up"
  /\ tcp' = [tcp EXCEPT ![s] = "down"]
  /\ ping' = IF HasHandler(s) THEN [ping EXCEPT ![s] = "armed"] ELSE ping
  /\ UNCHANGED <<home, stage, seen, entries, rowVars, held, tries, syncs, crashes>>

(* The socket closes; the handler, if it is there, removes the entry and   *)
(* starts the 20 s timer.                                                  *)
Disconnect(s) ==
  /\ tcp[s] = "up"
  /\ tcp' = [tcp EXCEPT ![s] = "down"]
  /\ entries' = IF HasHandler(s) THEN entries \ {s} ELSE entries
  /\ ping' = IF HasHandler(s) THEN [ping EXCEPT ![s] = "armed"] ELSE ping
  /\ UNCHANGED <<home, stage, seen, rowVars, held, tries, syncs, crashes>>

----
(* pingClusterAndUpdateStatus *)

(* The timer fires.  The update issued when the socket connected, more     *)
(* than 20 s ago, has been applied by then.                                *)
PingFires(s) ==
  /\ ping[s] = "armed" /\ stage[s] # "registered"
  /\ ping' = [ping EXCEPT ![s] = IF rowExists THEN "trying" ELSE "over"]
  /\ UNCHANGED <<sockVars, rowVars, held, tries, syncs, crashes>>

(* The row cannot be read: the check ends without an attempt.              *)
PingReadFails(s) ==
  /\ ping[s] = "armed" /\ stage[s] # "registered"
  /\ ping' = [ping EXCEPT ![s] = "blind"]
  /\ UNCHANGED <<sockVars, rowVars, held, tries, syncs, crashes>>

(* communicateWithCluster reaches an agent through any registered socket.  *)
Reachable == \E s \in entries : tcp[s] = "up"

(* Mutant: the update follows a success too.                               *)
PingMarksAnyway(s) ==
  /\ ping[s] = "trying" /\ Reachable
  /\ ping' = [ping EXCEPT ![s] = "marking"]
  /\ UNCHANGED <<sockVars, rowVars, held, tries, syncs, crashes>>

PingSucceeds(s) ==
  /\ ping[s] = "trying" /\ Reachable
  /\ ping' = [ping EXCEPT ![s] = "over"]
  /\ UNCHANGED <<sockVars, rowVars, held, tries, syncs, crashes>>

(* Mutant: one failed attempt ends the check without a verdict.            *)
PingFailsOnce(s) ==
  /\ ping[s] = "trying"
  /\ tries' = [tries EXCEPT ![s] = @ + 1]
  /\ ping' = [ping EXCEPT ![s] = "over"]
  /\ UNCHANGED <<sockVars, rowVars, held, syncs, crashes>>

(* An attempt times out or is answered with an error, agent or no agent.   *)
PingFails(s) ==
  /\ ping[s] = "trying"
  /\ tries' = [tries EXCEPT ![s] = @ + 1]
  /\ ping' = [ping EXCEPT ![s] = IF tries'[s] = PingRetry THEN "marking" ELSE "trying"]
  /\ UNCHANGED <<sockVars, rowVars, held, syncs, crashes>>

(* The update is not awaited, so anything may come before it.              *)
MarkDisconnected(s) ==
  /\ ping[s] = "marking"
  /\ ping' = [ping EXCEPT ![s] = "over"]
  /\ connected' = FALSE /\ undone' = FALSE
  /\ UNCHANGED <<sockVars, cluster, held, tries, syncs, crashes>>

----
(* ClusterController *)

(* delete, or the soft deletion, which leaves the columns as they are.     *)
DeleteCluster ==
  /\ rowExists
  /\ cluster' \in {"soft", "gone"}
  /\ connected' = (connected /\ cluster' = "soft")
  /\ UNCHANGED <<sockVars, undone, held, pingVars, syncs, crashes>>

(* update or updateEnvs finds the row.                                     *)
WriterReads(w) ==
  /\ held[w] = "idle" /\ rowExists
  /\ held' = [held EXCEPT ![w] = IF connected THEN "on" ELSE "off"]
  /\ UNCHANGED <<sockVars, rowVars, pingVars, syncs, crashes>>

(* It writes every column back, by id: connected as it was read, and the   *)
(* null deletedAt, which brings a soft-deleted row back.                   *)
WriterWrites(w) ==
  /\ held[w] \in {"on", "off"}
  /\ held' = [held EXCEPT ![w] = "done"]
  /\ IF cluster = "gone"
     THEN UNCHANGED rowVars
     ELSE /\ cluster' = "there"
          /\ connected' = (held[w] = "on")
          /\ undone' = (undone \/ cluster = "soft" \/ connected' # connected)
  /\ UNCHANGED <<sockVars, pingVars, syncs, crashes>>

----

(* Work of the socket's callback or of its check is outstanding.           *)
Pending(s) == stage[s] \in {"finding", "registered"}
              \/ ping[s] \in {"armed", "trying", "marking"}

(* A process dies with its sockets, entries, callbacks and timers.         *)
Crash(n) ==
  /\ crashes < MaxCrashes
  /\ crashes' = crashes + 1
  /\ LET lost == {s \in Conns : home[s] = n /\ (tcp[s] = "up" \/ Pending(s))}
     IN /\ tcp' = [s \in Conns |-> IF s \in lost THEN "down" ELSE tcp[s]]
        /\ stage' = [s \in Conns |-> IF s \in lost THEN "killed" ELSE stage[s]]
        /\ ping' = [s \in Conns |-> IF s \in lost THEN "over" ELSE ping[s]]
  /\ entries' = {s \in entries : home[s] # n}
  /\ UNCHANGED <<home, seen, rowVars, held, tries, syncs>>

(* What the database, and what the timers and the pinged agent, bring on.  *)
Database(s) == Register(s) \/ Refuse(s) \/ Settle(s)

Ping(s) == PingFires(s) \/ PingReadFails(s) \/ PingSucceeds(s) \/ PingFails(s)
           \/ MarkDisconnected(s)

Next ==
  \/ \E s \in Conns : Accept(s) \/ Database(s) \/ Disconnect(s) \/ Ping(s)
  \/ DeleteCluster
  \/ \E w \in Writers : WriterReads(w) \/ WriterWrites(w)
  \/ \E n \in Nodes : Crash(n)

Spec == Init /\ [][Next]_vars

(* The database answers, timers fire, an attempt of a ping ends.  Nothing  *)
(* obliges an agent to come or go, or a request to update the row.         *)
FairSpec ==
  /\ Spec
  /\ \A s \in Conns : WF_vars(Database(s)) /\ WF_vars(Ping(s))

----
(* Properties *)

(* Down without a disconnect handler ever having run: it closed before the *)
(* row was found.                                                          *)
Unwatched(s) == tcp[s] = "down" /\ ping[s] = "off"

(* The three ways to lose the check of a connection that is gone.          *)
Unnoticed(s) == Unwatched(s) \/ stage[s] = "killed" \/ ping[s] = "blind"

(* When the dust has settled and no agent is connected, the row does not   *)
(* say it is, whatever the order of connects, disconnects, pings and late  *)
(* updates.  The exceptions are named: a socket that closed while its row  *)
(* was being read, a crash, which takes the timers with it, a check that   *)
(* could not read the row, and an update of the whole row that undid what  *)
(* the column said since the row was read for it.                          *)
QuietRowIsTrue ==
  /\ rowExists /\ connected
  /\ \A s \in Conns : tcp[s] # "up" /\ ~Pending(s)
  => undone \/ \E s \in Conns : Unnoticed(s)

(* The other direction: the row says "not connected" while an agent whose  *)
(* update succeeded is there only if some check has given up, after every  *)
(* one of its attempts had failed, and its update, late, came last, or if  *)
(* the whole row was written back as it was read before.                   *)
LiveRowIsTrue ==
  /\ rowExists /\ ~connected
  /\ \E s \in Conns : tcp[s] = "up" /\ stage[s] = "settled"
  => undone \/ \E s \in Conns : tries[s] = PingRetry /\ ping[s] = "over"

(* A live socket can be found by getConnection: removing the entry of one  *)
(* connection never removes that of another.                               *)
LiveIsRegistered == \A s \in Conns : tcp[s] = "up" => s \in entries

(* An entry that outlives its socket was left by a refused connection or   *)
(* by one that closed before its handlers were installed.                  *)
DeadEntriesAreUnwatched == \A s \in entries : tcp[s] = "down" => Unwatched(s)

(* An outage is noticed: if from some time on no agent is connected, the   *)
(* row says so in the end, with the same exceptions.                       *)
OutageIsNoticed ==
  <>[](\A s \in Conns : tcp[s] # "up") =>
    <>[](~(rowExists /\ connected) \/ undone \/ \E s \in Conns : Unnoticed(s))
====
