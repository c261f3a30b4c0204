---- MODULE ShellRelay ----
(***************************************************************************)
(* The relay between a user's terminal and the shell job in the cluster    *)
(* (server/controllers/shellController.ts, the /shell and /frontend        *)
(* namespaces of server/services/socketService.ts, shellService.ts,        *)
(* shell/main.ts), for one shellID.                                        *)
(*                                                                         *)
(* Each process keeps two maps from shellID to the socket of the shell and *)
(* to that of the frontend.  A connection overwrites the entry, and any    *)
(* disconnection deletes it, whose ever it is by then.  The handlers that  *)
(* forward messages and sizes read the two maps and change neither, so     *)
(* they are not actions; what they rely on is EntriesAreLive.              *)
(***************************************************************************)
EXTENDS Naturals

CONSTANTS
  Nodes,
  Shells,     \* connections of shell jobs that carry the shellID
  Fronts,     \* connections of frontends that ask for it
  None,
  MaxCrashes  \* bound on process crashes

ASSUME NoneAssumption == None \notin Shells /\ None \notin Fronts
ASSUME NamespacesAssumption == Shells \cap Fronts = {}  \* /shell and /frontend
ASSUME CrashBoundAssumption == MaxCrashes \in Nat

Sockets == Shells \cup Fronts

VARIABLES
  request,    \* ShellController: idle, rbac, answered, failed
  podSent,    \* the second request, sent by a timer, reached the cluster
  sock,       \* of each socket: new, up, down
  home,       \* node it is connected to
  accepted,   \* frontends that passed the check of the shellID
  remoteShellClients, frontendClients,
  crashes

vars == <<request, podSent, sock, home, accepted, remoteShellClients, frontendClients, crashes>>
relay == <<sock, accepted, remoteShellClients, frontendClients>>

TypeOK ==
  /\ request \in {"idle", "rbac", "answered", "failed"}
  /\ podSent \in BOOLEAN
  /\ sock \in [Sockets -> {"new", "up", "down"}]
  /\ home \in [Sockets -> Nodes]
  /\ accepted \subseteq Fronts
  /\ remoteShellClients \in [Nodes -> Shells \cup {None}]
  /\ frontendClients \in [Nodes -> Fronts \cup {None}]
  /\ crashes \in 0..MaxCrashes

Init ==
  /\ request = "idle" /\ podSent = FALSE
  /\ sock = [x \in Sockets |-> "new"]
  /\ home \in [Sockets -> Nodes]
  /\ accepted = {}
  /\ remoteShellClients = [n \in Nodes |-> None]
  /\ frontendClients = [n \in Nodes |-> None]
  /\ crashes = 0

----
(* POST /shell: the timer for the pod is set and the RBAC request sent;    *)
(* its answer returns the shellID, its failure nothing.  A user without    *)
(* permissions leaves no trace.                                            *)
RequestShell ==
  /\ request = "idle" /\ request' = "rbac"
  /\ UNCHANGED <<podSent, relay, home, crashes>>

RbacEnds ==
  /\ request = "rbac" /\ request' \in {"answered", "failed"}
  /\ UNCHANGED <<podSent, relay, home, crashes>>

(* The timer fires whatever has become of the first request.               *)
PodSent ==
  /\ request # "idle" /\ ~podSent /\ podSent' = TRUE
  /\ UNCHANGED <<request, relay, home, crashes>>

----
(* Mutant: the shell is stored as the frontend.                            *)
ShellStoredAsFrontend(s) ==
  /\ podSent /\ sock[s] = "new"
  /\ sock' = [sock EXCEPT ![s] = "up"]
  /\ frontendClients' = [frontendClients EXCEPT ![home[s]] = s]
  /\ UNCHANGED <<request, podSent, home, accepted, remoteShellClients, crashes>>

(* A shell connects.  The pod's own client connects once and exits when it *)
(* is disconnected; the server takes every connection with the shellID.    *)
ShellConnects(s) ==
  /\ podSent /\ sock[s] = "new"
  /\ sock' = [sock EXCEPT ![s] = "up"]
  /\ remoteShellClients' = [remoteShellClients EXCEPT ![home[s]] = s]
  /\ UNCHANGED <<request, podSent, home, accepted, frontendClients, crashes>>

(* Mutant: the frontend of a shell that is gone stays connected.           *)
ShellLeavesFrontend(s) ==
  /\ sock[s] = "up"
  /\ sock' = [sock EXCEPT ![s] = "down"]
  /\ remoteShellClients' = [remoteShellClients EXCEPT ![home[s]] = None]
  /\ UNCHANGED <<request, podSent, home, accepted, frontendClients, crashes>>

(* Mutant: the entry of a shell that is gone stays.                        *)
ShellKeepsEntry(s) ==
  /\ sock[s] = "up"
  /\ LET f == frontendClients[home[s]]
     IN /\ sock' = [x \in Sockets |-> IF x \in {s, f} THEN "down" ELSE sock[x]]
        /\ frontendClients' = [frontendClients EXCEPT ![home[s]] = None]
  /\ UNCHANGED <<request, podSent, home, accepted, remoteShellClients, crashes>>

(* A shell disconnects.  Disconnecting the frontend runs its own handler.  *)
ShellDisconnects(s) ==
  /\ sock[s] = "up"
  /\ LET f == frontendClients[home[s]]
     IN /\ sock' = [x \in Sockets |-> IF x \in {s, f} THEN "down" ELSE sock[x]]
        /\ frontendClients' = [frontendClients EXCEPT ![home[s]] = None]
  /\ remoteShellClients' = [remoteShellClients EXCEPT ![home[s]] = None]
  /\ UNCHANGED <<request, podSent, home, accepted, crashes>>

----
(* A frontend that has been given the shellID connects.                    *)
FrontendConnects(f) ==
  /\ request = "answered" /\ sock[f] = "new"
  /\ remoteShellClients[home[f]] # None
  /\ sock' = [sock EXCEPT ![f] = "up"]
  /\ accepted' = accepted \cup {f}
  /\ frontendClients' = [frontendClients EXCEPT ![home[f]] = f]
  /\ UNCHANGED <<request, podSent, home, remoteShellClients, crashes>>

(* There is no shell on this server: the frontend is told so, and the      *)
(* handler returns without handlers installed.                             *)
FrontendRefused(f) ==
  /\ request = "answered" /\ sock[f] = "new"
  /\ remoteShellClients[home[f]] = None
  /\ sock' = [sock EXCEPT ![f] = "up"]
  /\ UNCHANGED <<request, podSent, home, accepted, remoteShellClients, frontendClients, crashes>>

(* Mutant: refused frontends have the disconnect handler too.              *)
EveryFrontendDeletes(f) ==
  /\ sock[f] = "up"
  /\ sock' = [sock EXCEPT ![f] = "down"]
  /\ frontendClients' = [frontendClients EXCEPT ![home[f]] = None]
  /\ UNCHANGED <<request, podSent, home, accepted, remoteShellClients, crashes>>

FrontendDisconnects(f) ==
  /\ sock[f] = "up"
  /\ sock' = [sock EXCEPT ![f] = "down"]
  /\ frontendClients' = IF f \in accepted THEN [frontendClients EXCEPT ![home[f]] = None]
                                          ELSE frontendClients
  /\ UNCHANGED <<request, podSent, home, accepted, remoteShellClients, crashes>>

----
(* A process dies; the timer of the pod may die with it.                   *)
Crash(n) ==
  /\ crashes < MaxCrashes /\ crashes' = crashes + 1
  /\ request' \in {request, IF request = "rbac" THEN "failed" ELSE request}
  /\ sock' = [x \in Sockets |-> IF home[x] = n /\ sock[x] = "up" THEN "down" ELSE sock[x]]
  /\ remoteShellClients' = [remoteShellClients EXCEPT ![n] = None]
  /\ frontendClients' = [frontendClients EXCEPT ![n] = None]
  /\ UNCHANGED <<podSent, home, accepted>>

Next ==
  \/ RequestShell \/ RbacEnds \/ PodSent
  \/ \E s \in Shells : ShellConnects(s) \/ ShellDisconnects(s)
  \/ \E f \in Fronts : FrontendConnects(f) \/ FrontendRefused(f) \/ FrontendDisconnects(f)
  \/ \E n \in Nodes : Crash(n)

Spec == Init /\ [][Next]_vars

----
(* Properties *)

(* The forwarding handlers never write to a socket that is gone: an entry  *)
(* names a live socket of this process, however many connections with the  *)
(* same shellID have come and gone.                                        *)
EntriesAreLive ==
  \A n \in Nodes : \A x \in {remoteShellClients[n], frontendClients[n]} \ {None} :
    sock[x] = "up" /\ home[x] = n

(* A live shell or an accepted frontend loses its entry only to a rival    *)
(* with the same shellID on the same process: never to a frontend that was *)
(* refused, nor to the loss of a socket elsewhere.                         *)
OnlyRivalsUnseat ==
  /\ \A s \in Shells : sock[s] = "up" /\ remoteShellClients[home[s]] # s
       => \E t \in Shells \ {s} : sock[t] # "new" /\ home[t] = home[s]
  /\ \A f \in accepted : sock[f] = "up" /\ frontendClients[home[f]] # f
       => \E g \in accepted \ {f} : home[g] = home[f]

(* A terminal does not outlive its shell: where no shell is connected, an  *)
(* accepted frontend is still up only if a rival took its entry.           *)
TerminalClosesWithShell ==
  \A f \in accepted :
    sock[f] = "up" /\ (\A s \in Shells : home[s] = home[f] => sock[s] # "up")
      => \E g \in accepted \ {f} : home[g] = home[f]

(* The comment at socketService.ts:158: a frontend whose shellID is not    *)
(* available is disconnected.                                              *)
RefusedIsDisconnected ==
  \A f \in Fronts : sock[f] = "up" => f \in accepted
====
