---- MODULE ShellRelay_proofs ----
(***************************************************************************)
(* Proofs about ShellRelay: its type invariant, that the maps name live    *)
(* sockets, who can unseat an entry, and that a terminal does not outlive  *)
(* its shell.                                                              *)
(***************************************************************************)
EXTENDS ShellRelay, TLAPS

(* A frontend that passed the check of the shellID has connected, and an   *)
(* entry for a frontend is of one that passed: the socket that holds one   *)
(* has the handler that deletes it.                                        *)
EntriesAreAccepted ==
  /\ \A f \in accepted : sock[f] # "new"
  /\ \A n \in Nodes : frontendClients[n] \in accepted \cup {None}

(* The four statements are inductive together only: a frontend connects    *)
(* where a shell has an entry, which is live (EntriesAreLive), so it does  *)
(* not start without a shell; and the shell's disconnection closes the     *)
(* frontend with the entry, which is all of them but those whose entry a   *)
(* rival has taken (OnlyRivalsUnseat).                                     *)
Inv ==
  /\ TypeOK
  /\ EntriesAreLive /\ EntriesAreAccepted
  /\ OnlyRivalsUnseat
  /\ TerminalClosesWithShell

(* The steps of the controller touch none of the sockets.                  *)
LEMMA RequestKeepsInv ==
  ASSUME Inv, RequestShell \/ RbacEnds \/ PodSent
  PROVE  Inv'
<1>1. TypeOK'
  BY DEF Inv, TypeOK, RequestShell, RbacEnds, PodSent, relay
<1>2. UNCHANGED <<relay, home>>
  BY DEF RequestShell, RbacEnds, PodSent
<1> QED
  BY <1>1, <1>2 DEF Inv, relay, EntriesAreLive, EntriesAreAccepted, OnlyRivalsUnseat,
                    TerminalClosesWithShell

(* A shell that connects takes the entry of its node, as the rival of any  *)
(* other there.                                                            *)
LEMMA ShellConnectsKeepsInv ==
  ASSUME Inv, NEW s \in Shells, ShellConnects(s)
  PROVE  Inv'
<1> USE NoneAssumption, NamespacesAssumption DEF Inv, TypeOK, Sockets, ShellConnects
<1>1. TypeOK'
  OBVIOUS
<1>2. EntriesAreLive' /\ EntriesAreAccepted'
  BY DEF EntriesAreLive, EntriesAreAccepted
<1>3. OnlyRivalsUnseat'
  <2>1. ASSUME NEW t \in Shells, sock'[t] = "up", remoteShellClients'[home[t]] # t
        PROVE  \E u \in Shells \ {t} : sock'[u] # "new" /\ home[u] = home[t]
    <3>1. CASE home[t] = home[s]
      BY <2>1, <3>1
    <3>2. CASE home[t] # home[s]
      BY <2>1, <3>2 DEF OnlyRivalsUnseat
    <3> QED
      BY <3>1, <3>2
  <2>2. ASSUME NEW f \in accepted, sock'[f] = "up", frontendClients[home[f]] # f
        PROVE  \E g \in accepted \ {f} : home[g] = home[f]
    BY <2>2 DEF OnlyRivalsUnseat
  <2> QED
    BY <2>1, <2>2 DEF OnlyRivalsUnseat
<1>4. TerminalClosesWithShell'
  BY DEF TerminalClosesWithShell
<1> QED
  BY <1>1, <1>2, <1>3, <1>4

(* A shell that disconnects closes the frontend that has the entry beside  *)
(* its own; one without it has a rival.                                    *)
LEMMA ShellDisconnectsKeepsInv ==
  ASSUME Inv, NEW s \in Shells, ShellDisconnects(s)
  PROVE  Inv'
<1> USE NoneAssumption, NamespacesAssumption DEF Inv, TypeOK, Sockets
<1> DEFINE f == frontendClients[home[s]]
<1>1. /\ sock[s] = "up"
      /\ sock' = [x \in Sockets |-> IF x \in {s, f} THEN "down" ELSE sock[x]]
      /\ frontendClients' = [frontendClients EXCEPT ![home[s]] = None]
      /\ remoteShellClients' = [remoteShellClients EXCEPT ![home[s]] = None]
      /\ UNCHANGED <<request, podSent, home, accepted, crashes>>
  BY DEF ShellDisconnects
<1>2. home[s] \in Nodes /\ (f # None => f \in Sockets /\ home[f] = home[s])
  BY DEF EntriesAreLive
<1>3. TypeOK'
  BY <1>1
<1>4. EntriesAreLive' /\ EntriesAreAccepted'
  BY <1>1, <1>2 DEF EntriesAreLive, EntriesAreAccepted
<1>5. OnlyRivalsUnseat'
  <2>1. ASSUME NEW t \in Shells, sock'[t] = "up", remoteShellClients'[home[t]] # t
        PROVE  \E u \in Shells \ {t} : sock'[u] # "new" /\ home[u] = home[t]
    <3>1. CASE home[t] = home[s]
      BY <1>1, <2>1, <3>1
    <3>2. CASE home[t] # home[s]
      BY <1>1, <2>1, <3>2 DEF OnlyRivalsUnseat
    <3> QED
      BY <3>1, <3>2
  <2>2. ASSUME NEW g \in accepted, sock'[g] = "up", frontendClients'[home[g]] # g
        PROVE  \E h \in accepted \ {g} : home[h] = home[g]
    BY <1>1, <2>2 DEF OnlyRivalsUnseat
  <2> QED
    BY <1>1, <2>1, <2>2 DEF OnlyRivalsUnseat
<1>6. TerminalClosesWithShell'
  <2>1. ASSUME NEW g \in accepted, sock'[g] = "up",
               \A t \in Shells : home[t] = home[g] => sock'[t] # "up"
        PROVE  \E h \in accepted \ {g} : home[h] = home[g]
    <3>1. CASE home[g] = home[s]
      BY <1>1, <2>1, <3>1 DEF OnlyRivalsUnseat
    <3>2. CASE home[g] # home[s]
      BY <1>1, <1>2, <2>1, <3>2 DEF TerminalClosesWithShell
    <3> QED
      BY <3>1, <3>2
  <2> QED
    BY <1>1, <2>1 DEF TerminalClosesWithShell
<1> QED
  BY <1>3, <1>4, <1>5, <1>6

(* A frontend is accepted beside a shell's entry, hence beside a live      *)
(* shell; the others of its node have a rival in it.                       *)
LEMMA FrontendConnectsKeepsInv ==
  ASSUME Inv, NEW f \in Fronts, FrontendConnects(f)
  PROVE  Inv'
<1> USE NoneAssumption, NamespacesAssumption DEF Inv, TypeOK, Sockets, FrontendConnects
<1>1. TypeOK'
  OBVIOUS
<1>2. EntriesAreLive' /\ EntriesAreAccepted'
  BY DEF EntriesAreLive, EntriesAreAccepted
<1>3. PICK s \in Shells : sock[s] = "up" /\ home[s] = home[f]
  BY DEF EntriesAreLive
<1>4. OnlyRivalsUnseat'
  <2>1. ASSUME NEW t \in Shells, sock'[t] = "up", remoteShellClients[home[t]] # t
        PROVE  \E u \in Shells \ {t} : sock'[u] # "new" /\ home[u] = home[t]
    BY <2>1 DEF OnlyRivalsUnseat
  <2>2. ASSUME NEW g \in accepted', sock'[g] = "up", frontendClients'[home[g]] # g
        PROVE  \E h \in accepted' \ {g} : home[h] = home[g]
    <3>1. CASE home[g] = home[f]
      BY <2>2, <3>1
    <3>2. CASE home[g] # home[f]
      BY <2>2, <3>2 DEF OnlyRivalsUnseat
    <3> QED
      BY <3>1, <3>2
  <2> QED
    BY <2>1, <2>2 DEF OnlyRivalsUnseat
<1>5. TerminalClosesWithShell'
  <2>1. ASSUME NEW g \in accepted', sock'[g] = "up",
               \A t \in Shells : home[t] = home[g] => sock'[t] # "up"
        PROVE  \E h \in accepted' \ {g} : home[h] = home[g]
    <3>1. g # f
      BY <1>3, <2>1
    <3> QED
      BY <2>1, <3>1 DEF TerminalClosesWithShell
  <2> QED
    BY <2>1 DEF TerminalClosesWithShell
<1> QED
  BY <1>1, <1>2, <1>4, <1>5

(* A refused frontend leaves the maps alone, then and when it disconnects; *)
(* an accepted one deletes the entry of its node, whosever it is.          *)
LEMMA FrontendLeavesKeepsInv ==
  ASSUME Inv, NEW f \in Fronts, FrontendRefused(f) \/ FrontendDisconnects(f)
  PROVE  Inv'
<1> USE NoneAssumption, NamespacesAssumption DEF Inv, TypeOK, Sockets
<1>1. CASE FrontendRefused(f)
  <2> USE <1>1 DEF FrontendRefused
  <2>1. TypeOK'
    OBVIOUS
  <2>2. EntriesAreLive' /\ EntriesAreAccepted'
    BY DEF EntriesAreLive, EntriesAreAccepted
  <2>3. f \notin Shells /\ (\A x \in Sockets \ {f} : sock'[x] = sock[x])
    OBVIOUS
  <2>4. f \notin accepted
    BY DEF EntriesAreAccepted
  <2> QED
    BY <2>1, <2>2, <2>3, <2>4 DEF OnlyRivalsUnseat, TerminalClosesWithShell
<1>2. CASE FrontendDisconnects(f)
  <2> USE <1>2 DEF FrontendDisconnects
  <2>1. TypeOK'
    OBVIOUS
  <2>2. EntriesAreLive' /\ EntriesAreAccepted'
    BY DEF EntriesAreLive, EntriesAreAccepted
  <2>3. OnlyRivalsUnseat'
    BY DEF OnlyRivalsUnseat
  <2>4. TerminalClosesWithShell'
    BY DEF TerminalClosesWithShell
  <2> QED
    BY <2>1, <2>2, <2>3, <2>4
<1> QED
  BY <1>1, <1>2

(* A crash takes both entries and all sockets of its process.              *)
LEMMA CrashKeepsInv ==
  ASSUME Inv, NEW n \in Nodes, Crash(n)
  PROVE  Inv'
<1> USE NoneAssumption, NamespacesAssumption DEF Inv, TypeOK, Sockets
<1>1. TypeOK'
  BY CrashBoundAssumption DEF Crash
<1>2. EntriesAreLive' /\ EntriesAreAccepted'
  BY DEF Crash, EntriesAreLive, EntriesAreAccepted
<1>3. /\ \A x \in Sockets : IF home[x] = n THEN sock'[x] # "up" ELSE sock'[x] = sock[x]
      /\ \A x \in Sockets : sock[x] # "new" => sock'[x] # "new"
      /\ \A m \in Nodes \ {n} : /\ remoteShellClients'[m] = remoteShellClients[m]
                                /\ frontendClients'[m] = frontendClients[m]
      /\ UNCHANGED <<home, accepted>>
  BY DEF Crash
<1>4. OnlyRivalsUnseat'
  BY <1>3 DEF OnlyRivalsUnseat
<1>5. TerminalClosesWithShell'
  BY <1>3 DEF TerminalClosesWithShell
<1> QED
  BY <1>1, <1>2, <1>4, <1>5

(* The maps and the sockets agree for any number of processes, shells and  *)
(* frontends with the shellID.                                             *)
THEOREM RelayInvariant == Spec => []Inv
<1>1. Init => Inv
  <2> SUFFICES ASSUME Init
               PROVE  Inv
    OBVIOUS
  <2>1. TypeOK
    <3>1. crashes \in 0..MaxCrashes
      BY CrashBoundAssumption DEF Init
    <3>2. sock \in [Sockets -> {"new", "up", "down"}]
      BY DEF Init
    <3> QED
      BY <3>1, <3>2 DEF Init, TypeOK
  <2>2. EntriesAreLive /\ EntriesAreAccepted
    BY DEF Init, EntriesAreLive, EntriesAreAccepted
  <2>3. OnlyRivalsUnseat /\ TerminalClosesWithShell
    BY DEF Init, OnlyRivalsUnseat, TerminalClosesWithShell, Sockets
  <2> QED
    BY <2>1, <2>2, <2>3 DEF Inv
<1>2. Inv /\ [Next]_vars => Inv'
  <2> SUFFICES ASSUME Inv, [Next]_vars
               PROVE  Inv'
    OBVIOUS
  <2>1. CASE Next
    BY <2>1, RequestKeepsInv, ShellConnectsKeepsInv, ShellDisconnectsKeepsInv,
       FrontendConnectsKeepsInv, FrontendLeavesKeepsInv, CrashKeepsInv DEF Next
  <2>2. CASE UNCHANGED vars
    BY <2>2 DEF vars, Inv, TypeOK, EntriesAreLive, EntriesAreAccepted, OnlyRivalsUnseat,
                TerminalClosesWithShell
  <2> QED
    BY <2>1, <2>2
<1> QED
  BY <1>1, <1>2, PTL DEF Spec

(* The maps, the sockets and the request of the controller keep types.     *)
THEOREM RelayTypeCorrect == Spec => []TypeOK
<1>1. Inv => TypeOK
  BY DEF Inv
<1> QED
  BY <1>1, RelayInvariant, PTL

(* What the forwarding handlers find in remoteShellClients and             *)
(* frontendClients is a live socket of their own process.                  *)
THEOREM RelayEntriesAreLive == Spec => []EntriesAreLive
<1>1. Inv => EntriesAreLive
  BY DEF Inv
<1> QED
  BY <1>1, RelayInvariant, PTL

(* The delete in a disconnect handler, which does not look whose entry it  *)
(* deletes, robs only those that have met a rival on their process.        *)
THEOREM RelayOnlyRivalsUnseat == Spec => []OnlyRivalsUnseat
<1>1. Inv => OnlyRivalsUnseat
  BY DEF Inv
<1> QED
  BY <1>1, RelayInvariant, PTL

(* The shell's disconnect handler closes the terminal: an accepted one is  *)
(* up without a shell only if a rival had taken its entry.                 *)
THEOREM RelayTerminalCloses == Spec => []TerminalClosesWithShell
<1>1. Inv => TerminalClosesWithShell
  BY DEF Inv
<1> QED
  BY <1>1, RelayInvariant, PTL
====
