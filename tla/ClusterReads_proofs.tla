---- MODULE ClusterReads_proofs ----
(***************************************************************************)
(* Proofs about ClusterReads: whatever the cluster does between the        *)
(* commands of a read, what each of them printed is what some state of the *)
(* cluster during the read has, and from that follow what an answer can    *)
(* show and when the join can throw.                                       *)
(***************************************************************************)
EXTENDS ClusterReads, FiniteSetTheorems, WellFoundedInduction, TLAPS

(* A non-empty finite set of numbers has a greatest one.  If there were    *)
(* sets without, take one of which no proper part is one too, and put an   *)
(* element aside.                                                          *)
LEMMA GreatestExists ==
  ASSUME NEW S, S \subseteq Nat, IsFiniteSet(S), S # {}
  PROVE  \E m \in S : \A n \in S : n <= m
<1> DEFINE Bad == {T \in SUBSET S : T # {} /\ ~\E m \in T : \A n \in T : n <= m}
<1> SUFFICES ASSUME Bad # {}
             PROVE  FALSE
  OBVIOUS
<1>1. IsWellFoundedOn(StrictSubsetOrdering(S), SUBSET S)
  BY FS_StrictSubsetOrderingWellFounded, FS_FiniteSubsetsOfFinite
<1>2. Bad \subseteq SUBSET S
  OBVIOUS
<1>3. PICK T \in Bad : \A U \in Bad : <<U, T>> \notin StrictSubsetOrdering(S)
  <2> HIDE DEF Bad
  <2> QED
    BY <1>1, <1>2, WFMin
<1>4. PICK t \in T : TRUE
  OBVIOUS
<1>5. T \ {t} \notin Bad
  BY <1>3, <1>4 DEF StrictSubsetOrdering
<1>6. CASE T = {t}
  BY <1>3, <1>4, <1>6
<1>7. CASE T # {t}
  <2>1. PICK m \in T \ {t} : \A n \in T \ {t} : n <= m
    BY <1>4, <1>5, <1>7
  <2>2. m \in Nat /\ t \in Nat /\ T \subseteq Nat
    BY <1>4, <2>1
  <2>3. \A n \in T : n <= (IF t <= m THEN m ELSE t)
    BY <2>1, <2>2
  <2> QED
    BY <1>3, <1>4, <2>1, <2>3
<1> QED
  BY <1>6, <1>7

----
(* The last of some pods of one name is one of them.                       *)
LEMMA LastIsOne ==
  ASSUME NEW S, S \subseteq Pods, S # {}
  PROVE  LastOf(S) \in S
<1> DEFINE First == {n \in Spaces : \E q \in S : q[1] = n}
<1>1. IsFiniteSet(First) /\ First \subseteq Nat
  BY FS_Subset, SpacesAssumption
<1>2. First # {}
  BY DEF Pods
<1>3. PICK m \in First : \A n \in First : n <= m
  <2> HIDE DEF First
  <2> QED
    BY <1>1, <1>2, GreatestExists
<1>4. PICK q \in S : q[1] = m
  BY <1>3
<1>5. \A r \in S : r[1] <= q[1]
  BY <1>3, <1>4 DEF Pods
<1> QED
  BY <1>4, <1>5 DEF LastOf

LEMMA LastOfOne ==
  ASSUME NEW p \in Pods
  PROVE  LastOf({p}) = p
<1>1. {p} \subseteq Pods /\ {p} # {}
  OBVIOUS
<1> QED
  BY <1>1, LastIsOne

LEMMA CommandsOfKind ==
  /\ Commands["pods"] = {"list", "top", "generic"}
  /\ Commands["namespaces"] = {"list", "top", "generic", "spaces"}
  /\ Commands["nodes"] = {"nodes", "topNodes"}
  /\ Commands["unhealthy"] = {"piped"}
  /\ AllCommands = {"list", "top", "generic", "spaces", "nodes", "topNodes", "piped"}
  /\ \A k \in Kinds : Commands[k] \subseteq AllCommands
BY DEF Commands, PodCommands, AllCommands, Kinds

----
(* What a command that succeeded has printed is what a state of the        *)
(* cluster since the request has; the others leave nothing.                *)
SnapshotsAreSeen ==
  \A x \in AllCommands :
    \/ outcome[x] = "good" /\ \E c \in seen : snap[x] = Printed(x, c)
    \/ outcome[x] # "good" /\ snap[x] = {}

(* A request sees the cluster from its start to its end, and the join      *)
(* waits for all of its commands.                                          *)
ReadInOrder ==
  /\ kind = "none" => seen = {} /\ end = "none" /\ \A x \in AllCommands : outcome[x] = "none"
  /\ kind # "none" => cluster \in seen
  /\ \A c \in seen : Placed(c)
  /\ kind = "namespaces" => scope = Spaces
  /\ end = "none" => rows = {}
  /\ end # "none" => \A x \in Commands[kind] : outcome[x] # "none"

Inv == TypeOK /\ SnapshotsAreSeen /\ ReadInOrder

(* A pod that is listed with its STATUS is there, and has it.              *)
LEMMA StatusIsShort ==
  \A t : Status(t) \in {"well", "ill"} /\ Phase(t) \in {"well", "ill"}
BY DEF Status, Phase

LEMMA LineIsSeen ==
  ASSUME NEW c, NEW l \in Statuses(c)
  PROVE  /\ l[1] \in Listed(c) /\ l[2] = Status(c.pods[l[1]])
         /\ l = <<l[1], l[2]>> /\ l[2] \in {"well", "ill"}
BY StatusIsShort DEF Statuses

LEMMA SnapshotsOfPods ==
  ASSUME Inv
  PROVE  /\ outcome["list"] = "good" =>
              \E c \in seen : snap["list"] = {<<p, Phase(c.pods[p])>> : p \in Listed(c)}
         /\ outcome["generic"] = "good" => \E c \in seen : snap["generic"] = Statuses(c)
         /\ \A x \in {"list", "generic", "top"} : outcome[x] # "good" => snap[x] = {}
         /\ \A q \in snap["top"] : q \in Pods /\ q[1] \in scope /\ \E c \in seen : q \in c.figures
         /\ seen \subseteq Clusters /\ scope \subseteq Spaces
<1>1. seen \subseteq Clusters /\ scope \subseteq Spaces
  BY DEF Inv, TypeOK
<1>2. outcome["list"] = "good" =>
        \E c \in seen : snap["list"] = {<<p, Phase(c.pods[p])>> : p \in Listed(c)}
  BY CommandsOfKind DEF Inv, SnapshotsAreSeen, Printed
<1>3. outcome["generic"] = "good" => \E c \in seen : snap["generic"] = Statuses(c)
  BY CommandsOfKind DEF Inv, SnapshotsAreSeen, Printed
<1>4. \A x \in {"list", "generic", "top"} : outcome[x] # "good" => snap[x] = {}
  BY CommandsOfKind DEF Inv, SnapshotsAreSeen
<1>5. outcome["top"] = "good" =>
        \E c \in seen : snap["top"] = {p \in Pods : p[1] \in scope /\ p \in c.figures}
  BY CommandsOfKind DEF Inv, SnapshotsAreSeen, Printed
<1>6. \A q \in snap["top"] : q \in Pods /\ q[1] \in scope /\ \E c \in seen : q \in c.figures
  BY <1>4, <1>5
<1> QED
  BY <1>1, <1>2, <1>3, <1>4, <1>6

(* A line of the list is of a pod that was there, in that phase.           *)
LEMMA ListedIsSeen ==
  ASSUME Inv, NEW l \in snap["list"]
  PROVE  \E c \in seen : /\ l[1] \in Listed(c) /\ l[2] = Phase(c.pods[l[1]])
                         /\ snap["list"] = {<<p, Phase(c.pods[p])>> : p \in Listed(c)}
BY SnapshotsOfPods

(* The STATUS in a row, if it is not the phase, is one that the pod had,   *)
(* without a twin; and it is the phase only where the plain listing failed *)
(* or did not find the pod, or nothing is looked up in it.                 *)
LEMMA StatusOfRow ==
  ASSUME Inv, NEW l \in snap["list"]
  PROVE  /\ StatusShown(l) \in {"well", "ill"}
         /\ ~HasTwin(l[1]) =>
              \/ \E c \in seen : /\ c.pods[l[1]] # "absent"
                                 /\ StatusShown(l) = Status(c.pods[l[1]])
              \/ /\ StatusShown(l) = l[2]
                 /\ \/ scope # Spaces
                    \/ \E x \in PodCommands : outcome[x] # "good"
                    \/ \E d \in seen : d.pods[l[1]] = "absent"
<1> DEFINE p      == l[1]
           found  == IF StatusesByName THEN Namesakes({g[1] : g \in snap["generic"]}, p) ELSE {}
           status == CHOOSE t \in {"well", "ill"} : <<LastOf(found), t>> \in snap["generic"]
<1>1. StatusShown(l) = IF outcome["top"] = "good" /\ found # {} THEN status ELSE l[2]
  BY DEF StatusShown
<1>2. p \in Pods /\ p[1] \in scope /\ l[2] \in {"well", "ill"}
  BY ListedIsSeen, StatusIsShort DEF Listed
<1>3. ASSUME found # {}
      PROVE  /\ status \in {"well", "ill"}
             /\ ~HasTwin(p) => \E d \in seen : d.pods[p] # "absent" /\ status = Status(d.pods[p])
  <2>1. PICK d \in seen : snap["generic"] = Statuses(d)
    BY <1>3, SnapshotsOfPods DEF Namesakes
  <2>2. \A g \in snap["generic"] : /\ g[1] \in Listed(d) /\ g[2] = Status(d.pods[g[1]])
                                   /\ g = <<g[1], g[2]>> /\ g[2] \in {"well", "ill"}
    BY <2>1, LineIsSeen
  <2>3. found \subseteq Pods
    BY <2>2 DEF Namesakes, Listed
  <2>4. LastOf(found) \in found
    <3> HIDE DEF found
    <3> QED
      BY <1>3, <2>3, LastIsOne
  <2>5. PICK g \in snap["generic"] : g[1] = LastOf(found) /\ g[1][2] = p[2]
    BY <2>4 DEF Namesakes
  <2>6. <<LastOf(found), g[2]>> \in snap["generic"] /\ g[2] \in {"well", "ill"}
    BY <2>2, <2>5
  <2>7. status \in {"well", "ill"} /\ <<LastOf(found), status>> \in snap["generic"]
    <3> HIDE DEF found
    <3> QED
      BY <2>6
  <2>8. status = Status(d.pods[LastOf(found)]) /\ LastOf(found) \in Listed(d)
    <3>1. /\ <<LastOf(found), status>>[2] = Status(d.pods[<<LastOf(found), status>>[1]])
          /\ <<LastOf(found), status>>[1] \in Listed(d)
      BY <2>2, <2>7
    <3> QED
      BY <3>1
  <2>9. ASSUME ~HasTwin(p)
        PROVE  LastOf(found) = p
    BY <2>5, <2>8, <2>9 DEF HasTwin, Listed
  <2> QED
    BY <2>7, <2>8, <2>9 DEF Listed
<1>4. ASSUME found = {}, scope = Spaces, outcome["generic"] = "good"
      PROVE  \E d \in seen : d.pods[p] = "absent"
  <2>1. PICK d \in seen : snap["generic"] = Statuses(d)
    BY <1>4, SnapshotsOfPods
  <2>2. ASSUME p \in Listed(d)
        PROVE  FALSE
    <3>1. <<p, Status(d.pods[p])>> \in snap["generic"]
      BY <2>1, <2>2 DEF Statuses
    <3>2. p \in {g[1] : g \in snap["generic"]}
      BY <3>1
    <3> QED
      BY <1>4, <3>2 DEF StatusesByName, Namesakes
  <2> QED
    BY <1>2, <2>2 DEF Listed
<1> HIDE DEF found, status
<1> QED
  BY <1>1, <1>2, <1>3, <1>4 DEF PodCommands

LEMMA UsageOfRow ==
  ASSUME Inv, NEW l \in snap["list"]
  PROVE  /\ UsageShown(l) \subseteq Pods /\ Cardinality(UsageShown(l)) <= 1
         /\ ~HasTwin(l[1]) => UsageShown(l) \subseteq {l[1]}
<1> DEFINE p       == l[1]
           figures == IF FiguresByName THEN Namesakes(snap["top"], p) ELSE {}
<1>1. UsageShown(l) = IF figures = {} THEN {} ELSE {LastOf(figures)}
  BY DEF UsageShown
<1>2. ASSUME figures # {}
      PROVE  LastOf(figures) \in Pods /\ (~HasTwin(p) => LastOf(figures) = p)
  <2>1. figures \subseteq Pods
    BY SnapshotsOfPods DEF Namesakes
  <2>2. LastOf(figures) \in figures
    <3> HIDE DEF figures
    <3> QED
      BY <1>2, <2>1, LastIsOne
  <2>3. \A q \in figures : q \in Pods /\ q[1] \in scope /\ q[2] = p[2] /\ \E d \in seen : q \in d.figures
    BY SnapshotsOfPods DEF Namesakes
  <2>4. ASSUME ~HasTwin(p)
        PROVE  \A q \in figures : q = p
    BY <2>3, <2>4 DEF HasTwin
  <2> HIDE DEF figures
  <2> QED
    BY <2>2, <2>3, <2>4
<1> HIDE DEF figures
<1>3. UsageShown(l) \subseteq Pods /\ (~HasTwin(p) => UsageShown(l) \subseteq {p})
  BY <1>1, <1>2
<1>4. Cardinality(UsageShown(l)) <= 1
  <2>1. UsageShown(l) = {} \/ UsageShown(l) = {LastOf(figures)}
    BY <1>1
  <2>2. Cardinality(UsageShown(l)) = 0 \/ Cardinality(UsageShown(l)) = 1
    BY <2>1, FS_EmptySet, FS_Singleton
  <2> QED
    BY <2>2
<1> QED
  BY <1>3, <1>4

----
(* What a command would print depends on the cluster and the scope alone.  *)
LEMMA PrintedStays ==
  ASSUME scope' = scope
  PROVE  \A x, c : Printed(x, c)' = Printed(x, c)
BY DEF Printed, Listed, Statuses

LEMMA InitHasInv == Init => Inv
<1> SUFFICES ASSUME Init
             PROVE  Inv
  OBVIOUS
<1>1. TypeOK
  BY DEF Init, TypeOK
<1>2. SnapshotsAreSeen
  BY DEF Init, SnapshotsAreSeen
<1>3. ReadInOrder
  BY DEF Init, ReadInOrder
<1> QED
  BY <1>1, <1>2, <1>3 DEF Inv

LEMMA StartKeepsInv ==
  ASSUME Inv, NEW k \in Kinds, Start(k)
  PROVE  Inv'
<1>1. /\ kind = "none" /\ kind' = k /\ seen' = {cluster} /\ scope' \subseteq Spaces
      /\ cluster' = cluster /\ outcome' = outcome /\ snap' = snap /\ end' = end /\ rows' = rows
      /\ kind' = "namespaces" => scope' = Spaces
  <2>1. scope' \in {Spaces} \cup {{s} : s \in Spaces}
    BY DEF Start
  <2> QED
    BY <2>1 DEF Start
<1>2. end = "none" /\ (\A x \in AllCommands : outcome[x] = "none") /\ k # "none"
  BY <1>1 DEF Inv, ReadInOrder, Kinds
<1>3. TypeOK'
  BY <1>1 DEF Inv, TypeOK
<1>4. SnapshotsAreSeen'
  BY <1>1, <1>2 DEF Inv, SnapshotsAreSeen
<1>5. ReadInOrder'
  BY <1>1, <1>2 DEF Inv, TypeOK, ReadInOrder
<1> QED
  BY <1>3, <1>4, <1>5 DEF Inv

LEMMA ClusterKeepsInv ==
  ASSUME Inv, ClusterChanges
  PROVE  Inv'
<1>1. /\ kind # "none" /\ end = "none" /\ Placed(cluster') /\ seen' = seen \cup {cluster'}
      /\ UNCHANGED <<kind, scope, outcome, snap, end, rows>>
  BY DEF ClusterChanges
<1>2. cluster' \in Clusters
  <2>1. cluster \in Clusters
    BY DEF Inv, TypeOK
  <2>2. CASE \E s \in Spaces :
          cluster' = [cluster EXCEPT !.spaces = IF s \in @ THEN @ \ {s} ELSE @ \cup {s}]
    BY <2>1, <2>2 DEF Clusters
  <2>3. CASE \E q \in Pods, t \in PodStates : cluster' = [cluster EXCEPT !.pods[q] = t]
    BY <2>1, <2>3 DEF Clusters
  <2>4. CASE \E n \in Nodes :
          cluster' = [cluster EXCEPT !.nodes = IF n \in @ THEN @ \ {n} ELSE @ \cup {n}]
    BY <2>1, <2>4 DEF Clusters
  <2>5. CASE cluster' = [cluster EXCEPT !.figures =
               {q \in Pods : cluster.pods[q] # "absent"} \cup cluster.nodes]
    BY <2>1, <2>5 DEF Clusters
  <2> QED
    BY <2>2, <2>3, <2>4, <2>5 DEF ClusterChanges
<1>3. TypeOK'
  BY <1>1, <1>2 DEF Inv, TypeOK
<1>4. SnapshotsAreSeen'
  BY <1>1, PrintedStays DEF Inv, SnapshotsAreSeen
<1>5. ReadInOrder'
  BY <1>1 DEF Inv, ReadInOrder
<1> QED
  BY <1>3, <1>4, <1>5 DEF Inv

LEMMA CommandsKeepInv ==
  ASSUME Inv, NEW x \in AllCommands, CommandSucceeds(x) \/ CommandFails(x)
  PROVE  Inv'
<1>1. /\ kind # "none" /\ x \in Commands[kind] /\ outcome[x] = "none"
      /\ UNCHANGED <<cluster, kind, scope, end, rows, seen>>
      /\ DOMAIN snap = AllCommands
      /\ outcome \in [AllCommands -> {"none", "good", "failed", "void"}]
  BY DEF CommandSucceeds, CommandFails, Waiting, Inv, TypeOK
<1>2. end = "none" /\ cluster \in seen
  BY <1>1 DEF Inv, ReadInOrder
<1>3. CASE CommandSucceeds(x)
  <2>1. /\ outcome' = [outcome EXCEPT ![x] = "good"]
        /\ snap' = [snap EXCEPT ![x] = Printed(x, cluster)]
    BY <1>3 DEF CommandSucceeds
  <2>2. TypeOK'
    BY <1>1, <2>1 DEF Inv, TypeOK
  <2>3. SnapshotsAreSeen'
    <3>1. outcome'[x] = "good" /\ snap'[x] = Printed(x, cluster)
      BY <1>1, <2>1
    <3>2. \A y \in AllCommands \ {x} : outcome'[y] = outcome[y] /\ snap'[y] = snap[y]
      BY <1>1, <2>1
    <3> QED
      BY <1>1, <1>2, <3>1, <3>2, PrintedStays DEF Inv, SnapshotsAreSeen
  <2>4. ReadInOrder'
    BY <1>1, <1>2 DEF Inv, ReadInOrder
  <2> QED
    BY <2>2, <2>3, <2>4 DEF Inv
<1>4. CASE CommandFails(x)
  <2>1. PICK o \in {"failed", "void"} : outcome' = [outcome EXCEPT ![x] = o] /\ snap' = snap
    BY <1>4 DEF CommandFails
  <2>2. TypeOK'
    BY <1>1, <2>1 DEF Inv, TypeOK
  <2>3. SnapshotsAreSeen'
    <3>1. outcome'[x] # "good" /\ snap'[x] = {}
      BY <1>1, <2>1 DEF Inv, SnapshotsAreSeen
    <3>2. \A y \in AllCommands \ {x} : outcome'[y] = outcome[y] /\ snap'[y] = snap[y]
      BY <1>1, <2>1
    <3> QED
      BY <1>1, <3>1, <3>2, PrintedStays DEF Inv, SnapshotsAreSeen
  <2>4. ReadInOrder'
    BY <1>1, <1>2 DEF Inv, ReadInOrder
  <2> QED
    BY <2>2, <2>3, <2>4 DEF Inv
<1> QED
  BY <1>3, <1>4

Answer == AnswerPods \/ AnswerNamespaces \/ AnswerNodes \/ AnswerUnhealthy

(* An answer is given once, from complete and unchanged snapshots.         *)
LEMMA AnswerIsLast ==
  ASSUME Inv, Answer
  PROVE  /\ end = "none" /\ end' # "none" /\ kind \in Kinds
         /\ \A x \in Commands[kind] : outcome[x] # "none"
         /\ UNCHANGED <<cluster, kind, scope, outcome, snap, seen>>
BY DEF Answer, AnswerPods, AnswerNamespaces, AnswerNodes, AnswerUnhealthy, Ready, Concluded, Kinds

LEMMA AnswersKeepInv ==
  ASSUME Inv, Answer
  PROVE  Inv'
<1>1. /\ kind \in Kinds /\ (\A x \in Commands[kind] : outcome[x] # "none") /\ end' # "none"
      /\ UNCHANGED <<cluster, kind, scope, outcome, snap, seen>>
  BY AnswerIsLast
<1>2. end' \in {"none", "answered", "refused", "threw"}
  BY DEF Answer, AnswerPods, AnswerNamespaces, AnswerNodes, AnswerUnhealthy
<1>3. \A r \in rows' : /\ r.of \in Pods \cup Nodes /\ r.status \in {"well", "ill"}
                       /\ r.usage \subseteq Pods \cup Nodes /\ Cardinality(r.usage) <= 1
  <2>1. ASSUME rows' \subseteq {PodRow(l) : l \in snap["list"]}, NEW r \in rows'
        PROVE  /\ r.of \in Pods \cup Nodes /\ r.status \in {"well", "ill"}
               /\ r.usage \subseteq Pods \cup Nodes /\ Cardinality(r.usage) <= 1
    <3>1. PICK l \in snap["list"] : r = PodRow(l)
      BY <2>1
    <3>2. l[1] \in Pods
      BY ListedIsSeen DEF Listed
    <3> QED
      BY <3>1, <3>2, StatusOfRow, UsageOfRow DEF PodRow
  <2>2. CASE AnswerPods \/ AnswerNamespaces
    <3>1. rows' \subseteq {PodRow(l) : l \in snap["list"]}
      BY <2>2 DEF AnswerPods, AnswerNamespaces
    <3> QED
      BY <2>1, <3>1
  <2>3. CASE AnswerNodes
    <3> SUFFICES ASSUME NEW n \in snap["nodes"],
                        NEW r, r = [of |-> n, status |-> "well", usage |-> {n} \cap snap["topNodes"]]
                 PROVE  /\ r.of \in Pods \cup Nodes /\ r.status \in {"well", "ill"}
                        /\ r.usage \subseteq Pods \cup Nodes /\ Cardinality(r.usage) <= 1
      BY <2>3 DEF AnswerNodes
    <3>1. n \in Nodes
      BY CommandsOfKind DEF Inv, TypeOK, SnapshotsAreSeen, Printed, Clusters
    <3>2. r.usage = {} \/ r.usage = {n}
      OBVIOUS
    <3>3. Cardinality(r.usage) = 0 \/ Cardinality(r.usage) = 1
      BY <3>2, FS_EmptySet, FS_Singleton
    <3> QED
      BY <3>1, <3>3
  <2>4. CASE AnswerUnhealthy
    <3> SUFFICES ASSUME NEW l \in snap["piped"],
                        NEW r, r = [of |-> l[1], status |-> "ill", usage |-> {}]
                 PROVE  /\ r.of \in Pods \cup Nodes /\ r.status \in {"well", "ill"}
                        /\ r.usage \subseteq Pods \cup Nodes /\ Cardinality(r.usage) <= 1
      BY <2>4 DEF AnswerUnhealthy
    <3>1. \E c \in seen : l \in Statuses(c)
      BY CommandsOfKind DEF Inv, SnapshotsAreSeen, Printed
    <3>2. l[1] \in Pods
      BY <3>1, LineIsSeen DEF Listed
    <3>3. Cardinality(r.usage) = 0
      BY FS_EmptySet
    <3> QED
      BY <3>2, <3>3
  <2> QED
    BY <2>2, <2>3, <2>4 DEF Answer
<1>4. TypeOK'
  BY <1>1, <1>2, <1>3 DEF Inv, TypeOK
<1>5. SnapshotsAreSeen'
  BY <1>1, PrintedStays DEF Inv, SnapshotsAreSeen
<1>6. ReadInOrder'
  BY <1>1 DEF Inv, ReadInOrder, Kinds
<1> QED
  BY <1>4, <1>5, <1>6 DEF Inv

LEMMA NextKeepsInv == Inv /\ [Next]_vars => Inv'
<1> SUFFICES ASSUME Inv, [Next]_vars
             PROVE  Inv'
  OBVIOUS
<1>1. ASSUME NEW k \in Kinds, Start(k)
      PROVE  Inv'
  BY <1>1, StartKeepsInv
<1>2. CASE ClusterChanges
  BY <1>2, ClusterKeepsInv
<1>3. ASSUME NEW x \in AllCommands, CommandSucceeds(x) \/ CommandFails(x)
      PROVE  Inv'
  BY <1>3, CommandsKeepInv
<1>4. CASE Answer
  BY <1>4, AnswersKeepInv
<1>5. CASE UNCHANGED vars
  <2>1. scope' = scope
    BY <1>5 DEF vars
  <2> QED
    BY <1>5, <2>1, PrintedStays DEF vars, Inv, TypeOK, SnapshotsAreSeen, ReadInOrder
<1> QED
  BY <1>1, <1>2, <1>3, <1>4, <1>5 DEF Next, Answer

----
(* Once the answer is given nothing happens any more, and before it there  *)
(* are no rows: what the properties say is decided by the join.            *)
LEMMA OthersDecideNothing ==
  ASSUME Inv, Next, ~Answer
  PROVE  end' = "none" /\ rows' = {}
<1>1. ASSUME NEW k \in Kinds, Start(k)
      PROVE  end = "none" /\ end' = end /\ rows' = rows
  BY <1>1 DEF Start, Inv, ReadInOrder
<1>2. ASSUME ClusterChanges
      PROVE  end = "none" /\ end' = end /\ rows' = rows
  BY <1>2 DEF ClusterChanges
<1>3. ASSUME NEW x \in AllCommands, CommandSucceeds(x) \/ CommandFails(x)
      PROVE  end = "none" /\ end' = end /\ rows' = rows
  BY <1>3 DEF CommandSucceeds, CommandFails, Waiting, Inv, ReadInOrder
<1> QED
  BY <1>1, <1>2, <1>3 DEF Next, Answer, Inv, ReadInOrder

LEMMA JoinThrowsForCause ==
  ASSUME Inv, Answer
  PROVE  ThrowHasCause'
<1> SUFFICES ASSUME end' = "threw", AllGood
             PROVE  \E c, d \in seen :
                      \/ kind = "namespaces" /\ ~(c.spaces \subseteq d.spaces)
                      \/ kind = "nodes" /\ ~(Nodes \cap c.figures \subseteq d.nodes)
  BY AnswerIsLast DEF ThrowHasCause, AllGood
<1>1. CASE AnswerNamespaces
  <2>1. /\ kind = "namespaces" /\ outcome["list"] = "good" /\ outcome["spaces"] = "good"
        /\ \E l \in snap["list"] : l[1][1] \notin snap["spaces"]
    BY <1>1, CommandsOfKind DEF AnswerNamespaces, Ready, AllGood
  <2>2. PICK l \in snap["list"] : l[1][1] \notin snap["spaces"]
    BY <2>1
  <2>3. PICK d \in seen : snap["spaces"] = d.spaces
    BY <2>1, CommandsOfKind DEF Inv, SnapshotsAreSeen, Printed
  <2>4. PICK c \in seen : l[1] \in Listed(c)
    BY ListedIsSeen
  <2>5. l[1][1] \in c.spaces
    BY <2>4 DEF Inv, ReadInOrder, Placed, Listed
  <2> QED
    BY <2>1, <2>2, <2>3, <2>5
<1>2. CASE AnswerNodes
  <2>1. /\ kind = "nodes" /\ outcome["nodes"] = "good" /\ outcome["topNodes"] = "good"
        /\ ~(snap["topNodes"] \subseteq snap["nodes"])
    BY <1>2, CommandsOfKind DEF AnswerNodes, Ready, AllGood
  <2>2. PICK c \in seen : snap["topNodes"] = Nodes \cap c.figures
    BY <2>1, CommandsOfKind DEF Inv, SnapshotsAreSeen, Printed
  <2>3. PICK d \in seen : snap["nodes"] = d.nodes
    BY <2>1, CommandsOfKind DEF Inv, SnapshotsAreSeen, Printed
  <2> QED
    BY <2>1, <2>2, <2>3
<1>3. ASSUME AnswerPods \/ AnswerUnhealthy
      PROVE  end' # "threw"
  BY <1>3 DEF AnswerPods, AnswerUnhealthy
<1> QED
  BY <1>1, <1>2, <1>3 DEF Answer

LEMMA JoinShowsOwn ==
  ASSUME Inv, Answer
  PROVE  RowIsOwn'
<1> SUFFICES ASSUME kind \in {"pods", "namespaces"}, NEW r \in rows', ~HasTwin(r.of)
             PROVE  /\ r.usage \subseteq {r.of}
                    /\ \E c \in seen :
                         /\ c.pods[r.of] # "absent"
                         /\ \/ r.status = Status(c.pods[r.of])
                            \/ /\ r.status = Phase(c.pods[r.of])
                               /\ \/ scope # Spaces
                                  \/ \E x \in PodCommands : outcome[x] # "good"
                                  \/ \E d \in seen : d.pods[r.of] = "absent"
  BY AnswerIsLast DEF RowIsOwn, HasTwin
<1>1. AnswerPods \/ AnswerNamespaces
  BY DEF Answer, AnswerNodes, AnswerUnhealthy, Ready
<1>2. PICK l \in snap["list"] : r = PodRow(l)
  BY <1>1 DEF AnswerPods, AnswerNamespaces
<1>3. r.of = l[1] /\ r.status = StatusShown(l) /\ r.usage = UsageShown(l)
  BY <1>2 DEF PodRow
<1>4. \E c \in seen : c.pods[r.of] # "absent" /\ l[2] = Phase(c.pods[r.of])
  BY <1>3, ListedIsSeen DEF Listed
<1> QED
  BY <1>3, <1>4, StatusOfRow, UsageOfRow

LEMMA FilterShowsIll ==
  ASSUME Inv, Answer
  PROVE  IllIsReported'
<1> SUFFICES ASSUME kind = "unhealthy", end' = "answered", outcome["piped"] # "void",
                    NEW p \in Pods, p[1] \in scope, 
                    \A c \in seen : c.pods[p] \in {"ill", "crashing"}
             PROVE  \E r \in rows' : r.of = p
  BY AnswerIsLast DEF IllIsReported
<1>1. AnswerUnhealthy
  BY DEF Answer, AnswerPods, AnswerNamespaces, AnswerNodes, Ready
<1>2. outcome["piped"] = "good"
  <2>1. outcome["piped"] \in {"none", "good", "failed", "void"} /\ outcome["piped"] # "none"
    BY AnswerIsLast, CommandsOfKind DEF Inv, TypeOK
  <2> QED
    BY <1>1, <2>1 DEF AnswerUnhealthy
<1>3. PICK c \in seen : snap["piped"] = {l \in Statuses(c) : l[2] = "ill"}
  BY <1>2, CommandsOfKind DEF Inv, SnapshotsAreSeen, Printed
<1>4. <<p, "ill">> \in Statuses(c)
  <2>1. p \in Listed(c) /\ Status(c.pods[p]) = "ill"
    BY DEF Listed, Status
  <2> QED
    BY <2>1 DEF Statuses
<1>5. <<p, "ill">> \in snap["piped"]
  BY <1>3, <1>4
<1>6. rows' = {[of |-> l[1], status |-> "ill", usage |-> {}] : l \in snap["piped"]}
  BY <1>1 DEF AnswerUnhealthy
<1>7. PICK l \in snap["piped"] : l[1] = p
  BY <1>5
<1>8. [of |-> l[1], status |-> "ill", usage |-> {}] \in rows'
  BY <1>6
<1> QED
  BY <1>7, <1>8

(* What the cluster shows of a pod when nothing changes and nothing fails. *)
Exact(p) ==
  [of |-> p,
   status |-> IF kind = "pods" /\ scope # Spaces THEN Phase(cluster.pods[p]) ELSE Status(cluster.pods[p]),
   usage |-> IF FiguresByName THEN {p} \cap cluster.figures ELSE {}]

(* Without a twin, and with all three listings of one state of the         *)
(* cluster, a row is the pod with what is shown of it.                     *)
LEMMA RowIsExact ==
  ASSUME Inv, \A x \in PodCommands : outcome[x] = "good", seen = {cluster},
         kind \in {"pods", "namespaces"}, kind = "namespaces" => scope = Spaces,
         NEW p \in Listed(cluster), ~HasTwin(p)
  PROVE  PodRow(<<p, Phase(cluster.pods[p])>>) = Exact(p)
<1> DEFINE l       == <<p, Phase(cluster.pods[p])>>
           figures == IF FiguresByName THEN Namesakes(snap["top"], p) ELSE {}
<1>1. /\ snap["list"] = {<<q, Phase(cluster.pods[q])>> : q \in Listed(cluster)}
      /\ snap["top"] = {q \in Pods : q[1] \in scope /\ q \in cluster.figures}
  BY CommandsOfKind DEF Inv, SnapshotsAreSeen, Printed, PodCommands
<1>2. p \in Pods /\ p[1] \in scope /\ l \in snap["list"] /\ cluster.pods[p] # "absent"
  BY <1>1 DEF Listed
<1>3. StatusShown(l) = IF scope # Spaces THEN Phase(cluster.pods[p]) ELSE Status(cluster.pods[p])
  <2>1. CASE scope = Spaces
    BY <1>2, <2>1, StatusOfRow
  <2>2. CASE scope # Spaces
    BY <2>2 DEF StatusShown, StatusesByName
  <2> QED
    BY <2>1, <2>2
<1>4. UsageShown(l) \subseteq {p}
  BY <1>2, UsageOfRow
<1>5. figures # {} <=> FiguresByName /\ p \in cluster.figures
  <2>1. ASSUME NEW q \in figures
        PROVE  q = p /\ q \in cluster.figures
    BY <1>1, <1>2 DEF Namesakes, HasTwin
  <2>2. ASSUME FiguresByName, p \in cluster.figures
        PROVE  p \in figures
    BY <1>1, <1>2, <2>2 DEF Namesakes
  <2>3. figures # {} => FiguresByName
    OBVIOUS
  <2> HIDE DEF figures
  <2> QED
    BY <2>1, <2>2, <2>3
<1>6. UsageShown(l) = IF figures = {} THEN {} ELSE {LastOf(figures)}
  BY DEF UsageShown
<1> HIDE DEF figures
<1>7. UsageShown(l) = IF FiguresByName THEN {p} \cap cluster.figures ELSE {}
  BY <1>4, <1>5, <1>6
<1> QED
  BY <1>3, <1>7 DEF PodRow, Exact

LEMMA JoinIsExact ==
  ASSUME Inv, Answer
  PROVE  StillIsExact'
<1> DEFINE ofNodes == {[of |-> n, status |-> "well", usage |-> {n} \cap cluster.figures] : n \in cluster.nodes}
           listed  == {q \in Listed(cluster) : kind = "unhealthy" => Status(cluster.pods[q]) = "ill"}
<1> SUFFICES ASSUME end' = "answered", AllGood, seen = {cluster}, \A p \in Listed(cluster) : ~HasTwin(p)
             PROVE  rows' = IF kind = "nodes" THEN ofNodes ELSE {Exact(p) : p \in listed}
  BY AnswerIsLast DEF StillIsExact, AllGood, HasTwin, Listed, FiguresByName, Exact
<1>1. CASE AnswerPods \/ AnswerNamespaces
  <2>1. /\ kind \in {"pods", "namespaces"} /\ rows' = {PodRow(l) : l \in snap["list"]}
    BY <1>1 DEF AnswerPods, AnswerNamespaces, Ready
  <2>2. \A x \in PodCommands : outcome[x] = "good"
    BY <2>1, CommandsOfKind DEF AllGood, PodCommands
  <2>3. snap["list"] = {<<p, Phase(cluster.pods[p])>> : p \in Listed(cluster)}
    BY <2>2, CommandsOfKind DEF Inv, SnapshotsAreSeen, Printed, PodCommands
  <2>4. \A p \in Listed(cluster) : PodRow(<<p, Phase(cluster.pods[p])>>) = Exact(p)
    BY <2>1, <2>2, RowIsExact DEF Inv, ReadInOrder
  <2>5. listed = Listed(cluster)
    BY <2>1
  <2>6. rows' = {PodRow(<<p, Phase(cluster.pods[p])>>) : p \in Listed(cluster)}
    BY <2>1, <2>3
  <2>7. rows' = {Exact(p) : p \in Listed(cluster)}
    BY <2>4, <2>6
  <2> HIDE DEF listed
  <2> QED
    BY <2>1, <2>5, <2>7
<1>2. CASE AnswerNodes
  <2>1. kind = "nodes" /\ outcome["nodes"] = "good" /\ outcome["topNodes"] = "good"
    BY <1>2, CommandsOfKind DEF AnswerNodes, Ready, AllGood
  <2>2. snap["nodes"] = cluster.nodes /\ snap["topNodes"] = Nodes \cap cluster.figures
    BY <2>1, CommandsOfKind DEF Inv, SnapshotsAreSeen, Printed
  <2>3. cluster.nodes \subseteq Nodes
    BY DEF Inv, TypeOK, Clusters
  <2>4. rows' = {[of |-> n, status |-> "well", usage |-> {n} \cap snap["topNodes"]] : n \in snap["nodes"]}
    BY <1>2 DEF AnswerNodes
  <2>5. \A n \in cluster.nodes : {n} \cap snap["topNodes"] = {n} \cap cluster.figures
    BY <2>2, <2>3
  <2>6. rows' = ofNodes
    BY <2>2, <2>4, <2>5
  <2> QED
    BY <2>1, <2>6
<1>3. CASE AnswerUnhealthy
  <2>1. kind = "unhealthy" /\ outcome["piped"] = "good"
    BY <1>3, CommandsOfKind DEF AnswerUnhealthy, Ready, AllGood
  <2>2. snap["piped"] = {l \in Statuses(cluster) : l[2] = "ill"}
    BY <2>1, CommandsOfKind DEF Inv, SnapshotsAreSeen, Printed
  <2>3. rows' = {[of |-> l[1], status |-> "ill", usage |-> {}] : l \in snap["piped"]}
    BY <1>3 DEF AnswerUnhealthy
  <2>4. \A p \in listed : /\ Exact(p) = [of |-> p, status |-> "ill", usage |-> {}]
                          /\ <<p, "ill">> \in snap["piped"]
    BY <2>1, <2>2 DEF FiguresByName, Exact, Statuses
  <2>5. \A l \in snap["piped"] : l[1] \in listed
    BY <2>2, LineIsSeen
  <2> HIDE DEF listed
  <2>6. \A r \in rows' : r \in {Exact(p) : p \in listed}
    BY <2>3, <2>4, <2>5
  <2>7. \A p \in listed : Exact(p) \in rows'
    <3> SUFFICES ASSUME NEW p \in listed
                 PROVE  Exact(p) \in rows'
      OBVIOUS
    <3>1. PICK l \in snap["piped"] : l[1] = p
      BY <2>4
    <3>2. [of |-> l[1], status |-> "ill", usage |-> {}] \in rows'
      BY <2>3, <3>1
    <3> QED
      BY <2>4, <3>1, <3>2
  <2>8. rows' = {Exact(p) : p \in listed}
    BY <2>6, <2>7
  <2> QED
    BY <2>1, <2>8
<1> QED
  BY <1>1, <1>2, <1>3 DEF Answer

----
(* Theorems *)

(* Whatever the cluster does between the commands of a read, each command  *)
(* that succeeded has printed a state of the cluster since the request,    *)
(* and an answer is made of complete snapshots.                            *)
THEOREM ReadsInvariant == Spec => []Inv
<1> QED
  BY InitHasInv, NextKeepsInv, PTL DEF Spec

(* Every row is of a pod or node, has a status and one figure at most, for *)
(* any cluster with finitely many namespaces.                              *)
THEOREM ReadsTypeCorrect == Spec => []TypeOK
<1>1. Inv => TypeOK
  BY DEF Inv
<1> QED
  BY <1>1, ReadsInvariant, PTL

(* When all commands succeed, the joins of GetKubectlNamespaces and        *)
(* GetKubectlNodes throw only if their snapshots tore the cluster.         *)
THEOREM ReadsThrowHasCause == Spec => []ThrowHasCause
<1>1. Init => ThrowHasCause
  BY DEF Init, ThrowHasCause
<1>2. Inv /\ ThrowHasCause /\ [Next]_vars => ThrowHasCause'
  <2>1. CASE UNCHANGED vars
    BY <2>1 DEF vars, ThrowHasCause, AllGood
  <2>2. ASSUME Inv, Next, ~Answer
        PROVE  ThrowHasCause'
    BY <2>2, OthersDecideNothing DEF ThrowHasCause
  <2> QED
    BY <2>1, <2>2, JoinThrowsForCause
<1> QED
  BY <1>1, <1>2, ReadsInvariant, PTL DEF Spec

(* A row that GetKubectlPods or GetKubectlNamespaces joins shows its own   *)
(* usage or none and a STATUS the pod had during the read, or its phase    *)
(* where a listing failed, a namespace was named or the pod was away at a  *)
(* time; unless a pod of the same name elsewhere got in between.           *)
THEOREM ReadsRowIsOwn == Spec => []RowIsOwn
<1>1. Init => RowIsOwn
  BY DEF Init, RowIsOwn
<1>2. Inv /\ RowIsOwn /\ [Next]_vars => RowIsOwn'
  <2>1. CASE UNCHANGED vars
    BY <2>1 DEF vars, RowIsOwn, HasTwin
  <2>2. ASSUME Inv, Next, ~Answer
        PROVE  RowIsOwn'
    BY <2>2, OthersDecideNothing DEF RowIsOwn
  <2> QED
    BY <2>1, <2>2, JoinShowsOwn
<1> QED
  BY <1>1, <1>2, ReadsInvariant, PTL DEF Spec

(* If nothing changes and nothing fails, each of the four requests returns *)
(* the cluster as it is, with phases for the pods of one namespace.        *)
THEOREM ReadsStillIsExact == Spec => []StillIsExact
<1>1. Init => StillIsExact
  BY DEF Init, StillIsExact
<1>2. Inv /\ StillIsExact /\ [Next]_vars => StillIsExact'
  <2>1. CASE UNCHANGED vars
    BY <2>1 DEF vars, StillIsExact, AllGood, Listed, HasTwin, FiguresByName
  <2>2. ASSUME Inv, Next, ~Answer
        PROVE  StillIsExact'
    BY <2>2, OthersDecideNothing DEF StillIsExact
  <2> QED
    BY <2>1, <2>2, JoinIsExact
<1> QED
  BY <1>1, <1>2, ReadsInvariant, PTL DEF Spec

(* GetUnhealthyPods shows every pod that was unhealthy by its STATUS all    *)
(* the time, unless the kubectl in front of the filter failed.             *)
THEOREM ReadsIllIsReported == Spec => []IllIsReported
<1>1. Init => IllIsReported
  BY DEF Init, IllIsReported
<1>2. Inv /\ IllIsReported /\ [Next]_vars => IllIsReported'
  <2>1. CASE UNCHANGED vars
    BY <2>1 DEF vars, IllIsReported
  <2>2. ASSUME Inv, Next, ~Answer
        PROVE  IllIsReported'
    BY <2>2, OthersDecideNothing DEF IllIsReported
  <2> QED
    BY <2>1, <2>2, FilterShowsIll
<1> QED
  BY <1>1, <1>2, ReadsInvariant, PTL DEF Spec
====
