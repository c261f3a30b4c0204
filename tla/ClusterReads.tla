---- MODULE ClusterReads ----
(***************************************************************************)
(* The agent's reads of tables (agent/controllers/kubectlController.ts).   *)
(*                                                                         *)
(* GetKubectlPods, GetKubectlNamespaces and GetKubectlNodes start several  *)
(* kubectl commands at once and join what they print by name.  Each of the *)
(* commands sees the cluster at a moment of its own, and may fail; what    *)
(* the join cannot find throws, and no handler of theirs catches that.     *)
(*                                                                         *)
(* A pod is a pair of a namespace and a name.  The list of a join gives    *)
(* the phase of a pod, a plain kubectl its STATUS; the two differ for a    *)
(* pod that crashes again and again, or that is being deleted, which is    *)
(* Running by its phase.  A row is known by the line of the list it was    *)
(* made from; usage is the pod whose figure it shows.                      *)
(***************************************************************************)
EXTENDS Naturals, FiniteSets

CONSTANTS
  Spaces,    \* namespaces: numbers, in the order in which kubectl lists them
  Names,     \* of pods
  Nodes,
  MaxStates  \* bound on the states the cluster is in during one read

ASSUME SpacesAssumption == Spaces \subseteq Nat /\ IsFiniteSet(Spaces)
ASSUME StatesAssumption == MaxStates \in Nat \ {0}

Pods  == Spaces \X Names
Kinds == {"pods", "namespaces", "nodes", "unhealthy"}

(* The commands of each request.                                           *)
PodCommands == {"list", "top", "generic"}
Commands ==
  [pods       |-> PodCommands,
   namespaces |-> PodCommands \cup {"spaces"},
   nodes      |-> {"nodes", "topNodes"},
   unhealthy  |-> {"piped"}]
AllCommands == PodCommands \cup {"spaces", "nodes", "topNodes", "piped"}

(* Those whose exit code 0 promises nothing: the output may be no JSON, or *)
(* come from a filter behind a kubectl that has failed.                    *)
MayBeVoid == {"spaces", "nodes", "piped"}

VARIABLES
  cluster,  \* what kubectl reads
  kind,     \* of the request; "none" before it
  scope,    \* the namespaces it asks for: one or all
  outcome,  \* of each command
  snap,     \* what it printed
  end, rows, \* the answer
  seen      \* history: states of the cluster since the request

vars == <<cluster, kind, scope, outcome, snap, end, rows, seen>>

PodStates == {"absent", "well", "ill", "crashing"}

Phase(t)  == IF t = "ill" THEN "ill" ELSE "well"
Status(t) == IF t = "well" THEN "well" ELSE "ill"

Clusters ==
  [spaces : SUBSET Spaces, pods : [Pods -> PodStates],
   nodes : SUBSET Nodes,
   figures : SUBSET (Pods \cup Nodes)]  \* of the metrics server, which lags

Placed(c) == \A p \in Pods : c.pods[p] # "absent" => p[1] \in c.spaces

TypeOK ==
  /\ cluster \in Clusters /\ Placed(cluster)
  /\ kind \in Kinds \cup {"none"} /\ scope \subseteq Spaces
  /\ outcome \in [AllCommands -> {"none", "good", "failed", "void"}]
  /\ DOMAIN snap = AllCommands
  /\ end \in {"none", "answered", "refused", "threw"}
  /\ \A r \in rows : /\ r.of \in Pods \cup Nodes /\ r.status \in {"well", "ill"}
                     /\ r.usage \subseteq Pods \cup Nodes /\ Cardinality(r.usage) <= 1
  /\ seen \subseteq Clusters

Init ==
  /\ cluster \in {c \in Clusters : Placed(c)}
  /\ kind = "none" /\ scope = Spaces
  /\ outcome = [x \in AllCommands |-> "none"]
  /\ snap = [x \in AllCommands |-> {}]
  /\ end = "none" /\ rows = {}
  /\ seen = {}

----
(* A request; namespaces and nodes take no namespace.                      *)
Start(k) ==
  /\ kind = "none"
  /\ kind' = k
  /\ scope' \in IF k \in {"pods", "unhealthy"} THEN {Spaces} \cup {{s} : s \in Spaces}
                ELSE {Spaces}
  /\ seen' = {cluster}
  /\ UNCHANGED <<cluster, outcome, snap, end, rows>>

(* Meanwhile the cluster lives on: a namespace, a pod or a node comes,     *)
(* goes or changes, or the metrics server collects its figures.            *)
ClusterChanges ==
  /\ kind # "none" /\ end = "none"
  /\ \/ \E s \in Spaces :
          cluster' = [cluster EXCEPT !.spaces = IF s \in @ THEN @ \ {s} ELSE @ \cup {s}]
     \/ \E p \in Pods, t \in PodStates : cluster' = [cluster EXCEPT !.pods[p] = t]
     \/ \E n \in Nodes :
          cluster' = [cluster EXCEPT !.nodes = IF n \in @ THEN @ \ {n} ELSE @ \cup {n}]
     \/ cluster' = [cluster EXCEPT !.figures =
                      {p \in Pods : cluster.pods[p] # "absent"} \cup cluster.nodes]
  /\ cluster' # cluster /\ Placed(cluster')
  /\ seen' = seen \cup {cluster'} /\ Cardinality(seen') <= MaxStates
  /\ UNCHANGED <<kind, scope, outcome, snap, end, rows>>

(* What a command prints from a state of the cluster.                      *)
Listed(c)   == {p \in Pods : p[1] \in scope /\ c.pods[p] # "absent"}
Statuses(c) == {<<p, Status(c.pods[p])>> : p \in Listed(c)}

Printed(x, c) ==
  CASE x = "list"     -> {<<p, Phase(c.pods[p])>> : p \in Listed(c)}
    [] x = "generic"  -> Statuses(c)
    [] x = "top"      -> {p \in Pods : p[1] \in scope /\ p \in c.figures}
    [] x = "spaces"   -> c.spaces
    [] x = "nodes"    -> c.nodes
    [] x = "topNodes" -> Nodes \cap c.figures
    [] x = "piped"    -> {l \in Statuses(c) : l[2] = "ill"}

Waiting(x) == kind # "none" /\ x \in Commands[kind] /\ outcome[x] = "none"

CommandSucceeds(x) ==
  /\ Waiting(x)
  /\ outcome' = [outcome EXCEPT ![x] = "good"]
  /\ snap' = [snap EXCEPT ![x] = Printed(x, cluster)]
  /\ UNCHANGED <<cluster, kind, scope, end, rows, seen>>

CommandFails(x) ==
  /\ Waiting(x)
  /\ \E o \in {"failed", "void"} :
       /\ o = "void" => x \in MayBeVoid
       /\ outcome' = [outcome EXCEPT ![x] = o]
  /\ UNCHANGED <<cluster, kind, scope, snap, end, rows, seen>>

Ready(k) == kind = k /\ end = "none" /\ \A x \in Commands[k] : outcome[x] # "none"

Concluded == UNCHANGED <<cluster, kind, scope, outcome, snap, seen>>

----
(* The maps of the join are keyed by the name alone: of several pods of    *)
(* one name the last one listed remains.                                   *)
Namesakes(S, p) == {q \in S : q[2] = p[2]}
LastOf(S) == CHOOSE q \in S : \A r \in S : r[1] <= q[1]

(* The columns are taken for those of all namespaces: with a namespace a   *)
(* STATUS is entered under a text that is no pod's name and never found,   *)
(* and so is a figure, that one in the request for namespaces too.         *)
StatusesByName == scope = Spaces
FiguresByName  == kind = "pods" /\ scope = Spaces

(* The status of a row: that of the plain listing over the phase.  Without *)
(* "top" the row stays as the list has it.                                 *)
StatusShown(l) ==
  LET found == IF StatusesByName THEN Namesakes({g[1] : g \in snap["generic"]}, l[1]) ELSE {}
  IN IF outcome["top"] = "good" /\ found # {}
     THEN CHOOSE t \in {"well", "ill"} : <<LastOf(found), t>> \in snap["generic"]
     ELSE l[2]

UsageShown(l) ==
  LET figures == IF FiguresByName THEN Namesakes(snap["top"], l[1]) ELSE {}
  IN IF figures = {} THEN {} ELSE {LastOf(figures)}

(* Mutant: the columns of a single namespace are expected everywhere.      *)
PodRowWithoutUsage(l) == [of |-> l[1], status |-> StatusShown(l), usage |-> {}]

(* Mutant: the line of "top" in the same place is taken for the pod's.     *)
PodRowByPlace(l) ==
  [of |-> l[1], status |-> StatusShown(l),
   usage |-> IF snap["top"] = {} THEN {} ELSE {LastOf(snap["top"])}]

(* Mutant: the figures of all pods of the name are taken.                  *)
PodRowOfAll(l) ==
  [of |-> l[1], status |-> StatusShown(l),
   usage |-> IF FiguresByName THEN Namesakes(snap["top"], l[1]) ELSE {}]

(* A row of GetKubectlPods.                                                *)
PodRow(l) == [of |-> l[1], status |-> StatusShown(l), usage |-> UsageShown(l)]

AnswerPods ==
  /\ Ready("pods")
  /\ end' = IF outcome["list"] = "good" THEN "answered" ELSE "refused"
  /\ rows' = {PodRow(l) : l \in snap["list"]}
  /\ Concluded

(* A failed list of namespaces is passed on; its items are read from no    *)
(* data, the pods from a failed list of pods, and a pod is put into a      *)
(* namespace that was not listed: these throw.                             *)
AnswerNamespaces ==
  /\ Ready("namespaces")
  /\ end' = IF outcome["spaces"] = "failed" THEN "refused"
            ELSE IF /\ outcome["spaces"] = "good" /\ outcome["list"] = "good"
                    /\ \A l \in snap["list"] : l[1][1] \in snap["spaces"]
                 THEN "answered" ELSE "threw"
  /\ rows' = IF end' = "answered" THEN {PodRow(l) : l \in snap["list"]} ELSE {}
  /\ Concluded

(* Mutant: the join asks every node for its figure.                        *)
AnswerNodesByNode ==
  /\ Ready("nodes")
  /\ end' = IF outcome["nodes"] = "failed" THEN "refused"
            ELSE IF /\ outcome["nodes"] = "good" /\ outcome["topNodes"] = "good"
                    /\ snap["nodes"] \subseteq snap["topNodes"]
                 THEN "answered" ELSE "threw"
  /\ rows' = {}
  /\ Concluded

(* The same with nodes: without "top nodes", or with a figure of a node    *)
(* that is not in the list, it throws.                                     *)
AnswerNodes ==
  /\ Ready("nodes")
  /\ end' = IF outcome["nodes"] = "failed" THEN "refused"
            ELSE IF /\ outcome["nodes"] = "good" /\ outcome["topNodes"] = "good"
                    /\ snap["topNodes"] \subseteq snap["nodes"]
                 THEN "answered" ELSE "threw"
  /\ rows' = IF end' = "answered"
             THEN {[of |-> n, status |-> "well", usage |-> {n} \cap snap["topNodes"]] : n \in snap["nodes"]}
             ELSE {}
  /\ Concluded

(* Mutant: the first line is dropped though the filter has no header.      *)
AnswerUnhealthyLessOne ==
  /\ Ready("unhealthy")
  /\ end' = IF outcome["piped"] = "failed" THEN "refused" ELSE "answered"
  /\ \E first \in snap["piped"] \cup {<<>>} :
       rows' = {[of |-> l[1], status |-> "ill", usage |-> {}] : l \in snap["piped"] \ {first}}
  /\ Concluded

(* The exit code is that of the filter.  (With a namespace the columns of  *)
(* a row are one to the left of their names.)                              *)
AnswerUnhealthy ==
  /\ Ready("unhealthy")
  /\ end' = IF outcome["piped"] = "failed" THEN "refused" ELSE "answered"
  /\ rows' = {[of |-> l[1], status |-> "ill", usage |-> {}] : l \in snap["piped"]}
  /\ Concluded

Next ==
  \/ \E k \in Kinds : Start(k)
  \/ ClusterChanges
  \/ \E x \in AllCommands : CommandSucceeds(x) \/ CommandFails(x)
  \/ AnswerPods \/ AnswerNamespaces \/ AnswerNodes \/ AnswerUnhealthy

Spec == Init /\ [][Next]_vars

----
(* Properties *)

AllGood == \A x \in Commands[kind] : outcome[x] = "good"

(* The process outlives a read whose commands all succeed, unless its view *)
(* is torn: a namespace came or went while namespaces and pods were being  *)
(* listed, or a node had a figure at one time and was not there at one.    *)
ThrowHasCause ==
  end = "threw" /\ AllGood =>
    \E c, d \in seen :
      \/ kind = "namespaces" /\ ~(c.spaces \subseteq d.spaces)
      \/ kind = "nodes" /\ ~(Nodes \cap c.figures \subseteq d.nodes)

(* Another pod of that name was there, or had a figure, during the read.   *)
HasTwin(p) ==
  \E c \in seen : \E q \in Pods \ {p} :
    q[1] \in scope /\ q[2] = p[2] /\ (c.pods[q] # "absent" \/ q \in c.figures)

(* However the three listings fell, a pod's row shows its own usage or     *)
(* none and the STATUS that it had in the course of the read; but the      *)
(* phase that it had, if a listing failed or the request names a namespace *)
(* or the pod was not there all the time.  All this unless a pod of the    *)
(* same name in another namespace got in between.                          *)
RowIsOwn ==
  kind \in {"pods", "namespaces"} =>
    \A r \in rows : HasTwin(r.of) \/
      /\ r.usage \subseteq {r.of}
      /\ \E c \in seen :
           /\ c.pods[r.of] # "absent"
           /\ \/ r.status = Status(c.pods[r.of])
              \/ /\ r.status = Phase(c.pods[r.of])
                 /\ \/ scope # Spaces
                    \/ \E x \in PodCommands : outcome[x] # "good"
                    \/ \E d \in seen : d.pods[r.of] = "absent"

(* If nothing stirs and nothing fails, the answer is the cluster: every    *)
(* pod or node with its STATUS and, where a request shows usage, the usage *)
(* of all that are measured; a request for the pods of one namespace shows *)
(* phases, and no usage.                                                   *)
StillIsExact ==
  end = "answered" /\ AllGood /\ seen = {cluster} /\ (\A p \in Listed(cluster) : ~HasTwin(p)) =>
    rows =
      IF kind = "nodes"
      THEN {[of |-> n, status |-> "well", usage |-> {n} \cap cluster.figures] : n \in cluster.nodes}
      ELSE {[of |-> p,
             status |-> IF kind = "pods" /\ scope # Spaces
                        THEN Phase(cluster.pods[p]) ELSE Status(cluster.pods[p]),
             usage |-> IF FiguresByName THEN {p} \cap cluster.figures ELSE {}] :
               p \in {q \in Listed(cluster) :
                        kind = "unhealthy" => Status(cluster.pods[q]) = "ill"}}

(* A pod that was not well by its STATUS all the time is in an answer on   *)
(* unhealthy pods, except when kubectl failed in front of the filter.      *)
IllIsReported ==
  kind = "unhealthy" /\ end = "answered" /\ outcome["piped"] # "void" =>
    \A p \in Pods :
      p[1] \in scope /\ (\A c \in seen : c.pods[p] \in {"ill", "crashing"})
        => \E r \in rows : r.of = p
====
