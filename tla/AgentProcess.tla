---- MODULE AgentProcess ----
(***************************************************************************)
(* The agent's process (agent/main.ts and the command runners it calls).   *)
(*                                                                         *)
(* main awaits two kubectl calls before it connects; a failure there is    *)
(* swallowed by main().catch and leaves a process that never connects,     *)
(* until the container's liveness probe, which /healthz answers with 404   *)
(* as long as there is no socket, has it started again.  Once connected,   *)
(* every event has a handler of its own: APPLY_RESOURCE and SHELL catch    *)
(* what they throw and answer with the request as it came (an echo), the   *)
(* others throw into the void, which ends the process and every request it *)
(* is running; so does an error on the stdin of a command.  Next to them   *)
(* the k8sGPT analysis is refreshed by chains of timers, and its answer    *)
(* cached in a variable that K8SGPT requests read and write as well.       *)
(***************************************************************************)
EXTENDS Naturals, FiniteSets

CONSTANTS
  Reqs,        \* events that the server emits to this agent
  Kind,        \* [Reqs -> Kinds]
  MaxDays,     \* bound on firings of the 24 h interval in one life
  MaxRestarts  \* bound on lives of the process

Kinds == {"apply", "read", "gpt", "ping"}   \* shell is an apply, delete a read

ASSUME KindAssumption == Kind \in [Reqs -> Kinds]
ASSUME BoundAssumption == MaxDays \in Nat /\ MaxRestarts \in Nat

Results == {"good", "unparsed", "failed"}   \* unparsed: exit code 0, no JSON
Code0 == {"good", "unparsed"}

VARIABLES
  proc, restarts,
  stage,      \* of each request
  ran,        \* requests whose command was started
  gpt,        \* k8sGPTResponse
  keyed,      \* openaiKey is not ''
  boot,       \* the block that asks for the key and starts the chains
  resting, analysing,  \* chains of setK8sGPTResponse: waiting, running
  days,
  overwritten \* a request's failed run has replaced an answer of code 0

life    == <<proc, restarts>>
work    == <<stage, ran>>
chains  == <<resting, analysing>>
gptVars == <<gpt, keyed, boot, chains, days, overwritten>>
vars    == <<life, work, gptVars>>

TypeOK ==
  /\ proc \in {"starting", "deaf", "up", "down"}
  /\ restarts \in 0..MaxRestarts
  /\ stage \in [Reqs -> {"new", "running", "acked", "echoed", "lost"}]
  /\ ran \subseteq Reqs
  /\ keyed \in BOOLEAN /\ overwritten \in BOOLEAN
  /\ gpt \in Results \cup {"none"}
  /\ boot \in {"idle", "asking", "warming", "serving", "failed"}
  /\ resting \in Nat /\ analysing \in Nat
  /\ days \in 0..MaxDays

Init ==
  /\ proc = "starting" /\ restarts = 0
  /\ stage = [r \in Reqs |-> "new"] /\ ran = {}
  /\ gpt = "none" /\ keyed = FALSE /\ boot = "idle"
  /\ resting = 0 /\ analysing = 0 /\ days = 0 /\ overwritten = FALSE

----
(* The two kubectl calls and the plugins are over: io() connects.          *)
Connects ==
  /\ proc = "starting"
  /\ proc' = "up" /\ boot' = "asking"
  /\ UNCHANGED <<restarts, work, gpt, keyed, chains, days, overwritten>>

(* kubectl version failed: k8sVersion.data is undefined, its member is     *)
(* read outside of the try block, and the rejection is swallowed.          *)
StartFails ==
  /\ proc = "starting"
  /\ proc' = "deaf"
  /\ UNCHANGED <<restarts, work, gptVars>>

(* The process ends; requests it was running get no answer.                *)
Dies ==
  /\ proc' = "down"
  /\ stage' = [r \in Reqs |-> IF stage[r] = "running" THEN "lost" ELSE stage[r]]
  /\ UNCHANGED <<restarts, ran, gptVars>>

(* The liveness probe gives up on it, or something else outside kills it.  *)
Killed == proc # "down" /\ Dies

(* The container is started again, main's variables with it.               *)
Restart ==
  /\ proc = "down" /\ restarts < MaxRestarts
  /\ proc' = "starting" /\ restarts' = restarts + 1
  /\ gpt' = "none" /\ keyed' = FALSE /\ boot' = "idle"
  /\ resting' = 0 /\ analysing' = 0 /\ days' = 0 /\ overwritten' = FALSE
  /\ UNCHANGED work

----
(* An event arrives.  PING is answered at once, and so is K8SGPT when the  *)
(* cached answer has code 0; otherwise the handler awaits a command.       *)
Deliver(r) ==
  /\ proc = "up" /\ stage[r] = "new"
  /\ LET cached == Kind[r] = "gpt" /\ gpt \in Code0
     IN /\ stage' = [stage EXCEPT ![r] = IF Kind[r] = "ping" \/ cached THEN "acked" ELSE "running"]
        /\ keyed' = (keyed \/ (Kind[r] = "gpt" /\ ~cached))
  /\ UNCHANGED <<life, ran, gpt, boot, chains, days, overwritten>>

(* The request cannot be decrypted or parsed: the handler's catch, then    *)
(* the callback with the request as it came.                               *)
ApplyEchoes(r) ==
  /\ proc = "up" /\ stage[r] = "new" /\ Kind[r] = "apply"
  /\ stage' = [stage EXCEPT ![r] = "echoed"]
  /\ UNCHANGED <<life, ran, gptVars>>

(* What is not caught ends the process (an unhandled rejection, or error   *)
(* event).  The other handlers have no catch: a request that cannot be     *)
(* decrypted or answered, or output of a failed command that is taken for  *)
(* a table.  And nothing listens to errors of the stdin of an apply, whose *)
(* command may exit without having read it.                                *)
HandlerThrows(r) ==
  /\ proc = "up"
  /\ \/ stage[r] = "new" /\ Kind[r] # "apply"
     \/ stage[r] = "running" /\ r \in ran /\ Kind[r] \in {"read", "apply"}
  /\ Dies

(* The command is spawned and acts on the cluster.                         *)
Spawn(r) ==
  /\ proc = "up" /\ stage[r] = "running" /\ r \notin ran
  /\ ran' = ran \cup {r}
  /\ UNCHANGED <<life, stage, gptVars>>

(* Mutant: a command that exits with an error rejects.                     *)
CommandRejects(r) ==
  /\ proc = "up" /\ stage[r] = "running" /\ Kind[r] # "gpt"
  /\ \E s \in {"acked", "echoed"} : stage' = [stage EXCEPT ![r] = s]
  /\ UNCHANGED <<life, ran, gptVars>>

(* executeKubectl resolves, whatever the exit code, and when there is no   *)
(* process to start.                                                       *)
CommandEnds(r) ==
  /\ proc = "up" /\ stage[r] = "running" /\ Kind[r] # "gpt"
  /\ stage' = [stage EXCEPT ![r] = "acked"]
  /\ UNCHANGED <<life, ran, gptVars>>

(* The analysis of a K8SGPT request is over: its result, good or not,      *)
(* replaces the cached one, which a chain may have set in the meantime.    *)
AnalysisEnds(r) ==
  /\ proc = "up" /\ stage[r] = "running" /\ Kind[r] = "gpt"
  /\ stage' = [stage EXCEPT ![r] = "acked"]
  /\ gpt' \in Results
  /\ overwritten' = (overwritten \/ (gpt \in Code0 /\ gpt' \notin Code0))
  /\ UNCHANGED <<life, ran, keyed, boot, chains, days>>

----
(* The server answers GET_OPEN_AI_KEY, maybe with an empty key.            *)
KeyArrives ==
  /\ proc = "up" /\ boot = "asking"
  /\ boot' = "warming" /\ keyed' \in BOOLEAN
  /\ UNCHANGED <<life, work, gpt, chains, days, overwritten>>

(* No answer in 10 s: no chain and no interval for this life.              *)
KeyTimesOut ==
  /\ proc = "up" /\ boot = "asking"
  /\ boot' = "failed"
  /\ UNCHANGED <<life, work, gpt, keyed, chains, days, overwritten>>

(* The first analysis is over, its result ignored: a chain is started, and *)
(* the interval.                                                           *)
Warmed ==
  /\ proc = "up" /\ boot = "warming"
  /\ boot' = "serving" /\ resting' = resting + 1
  /\ UNCHANGED <<life, work, gpt, keyed, analysing, days, overwritten>>

(* Another day, with a key: another chain.                                 *)
Day ==
  /\ proc = "up" /\ boot = "serving" /\ keyed /\ days < MaxDays
  /\ days' = days + 1 /\ resting' = resting + 1
  /\ UNCHANGED <<life, work, gpt, keyed, boot, analysing, overwritten>>

ChainWakes ==
  /\ proc = "up" /\ resting > 0
  /\ resting' = resting - 1 /\ analysing' = analysing + 1
  /\ UNCHANGED <<life, work, gpt, keyed, boot, days, overwritten>>

ChainSucceeds ==
  /\ proc = "up" /\ analysing > 0
  /\ analysing' = analysing - 1 /\ gpt' \in Code0
  /\ UNCHANGED <<life, work, keyed, boot, resting, days, overwritten>>

(* Mutant: a failed chain is not started again.                            *)
ChainGivesUp ==
  /\ proc = "up" /\ analysing > 0
  /\ analysing' = analysing - 1
  /\ UNCHANGED <<life, work, gpt, keyed, boot, resting, days, overwritten>>

(* Mutant: a failed chain goes on by itself and by a new timer.            *)
ChainForks ==
  /\ proc = "up" /\ analysing > 0 /\ resting < 4
  /\ resting' = resting + 1
  /\ UNCHANGED <<life, work, gpt, keyed, boot, analysing, days, overwritten>>

(* Once more in a minute.                                                  *)
ChainFails ==
  /\ proc = "up" /\ analysing > 0
  /\ analysing' = analysing - 1 /\ resting' = resting + 1
  /\ UNCHANGED <<life, work, gpt, keyed, boot, days, overwritten>>

Next ==
  \/ Connects \/ StartFails \/ Killed \/ Restart
  \/ \E r \in Reqs : \/ Deliver(r) \/ ApplyEchoes(r) \/ HandlerThrows(r)
                     \/ Spawn(r) \/ CommandEnds(r) \/ AnalysisEnds(r)
  \/ KeyArrives \/ KeyTimesOut \/ Warmed \/ Day
  \/ ChainWakes \/ ChainSucceeds \/ ChainFails

Spec == Init /\ [][Next]_vars

----
(* Properties *)

(* An answer that echoes the request, which the server takes for success,  *)
(* always means that nothing was done to the cluster.                      *)
EchoIsUntouched == \A r \in Reqs : stage[r] = "echoed" => r \notin ran

(* From the start of the chains the agent has an analysis or is still      *)
(* trying to get one, unless a request that had found none has put its own *)
(* failure over the answer of a chain.                                     *)
NeverGivesUp ==
  boot = "serving" /\ gpt \notin Code0 => resting + analysing > 0 \/ overwritten

(* Failing chains pile up, a new one each day, but none starts another.    *)
ChainsBounded == resting + analysing <= 1 + days
====
