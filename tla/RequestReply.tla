---- MODULE RequestReply ----
(***************************************************************************)
(* What communicateWithCluster promises its callers, with nothing said of  *)
(* sockets, Redis or locks: a call that reports success had its request    *)
(* run by an agent before, a call that has ended stays as it ended, and    *)
(* every call whose secret was resolved ends.  It does not promise that a  *)
(* failed request was not run, nor that a request is run only once.        *)
(***************************************************************************)
CONSTANTS Calls, Uuids, UuidOf

VARIABLES
  state,  \* of each call
  run     \* uuids that an agent has run

vars == <<state, run>>

Closed == {"ok", "failed", "aborted"}

TypeOK ==
  /\ state \in [Calls -> {"idle", "open"} \cup Closed]
  /\ run \subseteq Uuids

Init ==
  /\ state = [c \in Calls |-> "idle"]
  /\ run = {}

Open(c) ==
  /\ state[c] = "idle"
  /\ state' = [state EXCEPT ![c] = "open"]
  /\ UNCHANGED run

(* The secret cannot be resolved.                                          *)
Reject(c) ==
  /\ state[c] = "idle"
  /\ state' = [state EXCEPT ![c] = "failed"]
  /\ UNCHANGED run

(* An agent runs a request that some call has brought.                     *)
RunRequest(u) ==
  /\ \E c \in Calls : UuidOf[c] = u /\ state[c] # "idle"
  /\ run' = run \cup {u}
  /\ UNCHANGED state

(* Calls of the same request may end together: one reply serves them all.  *)
Close(D, outcome) ==
  /\ \A c \in D : state[c] = "open"
  /\ outcome = "ok" => \A c \in D : UuidOf[c] \in run
  /\ state' = [c \in Calls |-> IF c \in D THEN outcome ELSE state[c]]
  /\ UNCHANGED run

Next ==
  \/ \E c \in Calls : Open(c) \/ Reject(c)
  \/ \E u \in Uuids : RunRequest(u)
  \/ \E D \in SUBSET Calls, outcome \in Closed : Close(D, outcome)

Spec == Init /\ [][Next]_vars

(* Every open call is closed in the end.                                   *)
EveryCallEnds == \A c \in Calls : state[c] = "open" ~> state[c] \in Closed
====
