---- MODULE ClusterRecords ----
(***************************************************************************)
(* The row of one cluster and the handlers that write it                   *)
(* (server/controllers/clusterController.ts and the two writers of its     *)
(* connected column in server/services/socketService.ts).                  *)
(*                                                                         *)
(* create saves the row, awaits three calls of other services and then     *)
(* updates the whole row without awaiting it.  update and updateEnvs read  *)
(* the entity, change it and write every column back, which undoes what    *)
(* others wrote in between: envs, connected, even deletedAt.  A history    *)
(* variable notes whether writers have overlapped, another keeps what      *)
(* atomic operations would have made of the row.                           *)
(*                                                                         *)
(* Of the list of environments only how often it has each of them matters, *)
(* so it is kept as that count; the order is left out.                     *)
(***************************************************************************)
EXTENDS Naturals

CONSTANTS
  Ops,     \* invocations of create, update and updateEnvs
  EnvIds,
  MaxNamed,  \* bound on how often one request names an environment to add
  None

ASSUME NoneAssumption == None \notin Ops
ASSUME NamedAssumption == MaxNamed \in Nat \ {0}

VARIABLES row, op, found, alone, ledger

vars == <<row, op, found, alone, ledger>>

RowOf(envs) ==
  [state     : {"none", "live", "soft", "gone"},  \* soft: deletedAt is set
   keys      : BOOLEAN,                           \* both key references are set
   settings  : Ops \cup {None},                   \* whose name, agent, metadata...
   envs      : envs,
   connected : BOOLEAN]

Lists     == [EnvIds -> Nat]           \* how often each environment is in it
Additions == [EnvIds -> 0..MaxNamed]
Empty     == [e \in EnvIds |-> 0]
Listed(envs) == {e \in EnvIds : envs[e] > 0}

Operation ==
  [kind   : {"create", "update", "updateEnvs", None},
   stage  : {"idle", "keys", "write", "done", "failed"},
   entity : RowOf(Lists),
   add    : Additions,
   rem    : SUBSET EnvIds]

TypeOK ==
  /\ row \in RowOf(Lists)
  /\ ledger \in RowOf(SUBSET EnvIds)
  /\ op \in [Ops -> Operation]
  /\ found \in BOOLEAN   \* delete has found the row and not yet deleted it
  /\ alone \in BOOLEAN

Blank(envs) == [state |-> "none", keys |-> FALSE, settings |-> None, envs |-> envs, connected |-> FALSE]

Init ==
  /\ row = Blank(Empty) /\ ledger = Blank({})
  /\ op = [o \in Ops |-> [kind |-> None, stage |-> "idle", entity |-> Blank(Empty), add |-> Empty, rem |-> {}]]
  /\ found = FALSE /\ alone = TRUE

Busy == \E o \in Ops : op[o].stage \in {"keys", "write"}

Exclusive == alone' = (alone /\ ~Busy) /\ UNCHANGED found

----
(* Mutant: envs is left out of the new entity.                             *)
CreateWithoutEnvs(o) ==
  /\ op[o].stage = "idle" /\ row.state = "none"
  /\ row' = [row EXCEPT !.state = "live", !.envs = None]
  /\ ledger' = [ledger EXCEPT !.state = "live"]
  /\ op' = [op EXCEPT ![o].kind = "create", ![o].stage = "keys", ![o].entity = row']
  /\ Exclusive

(* create: the row is there before its keys are.                           *)
CreateSaves(o) ==
  /\ op[o].stage = "idle" /\ row.state = "none"
  /\ row' = [row EXCEPT !.state = "live"]
  /\ ledger' = [ledger EXCEPT !.state = "live"]
  /\ op' = [op EXCEPT ![o].kind = "create", ![o].stage = "keys", ![o].entity = row']
  /\ Exclusive

(* Saving the key, generating the token or saving it fails: the row stays. *)
CreateFails(o) ==
  /\ op[o].stage = "keys"
  /\ op' = [op EXCEPT ![o].stage = "failed"]
  /\ UNCHANGED <<row, found, alone, ledger>>

(* Mutant: the references are not put into the entity.                     *)
CreateForgetsKeys(o) ==
  /\ op[o].stage = "keys"
  /\ op' = [op EXCEPT ![o].stage = "write"]
  /\ UNCHANGED <<row, found, alone, ledger>>

(* The keys are known, the update is issued and the client answered.       *)
CreateGetsKeys(o) ==
  /\ op[o].stage = "keys"
  /\ op' = [op EXCEPT ![o].stage = "write", ![o].entity.keys = TRUE]
  /\ UNCHANGED <<row, found, alone, ledger>>

----
(* Mutant: known environments are pushed again.                            *)
EnvsPushedAgain(envs, add, rem) ==
  [e \in EnvIds |-> IF envs[e] > 0 /\ e \in rem THEN 0 ELSE envs[e] + add[e]]

(* updateEnvs: additions that the row did not have are pushed, as often as *)
(* they are named; removals that it had are filtered out.                  *)
UpdatedEnvs(envs, add, rem) ==
  [e \in EnvIds |-> IF envs[e] = 0 THEN add[e] ELSE IF e \in rem THEN 0 ELSE envs[e]]

(* Mutant: the entity is built from the payload alone.                     *)
UpdateFromPayload(o) ==
  /\ op[o].stage = "idle" /\ row.state = "live"
  /\ op' = [op EXCEPT ![o].kind = "update", ![o].stage = "write",
                      ![o].entity = [row EXCEPT !.settings = o, !.envs = Empty]]
  /\ Exclusive /\ UNCHANGED <<row, ledger>>

(* update reads the entity and replaces the settings in it.                *)
UpdateReads(o) ==
  /\ op[o].stage = "idle" /\ row.state = "live"
  /\ op' = [op EXCEPT ![o].kind = "update", ![o].stage = "write",
                      ![o].entity = [row EXCEPT !.settings = o]]
  /\ Exclusive /\ UNCHANGED <<row, ledger>>

UpdateEnvsReads(o) ==
  /\ op[o].stage = "idle" /\ row.state = "live"
  /\ \E add \in Additions, rem \in SUBSET EnvIds :
       /\ op' = [op EXCEPT ![o].kind = "updateEnvs", ![o].stage = "write",
                           ![o].entity = [row EXCEPT !.envs = UpdatedEnvs(row.envs, add, rem)],
                           ![o].add = add, ![o].rem = rem]
  /\ Exclusive /\ UNCHANGED <<row, ledger>>

(* What the operation means, done at once.  An environment that the row    *)
(* lacks is added even if the request also names it to be removed.         *)
Atomic(o, r) ==
  CASE r.state # "live" -> r
    [] op[o].kind = "create" -> [r EXCEPT !.keys = TRUE]
    [] op[o].kind = "update" -> [r EXCEPT !.settings = o]
    [] op[o].kind = "updateEnvs" ->
         [r EXCEPT !.envs = (@ \ op[o].rem) \cup (Listed(op[o].add) \ @)]

(* Mutant: save, which inserts a row that is not there.                    *)
WriteInserts(o) ==
  /\ op[o].stage = "write"
  /\ row' = op[o].entity
  /\ ledger' = Atomic(o, ledger)
  /\ op' = [op EXCEPT ![o].stage = "done"]
  /\ UNCHANGED <<found, alone>>

(* repository.update(id, entity) of every handler: all columns, and        *)
(* deletedAt, null as it was read, among them.                             *)
WriteRow(o) ==
  /\ op[o].stage = "write"
  /\ row' = IF row.state = "gone" THEN row ELSE op[o].entity
  /\ ledger' = Atomic(o, ledger)
  /\ op' = [op EXCEPT ![o].stage = "done"]
  /\ UNCHANGED <<found, alone>>

----
(* A connecting agent, or the check after a disconnection: they found the  *)
(* row earlier, and the update by id also reaches a softly deleted one.    *)
SetConnected(b) ==
  /\ row.state \in {"live", "soft"}
  /\ row' = [row EXCEPT !.connected = b]
  /\ ledger' = [ledger EXCEPT !.connected = b]
  /\ Exclusive /\ UNCHANGED op

softDelete ==
  /\ row.state = "live"
  /\ row' = [row EXCEPT !.state = "soft"]
  /\ ledger' = [ledger EXCEPT !.state = "soft"]
  /\ Exclusive /\ UNCHANGED op

(* delete finds the visible row and then deletes it by id.                 *)
DeleteFinds ==
  /\ ~found /\ row.state = "live"
  /\ found' = TRUE
  /\ UNCHANGED <<row, op, alone, ledger>>

Removed(r) == IF r.state \in {"live", "soft"} THEN [r EXCEPT !.state = "gone"] ELSE r

delete ==
  /\ found /\ found' = FALSE
  /\ row' = Removed(row) /\ ledger' = Removed(ledger)
  /\ alone' = (alone /\ ~Busy)
  /\ UNCHANGED op

Next ==
  \/ \E o \in Ops :
       \/ CreateSaves(o) \/ CreateFails(o) \/ CreateGetsKeys(o)
       \/ UpdateReads(o) \/ UpdateEnvsReads(o) \/ WriteRow(o)
  \/ \E b \in BOOLEAN : SetConnected(b)
  \/ softDelete \/ DeleteFinds \/ delete

Spec == Init /\ [][Next]_vars

----
(* Properties *)

(* While no two writers have overlapped, the row is what atomic operations *)
(* would have made of it: no column is lost by writing all of them back,   *)
(* and the list that updateEnvs leaves has what the row had and the        *)
(* request does not remove, and what it lacked and the request adds.       *)
AloneIsAtomic == alone => [row EXCEPT !.envs = Listed(row.envs)] = ledger

(* However writers overlap, an environment is listed twice only if one     *)
(* request named it twice when the row did not have it.                    *)
NoDuplicateEnvs ==
  \A e \in EnvIds : row.envs[e] > 1 => \E o \in Ops : op[o].add[e] >= row.envs[e]

(* A visible cluster without its keys, with which no agent can be reached, *)
(* comes from a creation that is under way or failed, or from a handler    *)
(* that read the row before the keys were in it and wrote it afterwards.   *)
KeysNeedCause ==
  row.state = "live" /\ ~row.keys =>
    \E o \in Ops :
      \/ op[o].stage \in {"keys", "failed"}
      \/ op[o].kind = "create" /\ op[o].stage = "write"
      \/ op[o].kind # "create" /\ op[o].stage = "done" /\ ~op[o].entity.keys

(* A deleted row never comes back, whatever is still in flight, and a      *)
(* softly deleted one only by a writer that overlapped the deletion.       *)
DeletionSticks ==
  [][/\ row.state = "gone" => row' = row
     /\ row.state = "soft" /\ row'.state = "live" => ~alone]_vars
====
