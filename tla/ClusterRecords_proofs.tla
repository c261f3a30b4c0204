---- MODULE ClusterRecords_proofs ----
(***************************************************************************)
(* Proofs about ClusterRecords: its type invariant, that the row is what   *)
(* atomic operations make of it while writers do not overlap, and what can *)
(* be said of environments, keys and deletion however they do.             *)
(***************************************************************************)
EXTENDS ClusterRecords, TLAPS

(* The arithmetic of updateEnvs on lists, as sets: what was listed and is  *)
(* not removed, and what is added and was not listed.                      *)
LEMMA ListArithmetic ==
  ASSUME NEW envs \in Lists, NEW add \in Additions, NEW rem \in SUBSET EnvIds
  PROVE  /\ UpdatedEnvs(envs, add, rem) \in Lists
         /\ Listed(UpdatedEnvs(envs, add, rem)) =
              (Listed(envs) \ rem) \cup (Listed(add) \ Listed(envs))
<1> USE NamedAssumption DEF Lists, Additions, Listed, UpdatedEnvs
<1>1. UpdatedEnvs(envs, add, rem) \in Lists
  OBVIOUS
<1>2. ASSUME NEW e \in EnvIds
      PROVE  UpdatedEnvs(envs, add, rem)[e] > 0 <=>
               (envs[e] > 0 /\ e \notin rem) \/ (envs[e] = 0 /\ add[e] > 0)
  OBVIOUS
<1> QED
  BY <1>1, <1>2

(* An environment that a list has more than once was named as often by a   *)
(* request.                                                                *)
Explained(envs) == \A e \in EnvIds : envs[e] > 1 => \E o \in Ops : op[o].add[e] >= envs[e]

(* What an operation carries: a row that was visible when it was read, and *)
(* the keys, once a creation has them.                                     *)
CarriesSense(o) ==
  /\ op[o].stage = "idle" => op[o].add = Empty
  /\ op[o].stage = "keys" => op[o].kind = "create"
  /\ op[o].stage = "write" => op[o].kind \in {"create", "update", "updateEnvs"}
  /\ op[o].stage \in {"keys", "write"} => op[o].entity.state = "live"
  /\ op[o].stage = "write" /\ op[o].kind = "create" => op[o].entity.keys
  /\ Explained(op[o].entity.envs)

(* The columns of a row are those of the ledger.                           *)
Agrees(r, l) ==
  /\ r.state = l.state /\ r.keys = l.keys /\ r.settings = l.settings
  /\ Listed(r.envs) = l.envs /\ r.connected = l.connected

(* While writers have not overlapped there is one at most.  The row has    *)
(* not changed since it read it, so what it is about to write is what an   *)
(* atomic operation would make of the row.                                 *)
OneWriter ==
  /\ Agrees(row, ledger)
  /\ \A o, p \in Ops : {op[o].stage, op[p].stage} \subseteq {"keys", "write"} => o = p
  /\ \A o \in Ops : op[o].stage = "keys" => op[o].entity = row /\ row.state = "live"
  /\ \A o \in Ops : op[o].stage = "write" =>
       row.state = "live" /\ Agrees(op[o].entity, Atomic(o, ledger))

Inv ==
  /\ TypeOK
  /\ \A o \in Ops : CarriesSense(o)
  /\ Explained(row.envs)
  /\ KeysNeedCause
  /\ alone => OneWriter

(* An operation reads the row, gets its keys or fails to: what it carries  *)
(* then, w, makes sense.                                                   *)
MovesOn(o, w) ==
  /\ w \in Operation /\ op' = [op EXCEPT ![o] = w]
  /\ op[o].stage \in {"idle", "keys"} /\ w.stage # "idle"
  /\ w.add = op[o].add \/ op[o].stage = "idle"
  /\ w.stage = "keys" => w.kind = "create"
  /\ w.stage = "write" => w.kind \in {"create", "update", "updateEnvs"}
  /\ w.stage \in {"keys", "write"} => w.entity.state = "live"
  /\ w.stage = "write" /\ w.kind = "create" => w.entity.keys
  /\ op[o].stage = "keys" => w.stage = "failed" \/ (w.kind = "create" /\ w.stage = "write")
  /\ \A e \in EnvIds : w.entity.envs[e] > 1 =>
       w.add[e] >= w.entity.envs[e] \/ \E p \in Ops : op[p].add[e] >= w.entity.envs[e]

(* The row stays meanwhile, or appears with nothing in it.                 *)
RowStays(w) ==
  /\ row' \in RowOf(Lists) /\ ledger' \in RowOf(SUBSET EnvIds) /\ alone' \in BOOLEAN /\ found' \in BOOLEAN
  /\ row'.envs = row.envs
  /\ row' = row \/ w.stage = "keys"

LEMMA OperationMoves ==
  ASSUME Inv, NEW o \in Ops, NEW w, MovesOn(o, w), RowStays(w)
  PROVE  /\ TypeOK' /\ (\A p \in Ops : CarriesSense(p)') /\ Explained(row.envs)' /\ KeysNeedCause'
         /\ op'[o] = w /\ \A p \in Ops \ {o} : op'[p] = op[p]
<1> USE DEF MovesOn, RowStays
<1>1. op'[o] = w /\ \A p \in Ops \ {o} : op'[p] = op[p]
  BY DEF Inv, TypeOK
<1>2. TypeOK'
  BY DEF Inv, TypeOK
<1>3. ASSUME NEW envs \in Lists, Explained(envs)
      PROVE  Explained(envs)'
  <2>1. ASSUME NEW e \in EnvIds, envs[e] > 1, NEW p \in Ops, op[p].add[e] >= envs[e]
        PROVE  op'[p].add[e] >= envs[e]
    <3>1. CASE op[p].stage = "idle"
      <4>1. op[p].add[e] = 0
        BY <3>1 DEF Inv, CarriesSense, Empty
      <4> QED
        BY <2>1, <4>1, <1>3 DEF Lists
    <3>2. CASE op[p].stage # "idle"
      BY <1>1, <2>1, <3>2
    <3> QED
      BY <3>1, <3>2
  <2> QED
    BY <1>3, <2>1 DEF Explained
<1>4. row.envs \in Lists /\ \A p \in Ops : op[p].entity.envs \in Lists
  BY DEF Inv, TypeOK, Operation, RowOf
<1>5. Explained(row.envs)'
  BY <1>3, <1>4 DEF Inv, Explained
<1>6. ASSUME NEW p \in Ops
      PROVE  CarriesSense(p)'
  <2>1. CASE p = o
    <3>1. Explained(w.entity.envs)'
      <4>1. ASSUME NEW e \in EnvIds, w.entity.envs[e] > 1
            PROVE  \E q \in Ops : op'[q].add[e] >= w.entity.envs[e]
        <5>1. CASE w.add[e] >= w.entity.envs[e]
          BY <1>1, <5>1
        <5>2. ASSUME NEW q \in Ops, op[q].add[e] >= w.entity.envs[e]
              PROVE  op'[q].add[e] >= w.entity.envs[e]
          <6>1. CASE op[q].stage = "idle"
            <7>1. op[q].add[e] = 0
              BY <6>1 DEF Inv, CarriesSense, Empty
            <7>2. w.entity.envs[e] \in Nat
              BY DEF Operation, RowOf, Lists
            <7> QED
              BY <4>1, <5>2, <7>1, <7>2
          <6>2. CASE op[q].stage # "idle"
            BY <1>1, <5>2, <6>2
          <6> QED
            BY <6>1, <6>2
        <5> QED
          BY <4>1, <5>1, <5>2
      <4> QED
        BY <4>1 DEF Explained
    <3> QED
      BY <1>1, <2>1, <3>1 DEF CarriesSense, Explained
  <2>2. CASE p # o
    <3>1. Explained(op[p].entity.envs)'
      BY <1>1, <1>3, <1>4, <2>2 DEF Inv, CarriesSense, Explained
    <3> QED
      BY <1>1, <2>2, <3>1 DEF Inv, CarriesSense, Explained
  <2> QED
    BY <2>1, <2>2
<1>7. KeysNeedCause'
  BY <1>1 DEF Inv, KeysNeedCause, CarriesSense
<1> QED
  BY <1>1, <1>2, <1>5, <1>6, <1>7

(* create, from its first save to its keys or its failure.                 *)
LEMMA CreateKeepsInv ==
  ASSUME Inv, NEW o \in Ops, CreateSaves(o) \/ CreateFails(o) \/ CreateGetsKeys(o)
  PROVE  Inv'
<1>1. /\ row \in RowOf(Lists) /\ ledger \in RowOf(SUBSET EnvIds) /\ alone \in BOOLEAN /\ found \in BOOLEAN
      /\ op \in [Ops -> Operation] /\ op[o] \in Operation /\ CarriesSense(o)
      /\ Explained(row.envs)
  BY DEF Inv, TypeOK
<1>2. CASE CreateSaves(o)
  <2> DEFINE w == [op[o] EXCEPT !.kind = "create", !.stage = "keys", !.entity = row']
  <2>1. /\ row' = [row EXCEPT !.state = "live"] /\ ledger' = [ledger EXCEPT !.state = "live"]
        /\ op[o].stage = "idle"
        /\ alone' \in BOOLEAN /\ found' \in BOOLEAN /\ (alone' => alone /\ ~Busy)
    BY <1>1, <1>2 DEF CreateSaves, Exclusive
  <2>2. /\ row' \in RowOf(Lists) /\ row'.envs = row.envs /\ row'.state = "live"
        /\ ledger' \in RowOf(SUBSET EnvIds)
    BY <1>1, <2>1 DEF RowOf
  <2>3. w \in Operation /\ op' = [op EXCEPT ![o] = w]
    BY <1>1, <1>2, <2>2 DEF CreateSaves, Operation
  <2>4. w.kind = "create" /\ w.stage = "keys" /\ w.entity = row' /\ w.add = op[o].add
    BY <1>1 DEF Operation
  <2> HIDE DEF w
  <2>5. /\ TypeOK' /\ (\A p \in Ops : CarriesSense(p)') /\ Explained(row.envs)' /\ KeysNeedCause'
        /\ op'[o] = w /\ \A p \in Ops \ {o} : op'[p] = op[p]
    <3>1. MovesOn(o, w)
      BY <1>1, <2>1, <2>2, <2>3, <2>4 DEF MovesOn, Explained
    <3>2. RowStays(w)
      BY <2>1, <2>2, <2>4 DEF RowStays
    <3> QED
      BY <3>1, <3>2, OperationMoves
  <2>6. ASSUME alone'
        PROVE  OneWriter'
    <3>1. Agrees(row, ledger) /\ \A p \in Ops : op[p].stage \notin {"keys", "write"}
      BY <2>1, <2>6 DEF Inv, OneWriter, Busy
    <3>2. Agrees(row, ledger)'
      BY <1>1, <2>1, <3>1 DEF Agrees, RowOf
    <3> QED
      BY <2>2, <2>4, <2>5, <3>1, <3>2 DEF OneWriter
  <2> QED
    BY <2>5, <2>6 DEF Inv
<1>3. CASE CreateFails(o)
  <2> DEFINE w == [op[o] EXCEPT !.stage = "failed"]
  <2>1. op[o].stage = "keys" /\ UNCHANGED <<row, found, alone, ledger>>
    BY <1>3 DEF CreateFails
  <2>2. w \in Operation /\ op' = [op EXCEPT ![o] = w]
    BY <1>1, <1>3 DEF CreateFails, Operation
  <2>3. w.stage = "failed" /\ w.add = op[o].add /\ w.entity = op[o].entity
    BY <1>1 DEF Operation
  <2> HIDE DEF w
  <2>4. /\ TypeOK' /\ (\A p \in Ops : CarriesSense(p)') /\ Explained(row.envs)' /\ KeysNeedCause'
        /\ op'[o] = w /\ \A p \in Ops \ {o} : op'[p] = op[p]
    <3>0. \A e \in EnvIds : w.entity.envs[e] > 1 =>
            \E p \in Ops : op[p].add[e] >= w.entity.envs[e]
      BY <1>1, <2>3 DEF CarriesSense, Explained
    <3>1. MovesOn(o, w)
      BY <2>1, <2>2, <2>3, <3>0 DEF MovesOn
    <3>2. RowStays(w)
      BY <1>1, <2>1 DEF RowStays
    <3> QED
      BY <3>1, <3>2, OperationMoves
  <2>5. ASSUME alone'
        PROVE  OneWriter'
    <3>1. Agrees(row, ledger) /\ \A p \in Ops \ {o} : op[p].stage \notin {"keys", "write"}
      BY <2>1, <2>5 DEF Inv, OneWriter
    <3> QED
      BY <2>1, <2>3, <2>4, <3>1 DEF OneWriter, Agrees, Listed
  <2> QED
    BY <2>4, <2>5 DEF Inv
<1>4. CASE CreateGetsKeys(o)
  <2> DEFINE w == [op[o] EXCEPT !.stage = "write", !.entity.keys = TRUE]
  <2>1. op[o].stage = "keys" /\ UNCHANGED <<row, found, alone, ledger>>
    BY <1>4 DEF CreateGetsKeys
  <2>2. w \in Operation /\ op' = [op EXCEPT ![o] = w]
    BY <1>1, <1>4 DEF CreateGetsKeys, Operation, RowOf
  <2>3. /\ w.stage = "write" /\ w.kind = op[o].kind /\ w.add = op[o].add
        /\ w.entity = [op[o].entity EXCEPT !.keys = TRUE]
    BY <1>1 DEF Operation
  <2>4. /\ w.entity.keys /\ w.entity.state = op[o].entity.state
        /\ w.entity.settings = op[o].entity.settings /\ w.entity.envs = op[o].entity.envs
        /\ w.entity.connected = op[o].entity.connected
    BY <1>1, <2>3 DEF Operation, RowOf
  <2> HIDE DEF w
  <2>5. /\ TypeOK' /\ (\A p \in Ops : CarriesSense(p)') /\ Explained(row.envs)' /\ KeysNeedCause'
        /\ op'[o] = w /\ \A p \in Ops \ {o} : op'[p] = op[p]
    <3>1. MovesOn(o, w)
      BY <1>1, <2>1, <2>2, <2>3, <2>4 DEF MovesOn, CarriesSense, Explained
    <3>2. RowStays(w)
      BY <1>1, <2>1 DEF RowStays
    <3> QED
      BY <3>1, <3>2, OperationMoves
  <2>6. ASSUME alone'
        PROVE  OneWriter'
    <3>1. /\ Agrees(row, ledger) /\ op[o].entity = row /\ row.state = "live"
          /\ \A p \in Ops \ {o} : op[p].stage \notin {"keys", "write"}
      BY <2>1, <2>6 DEF Inv, OneWriter
    <3>2. Atomic(o, ledger)' = [ledger EXCEPT !.keys = TRUE]
      BY <1>1, <2>1, <2>3, <2>5, <3>1 DEF Atomic, Agrees, CarriesSense
    <3>3. Agrees(w.entity, [ledger EXCEPT !.keys = TRUE])
      BY <1>1, <2>4, <3>1 DEF Agrees, RowOf
    <3>4. Agrees(op[o].entity, Atomic(o, ledger))'
      BY <2>5, <3>2, <3>3 DEF Agrees, Listed
    <3> QED
      BY <2>1, <2>3, <2>5, <3>1, <3>4 DEF OneWriter, Agrees, Listed
  <2> QED
    BY <2>5, <2>6 DEF Inv
<1> QED
  BY <1>2, <1>3, <1>4

(* update and updateEnvs, up to the entity they are about to write.        *)
LEMMA ReadsKeepInv ==
  ASSUME Inv, NEW o \in Ops, UpdateReads(o) \/ UpdateEnvsReads(o)
  PROVE  Inv'
<1>1. /\ row \in RowOf(Lists) /\ ledger \in RowOf(SUBSET EnvIds) /\ alone \in BOOLEAN /\ found \in BOOLEAN
      /\ op \in [Ops -> Operation] /\ op[o] \in Operation /\ CarriesSense(o)
      /\ Explained(row.envs)
  BY DEF Inv, TypeOK
<1>2. /\ op[o].stage = "idle" /\ op[o].add = Empty /\ row.state = "live"
      /\ UNCHANGED <<row, ledger>>
      /\ alone' \in BOOLEAN /\ found' \in BOOLEAN /\ (alone' => alone /\ ~Busy)
  BY <1>1 DEF UpdateReads, UpdateEnvsReads, Exclusive, CarriesSense
<1>3. ASSUME NEW w, w \in Operation, op' = [op EXCEPT ![o] = w],
             w.stage = "write", w.kind \in {"update", "updateEnvs"}, w.entity.state = "live",
             \A e \in EnvIds : w.entity.envs[e] > 1 =>
               w.add[e] >= w.entity.envs[e] \/ \E p \in Ops : op[p].add[e] >= w.entity.envs[e],
             alone' => Agrees(w.entity, Atomic(o, ledger)')
      PROVE  Inv'
  <2>1. /\ TypeOK' /\ (\A p \in Ops : CarriesSense(p)') /\ Explained(row.envs)' /\ KeysNeedCause'
        /\ op'[o] = w /\ \A p \in Ops \ {o} : op'[p] = op[p]
    <3>1. MovesOn(o, w)
      BY <1>2, <1>3 DEF MovesOn
    <3>2. RowStays(w)
      BY <1>1, <1>2 DEF RowStays
    <3> QED
      BY <3>1, <3>2, OperationMoves
  <2>2. ASSUME alone'
        PROVE  OneWriter'
    <3>1. Agrees(row, ledger) /\ \A p \in Ops : op[p].stage \notin {"keys", "write"}
      BY <1>2, <2>2 DEF Inv, OneWriter, Busy
    <3>2. Agrees(row, ledger)'
      BY <1>2, <3>1 DEF Agrees, Listed
    <3>3. Agrees(op[o].entity, Atomic(o, ledger))'
      BY <1>3, <2>1, <2>2 DEF Agrees, Listed
    <3> QED
      BY <1>2, <1>3, <2>1, <3>1, <3>2, <3>3 DEF OneWriter
  <2> QED
    BY <2>1, <2>2 DEF Inv
<1>4. CASE UpdateReads(o)
  <2> DEFINE w == [op[o] EXCEPT !.kind = "update", !.stage = "write",
                                !.entity = [row EXCEPT !.settings = o]]
  <2>1. w \in Operation /\ op' = [op EXCEPT ![o] = w]
    BY <1>1, <1>4 DEF UpdateReads, Operation, RowOf
  <2>2. /\ w.stage = "write" /\ w.kind = "update"
        /\ w.entity.state = row.state /\ w.entity.envs = row.envs /\ w.entity.keys = row.keys
        /\ w.entity.settings = o /\ w.entity.connected = row.connected
    BY <1>1 DEF Operation, RowOf
  <2> HIDE DEF w
  <2>3. ASSUME alone'
        PROVE  Agrees(w.entity, Atomic(o, ledger)')
    <3>1. Agrees(row, ledger)
      BY <1>2, <2>3 DEF Inv, OneWriter
    <3>2. op'[o].kind = "update"
      BY <1>1, <2>1, <2>2
    <3>3. Atomic(o, ledger)' = [ledger EXCEPT !.settings = o]
      BY <1>2, <3>1, <3>2 DEF Agrees, Atomic
    <3>4. Agrees(w.entity, [ledger EXCEPT !.settings = o])
      BY <1>1, <2>2, <3>1 DEF Agrees, RowOf
    <3> QED
      BY <3>3, <3>4
  <2>4. \A e \in EnvIds : w.entity.envs[e] > 1 => \E p \in Ops : op[p].add[e] >= w.entity.envs[e]
    BY <1>1, <2>2 DEF Explained
  <2> QED
    BY <1>2, <1>3, <2>1, <2>2, <2>3, <2>4
<1>5. CASE UpdateEnvsReads(o)
  <2>1. PICK add \in Additions, rem \in SUBSET EnvIds :
          op' = [op EXCEPT ![o].kind = "updateEnvs", ![o].stage = "write",
                           ![o].entity = [row EXCEPT !.envs = UpdatedEnvs(row.envs, add, rem)],
                           ![o].add = add, ![o].rem = rem]
    BY <1>5 DEF UpdateEnvsReads
  <2> DEFINE envs == UpdatedEnvs(row.envs, add, rem)
             w == [op[o] EXCEPT !.kind = "updateEnvs", !.stage = "write",
                                !.entity = [row EXCEPT !.envs = envs], !.add = add, !.rem = rem]
  <2>2. row.envs \in Lists
    BY <1>1 DEF RowOf
  <2>3. /\ envs \in Lists
        /\ Listed(envs) = (Listed(row.envs) \ rem) \cup (Listed(add) \ Listed(row.envs))
    BY <2>1, <2>2, ListArithmetic
  <2>4. \A e \in EnvIds : envs[e] > 1 =>
          add[e] >= envs[e] \/ \E p \in Ops : op[p].add[e] >= envs[e]
    BY <1>1, <2>2, NamedAssumption DEF UpdatedEnvs, Explained, Lists, Additions
  <2> HIDE DEF envs
  <2>5. w \in Operation /\ op' = [op EXCEPT ![o] = w]
    BY <1>1, <2>1, <2>3 DEF Operation, RowOf, envs
  <2>6. /\ w.stage = "write" /\ w.kind = "updateEnvs" /\ w.add = add /\ w.rem = rem
        /\ w.entity.state = row.state /\ w.entity.envs = envs /\ w.entity.keys = row.keys
        /\ w.entity.settings = row.settings /\ w.entity.connected = row.connected
    BY <1>1 DEF Operation, RowOf
  <2> HIDE DEF w
  <2>7. ASSUME alone'
        PROVE  Agrees(w.entity, Atomic(o, ledger)')
    <3>1. Agrees(row, ledger)
      BY <1>2, <2>7 DEF Inv, OneWriter
    <3>2. op'[o] = w
      BY <1>1, <2>5
    <3>3. Atomic(o, ledger)' = [ledger EXCEPT !.envs = (@ \ rem) \cup (Listed(add) \ @)]
      BY <1>2, <2>6, <3>1, <3>2 DEF Agrees, Atomic, Listed
    <3>4. Agrees(w.entity, [ledger EXCEPT !.envs = (@ \ rem) \cup (Listed(add) \ @)])
      BY <1>1, <2>3, <2>6, <3>1 DEF Agrees, RowOf
    <3> QED
      BY <3>3, <3>4
  <2> QED
    BY <1>2, <1>3, <2>4, <2>5, <2>6, <2>7
<1> QED
  BY <1>4, <1>5

(* The write of all columns.                                               *)
LEMMA WriteKeepsInv ==
  ASSUME Inv, NEW o \in Ops, WriteRow(o)
  PROVE  Inv'
<1>1. /\ row \in RowOf(Lists) /\ ledger \in RowOf(SUBSET EnvIds) /\ alone \in BOOLEAN /\ found \in BOOLEAN
      /\ op \in [Ops -> Operation] /\ op[o] \in Operation /\ CarriesSense(o)
      /\ Explained(row.envs)
  BY DEF Inv, TypeOK
<1>2. /\ op[o].stage = "write" /\ op' = [op EXCEPT ![o].stage = "done"]
      /\ row' = (IF row.state = "gone" THEN row ELSE op[o].entity)
      /\ ledger' = Atomic(o, ledger) /\ UNCHANGED <<found, alone>>
  BY DEF WriteRow
<1>3. /\ op'[o].stage = "done" /\ \A p \in Ops \ {o} : op'[p] = op[p]
      /\ \A p \in Ops : /\ op'[p].kind = op[p].kind /\ op'[p].add = op[p].add
                        /\ op'[p].entity = op[p].entity
  BY <1>1, <1>2 DEF Operation
<1>4. Atomic(o, ledger) \in RowOf(SUBSET EnvIds)
  <2>1. op[o].kind \in {"create", "update", "updateEnvs"} /\ op[o].rem \in SUBSET EnvIds
    BY <1>1, <1>2 DEF CarriesSense, Operation
  <2> QED
    BY <1>1, <2>1 DEF Atomic, RowOf, Listed
<1>5. TypeOK'
  <2>1. op' \in [Ops -> Operation]
    BY <1>1, <1>2 DEF Operation
  <2>2. row' \in RowOf(Lists)
    BY <1>1, <1>2 DEF Operation
  <2> QED
    BY <1>1, <1>2, <1>4, <2>1, <2>2 DEF TypeOK
<1>6. ASSUME NEW envs, Explained(envs)
      PROVE  \A e \in EnvIds : envs[e] > 1 => \E p \in Ops : op'[p].add[e] >= envs[e]
  BY <1>3, <1>6 DEF Explained
<1>7. Explained(row.envs)'
  <2>1. Explained(row'.envs)
    BY <1>1, <1>2 DEF CarriesSense
  <2> QED
    BY <1>6, <2>1 DEF Explained
<1>8. ASSUME NEW p \in Ops
      PROVE  CarriesSense(p)'
  <2>1. CarriesSense(p)
    BY DEF Inv
  <2>2. \A e \in EnvIds : op[p].entity.envs[e] > 1 =>
          \E q \in Ops : op'[q].add[e] >= op[p].entity.envs[e]
    BY <1>6, <2>1 DEF CarriesSense
  <2>3. Explained(op[p].entity.envs)'
    BY <1>3, <2>2 DEF Explained
  <2> QED
    BY <1>3, <2>1, <2>3 DEF CarriesSense
<1>9. KeysNeedCause'
  <2> SUFFICES ASSUME row'.state = "live", ~row'.keys
               PROVE  \E p \in Ops : op'[p].kind # "create" /\ op'[p].stage = "done" /\ ~op'[p].entity.keys
    BY DEF KeysNeedCause
  <2> QED
    BY <1>1, <1>2, <1>3 DEF CarriesSense
<1>10. ASSUME alone'
       PROVE  OneWriter'
  <2>1. /\ row.state = "live" /\ Agrees(op[o].entity, Atomic(o, ledger))
        /\ \A p \in Ops \ {o} : op[p].stage \notin {"keys", "write"}
    BY <1>2, <1>10 DEF Inv, OneWriter
  <2>2. Agrees(row, ledger)'
    BY <1>2, <2>1 DEF Agrees, Listed
  <2> QED
    BY <1>3, <2>1, <2>2 DEF OneWriter
<1> QED
  BY <1>5, <1>7, <1>8, <1>9, <1>10 DEF Inv

(* The connected column and the two deletions, of which delete finds the   *)
(* row before.                                                             *)
LEMMA OthersKeepInv ==
  ASSUME Inv, (\E b \in BOOLEAN : SetConnected(b)) \/ softDelete \/ DeleteFinds \/ delete
  PROVE  Inv'
<1>1. /\ row \in RowOf(Lists) /\ ledger \in RowOf(SUBSET EnvIds) /\ alone \in BOOLEAN /\ found \in BOOLEAN
  BY DEF Inv, TypeOK
<1>2. op' = op /\ alone' \in BOOLEAN /\ found' \in BOOLEAN /\ (alone' => alone)
  <2>1. CASE (\E b \in BOOLEAN : SetConnected(b)) \/ softDelete
    BY <1>1, <2>1 DEF SetConnected, softDelete, Exclusive
  <2>2. CASE DeleteFinds
    BY <1>1, <2>2 DEF DeleteFinds
  <2>3. CASE delete
    BY <1>1, <2>3 DEF delete
  <2> QED
    BY <2>1, <2>2, <2>3
<1>3. /\ row' \in RowOf(Lists) /\ ledger' \in RowOf(SUBSET EnvIds)
      /\ row'.envs = row.envs /\ row'.keys = row.keys
      /\ row'.state = "live" => row.state = "live"
      /\ Agrees(row, ledger) => Agrees(row', ledger')
  <2>1. CASE (\E b \in BOOLEAN : SetConnected(b)) \/ softDelete
    BY <1>1, <2>1 DEF SetConnected, softDelete, RowOf, Agrees
  <2>2. CASE DeleteFinds
    BY <1>1, <2>2 DEF DeleteFinds
  <2>3. CASE delete
    BY <1>1, <2>3 DEF delete, Removed, RowOf, Agrees
  <2> QED
    BY <2>1, <2>2, <2>3
<1>4. /\ TypeOK' /\ (\A p \in Ops : CarriesSense(p)') /\ Explained(row.envs)'
  BY <1>2, <1>3 DEF Inv, TypeOK, CarriesSense, Explained
<1>5. KeysNeedCause'
  BY <1>2, <1>3 DEF Inv, KeysNeedCause
<1>6. ASSUME alone'
      PROVE  OneWriter'
  <2>1. OneWriter
    BY <1>2, <1>6 DEF Inv
  <2>2. CASE UNCHANGED <<row, ledger>>
    <3>1. \A o \in Ops : Atomic(o, ledger)' = Atomic(o, ledger)
      BY <1>2, <2>2 DEF Atomic, Listed
    <3> QED
      BY <1>2, <2>1, <2>2, <3>1 DEF OneWriter, Agrees, Listed
  <2>3. CASE ~Busy
    <3>1. Agrees(row, ledger)'
      BY <1>3, <2>1 DEF OneWriter, Agrees, Listed
    <3> QED
      BY <1>2, <2>3, <3>1 DEF OneWriter, Busy
  <2>4. UNCHANGED <<row, ledger>> \/ ~Busy
    BY <1>6 DEF SetConnected, softDelete, DeleteFinds, delete, Exclusive
  <2> QED
    BY <2>2, <2>3, <2>4
<1> QED
  BY <1>4, <1>5, <1>6 DEF Inv

LEMMA InitHasInv == Init => Inv
<1> SUFFICES ASSUME Init
             PROVE  Inv
  OBVIOUS
<1>1. /\ row = Blank(Empty) /\ ledger = Blank({}) /\ found = FALSE /\ alone = TRUE
      /\ op = [o \in Ops |-> [kind |-> None, stage |-> "idle", entity |-> Blank(Empty),
                              add |-> Empty, rem |-> {}]]
  BY DEF Init
<1>2. Empty \in Lists /\ Empty \in Additions /\ Listed(Empty) = {} /\ \A e \in EnvIds : Empty[e] = 0
  BY NamedAssumption DEF Empty, Lists, Additions, Listed
<1>3. /\ Blank(Empty) \in RowOf(Lists) /\ Blank({}) \in RowOf(SUBSET EnvIds)
      /\ Blank(Empty).envs = Empty /\ Blank(Empty).state = "none"
  BY <1>2 DEF Blank, RowOf
<1>4. TypeOK
  BY <1>1, <1>2, <1>3 DEF TypeOK, Operation
<1>5. \A o \in Ops : op[o].stage = "idle" /\ op[o].add = Empty /\ op[o].entity = Blank(Empty)
  BY <1>1
<1>6. Explained(Empty)
  BY <1>2 DEF Explained
<1>7. \A o \in Ops : CarriesSense(o)
  BY <1>3, <1>5, <1>6 DEF CarriesSense
<1>8. OneWriter
  <2>1. Agrees(row, ledger)
    BY <1>1, <1>2 DEF Agrees, Blank
  <2> QED
    BY <1>5, <2>1 DEF OneWriter
<1> QED
  BY <1>1, <1>3, <1>4, <1>6, <1>7, <1>8 DEF Inv, KeysNeedCause

LEMMA NextKeepsInv == Inv /\ [Next]_vars => Inv'
<1> SUFFICES ASSUME Inv, [Next]_vars
             PROVE  Inv'
  OBVIOUS
<1>1. ASSUME NEW o \in Ops, CreateSaves(o) \/ CreateFails(o) \/ CreateGetsKeys(o)
      PROVE  Inv'
  BY <1>1, CreateKeepsInv
<1>2. ASSUME NEW o \in Ops, UpdateReads(o) \/ UpdateEnvsReads(o)
      PROVE  Inv'
  BY <1>2, ReadsKeepInv
<1>3. ASSUME NEW o \in Ops, WriteRow(o)
      PROVE  Inv'
  BY <1>3, WriteKeepsInv
<1>4. CASE (\E b \in BOOLEAN : SetConnected(b)) \/ softDelete \/ DeleteFinds \/ delete
  BY <1>4, OthersKeepInv
<1>5. CASE UNCHANGED vars
  <2>1. row' = row /\ op' = op /\ found' = found /\ alone' = alone /\ ledger' = ledger
    BY <1>5 DEF vars
  <2>2. TypeOK' /\ Explained(row.envs)' /\ KeysNeedCause' /\ \A p \in Ops : CarriesSense(p)'
    BY <2>1 DEF Inv, TypeOK, Explained, KeysNeedCause, CarriesSense
  <2>3. \A o \in Ops : Atomic(o, ledger)' = Atomic(o, ledger)
    BY <2>1 DEF Atomic, Listed
  <2>4. OneWriter => OneWriter'
    BY <2>1, <2>3 DEF OneWriter, Agrees, Listed
  <2> QED
    BY <2>1, <2>2, <2>4 DEF Inv
<1> QED
  BY <1>1, <1>2, <1>3, <1>4, <1>5 DEF Next

----
(* Theorems *)

(* Every state the handlers reach, one step at a time and however they     *)
(* overlap, satisfies Inv: what an operation carries was read from a       *)
(* visible row, and while writers have not overlapped there is one of them *)
(* and it knows the row as it is.                                          *)
THEOREM RecordsInvariant == Spec => []Inv
<1> QED
  BY InitHasInv, NextKeepsInv, PTL DEF Spec

(* The row, the operations and the ledger have their types: an operation   *)
(* never writes a column that the entity did not have.                     *)
THEOREM RecordsTypeCorrect == Spec => []TypeOK
<1>1. Inv => TypeOK
  BY DEF Inv
<1> QED
  BY <1>1, RecordsInvariant, PTL

(* As long as no two writers have overlapped, the read, change and write   *)
(* of all columns in update and updateEnvs, and the delayed update of      *)
(* create, leave the row that atomic operations would have left.           *)
THEOREM RecordsAloneIsAtomic == Spec => []AloneIsAtomic
<1>1. Inv => AloneIsAtomic
  <2> SUFFICES ASSUME Inv, alone
               PROVE  [row EXCEPT !.envs = Listed(row.envs)] = ledger
    BY DEF AloneIsAtomic
  <2>1. row \in RowOf(Lists) /\ ledger \in RowOf(SUBSET EnvIds) /\ Agrees(row, ledger)
    BY DEF Inv, TypeOK, OneWriter
  <2> QED
    BY <2>1 DEF RowOf, Agrees
<1> QED
  BY <1>1, RecordsInvariant, PTL

(* Whatever overlaps, updateEnvs never adds an environment to a list that  *)
(* has it, so an environment is there twice only if one request named it   *)
(* twice.                                                                  *)
THEOREM RecordsNoDuplicateEnvs == Spec => []NoDuplicateEnvs
<1>1. Inv => NoDuplicateEnvs
  BY DEF Inv, Explained, NoDuplicateEnvs
<1> QED
  BY <1>1, RecordsInvariant, PTL

(* A visible row without its keys has a cause that a reader of the code    *)
(* can point at.                                                           *)
THEOREM RecordsKeysNeedCause == Spec => []KeysNeedCause
<1>1. Inv => KeysNeedCause
  BY DEF Inv
<1> QED
  BY <1>1, RecordsInvariant, PTL

(* No handler brings back a row that is gone, and only one that overlapped *)
(* the soft deletion makes a softly deleted row visible again.             *)
THEOREM RecordsDeletionSticks == Spec => DeletionSticks
<1>1. Inv /\ [Next]_vars => [/\ row.state = "gone" => row' = row
                             /\ row.state = "soft" /\ row'.state = "live" => ~alone]_vars
  <2> SUFFICES ASSUME Inv, Next
               PROVE  /\ row.state = "gone" => row' = row
                      /\ row.state = "soft" /\ row'.state = "live" => ~alone
    OBVIOUS
  <2>1. ASSUME NEW o \in Ops,
               CreateSaves(o) \/ CreateFails(o) \/ CreateGetsKeys(o) \/ UpdateReads(o) \/ UpdateEnvsReads(o)
        PROVE  row' = row \/ row.state = "none"
    BY <2>1 DEF CreateSaves, CreateFails, CreateGetsKeys, UpdateReads, UpdateEnvsReads
  <2>2. ASSUME NEW o \in Ops, WriteRow(o)
        PROVE  (row.state = "gone" => row' = row) /\ (alone => row.state = "live")
    BY <2>2 DEF WriteRow, Inv, OneWriter
  <2>3. ASSUME (\E b \in BOOLEAN : SetConnected(b)) \/ softDelete \/ DeleteFinds \/ delete
        PROVE  /\ row.state = "gone" => row' = row
               /\ row.state = "soft" => row'.state # "live"
    BY <2>3 DEF SetConnected, softDelete, DeleteFinds, delete, Removed, Inv, TypeOK, RowOf
  <2> QED
    BY <2>1, <2>2, <2>3 DEF Next
<1> QED
  BY <1>1, RecordsInvariant, PTL DEF Spec, DeletionSticks
====
