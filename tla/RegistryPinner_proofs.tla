------------------------ MODULE RegistryPinner_proofs ------------------------
(***************************************************************************)
(* One RegistryPinner implements the Pins trait, for any number of blobs,  *)
(* contexts and tasks.                                                     *)
(*                                                                         *)
(* Typing and freshness of snapshots are not inductive by themselves: a    *)
(* snapshot stays fresh because whoever is between get and save holds the  *)
(* mutex of its blob, so the inductive invariant says who holds which      *)
(* mutex (LockHeld) and which operations wait for one (Shape).             *)
(***************************************************************************)
EXTENDS RegistryPinner, TLAPS

\* All tasks call one RegistryPinner, over a registry that reports its errors.
Exclusive == (\A p, q \in Pinner : p = q)

\* A task has an operation exactly when it is not idle; reads never lock or
\* save.
Shape ==
    \A t \in Task :
        /\ pc[t] = "idle" <=> req[t] = None
        /\ pc[t] \in {"lock", "save"} => req[t].kind # "get_pinners"

\* A task between lock and unlock holds the mutex of its blob.
LockHeld ==
    \A t \in Task :
        pc[t] \in {"get", "save"} /\ req[t].kind # "get_pinners"
            => lock[LockFor(t)] = t

IInv == TypeOK /\ Shape /\ LockHeld /\ SnapshotFresh

\* The fields of an operation.
LEMMA OpFacts ==
    ASSUME NEW op \in Abs!Op
    PROVE  /\ op # None /\ op.blob \in Blob /\ op.context \in Context
           /\ op.kind \in {"pin_hash", "unpin_hash", "unpin_hash_all",
                           "get_pinners"}
  BY NoneAssumption DEF NoneAssumption, Abs!Op

\* An operation maps pin sets to pin sets and has an answer.
LEMMA EffectType ==
    ASSUME NEW op \in Abs!Op, NEW s \in SUBSET Context
    PROVE  Abs!Effect(op, s) \in SUBSET Context /\ Abs!Reply(op, s) \in Abs!Answer
  <1>1. op.context \in Context
        /\ op.kind \in {"pin_hash", "unpin_hash", "unpin_hash_all", "get_pinners"}
    BY OpFacts
  <1>2. Abs!Effect(op, s) \in SUBSET Context
    BY <1>1 DEF Abs!Effect
  <1>3. CASE op.kind = "unpin_hash"
    BY <1>2, <1>3 DEF Abs!Reply, Abs!Answer
  <1>4. CASE op.kind = "get_pinners"
    BY <1>2, <1>4 DEF Abs!Reply, Abs!Answer
  <1>5. CASE op.kind \notin {"unpin_hash", "get_pinners"}
    BY <1>2, <1>5 DEF Abs!Reply, Abs!Answer, Abs!Ok
  <1> QED
    BY <1>2, <1>3, <1>4, <1>5

\* The mutex of a task that has an operation is one of the mutexes.
LEMMA LockForType ==
    ASSUME TypeOK, NEW t \in Task, req[t] # None
    PROVE  req[t] \in Abs!Op /\ req[t].blob \in Blob /\ LockFor(t) \in LockId
  <1>1. req[t] \in Abs!Op /\ req[t].blob \in Blob
    BY OpFacts DEF TypeOK
  <1> QED
    BY <1>1, PinnerAssumption DEF PinnerAssumption, LockFor, LockId

\* get_internal returns a pin set and a revision.
LEMMA StoredType ==
    ASSUME TypeOK, NEW b \in Blob
    PROVE  Stored(b) \in Snapshot
  <1>1. CASE row[b] = None
    BY <1>1 DEF Stored, Snapshot
  <1>2. CASE row[b] # None
    <2>1. row[b] \in Row
      BY <1>2 DEF TypeOK
    <2> QED
      BY <1>2, <2>1 DEF Stored, Snapshot, Row
  <1> QED
    BY <1>1, <1>2

\* The message save_internal builds is a row, of the blob it is for.
LEMMA NewRowType ==
    ASSUME TypeOK, NEW t \in Task, req[t] # None
    PROVE  /\ NewRow(t) \in Row
           /\ NewRow(t).data = Abs!Effect(req[t], snap[t].pinners)
           /\ NewRow(t).revision = snap[t].revision + 1
  <1>1. req[t] \in Abs!Op /\ req[t].blob \in Blob
    BY LockForType
  <1>2. snap[t].pinners \in SUBSET Context /\ snap[t].revision \in Nat
    BY DEF TypeOK, Snapshot
  <1>3. Abs!Effect(req[t], snap[t].pinners) \in SUBSET Context
    BY <1>1, <1>2, EffectType
  <1>4. PayloadHash(Abs!Effect(req[t], snap[t].pinners)) \in Nat
    BY <1>3, PinnerAssumption DEF PinnerAssumption
  <1> QED
    BY <1>1, <1>2, <1>3, <1>4 DEF NewRow, Row

LEMMA RowAfterType ==
    ASSUME TypeOK, NEW b \in Blob, NEW n \in Row
    PROVE  RowAfter(n, b) \in Row \cup {None}
  BY DEF RowAfter, TypeOK

\* Two tasks never hold the mutex of one blob: with one RegistryPinner, the
\* mutex of a task depends on its blob only.
LEMMA SameBlobSameLock ==
    ASSUME Exclusive, NEW t \in Task, NEW u \in Task,
           req[t].blob = req[u].blob
    PROVE  LockFor(t) = LockFor(u)
  BY PinnerAssumption DEF PinnerAssumption, Exclusive, LockFor

\* The initial state.
LEMMA InitIInv == Init => IInv
  BY DEF Init, IInv, TypeOK, Shape, LockHeld, SnapshotFresh, Snapshot

\* A task that calls an operation disturbs nobody.
LEMMA CallStep ==
    ASSUME IInv, NEW t \in Task, NEW op \in Abs!Op, Call(t, op)
    PROVE  IInv'
  <1>1. op # None /\ op.kind \in {"pin_hash", "unpin_hash", "unpin_hash_all",
                                  "get_pinners"}
    BY OpFacts
  <1>2. TypeOK'
    BY DEF IInv, TypeOK, Call
  <1>3. Shape'
    BY <1>1 DEF IInv, TypeOK, Shape, Call
  <1>4. \A u \in Task : u # t => LockFor(u)' = LockFor(u) /\ pc'[u] = pc[u]
                                 /\ req'[u] = req[u]
    BY DEF IInv, TypeOK, Call, LockFor
  <1>5. req'[t] = op /\ pc'[t] # "save"
        /\ (pc'[t] = "get" => op.kind = "get_pinners")
    BY DEF IInv, TypeOK, Call
  <1>6. LockHeld'
    BY <1>4, <1>5 DEF IInv, LockHeld, Call
  <1>7. SnapshotFresh'
    BY <1>4, <1>5 DEF IInv, SnapshotFresh, Call, Stored
  <1> QED
    BY <1>2, <1>3, <1>6, <1>7 DEF IInv

\* A task takes a free mutex: no holder loses it.
LEMMA LockStep ==
    ASSUME IInv, NEW t \in Task, Lock(t)
    PROVE  IInv'
  <1>1. pc[t] = "lock" /\ req[t] # None
    BY DEF IInv, Shape, Lock
  <1>2. LockFor(t) \in LockId
    BY <1>1, LockForType DEF IInv
  <1>3. TypeOK'
    BY <1>2 DEF IInv, TypeOK, Lock
  <1>4. Shape'
    BY DEF IInv, TypeOK, Shape, Lock
  <1>5. \A u \in Task : LockFor(u)' = LockFor(u)
    BY DEF Lock, LockFor
  <1>6. \A u \in Task : u # t => pc'[u] = pc[u]
    BY DEF IInv, TypeOK, Lock
  <1>7. lock'[LockFor(t)] = t /\ pc'[t] = "get"
    BY <1>2 DEF IInv, TypeOK, Lock
  <1>8. \A l \in LockId : lock[l] # None => lock'[l] = lock[l]
    BY <1>2 DEF IInv, TypeOK, Lock
  <1>9. \A u \in Task : u # t /\ pc[u] \in {"get", "save"}
                        /\ req[u].kind # "get_pinners"
                           => lock'[LockFor(u)] = u
    <2> SUFFICES ASSUME NEW u \in Task, u # t, pc[u] \in {"get", "save"},
                        req[u].kind # "get_pinners"
                 PROVE  lock'[LockFor(u)] = u
      OBVIOUS
    <2>1. req[u] # None
      BY DEF IInv, Shape
    <2>2. LockFor(u) \in LockId
      BY <2>1, LockForType DEF IInv
    <2>3. lock[LockFor(u)] = u /\ u # None
      BY NoneAssumption DEF IInv, LockHeld, NoneAssumption
    <2> QED
      BY <2>2, <2>3, <1>8
  <1>10. LockHeld'
    BY <1>5, <1>6, <1>7, <1>9 DEF LockHeld, Lock
  <1>11. SnapshotFresh'
    <2> SUFFICES ASSUME NEW u \in Task, pc'[u] = "save"
                 PROVE  snap'[u] = Stored(req[u].blob)' /\ (lock[LockFor(u)])' = u
      BY DEF SnapshotFresh, Lock
    <2>1. u # t /\ pc[u] = "save"
      BY <1>6, <1>7
    <2>2. req[u].kind # "get_pinners"
      BY <2>1 DEF IInv, Shape
    <2> QED
      BY <2>1, <2>2, <1>9, <1>5 DEF IInv, SnapshotFresh, Lock, Stored
  <1> QED
    BY <1>3, <1>4, <1>10, <1>11 DEF IInv

\* What the end of an operation does to the other tasks: nothing, except
\* that the mutexes of the finished one are free.
LEMMA FinishFacts ==
    ASSUME IInv, NEW t \in Task, NEW a \in Abs!Answer, Finish(t, a),
           req[t] # None
    PROVE  /\ pc'[t] = "idle" /\ req'[t] = None
           /\ \A u \in Task : u # t =>
                 /\ pc'[u] = pc[u] /\ req'[u] = req[u] /\ snap'[u] = snap[u]
                 /\ LockFor(u)' = LockFor(u)
           /\ \A l \in LockId, u \in Task : u # t /\ lock[l] = u => lock'[l] = u
           /\ lock' \in [LockId -> Task \cup {None}]
           /\ req' \in [Task -> Abs!Op \cup {None}]
           /\ pc' \in [Task -> {"idle", "lock", "get", "save"}]
           /\ snap' \in [Task -> Snapshot]
           /\ ret' \in [Task -> Abs!Answer \cup {None}]
  BY DEF IInv, TypeOK, Finish, LockFor, Snapshot

\* The end of an operation preserves the invariant as long as no row changes
\* but, possibly, the one of its own blob, whose mutex it then holds.
LEMMA FinishStep ==
    ASSUME Exclusive, IInv, NEW t \in Task, NEW a \in Abs!Answer, Finish(t, a),
           req[t] # None,
           row' \in [Blob -> Row \cup {None}],
           \A b \in Blob : b # req[t].blob => row'[b] = row[b],
           row' # row => lock[LockFor(t)] = t
    PROVE  IInv'
  <1>1. TypeOK'
    BY FinishFacts DEF TypeOK
  <1>2. Shape'
    BY FinishFacts DEF IInv, Shape
  <1>3. ASSUME NEW u \in Task, u # t, pc[u] \in {"get", "save"},
               req[u].kind # "get_pinners"
        PROVE  (lock[LockFor(u)])' = u
    <2>1. req[u] # None
      BY <1>3 DEF IInv, Shape
    <2>2. LockFor(u) \in LockId
      BY <2>1, LockForType DEF IInv
    <2>3. lock[LockFor(u)] = u
      BY <1>3 DEF IInv, LockHeld
    <2> QED
      BY <1>3, <2>2, <2>3, FinishFacts
  <1>4. LockHeld'
    BY <1>3, FinishFacts DEF LockHeld
  <1>5. SnapshotFresh'
    <2> SUFFICES ASSUME NEW u \in Task, pc'[u] = "save"
                 PROVE  snap'[u] = Stored(req[u].blob)' /\ (lock[LockFor(u)])' = u
      BY DEF SnapshotFresh
    <2>1. u # t /\ pc[u] = "save" /\ req'[u] = req[u] /\ snap'[u] = snap[u]
      BY FinishFacts
    <2>2. req[u].kind # "get_pinners" /\ req[u] # None
      BY <2>1 DEF IInv, Shape
    <2>3. req[u].blob \in Blob
      BY <2>2, LockForType DEF IInv
    <2>4. row'[req[u].blob] = row[req[u].blob]
      <3>1. CASE row' = row
        BY <3>1
      <3>2. CASE row' # row
        <4>1. lock[LockFor(t)] = t /\ lock[LockFor(u)] = u
          BY <3>2, <2>1, <2>2 DEF IInv, LockHeld
        <4>2. req[u].blob # req[t].blob
          BY <4>1, <2>1, SameBlobSameLock
        <4> QED
          BY <4>2, <2>3
      <3> QED
        BY <3>1, <3>2
    <2>5. snap[u] = Stored(req[u].blob)
      BY <2>1 DEF IInv, SnapshotFresh
    <2> QED
      BY <2>1, <2>2, <2>4, <2>5, <1>3 DEF Stored
  <1> QED
    BY <1>1, <1>2, <1>4, <1>5 DEF IInv

\* get_internal: the snapshot is fresh when it is taken.
LEMMA GetStep ==
    ASSUME Exclusive, IInv, NEW t \in Task, Get(t)
    PROVE  IInv'
  <1>1. req[t] # None /\ pc[t] = "get"
    BY DEF IInv, Shape, Get
  <1>2. req[t] \in Abs!Op /\ req[t].blob \in Blob
    BY <1>1, LockForType DEF IInv
  <1>3. Stored(req[t].blob) \in Snapshot
    BY <1>2, StoredType DEF IInv
  <1>4. CASE NothingToSave(req[t], Stored(req[t].blob).pinners)
    <2>1. Abs!Reply(req[t], Stored(req[t].blob).pinners) \in Abs!Answer
      BY <1>2, <1>3, EffectType DEF Snapshot
    <2>2. Finish(t, Abs!Reply(req[t], Stored(req[t].blob).pinners)) /\ row' = row
      BY <1>4 DEF Get, Proceed
    <2> QED
      BY <1>1, <2>1, <2>2, FinishStep DEF IInv, TypeOK
  <1>5. CASE ~ NothingToSave(req[t], Stored(req[t].blob).pinners)
    <2>1. /\ snap' = [snap EXCEPT ![t] = Stored(req[t].blob)]
          /\ pc' = [pc EXCEPT ![t] = "save"]
          /\ UNCHANGED <<lock, req, ret, row>>
      BY <1>5 DEF Get, Proceed
    <2>2. req[t].kind # "get_pinners"
      BY <1>5 DEF NothingToSave
    <2>3. TypeOK'
      BY <2>1, <1>3 DEF IInv, TypeOK
    <2>4. Shape'
      BY <2>1, <2>2, <1>1 DEF IInv, TypeOK, Shape
    <2>5. LockHeld'
      BY <2>1, <1>1 DEF IInv, TypeOK, LockHeld, LockFor
    <2>6. SnapshotFresh'
      BY <2>1, <2>2, <1>1 DEF IInv, TypeOK, LockHeld, SnapshotFresh, LockFor, Stored
    <2> QED
      BY <2>3, <2>4, <2>5, <2>6 DEF IInv
  <1> QED
    BY <1>4, <1>5

\* The row written by a task in save_internal.
LEMMA SaveFacts ==
    ASSUME IInv, NEW t \in Task, pc[t] = "save"
    PROVE  /\ req[t] # None /\ req[t].blob \in Blob
           /\ RowAfter(NewRow(t), req[t].blob) \in Row \cup {None}
           /\ Abs!Reply(req[t], snap[t].pinners) \in Abs!Answer
           /\ lock[LockFor(t)] = t
  <1>1. req[t] # None
    BY DEF IInv, Shape
  <1>2. req[t] \in Abs!Op /\ req[t].blob \in Blob
    BY <1>1, LockForType DEF IInv
  <1>3. RowAfter(NewRow(t), req[t].blob) \in Row \cup {None}
    BY <1>1, <1>2, NewRowType, RowAfterType DEF IInv
  <1>4. Abs!Reply(req[t], snap[t].pinners) \in Abs!Answer
    BY <1>2, EffectType DEF IInv, TypeOK, Snapshot
  <1> QED
    BY <1>1, <1>2, <1>3, <1>4 DEF IInv, SnapshotFresh

LEMMA SaveStep ==
    ASSUME Exclusive, IInv, NEW t \in Task, Save(t)
    PROVE  IInv'
  <1>1. pc[t] = "save" /\ Finish(t, Abs!Reply(req[t], snap[t].pinners))
        /\ row' = [row EXCEPT ![req[t].blob] = RowAfter(NewRow(t), req[t].blob)]
    BY DEF Save
  <1>2. row' \in [Blob -> Row \cup {None}]
        /\ \A b \in Blob : b # req[t].blob => row'[b] = row[b]
    BY <1>1, SaveFacts DEF IInv, TypeOK
  <1> QED
    BY <1>1, <1>2, SaveFacts, FinishStep

LEMMA RegistryErrorStep ==
    ASSUME Exclusive, IInv, NEW t \in Task, RegistryError(t)
    PROVE  IInv'
  <1>1. req[t] # None /\ Finish(t, Abs!Err) /\ Abs!Err \in Abs!Answer
    BY DEF IInv, Shape, RegistryError, Abs!Err, Abs!Answer
  <1>2. CASE row' = row
    BY <1>1, <1>2, FinishStep DEF IInv, TypeOK
  <1>3. CASE /\ pc[t] = "save"
             /\ row' = [row EXCEPT ![req[t].blob] = RowAfter(NewRow(t), req[t].blob)]
    <2>1. row' \in [Blob -> Row \cup {None}]
          /\ \A b \in Blob : b # req[t].blob => row'[b] = row[b]
      BY <1>3, SaveFacts DEF IInv, TypeOK
    <2> QED
      BY <1>1, <1>3, <2>1, SaveFacts, FinishStep
  <1> QED
    BY <1>2, <1>3 DEF RegistryError

\* The invariant is inductive.
LEMMA NextIInv ==
    ASSUME Exclusive, IInv, [Next]_vars
    PROVE  IInv'
  <1>1. CASE UNCHANGED vars
    BY <1>1 DEF vars, IInv, TypeOK, Shape, LockHeld, SnapshotFresh, Stored, LockFor
  <1>2. CASE Next
    BY <1>2, CallStep, LockStep, GetStep, SaveStep, RegistryErrorStep DEF Next
  <1> QED
    BY <1>1, <1>2

\* Every state is well typed.
THEOREM TypeCorrect == Exclusive => (Spec => []TypeOK)
  <1> SUFFICES ASSUME Exclusive PROVE Spec => []TypeOK
    OBVIOUS
  <1>1. IInv => TypeOK
    BY DEF IInv
  <1> QED
    BY InitIInv, NextIInv, <1>1, PTL DEF Spec

\* With one RegistryPinner, a task that is about to save holds the blob's
\* mutex and the row has not moved since it was read.
THEOREM SnapshotFreshCorrect == Exclusive => (Spec => []SnapshotFresh)
  <1> SUFFICES ASSUME Exclusive PROVE Spec => []SnapshotFresh
    OBVIOUS
  <1>1. IInv => SnapshotFresh
    BY DEF IInv
  <1> QED
    BY InitIInv, NextIInv, <1>1, PTL DEF Spec
-----------------------------------------------------------------------------
(***************************************************************************)
(* The refinement.                                                         *)
(***************************************************************************)

\* The pin sets that the registry rows stand for.
Bar == [b \in Blob |-> IF row[b] = None THEN {} ELSE row[b].data]

LEMMA BarStored ==
    ASSUME NEW b \in Blob
    PROVE  Stored(b).pinners = Bar[b]
  BY DEF Stored, Bar

\* Under the mutex, the registry never turns the new row away.
LEMMA NewRowWins ==
    ASSUME IInv, NEW t \in Task, pc[t] = "save"
    PROVE  LET r == RowAfter(NewRow(t), req[t].blob) IN
           (IF r = None THEN {} ELSE r.data) = Abs!Effect(req[t], Bar[req[t].blob])
  <1> DEFINE b == req[t].blob
  <1> DEFINE n == NewRow(t)
  <1>1. req[t] # None /\ b \in Blob
    BY SaveFacts
  <1>2. snap[t] = Stored(b)
    BY DEF IInv, SnapshotFresh
  <1>3. n \in Row /\ n.revision = Stored(b).revision + 1
        /\ n.data = Abs!Effect(req[t], Bar[b])
    BY <1>1, <1>2, NewRowType, BarStored DEF IInv
  <1>4. n # None
    BY <1>3, NoneAssumption DEF NoneAssumption
  <1>5. Stored(b).revision \in Nat
    BY <1>1, StoredType DEF IInv, Snapshot
  <1>6. Msg!ShouldStore(n, row[b])
    BY <1>3, <1>5 DEF Msg!ShouldStore, Msg!Greater, Stored
  <1>7. RowAfter(n, b) = IF n.data = {} THEN None ELSE n
    BY <1>6 DEF RowAfter
  <1> QED
    BY <1>3, <1>4, <1>7

LEMMA FinishIsAnswer ==
    ASSUME IInv, NEW t \in Task, NEW a, Finish(t, a)
    PROVE  /\ ret' = [ret EXCEPT ![t] = a]
           /\ req' = [req EXCEPT ![t] = None]
  BY DEF Finish

\* Saving the row changes the pin set of the blob, and no other.
LEMMA SaveEffect ==
    ASSUME IInv, NEW t \in Task, pc[t] = "save",
           row' = [row EXCEPT ![req[t].blob] = RowAfter(NewRow(t), req[t].blob)]
    PROVE  Bar' = [Bar EXCEPT ![req[t].blob] = Abs!Effect(req[t], @)]
  <1>1. req[t].blob \in Blob
    BY SaveFacts
  <1>2. ASSUME NEW b \in Blob, b # req[t].blob PROVE Bar'[b] = Bar[b]
    BY <1>1, <1>2 DEF IInv, TypeOK, Bar
  <1>3. Bar'[req[t].blob] = Abs!Effect(req[t], Bar[req[t].blob])
    <2>1. row'[req[t].blob] = RowAfter(NewRow(t), req[t].blob)
      BY <1>1 DEF IInv, TypeOK
    <2> QED
      BY <1>1, <2>1, NewRowWins DEF Bar
  <1> DEFINE after == [Bar EXCEPT ![req[t].blob] = Abs!Effect(req[t], @)]
  <1>4. Bar = [b \in Blob |-> Bar[b]] /\ Bar' = [b \in Blob |-> Bar'[b]]
    BY DEF Bar
  <1>5. after = [b \in Blob |-> after[b]]
    BY <1>4
  <1>6. ASSUME NEW b \in Blob PROVE Bar'[b] = after[b]
    BY <1>1, <1>2, <1>3, <1>4
  <1> HIDE DEF after
  <1> QED
    BY <1>4, <1>5, <1>6 DEF after

\* Every step of RegistryPinner is a step of PinSet or changes nothing there.
LEMMA StepRefines ==
    ASSUME Exclusive, IInv, [Next]_vars
    PROVE  [Abs!Next]_(Abs!vars)
  <1> USE DEF Bar
  <1>1. CASE UNCHANGED vars
    BY <1>1 DEF vars, Abs!vars
  <1>2. ASSUME NEW t \in Task, NEW op \in Abs!Op, Call(t, op)
        PROVE  Abs!Call(t, op)
    BY <1>2 DEF IInv, Shape, Call, Abs!Call
  <1>3. ASSUME NEW t \in Task, Lock(t) PROVE UNCHANGED Abs!vars
    BY <1>3 DEF Lock, Abs!vars
  <1>4. ASSUME NEW t \in Task, Get(t) PROVE Abs!Perform(t) \/ UNCHANGED Abs!vars
    <2>1. req[t] # None /\ row' = row /\ Bar' = Bar
      BY <1>4 DEF IInv, Shape, Get, Proceed, Finish
    <2>2. req[t] \in Abs!Op /\ req[t].blob \in Blob
      BY <2>1, LockForType DEF IInv
    <2>3. CASE NothingToSave(req[t], Stored(req[t].blob).pinners)
      <3>1. Finish(t, Abs!Reply(req[t], Bar[req[t].blob]))
        BY <1>4, <2>2, <2>3, BarStored DEF Get, Proceed
      <3>2. Abs!Effect(req[t], Bar[req[t].blob]) = Bar[req[t].blob]
        BY <2>2, <2>3, BarStored, OpFacts DEF NothingToSave, Abs!Effect
      <3>3. Bar' = [Bar EXCEPT ![req[t].blob] = Abs!Effect(req[t], @)]
        BY <2>1, <2>2, <3>2
      <3> QED
        BY <2>1, <3>1, <3>3, FinishIsAnswer DEF Abs!Perform
    <2>4. CASE ~ NothingToSave(req[t], Stored(req[t].blob).pinners)
      BY <1>4, <2>1, <2>4 DEF Get, Proceed, Abs!vars
    <2> QED
      BY <2>3, <2>4
  <1>5. ASSUME NEW t \in Task, Save(t) PROVE Abs!Perform(t)
    <2>1. pc[t] = "save" /\ Finish(t, Abs!Reply(req[t], snap[t].pinners))
      BY <1>5 DEF Save
    <2>2. req[t] # None /\ req[t].blob \in Blob
      BY <2>1, SaveFacts
    <2>3. snap[t].pinners = Bar[req[t].blob]
      BY <2>1, <2>2, BarStored DEF IInv, SnapshotFresh
    <2>4. Bar' = [Bar EXCEPT ![req[t].blob] = Abs!Effect(req[t], @)]
      BY <1>5, <2>1, SaveEffect DEF Save
    <2> QED
      BY <2>1, <2>2, <2>3, <2>4, FinishIsAnswer DEF Abs!Perform
  <1>6. ASSUME NEW t \in Task, RegistryError(t) PROVE Abs!Fail(t)
    <2>1. req[t] # None /\ Finish(t, Abs!Err)
      BY <1>6 DEF IInv, Shape, RegistryError
    <2>2. Bar' = Bar \/ Bar' = [Bar EXCEPT ![req[t].blob] = Abs!Effect(req[t], @)]
      BY <1>6, SaveEffect DEF RegistryError
    <2> QED
      BY <2>1, <2>2, FinishIsAnswer DEF Abs!Fail
  <1> QED
    BY <1>1, <1>2, <1>3, <1>4, <1>5, <1>6 DEF Next, Abs!Next

\* One RegistryPinner implements PinSet: for any number of tasks, blobs and
\* contexts, no acknowledged pin or unpin is lost and the orphan verdict of
\* unpin_hash is the one of an atomic pin set.
THEOREM RefinesPinSet == Exclusive => (Spec => ImplementsPinSet)
  <1> SUFFICES ASSUME Exclusive PROVE Spec => ImplementsPinSet
    OBVIOUS
  <1>1. Init => Abs!Init
    BY DEF Init, Abs!Init
  <1>2. IInv /\ [Next]_vars => [Abs!Next]_(Abs!vars)
    BY StepRefines
  <1> QED
    BY InitIInv, NextIInv, <1>1, <1>2, PTL DEF Spec, ImplementsPinSet, Abs!Spec
=============================================================================
