---------------------------- MODULE RegistryPinner ----------------------------
(***************************************************************************)
(* RegistryPinner (s5_core/src/pins/registry_pinner.rs): the Pins trait on *)
(* top of a registry.  The pin set of a blob is the payload of one         *)
(* registry row; every change is get, modify, set with the next revision,  *)
(* under one of 64 mutexes chosen by the first byte of the hash.  Each     *)
(* RegistryPinner has mutexes of its own; several may share a registry     *)
(* (nodes configured with the same remote registry).  Reads take no lock.  *)
(*                                                                         *)
(* A blob is represented by the first byte of its hash, which is all that  *)
(* lock_for_hash looks at.                                                 *)
(***************************************************************************)
EXTENDS Integers

CONSTANTS
    Blob,             \* blob hashes, as their first bytes
    Context,          \* PinContext values
    Task,             \* concurrent callers
    Pinner,           \* RegistryPinner instances on one registry
    PinnerOf(_),      \* the instance a task calls
    PayloadHash(_),   \* the hash of an encoded pin set
    MaxRevision,      \* bound: no pin_hash is called on a row that reached it
    None

ASSUME PinnerAssumption ==
    /\ Blob \subseteq 0..255
    /\ \A t \in Task : PinnerOf(t) \in Pinner
    /\ \A s \in SUBSET Context : PayloadHash(s) \in Nat
    /\ MaxRevision \in Nat

VARIABLES
    row,     \* the registry row of each blob, or None
    lock,    \* the task that holds each mutex, or None
    req,     \* the operation each task has called, or None
    pc,      \* where the task is in it
    snap,    \* what get_internal returned to it: pin set and revision
    ret      \* the answer to its last operation

vars == <<row, lock, req, pc, snap, ret>>

Abs == INSTANCE PinSet WITH
    pins <- [b \in Blob |-> IF row[b] = None THEN {} ELSE row[b].data]

Msg == INSTANCE StreamMessage WITH Key <- Blob, Revision <- Nat, Hash <- Nat

Row == [type : {"Registry"}, key : Blob, revision : Nat, hash : Nat,
        data : SUBSET Context]

ASSUME NoneAssumption ==
    None \notin Task \cup Row \cup Abs!Op \cup Abs!Answer

Snapshot == [pinners : SUBSET Context, revision : Nat]

\* The mutexes that some blob maps to.
LockId == Pinner \X {b % 64 : b \in Blob}

TypeOK ==
    /\ row \in [Blob -> Row \cup {None}]
    /\ lock \in [LockId -> Task \cup {None}]
    /\ req \in [Task -> Abs!Op \cup {None}]
    /\ pc \in [Task -> {"idle", "lock", "get", "save"}]
    /\ snap \in [Task -> Snapshot]
    /\ ret \in [Task -> Abs!Answer \cup {None}]

\* lock_for_hash
LockFor(t) == <<PinnerOf(t), req[t].blob % 64>>

\* get_internal: a missing row reads as the empty set at revision 0.
Stored(b) ==
    IF row[b] = None THEN [pinners |-> {}, revision |-> 0]
    ELSE [pinners |-> row[b].data, revision |-> row[b].revision]

Init ==
    /\ row = [b \in Blob |-> None]
    /\ lock = [l \in LockId |-> None]
    /\ req = [t \in Task |-> None]
    /\ pc = [t \in Task |-> "idle"]
    /\ snap = [t \in Task |-> [pinners |-> {}, revision |-> 0]]
    /\ ret = [t \in Task |-> None]

\* The operation ends with answer a, dropping the mutex guard if it holds it.
Finish(t, a) ==
    /\ ret' = [ret EXCEPT ![t] = a]
    /\ req' = [req EXCEPT ![t] = None]
    /\ pc' = [pc EXCEPT ![t] = "idle"]
    /\ snap' = [snap EXCEPT ![t] = [pinners |-> {}, revision |-> 0]]
    /\ lock' = [l \in DOMAIN lock |-> IF lock[l] = t THEN None ELSE lock[l]]

Call(t, op) ==
    /\ pc[t] = "idle"
    /\ op.kind = "pin_hash" => Stored(op.blob).revision < MaxRevision
    /\ req' = [req EXCEPT ![t] = op]
    /\ ret' = [ret EXCEPT ![t] = None]
    /\ pc' = [pc EXCEPT ![t] = IF op.kind = "get_pinners" THEN "get" ELSE "lock"]
    /\ UNCHANGED <<row, lock, snap>>

\* lock.lock().await
Lock(t) ==
    /\ pc[t] = "lock"
    /\ lock[LockFor(t)] = None
    /\ lock' = [lock EXCEPT ![LockFor(t)] = t]
    /\ pc' = [pc EXCEPT ![t] = "get"]
    /\ UNCHANGED <<row, req, snap, ret>>

\* The early returns: an unpin of a context that is not in the set, an
\* unpin_hash_all of an empty set, and every read.
NothingToSave(op, s) ==
    \/ op.kind = "unpin_hash" /\ op.context \notin s
    \/ op.kind = "unpin_hash_all" /\ s = {}
    \/ op.kind = "get_pinners"

\* Broken variant of Proceed: an unpin without effect drops the mutex and
\* starts over.
ProceedOver(t, s) ==
    /\ IF NothingToSave(req[t], s.pinners) /\ req[t].kind # "get_pinners"
       THEN /\ pc' = [pc EXCEPT ![t] = "lock"]
            /\ lock' = [lock EXCEPT ![LockFor(t)] = None]
            /\ UNCHANGED <<req, snap, ret>>
       ELSE IF req[t].kind = "get_pinners"
       THEN Finish(t, Abs!Reply(req[t], s.pinners))
       ELSE /\ snap' = [snap EXCEPT ![t] = s]
            /\ pc' = [pc EXCEPT ![t] = "save"]
            /\ UNCHANGED <<lock, req, ret>>
    /\ UNCHANGED row

\* get_internal has read s; then the modification in memory.
Proceed(t, s) ==
    /\ IF NothingToSave(req[t], s.pinners)
       THEN Finish(t, Abs!Reply(req[t], s.pinners))
       ELSE /\ snap' = [snap EXCEPT ![t] = s]
            /\ pc' = [pc EXCEPT ![t] = "save"]
            /\ UNCHANGED <<lock, req, ret>>
    /\ UNCHANGED row

Get(t) == pc[t] = "get" /\ Proceed(t, Stored(req[t].blob))

\* Broken variant of NewRow: written back at the revision that was read.
NewRowSameRevision(t) ==
    LET s == Abs!Effect(req[t], snap[t].pinners) IN
    [type |-> "Registry", key |-> req[t].blob,
     revision |-> snap[t].revision, hash |-> PayloadHash(s), data |-> s]

\* The message save_internal hands to the registry.
NewRow(t) ==
    LET s == Abs!Effect(req[t], snap[t].pinners) IN
    [type |-> "Registry", key |-> req[t].blob,
     revision |-> snap[t].revision + 1, hash |-> PayloadHash(s), data |-> s]

\* The row of b once the registry has handled delete or set(n): an empty pin
\* set deletes the row; any other is kept if it is greater than the row.
RowAfter(n, b) ==
    IF n.data = {} THEN None
    ELSE IF Msg!ShouldStore(n, row[b]) THEN n ELSE row[b]

\* save_internal, and the answer.
Save(t) ==
    /\ pc[t] = "save"
    /\ row' = [row EXCEPT ![req[t].blob] = RowAfter(NewRow(t), req[t].blob)]
    /\ Finish(t, Abs!Reply(req[t], snap[t].pinners))

\* The registry call fails and the operation returns its error; a failed
\* write may have been made (a remote registry whose answer is lost).
RegistryError(t) ==
    /\ pc[t] \in {"get", "save"}
    /\ \/ UNCHANGED row
       \/ /\ pc[t] = "save"
          /\ row' = [row EXCEPT ![req[t].blob] = RowAfter(NewRow(t), req[t].blob)]
    /\ Finish(t, Abs!Err)

Next ==
    \E t \in Task :
        \/ \E op \in Abs!Op : Call(t, op)
        \/ Lock(t)
        \/ Get(t)
        \/ Save(t)
        \/ RegistryError(t)

Spec == Init /\ [][Next]_vars

\* tokio's Mutex is fair (first come, first served) and every registry call
\* returns: a task waiting for a mutex that is free again and again gets it,
\* and an operation under way goes on.
FairSpec ==
    /\ Spec
    /\ \A t \in Task : SF_vars(Lock(t)) /\ WF_vars(Get(t) \/ Save(t))
-----------------------------------------------------------------------------
(***************************************************************************)
(* Properties.                                                             *)
(***************************************************************************)

\* One RegistryPinner implements the Pins trait: every pin_hash, unpin_hash
\* and unpin_hash_all that answers takes effect atomically, none is lost,
\* and "orphaned" is answered only by the operation that left no pinner.
ImplementsPinSet == Abs!Spec

\* Why it does: between get_internal and save_internal the row of the blob
\* is still the one that was read, and the task holds the blob's mutex.
SnapshotFresh ==
    \A t \in Task : pc[t] = "save" =>
        /\ snap[t] = Stored(req[t].blob)
        /\ lock[LockFor(t)] = t

\* Every called operation answers, however the other tasks contend for the
\* mutex.
CallsAnswer == \A t \in Task : (pc[t] # "idle") ~> (pc[t] = "idle")
=============================================================================
