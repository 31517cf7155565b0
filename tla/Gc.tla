--------------------------------- MODULE Gc ---------------------------------
(***************************************************************************)
(* Garbage collection of a content store (s5_fs/src/gc.rs and the commands *)
(* gc-local and verify-local of s5_cli): mark the content that the root    *)
(* file and the snapshots of the primary FS5 root refer to, then sweep the *)
(* store, keeping what is marked or pinned.                                *)
(*                                                                         *)
(* The command opens the FS5 root and the registry for itself, so nothing  *)
(* else runs: what it finds is an input.  Directory snapshots are numbers, *)
(* in an order in which each comes after the ones it refers to (a snapshot *)
(* holds their hashes); a shard is a directory like any other.  A file is  *)
(* the sequence of its versions, newest first, which prev and              *)
(* first_version lead to.                                                  *)
(***************************************************************************)
EXTENDS Integers, Sequences, Functions

CONSTANTS
    Dir,            \* hashes of directory snapshots
    Content,        \* hashes of content blobs
    Key,            \* directory encryption keys
    None,           \* no key
    Inputs,         \* the states of the disk that are tried
    Inherits        \* encrypted directories may have subdirectories without a key of their own

DirRef == [hash : Dir, key : Key \cup {None}]
FileRef == [versions : Seq(Content), tombstone : BOOLEAN]
DirV1 == [files : SUBSET FileRef, dirs : SUBSET DirRef]

\* What is on disk, and the command: root is root.fs5.cbor, index the hashes in
\* snapshots.fs5.cbor, tree the snapshots in the meta store, sealed the keys
\* they are encrypted with, store the content store and pins what is pinned.
Disk == [root : DirV1, index : SUBSET Dir, tree : [Dir -> DirV1],
         sealed : [Dir -> Key \cup {None}],
         store : SUBSET Content, pins : SUBSET Content,
         verify : BOOLEAN, dry_run : BOOLEAN]

ASSUME InputAssumption ==
    /\ Inputs \subseteq Disk
    /\ Inherits \in BOOLEAN

VARIABLES
    input,        \* what is on disk, and the command
    pc,           \* where the command is
    dirQueue,     \* dir_queue
    hashQueue,    \* hash_queue
    visited,      \* visited_dirs
    reachable,    \* the content marked so far
    store,        \* the content store
    todo,         \* blobs that remain to be examined
    candidates,   \* GcReport::candidates
    missing,      \* what verify-local reports
    unread        \* history: a file or a snapshot could not be read

vars == <<input, pc, dirQueue, hashQueue, visited, reachable, store, todo,
          candidates, missing, unread>>

\* DirContext::with_new_ref: a directory is encrypted with the key in its
\* DirRef or, if there is none, with that of its parent.
SealedAs(i, r, parentKey) ==
    i.sealed[r.hash] = IF r.key = None THEN parentKey ELSE r.key

\* A local root and its snapshots are not encrypted.  A tombstone repeats the
\* hash of the version it deletes (FileRef::from_deleted).
WellFormed(i) ==
    /\ \A r \in i.root.dirs : SealedAs(i, r, None)
    /\ \A h \in Dir : \A r \in i.tree[h].dirs :
          /\ SealedAs(i, r, i.sealed[h])
          /\ Inherits \/ (i.sealed[h] # None => r.key # None)
    /\ \A h \in i.index : i.sealed[h] = None
    /\ \A d \in {i.root} \cup Range(i.tree) : \A f \in d.files :
          f.tombstone => Len(f.versions) > 1 /\ f.versions[1] = f.versions[2]

TypeOK ==
    /\ input \in Disk
    /\ pc \in {"root", "index", "mark", "drain", "sweep", "done", "failed"}
    /\ dirQueue \subseteq {input.root} \cup Range(input.tree)
    /\ hashQueue \subseteq DirRef
    /\ visited \subseteq Dir
    /\ reachable \subseteq Content
    /\ store \subseteq input.store
    /\ todo \subseteq input.store
    /\ candidates \subseteq input.store
    /\ missing \subseteq Content
    /\ unread \in BOOLEAN

Init ==
    /\ input \in {i \in Inputs : WellFormed(i)}
    /\ pc = "root"
    /\ dirQueue = {} /\ hashQueue = {} /\ visited = {}
    /\ reachable = {}
    /\ store = input.store
    /\ todo = {} /\ candidates = {} /\ missing = {}
    /\ unread = FALSE
-----------------------------------------------------------------------------
(***************************************************************************)
(* collect_fs_reachable_hashes.                                            *)
(***************************************************************************)

\* A file that cannot be read is treated like one that is not there, and one
\* that cannot be parsed ends the command.
ReadRoot ==
    /\ pc = "root"
    /\ \/ dirQueue' = {input.root} /\ pc' = "index" /\ UNCHANGED unread
       \/ dirQueue' = {} /\ pc' \in {"index", "failed"} /\ unread' = TRUE
    /\ UNCHANGED <<input, hashQueue, visited, reachable, store, todo, candidates, missing>>

\* Broken variant of ReadIndex: snapshots are not followed.
ReadNoIndex ==
    /\ pc = "index"
    /\ hashQueue' = {}
    /\ pc' = "mark"
    /\ UNCHANGED <<input, dirQueue, visited, reachable, store, todo, candidates, missing, unread>>

ReadIndex ==
    /\ pc = "index"
    /\ \/ hashQueue' = {[hash |-> h, key |-> None] : h \in input.index} /\ UNCHANGED unread
       \/ hashQueue' = {} /\ unread' = TRUE
    /\ pc' = "mark"
    /\ UNCHANGED <<input, dirQueue, visited, reachable, store, todo, candidates, missing>>

\* Broken variant of Collected: a deleted file keeps nothing.
CollectedLiveOnly(d) ==
    UNION {IF f.tombstone THEN {} ELSE Range(f.versions) : f \in d.files}

\* collect_hashes_from_dir: all versions, but not the tombstone itself.
Collected(d) ==
    UNION {Range(IF f.tombstone THEN Tail(f.versions) ELSE f.versions) : f \in d.files}

TakeDir(d) ==
    /\ pc = "mark"
    /\ d \in dirQueue
    /\ dirQueue' = dirQueue \ {d}
    /\ reachable' = reachable \cup Collected(d)
    /\ hashQueue' = hashQueue \cup d.dirs
    /\ pc' = "drain"
    /\ UNCHANGED <<input, visited, store, todo, candidates, missing, unread>>

\* Broken variant of LoadDir: each queued hash is loaded again.
LoadDirAgain(r) ==
    /\ pc = "drain"
    /\ r \in hashQueue
    /\ visited' = visited \cup {r.hash}
    /\ dirQueue' = dirQueue \cup {input.tree[r.hash]}
    /\ UNCHANGED <<input, pc, hashQueue, reachable, store, todo, candidates, missing, unread>>

\* A directory that cannot be read, decrypted or decoded is skipped.
LoadDir(r) ==
    /\ pc = "drain"
    /\ r \in hashQueue
    /\ hashQueue' = hashQueue \ {r}
    /\ visited' = visited \cup {r.hash}
    /\ \/ /\ r.hash \notin visited
          /\ r.key = input.sealed[r.hash]
          /\ dirQueue' = dirQueue \cup {input.tree[r.hash]}
          /\ UNCHANGED unread
       \/ /\ r.hash \in visited \/ r.key # input.sealed[r.hash]
          /\ UNCHANGED <<dirQueue, unread>>
       \/ /\ r.hash \notin visited
          /\ unread' = TRUE
          /\ UNCHANGED dirQueue
    /\ UNCHANGED <<input, pc, reachable, store, todo, candidates, missing>>

Drained ==
    /\ pc = "drain"
    /\ hashQueue = {}
    /\ pc' = "mark"
    /\ UNCHANGED <<input, dirQueue, hashQueue, visited, reachable, store, todo,
                   candidates, missing, unread>>
-----------------------------------------------------------------------------
(***************************************************************************)
(* gc_store, or the comparison of verify-local.                            *)
(***************************************************************************)
Marked ==
    /\ pc = "mark"
    /\ dirQueue = {}
    /\ IF input.verify
       THEN pc' = "done" /\ missing' = reachable \ store /\ UNCHANGED todo
       ELSE pc' = "sweep" /\ todo' = store /\ UNCHANGED missing
    /\ UNCHANGED <<input, dirQueue, hashQueue, visited, reachable, store, candidates, unread>>

Kept(h) == h \in input.pins \/ h \in reachable

\* A deletion that fails is reported and passed over.
Examine(h) ==
    /\ pc = "sweep"
    /\ h \in todo
    /\ todo' = todo \ {h}
    /\ IF Kept(h) THEN UNCHANGED <<candidates, store>>
       ELSE /\ candidates' = candidates \cup {h}
            /\ \/ ~input.dry_run /\ store' = store \ {h}
               \/ UNCHANGED store
    /\ UNCHANGED <<input, pc, dirQueue, hashQueue, visited, reachable, missing, unread>>

\* list_hashes, get_pinners or, for verify-local, contains fails, and with it
\* the command.
StoreError ==
    /\ \/ pc = "mark" /\ dirQueue = {}
       \/ pc = "sweep" /\ todo # {}
    /\ pc' = "failed"
    /\ UNCHANGED <<input, dirQueue, hashQueue, visited, reachable, store, todo,
                   candidates, missing, unread>>

Swept ==
    /\ pc = "sweep"
    /\ todo = {}
    /\ pc' = "done"
    /\ UNCHANGED <<input, dirQueue, hashQueue, visited, reachable, store, todo,
                   candidates, missing, unread>>

Next ==
    \/ ReadRoot \/ ReadIndex
    \/ \E d \in dirQueue : TakeDir(d)
    \/ \E r \in hashQueue : LoadDir(r)
    \/ Drained \/ Marked
    \/ \E h \in todo : Examine(h)
    \/ StoreError \/ Swept

Spec == Init /\ [][Next]_vars

\* The command keeps running: nothing it awaits waits for anything else.
FairSpec == Spec /\ WF_vars(Next)
-----------------------------------------------------------------------------
(***************************************************************************)
(* Properties.                                                             *)
(***************************************************************************)

\* S holds the snapshots of the index and what the root and the directories
\* in S refer to.
Closed(S) ==
    /\ input.index \subseteq S
    /\ {r.hash : r \in input.root.dirs} \subseteq S
    /\ \A h \in S : {r.hash : r \in input.tree[h].dirs} \subseteq S

\* The directories that can be reached: those in every closed set.
Reach == {h \in Dir : \A S \in SUBSET Dir : Closed(S) => h \in S}

\* All content that a version of a file refers to.
Live ==
    UNION {Range(f.versions) :
              f \in input.root.files \cup UNION {input.tree[h].files : h \in Reach}}

\* gc-local deletes a blob only if it "has no pins in the node registry and is
\* not reachable from the primary FS5 root (its current head and any local
\* snapshots)": pinned content stays whatever fails, and live content if the
\* files and snapshots can be read.
KeepsLive ==
    input.store \cap (input.pins \cup (IF unread THEN {} ELSE Live)) \subseteq store

\* "failure to decode or load a directory snapshot simply results in its subtree
\* being skipped, never in any blob being marked as deletable": live content is
\* no candidate, whatever could not be read.
SkippedIsKept == candidates \cap Live = {}

\* If they can be read the report is exact.  gc-local considers all the other
\* blobs, whatever their number of references, versions and deletions, and with
\* --dry-run it deletes none; verify-local names the referenced blobs that the
\* store does not have, and no others.
ReportIsExact ==
    pc = "done" =>
        /\ ~input.verify /\ ~unread => candidates = input.store \ (Live \cup input.pins)
        /\ ~input.verify /\ input.dry_run => store = input.store
        /\ input.verify /\ ~unread => missing = Live \ input.store

\* The commands end, however the snapshots share their subdirectories and
\* whatever fails.
Terminates == <>(pc \in {"done", "failed"})
=============================================================================
