------------------------------ MODULE LocalRoot ------------------------------
(***************************************************************************)
(* The root directory of a local FS5 (s5_fs): what its actor keeps on disk *)
(* besides the tree below it.  That is root.fs5.cbor, the snapshot index   *)
(* snapshots.fs5.cbor, the imported root snapshots in the meta store and   *)
(* the LocalFsHead and LocalFsSnapshot pins in the registry next to them.  *)
(*                                                                         *)
(* The actor handles one message at a time, but each step of save,         *)
(* create_snapshot and delete_snapshot is an await of its own, at which    *)
(* the process may end.  A root state is a number, its hash the same       *)
(* number: every mutation makes a state that was not there before.  The    *)
(* subdirectories are the subject of DirActor; pin operations are atomic   *)
(* (RegistryPinner implements PinSet).                                     *)
(***************************************************************************)
EXTENDS Integers, FiniteSets

CONSTANTS
    Client,       \* concurrent callers of one FS5
    Name,         \* bound: the names snapshots may get
    MaxState,     \* bound on the states that mutations make
    MaxCrashes,   \* bound on crashes
    None

ASSUME LocalRootAssumption ==
    /\ MaxState \in Nat /\ MaxCrashes \in Nat
    /\ None \notin Nat \cup Client

\* DirV1::new(), the state that open_local_root writes.
Empty == 0
State == Empty..MaxState

VARIABLES
    rootFile,    \* disk: root.fs5.cbor
    index,       \* disk: snapshots.fs5.cbor, the hash under each name
    meta,        \* disk: the root snapshots in the meta store
    heads,       \* disk: the hashes pinned as LocalFsHead
    snapPins,    \* disk: the hashes pinned as LocalFsSnapshot
    state,       \* DirActor::state
    dirty,       \* DirActor::dirty
    current,     \* DirActor::current_hash
    rootHash,    \* the local root_hash of create_snapshot and delete_snapshot
    pc,          \* the next step of the actor
    job,         \* the client whose message it handles
    req,         \* the call of each client
    fresh,       \* the next new state
    crashes,     \* crashes so far
    acked,       \* history: the last state that a save answered Ok for
    upset        \* history: what happened that the pins may not survive

disk == <<rootFile, index, meta, heads, snapPins>>
actor == <<state, dirty, current, rootHash>>
vars == <<disk, actor, pc, job, req, fresh, crashes, acked, upset>>

Call == [op : {"put", "save", "shutdown"}]
        \cup [op : {"create_snapshot"}, saved : BOOLEAN]
        \cup [op : {"delete_snapshot"}, name : Name]

ASSUME NoneAssumption == None \notin Call

SaveSteps == {"import", "unpin", "pin", "rename"}
CreateSteps == {"export", "insert", "pin_snapshot"}
DeleteSteps == {"remove", "unpin_snapshot"}

TypeOK ==
    /\ rootFile \in State
    /\ index \in [Name -> State \cup {None}]
    /\ meta \subseteq State
    /\ heads \subseteq State
    /\ snapPins \subseteq State
    /\ state \in State
    /\ dirty \in BOOLEAN
    /\ current \in State \cup {None}
    /\ rootHash \in State \cup {None}
    /\ pc \in SaveSteps \cup CreateSteps \cup DeleteSteps \cup {"idle", "down"}
    /\ job \in Client \cup {None}
    /\ req \in [Client -> Call \cup {None}]
    /\ fresh \in 1..(MaxState + 1)
    /\ crashes \in 0..MaxCrashes
    /\ acked \in State
    /\ upset \subseteq {"fault", "unsaved", "shared"}

\* open_local_root on an empty directory, and the load of the actor.
Init ==
    /\ rootFile = Empty /\ state = Empty /\ current = Empty
    /\ index = [n \in Name |-> None]
    /\ meta = {} /\ heads = {} /\ snapPins = {}
    /\ dirty = FALSE /\ rootHash = None
    /\ pc = "idle" /\ job = None
    /\ req = [c \in Client |-> None]
    /\ fresh = 1 /\ crashes = 0
    /\ acked = Empty /\ upset = {}

Upset(cause) == upset' = upset \cup {cause}

\* The actor goes on with step p.
Go(p) == pc' = p /\ UNCHANGED <<job, req>>

\* The answer to the message of client c.  create_snapshot first saves and,
\* if that went well, sends its own message.
Answer(c, r) ==
    req' = [req EXCEPT ![c] =
        IF @.op = "create_snapshot" /\ ~@.saved /\ r = "ok"
        THEN [@ EXCEPT !.saved = TRUE] ELSE None]

\* A message other than Shutdown has been handled.
Done(r) == Answer(job, r) /\ job' = None /\ pc' = "idle"
-----------------------------------------------------------------------------
(***************************************************************************)
(* Clients.                                                                *)
(***************************************************************************)
Send(c, call) ==
    /\ req[c] = None
    /\ req' = [req EXCEPT ![c] = call]
    /\ UNCHANGED <<disk, actor, pc, job, fresh, crashes, acked, upset>>

CallSimple(c, op) == Send(c, [op |-> op])

CallCreate(c) ==
    /\ Cardinality({n \in Name : index[n] = None})
         > Cardinality({d \in Client : req[d] # None /\ req[d].op = "create_snapshot"})
    /\ Send(c, [op |-> "create_snapshot", saved |-> FALSE])

CallDelete(c, n) ==
    Send(c, [op |-> "delete_snapshot", name |-> n])

\* The actor is gone and so is the message: the call fails.
Closed(c) ==
    /\ pc = "down"
    /\ req[c] # None
    /\ req' = [req EXCEPT ![c] = None]
    /\ UNCHANGED <<disk, actor, pc, job, fresh, crashes, acked, upset>>
-----------------------------------------------------------------------------
(***************************************************************************)
(* save.                                                                   *)
(***************************************************************************)
Has(c, op) == pc = "idle" /\ req[c] # None /\ req[c].op = op

Put(c) ==
    /\ Has(c, "put") /\ fresh <= MaxState
    /\ state' = fresh /\ fresh' = fresh + 1
    /\ dirty' = TRUE
    /\ Answer(c, "ok")
    /\ UNCHANGED <<disk, current, rootHash, pc, job, crashes, acked, upset>>

\* SaveIfDirty: a clean root answers at once.
SaveIfDirty(c) ==
    /\ \/ Has(c, "save")
       \/ Has(c, "create_snapshot") /\ ~req[c].saved
    /\ IF dirty
       THEN pc' = "import" /\ job' = c /\ UNCHANGED <<req, acked>>
       ELSE Answer(c, "ok") /\ acked' = state /\ UNCHANGED <<pc, job>>
    /\ UNCHANGED <<disk, actor, fresh, crashes, upset>>

\* The save is over.  save_if_dirty clears the flag if it went well.  A
\* shutdown only logs an error and answers; the loop ends and, as the flag
\* is still set, saves once more.
SaveDone(r) ==
    /\ IF job = None
       THEN pc' = "down" /\ UNCHANGED <<job, req, dirty, acked>>
       ELSE IF req[job].op = "shutdown"
       THEN /\ Answer(job, "ok") /\ job' = None /\ pc' = "import"
            /\ UNCHANGED <<dirty, acked>>
       ELSE /\ Done(r)
            /\ dirty' = (r # "ok")
            /\ acked' = IF r = "ok" THEN state ELSE acked
    /\ UNCHANGED <<state, rootHash, fresh, crashes>>

\* meta_blob_store.import_bytes
Import ==
    /\ pc = "import"
    /\ meta' = meta \cup {state}
    /\ Go("unpin")
    /\ UNCHANGED <<rootFile, index, heads, snapPins, actor, fresh, crashes, acked, upset>>

\* current_hash.take() and unpin_hash, whose error is ignored.
UnpinPrevious ==
    /\ pc = "unpin"
    /\ current' = None
    /\ \/ heads' = heads \ {current} /\ UNCHANGED upset
       \/ heads' = heads /\ Upset("fault")
    /\ Go("pin")
    /\ UNCHANGED <<rootFile, index, meta, snapPins, state, dirty, rootHash, fresh, crashes, acked>>

\* Broken variant of PinHead: current_hash is pinned, which was just taken.
PinHeadTaken ==
    /\ pc = "pin"
    /\ heads' = heads \cup ({current} \ {None})
    /\ current' = state
    /\ Go("rename")
    /\ UNCHANGED <<rootFile, index, meta, snapPins, state, dirty, rootHash, fresh, crashes, acked, upset>>

PinHead ==
    /\ pc = "pin"
    /\ heads' = heads \cup {state}
    /\ current' = state
    /\ Go("rename")
    /\ UNCHANGED <<rootFile, index, meta, snapPins, state, dirty, rootHash, fresh, crashes, acked, upset>>

\* NamedTempFile::persist over root.fs5.cbor
Rename ==
    /\ pc = "rename"
    /\ rootFile' = state
    /\ SaveDone("ok")
    /\ UNCHANGED <<index, meta, heads, snapPins, current, upset>>

\* Broken variant of SaveError: reported as success.
SaveErrorIgnored ==
    /\ pc \in {"import", "pin", "rename"}
    /\ SaveDone("ok") /\ Upset("fault")
    /\ UNCHANGED <<disk, current>>

\* import_bytes, pin_hash or the file operations fail: `?`.
SaveError ==
    /\ pc \in {"import", "pin", "rename"}
    /\ SaveDone("err") /\ Upset("fault")
    /\ UNCHANGED <<disk, current>>
-----------------------------------------------------------------------------
(***************************************************************************)
(* create_snapshot and delete_snapshot.                                    *)
(***************************************************************************)
Begin(c, p) ==
    /\ pc' = p /\ job' = c
    /\ UNCHANGED <<disk, actor, req, fresh, crashes, acked, upset>>

CreateSnapshot(c) == Has(c, "create_snapshot") /\ req[c].saved /\ Begin(c, "export")

\* Broken variant of ExportSnapshotHash: the hash without the import.
ExportOnlyHash ==
    /\ pc = "export"
    /\ current' = state /\ rootHash' = state
    /\ IF state = rootFile THEN UNCHANGED upset ELSE Upset("unsaved")
    /\ Go("insert")
    /\ UNCHANGED <<disk, state, dirty, fresh, crashes, acked>>

\* export_snapshot_hash, and its hash becomes current_hash.
ExportSnapshotHash ==
    /\ pc = "export"
    /\ meta' = meta \cup {state}
    /\ current' = state /\ rootHash' = state
    /\ IF state = rootFile THEN UNCHANGED upset ELSE Upset("unsaved")
    /\ Go("insert")
    /\ UNCHANGED <<rootFile, index, heads, snapPins, state, dirty, fresh, crashes, acked>>

\* SnapshotIndex::open, insert_snapshot under an unused name, persist.
InsertSnapshot(n) ==
    /\ pc = "insert"
    /\ index[n] = None
    /\ index' = [index EXCEPT ![n] = rootHash]
    /\ Go("pin_snapshot")
    /\ UNCHANGED <<rootFile, meta, heads, snapPins, actor, fresh, crashes, acked, upset>>

\* Broken variant of PinSnapshot: the head's hash is pinned.
PinSnapshotHead ==
    /\ pc = "pin_snapshot"
    /\ snapPins' = snapPins \cup heads
    /\ Done("ok")
    /\ UNCHANGED <<rootFile, index, meta, heads, actor, fresh, crashes, acked, upset>>

PinSnapshot ==
    /\ pc = "pin_snapshot"
    /\ snapPins' = snapPins \cup {rootHash}
    /\ Done("ok")
    /\ UNCHANGED <<rootFile, index, meta, heads, actor, fresh, crashes, acked, upset>>

CreateError ==
    /\ pc \in CreateSteps
    /\ Done("err") /\ Upset("fault")
    /\ UNCHANGED <<disk, actor, fresh, crashes, acked>>

\* DeleteSnapshot: an unknown name is a no-op.
DeleteSnapshot(c) ==
    /\ Has(c, "delete_snapshot")
    /\ IF index[req[c].name] = None
       THEN Answer(c, "ok") /\ UNCHANGED <<disk, actor, pc, job, fresh, crashes, acked, upset>>
       ELSE Begin(c, "remove")

\* remove_snapshot and persist.
RemoveSnapshot ==
    /\ pc = "remove"
    /\ rootHash' = index[req[job].name]
    /\ index' = [index EXCEPT ![req[job].name] = None]
    /\ IF \E n \in Name \ {req[job].name} : index[n] = rootHash'
       THEN Upset("shared") ELSE UNCHANGED upset
    /\ Go("unpin_snapshot")
    /\ UNCHANGED <<rootFile, meta, heads, snapPins, state, dirty, current, fresh, crashes, acked>>

\* Best effort: its error is ignored.
UnpinSnapshot ==
    /\ pc = "unpin_snapshot"
    /\ \/ snapPins' = snapPins \ {rootHash} /\ UNCHANGED upset
       \/ snapPins' = snapPins /\ Upset("fault")
    /\ Done("ok")
    /\ UNCHANGED <<rootFile, index, meta, heads, actor, fresh, crashes, acked>>

\* The index cannot be read or written.
DeleteError ==
    /\ pc = "remove"
    /\ Done("err") /\ Upset("fault")
    /\ UNCHANGED <<disk, actor, fresh, crashes, acked>>
-----------------------------------------------------------------------------
(***************************************************************************)
(* The end of the actor and of the process.                                *)
(***************************************************************************)
Shutdown(c) ==
    /\ Has(c, "shutdown")
    /\ IF dirty THEN pc' = "import" /\ job' = c /\ UNCHANGED req
       ELSE Answer(c, "ok") /\ pc' = "down" /\ UNCHANGED job
    /\ UNCHANGED <<disk, actor, fresh, crashes, acked, upset>>

\* Nobody waits for the save after the answer to a shutdown: main returns and
\* the runtime drops the actor at its next await.
Exit ==
    /\ job = None
    /\ pc \in SaveSteps
    /\ pc' = "down" /\ Upset("fault")
    /\ UNCHANGED <<disk, actor, job, req, fresh, crashes, acked>>

Crash ==
    /\ crashes < MaxCrashes
    /\ pc # "down"
    /\ crashes' = crashes + 1
    /\ pc' = "down" /\ job' = None /\ Upset("fault")
    /\ UNCHANGED <<disk, actor, req, fresh, acked>>

\* The next process: open_local_root, and load.
Open ==
    /\ pc = "down"
    /\ \A c \in Client : req[c] = None
    /\ state' = rootFile /\ current' = rootFile /\ dirty' = FALSE /\ rootHash' = None
    /\ pc' = "idle"
    /\ UNCHANGED <<disk, job, req, fresh, crashes, acked, upset>>

ClientStep(c) ==
    \/ \E op \in {"put", "save", "shutdown"} : CallSimple(c, op)
    \/ CallCreate(c)
    \/ \E n \in Name : CallDelete(c, n)
    \/ Closed(c)

Receive(c) ==
    \/ Put(c) \/ SaveIfDirty(c) \/ CreateSnapshot(c) \/ DeleteSnapshot(c) \/ Shutdown(c)

ActorStep ==
    \/ Import \/ UnpinPrevious \/ PinHead \/ Rename \/ SaveError
    \/ ExportSnapshotHash \/ (\E n \in Name : InsertSnapshot(n)) \/ PinSnapshot
    \/ CreateError
    \/ RemoveSnapshot \/ UnpinSnapshot \/ DeleteError

Next ==
    \/ \E c \in Client : ClientStep(c) \/ Receive(c)
    \/ ActorStep
    \/ Exit \/ Crash \/ Open

Spec == Init /\ [][Next]_vars
-----------------------------------------------------------------------------
(***************************************************************************)
(* Properties.                                                             *)
(***************************************************************************)
Quiet == pc \in {"idle", "down"}

\* Whatever fails and whenever the process ends, a hash is recorded (in the
\* index or as a pin) only after its snapshot is in the meta store, so that
\* what the index lists can be opened.
RecordedIsStored ==
    heads \cup snapPins \cup ({index[n] : n \in Name} \ {None}) \subseteq meta

\* FS5::save "Persists all pending changes": the state a save answered Ok for
\* is in root.fs5.cbor, or a later one, through crashes and failed saves.
AckedIsOnDisk == rootFile >= acked

\* As long as no call failed and the process did not end inside a save, the
\* root that is on disk is pinned as LocalFsHead between two messages,
\* whatever is saved, exported or changed in between.
HeadIsPinned == Quiet /\ "fault" \notin upset /\ rootFile # Empty => rootFile \in heads

\* The previous head is unpinned: no other root is pinned as LocalFsHead.
\* This takes that no snapshot was made of a state that is not on disk.
OnlyHeadIsPinned == Quiet /\ upset \subseteq {"shared"} => heads \subseteq {rootFile}

\* Both: the root on disk, and nothing else, has the head pin.
HeadPinIsExact == HeadIsPinned /\ OnlyHeadIsPinned

\* Every listed snapshot is pinned as LocalFsSnapshot, until one of two
\* snapshots of the same root is deleted.
SnapshotsArePinned ==
    Quiet /\ upset \subseteq {"unsaved"} =>
        {index[n] : n \in Name} \ {None} \subseteq snapPins

\* Every LocalFsSnapshot pin belongs to a listed snapshot: deleting snapshots
\* leaves none behind.
SnapshotPinsAreListed ==
    Quiet /\ "fault" \notin upset => snapPins \subseteq {index[n] : n \in Name}

\* Both: the listed snapshots, and nothing else, have a snapshot pin.
SnapshotPinsAreExact == SnapshotsArePinned /\ SnapshotPinsAreListed
=============================================================================
