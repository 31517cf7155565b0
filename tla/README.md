# A TLA+ model of s5-rs

s5-rs is a content-addressed storage system: blobs named by their BLAKE3 hash, a
registry of small mutable rows, and FS5, an encrypted file system whose directories
are blobs.  This directory holds TLA+ modules for the parts of it that keep state,
TLC configurations that check them on small instances, and TLAPS proofs of some of
the properties for instances of any size.  `PROJECT.json` lists components, runs,
mutants, the map from definitions to source lines, hazards and theorems.

    tlc -workers 2 -config MCMultiRegistry.cfg MCMultiRegistry     # a run
    tlapm Registry_proofs.tla                                      # a proof module

## 1. The system

| Part | State | Operations | Talks to |
|---|---|---|---|
| Registry rows (`s5_core/src/stream`) | type, key, revision, payload hash, data | order, `should_store` | all registries |
| Registry backends (`registries/redb`, `MemoryRegistry`) | one row per key | get, set, delete, atomic | – |
| `StoreRegistry` (`registries/store`) | one file per row in a blob store | get, set (read, compare, write), delete | a `Store` |
| `RegistryServer`, `RemoteRegistry` | – | one RPC per call | any registry |
| `TeeRegistry`, `MultiRegistry` | none of their own | read in turn, write to all, count | several registries |
| `RegistryPinner` (`s5_core/src/pins`) | 64 mutexes; pin sets in registry rows | pin, unpin, unpin all, get | a registry |
| `BlobsServer` and its client (`s5_blobs`) | per-peer configuration; a handler per request | query, pin, upload, download, delete | stores, pinner |
| Blob store (`s5_core/src/blob`) on a local, memory, S3 or Sia store (`blob_stores`) | blobs, outboards, temporary objects | import bytes, stream, file; delete, read, list | a `Store` |
| FS5 directory actors (`s5_fs/src/actor*`) | `DirV1`, dirty flag, autosave timer, child handles, mailbox of 1024 | put, get, create, save, autosave, shutdown; `MarkAsDirty`, `UpdateDirRefHash` | parent and child actors, meta store |
| Local root (`s5_fs/src/context.rs`, `snapshots.rs`) | `root.fs5.cbor`, `snapshots.fs5.cbor`, head and snapshot pins | open, save, create and delete snapshot | meta store, pinner |
| Merge, sharding, listing (`s5_fs/src/actor/`) | the same actors | merge a snapshot, split a directory, page | child actors |
| GC and verify (`s5_fs/src/gc.rs`, `s5_cli`) | a queue of directories, the set of reachable hashes | mark, sweep, verify | root file, index, store, pinner |
| Node and sync (`s5_node`) | which registry, pinner and stores share what; sync timers | assemble, push, pull | all of the above |
| Multi-source fetcher (`s5_blobs/src/multi_fetcher.rs`) | an ordered list of sources | fetch, fetch to a store, exists | blob stores, blob clients |
| Importers (`importers`), import command | tasks under a limit, references in the tree | import a path, import a URL, compare with the tree | blob store, FS5 |
| FUSE (`s5_fuse`) | open files, caches of directories, listings and attributes | lookup, readdir, create, write, release, read, mkdir | blob store, FS5 |
| Client of the bindings (`bindings`) | a lock, an FS5 over a remote node | connect, upload, download, delete, list, disconnect | blob client, FS5 |

A client's call goes from the FS5 handle through the mailboxes of directory actors
down to the directory it names.  Saves come back up as hashes, and the root's actor
writes the file, the snapshot index and the pins.  Pins and rows are kept in a
registry that may be local, remote or several at once.  Blobs go to a local store or,
through `BlobsServer`, to a peer's.

What is hard here, and what makes each part correct:

- **Registry.** Rows arrive in any order and at any number of backends; they must
  converge, and no set may put back an older one.  `StoreRegistry` has no transaction
  and may crash inside a write.  `MultiRegistry` has partial failures and one answer.
- **Pins.** Read, change and write of a row by concurrent tasks must look atomic: a
  lost pin loses data, a wrong "orphaned" deletes it.
- **Blobs.** Handlers of several peers interleave between the existence check, the
  rename, the pin and the removal; connections break, pinning fails, the node restarts.
  A peer that was told Ok must keep its pin and its data; nothing may be left behind.
- **Directory actors.** Three kinds of messages move hashes and dirty flags up the
  tree while saves and calls move down, through bounded mailboxes, and every actor may
  wait for another.  What a save or an autosave promises must be on disk, a saved tree
  must load, and calls must return.
- **Local root.** A save is four awaits, a snapshot three, at each of which a call
  may fail or the process end.  Nothing may be recorded before it is stored; pins must
  follow the file and the index.
- **GC.** Must find everything that is live through shared, encrypted and unreadable
  directories.
- **Merge, sharding, listing, sync.** Two replicas push and pull the same registry key
  at any time, with no lock between the read of the revision and the write; a directory
  is promoted and split while it is written, saved, reopened and paged through.
- **Blob stores.** An import is several calls of a store that may write in place, lack
  a rename or refuse one; two imports and a delete of one content interleave, and each
  call may be cut.  What lies under a hash must have that hash.
- **Importers, FUSE, client.** Sources change while they are read, requests overlap
  between two awaits, caches are filled late, calls fail half way and the process ends.
  What was answered must be in the saved root, and every reference must have its blob.

## 2. Plan

Order: what everything else relies on first.

1. `StreamMessage`, `Registry`, `StoreRegistry`, `PinSet`, `RegistryPinner` – done.
2. `DirActor`: put, get, create, save, autosave, shutdown, drop, crash – done.
3. `BlobsServer` with its client – done.  Next: range reads and the locations a query
   answers with.
4. `MultiRegistry`, composed with `Registry` – done.
5. `LocalRoot` – done.
6. `Gc` – done.
7. `DirState` (merge, promotion, sharding, listing) and `Sync` over it – done.
8. `BlobStore` on four kinds of stores, `RootFs`, `MultiFetcher`, `Importer`, `Fuse`,
   `Client`, composed in `Host` – done.
9. Next: encrypted subdirectories and children linked by registry key in `DirActor`;
   two clients of one registry root; the codecs of blob identifiers and locations as
   functions with their inverses.

Which module uses which:

    StreamMessage - Registry - MultiRegistry        DirState - Sync
                  - StoreRegistry (refines Registry)
    PinSet - RegistryPinner (refines PinSet)         DirActor, LocalRoot, Gc, BlobsServer
    BlobStore - MultiFetcher -+
    BlobStore, RootFs - Importer, Fuse, Client -+- Host - HostInvariants

Theorems: convergence of the registry, alone and behind concurrent callers; replication
of what a `MultiRegistry` acknowledged; the refinements of `Registry` and `PinSet`; pins,
storage and downloads of acknowledged uploads; files and pins of the local root; what a
collection keeps and reports; whole blobs and stored references under every user of a
blob store; loadable trees, owed calls and known changes of the directory actors – done.
Then every other safety property of the users of a blob store: answers, reads, imports and
the cache – done.  Then the order of puts, `NoRollback`, `PutsAreNotLost` and
`SaveIsDurable` of `DirActor` – done.

## 3. Modules and code

**StreamMessage** – `types/mod.rs` and `types/order.rs`: message types, the order
(`Greater`: revision, then the *smaller* hash) and `should_store`.  Constant module.

**Registry** – a redb table or a `MemoryRegistry`: one variable `table`, atomic `Set`
and `Delete` per backend, and the history `since` of messages since the last delete.
It has no run of its own: its invariants are checked in `MultiRegistry`, which makes
the calls.

**StoreRegistry** – `set` in three steps (`SetRead`, `PutBegin`, `SetWrite`): the local
store's `put_bytes` truncates and then writes, so that a crash in between leaves a
`Torn` file.  `ImplementsRegistry` maps it to `Registry` with one backend.

**PinSet / RegistryPinner** – `PinSet` is what the `Pins` trait promises: each
operation is one atomic change of a set, with its answer.  `RegistryPinner` takes the
mutex, reads the row, and writes it with the next revision.  A blob is the first byte
of its hash, which is all that `lock_for_hash` looks at.  Registry calls may fail, a
failed write may have been made.

**MultiRegistry** – `get` asks one backend after the other; `set` and `delete` go to
all at once, are applied and answered one by one in any order, and are counted under
the write policy; a tee goes from the local backend to the remote one and stops at the
first error.  The backends are an instance of `Registry`, whose `Set` and `Delete` are
the steps taken here.  They fail at any call, and a failed write may have been made.

**BlobsServer** – one variable per part of a handler's state (`pc`, `req`, `got`,
`left`, `next`, `sent`), indexed by peer: one connection per peer, whose requests are
handled one after the other, as the accept loop does.  Steps are the awaits of the
handlers; pins are atomic (`RefinesPinSet` justifies it).  The client's wrappers
(`import_bytes` with its exists shortcut, `put_bytes` that pins first) are the entry
points.  Byte ranges are `Chunks` pieces; an upload that breaks off becomes the blob
that arrived (`cuts`), which the code then finds to have the wrong hash.  `config`
carries the node's configuration and the use that is made of it, so that one run
checks several.

**DirActor** – every directory has an actor (life cycle, state, dirty flag, timer, the
task it is in the middle of, its parent) and a mailbox.  Handling a message is atomic
except where the code awaits another actor: a full parent mailbox (`tell`), a child's
answer (`save`, `shutdown`).  A snapshot stands for its own hash; every directory has
one file whose content is the number of its last put.  The file of a path whose
directory does not exist is kept by the nearest directory above, as in the code.
`Blank` is the child named "" that a second `create_dir` makes.  `Persist` is the
import and, for the root, the rename in one step; LocalRoot has them apart.  `NoHash` is
the zeroed hash of a directory that was created and not saved yet.  The paths above one
(`Up`) are a least closed set and the snapshots of the tree at the start (`Initial`) a
constant that an assumption ties to the directories that exist, so that neither is a
recursion the proofs would have to unfold.

**LocalRoot** – the root's actor alone, with each await of `save`, `create_snapshot`
and `delete_snapshot` a step of its own, clients that send the two messages of
`create_snapshot` separately, ignored and reported errors, the save after the answer
to a shutdown, `Exit`, `Crash` and `Open`.  A root state is a number and its own hash;
every put makes a new one.  The history variable `upset` records what happened that
the pins need not survive: a `fault` (error, crash, exit inside a save), a snapshot of
an `unsaved` state, the deletion of one of two snapshots that `share` a root.

**Gc** – the input (root file, directory snapshots with keys, index, store, pins,
command) is chosen in `Init`; then `collect_fs_reachable_hashes` and `gc_store` or
`verify` step by step with a failure at each read.  The reference for what it finds
is `Live`, defined by closed sets and not by a traversal.

**DirState** – one directory as a tree of snapshots (itself and its shards), with the
operations of `merge.rs`, `sharding.rs`, `snapshots.rs` and `listing.rs` as operators:
`MergeSnapshot`, promotion, the split into buckets, the merged view, a page of a
listing.  A key is a number with a first component, so that "a", "a/b" and "a/c" can be
told apart from a key without a slash.  A directory entry has a hash, which is the zero
hash (`None`) until the first `UpdateDirRefHash` of the child's actor is handled, and,
while that actor runs, the state of it (`Kid`): its files, whether it is dirty, and the
first hash on its way up.  `Snapshot` is what a save writes: the hash, not the child.

**Sync** – replicas that edit, save, reopen and list such a directory, and the tick of
`s5_node/src/sync.rs` in its five awaits: load the encrypted root, push, read the
revision, publish, pull and save.  A registry error looks like a missing entry, as it
does through the server (`RegistryGet`); an answer may be lost; a replica may restart.
A save asks each child to save itself: a dirty one answers with its hash, one that is
not with none even if its hash has not come yet; a child or a shard that fails is only
logged (`KidsSaved`, `OnDisk`), a shard may not have heard that one of its own is dirty,
and the first hash of a child that comes after a later one replaces it
(`UpdateDirRefHash`).  The one-replica configurations have no autosave, which `DirActor`
has.  `flatDisk` is what `flat` becomes at a restart, `Unknown` for a key whose directory
was saved with the zero hash or an older one.  The history
`calm` records the last ticks that ran alone, `flat` what a directory without shards
would hold, `made` every entry, to find ties.

**BlobStore** – an operation on a blob store is a job that takes one step per call of
the underlying store; a store is four Booleans (does it rename, write in place, replace
on rename, forgive the deletion of nothing).  A call that fails or is dropped has
written nothing, all, or, in place, a part.  A content is its own hash.  `grown`,
`removed` and `broken` record what the properties leave out.

**RootFs** – FS5 as its callers see it: a tree and what a restart finds.  It stands for
`DirActor` in the modules above it, for directories that exist and calls that return.
The entries of the root's own snapshot (`Own`: names of one component, and longer keys
that lie in no directory as long as there are too few of them to be promoted,
`config.few`) are written by every save that answers Ok.  Other directories have actors
of their own, and autosave is on (`cmd/mod.rs:49`), so for their files a save writes any
version that the process has had, or none (`Late` out of `past`): a child that saved
itself on a tick answers `SaveIfDirty` with none while its hash is queued, an older hash
that comes late takes it back, a child that fails is only logged.  A directory that this
process made may be saved with the zero hash (`NoHashYet`); it cannot be read after a
restart (`lost`).  Host's snapshots are never large enough to be sharded, and the load of
a child does not fail for other reasons.

**MultiFetcher** – `fetch_to_store`, `exists` and `exists_blinded`: one source after
the other is asked, then read, while sources fail and lose the blob.  A source is a store
or another node (`Remote`).  A node that cannot look into its store answers that it has
no blob (`hid`); one that refuses a download or cannot read on ends the stream, and the
client returns what has come as Ok, which is then imported (`cut`).

**Importer** – the walk of the local importer and the link following of the HTTP one
with their semaphores: metadata, comparison with the tree, import, reference; and the
import command: with a prefix the keys are relative and the references go into the
directory it names; at the end the root is saved, and saved again by the shutdown, after
what is still queued there (`FinishRun`), or the save fails and the command with it
(`SaveRunFails`).  Sources change, vanish and come back.

**Fuse** – requests of several callers, except that `create` and `mkdir` exclude the
others, as the library does.  The load of a directory and its insertion into the cache
are two steps, and so are import, put, save, refresh and answer of a release.  Requests
below a directory whose actor could not load are refused (`Reachable`, `Readable`).

**Client** – the S5Client of the bindings (the Flutter and the WebAssembly one have the
same operations; the lock is Flutter's): an upload is encrypted in blocks, sent to the
node, put, saved, answered; a download takes the reference first and the blob later; a
disconnect waits for the requests under way and ignores the outcome of its save.
Encryption is modelled by what it does: the length grows by a tag per block, and a
block decrypts only under its key and index.  A registry query that the node answers
with "no entry" because of an error opens an empty root, or makes a save sign revision 0,
which the registry ignores while the save answers Ok (both set the history `misled`); a
load that fails ends the actor of the root (`loaded`), after which a download reports no
file and the other requests an error; a stream that ends early is returned as Ok (`cut`).
A client's files are entries of the root itself (`HostAssumption`).

**Host** – composes these: a process that runs one of them (`config.mode`),
shares the blob store's jobs, may stop at any step, and restarts from the saved root.

The MC modules only define constants.  A definition called a *broken variant* of
another one is not used by any specification; it is what a plausible bug would make of
the original, and every property of a passing run is shown to notice one of them.

## 4. Runs

| Run | Question | Result |
|---|---|---|
| `store_registry` | Is a store of files a registry for one writer that may crash inside a write? | yes, as far as rows can be read |
| `pins` | Are a pinner's operations atomic with two tasks on one mutex and a failing registry, and do calls answer? | yes |
| `registry` | Do backends that several callers write to, with failures, hold the best message and converge; is what a policy acknowledged on enough of them, and does `get` see it? | yes; `get` only under All and Tee |
| `fs` | Six uses of a tree, from two saving clients to everything at once | invariants hold under the conditions they name |
| `fs_liveness` | Does autosave get every put to the root file, do calls return? | yes, if mailboxes do not fill up |
| `blobs` | Four nodes: alone, shared, broken uploads, failures | pins are safe; stored data only if undisturbed; no garbage; calls return |
| `blobs_race` | Is an acknowledged upload stored when another peer deletes? | **no** (finding) |
| `local_root` | Files, index and pins under failures and a crash at each await | as the properties say |
| `gc` | All small roots, indices and pairs of directories, some encrypted | live and pinned content kept, results exact, terminates |
| `gc_skipped` | Is content below an unreadable directory kept? | **no** (finding) |
| `sync` | Do replicas agree after three quiet ticks, does a sharded directory behave like a flat one, are listings complete while it changes? | yes, for distinct timestamps, names that are not file and directory at once, keys without a slash, directories whose hash was saved, and sync of directories that are not sharded |
| `host` | Blob stores and what fills them: are blobs whole, references backed, answers durable, reads right, caches fresh, and do imports end? | yes, under the conditions the properties name |

`SavedTreeLoads` of `fs` includes `HashesAreStored` and, where nothing is created, says
that each entry of the root file and of each stored snapshot is stored, from which it
follows that every directory below them loads; `DirtyIsKnownAbove` excepts a parent that
has ended, since nobody saves it any more; `HeadPinIsExact` and
`SnapshotPinsAreExact` of `local_root` are each the conjunction of "nothing is missing"
and "nothing is left over"; `AnsweredIsDurable` of `host` speaks of releases, uploads
and deletes at entries of the root itself, and of a client's until it is `misled`;
`ReadsAreRight` of fetches, downloads and listings, up to `hid`, `cut`, `loaded` and
`misled`; `ImportIsCurrent` of the open root for all files and of the saved one for the
root's own entries.  Each of these exceptions is what the code does, is reached in the
run, and is in section 6.  `TypeOK` is
no property of a run: it is proved for `Registry`, `MultiRegistry`, `StoreRegistry`,
`RegistryPinner`, `BlobsServer`, `LocalRoot` and `Gc`, `DirActor` has `Shapes` in its
place, and TLC finds it true on the instances of `store_registry`, `registry`, `fs` and
`gc` when it is added to their `INVARIANTS`.

Bounds, and why they are enough for the cases that matter:

- `store_registry`: one writer, since the claim is about one.
- `pins`: blobs 3 and 67 share mutex 3; two contexts; a row gets to revision 3; the
  payload hashes let a tie go either way.
- `registry`: one key (rows are independent); two or three backends, messages with two
  revisions, a tie and one of a stream, two clients of two calls each: policies All,
  quorum 2 of 3, Any, and Tee; every pair of orders in which two backends hear of two
  messages.
- `fs`: two or three directories on one or two levels, two clients, four calls, two
  puts a path, one crash, mailboxes of two or three, so that they do fill up.  In
  `fs_liveness` one configuration has more room than calls.
- `blobs`: two or three peers, two stores and a name that no store has, one or two
  blobs of two chunks, at most two restarts.
- `local_root`: two clients, two names, two mutations, one crash: a mutation between
  the two messages of `create_snapshot`, two snapshots of one state, a save after one
  that was cut short.
- `gc`: two directories, of which one may refer to the other with its key or without,
  one file each with up to two versions or a tombstone, one key, four commands.
- `sync`: the keys a, a/b, a/c and d in two buckets and two levels, a promotion
  threshold of one and a shard threshold of two, so that both happen at the second
  entry; one file system with three edits and two failures or restarts, and one that is
  listed.  Two replicas, two edits and up to five ticks: two overlapping ones and the
  three quiet ones that `ReplicasAgree` needs.  One pair starts from a file with stamp 0,
  which both make a directory with stamp 1 or 2: three stamps, and a name that is a file
  and two directories, the case that `Both` in `SyncKeepsNewest` is for.
- `host`: contents of one and two blocks; two imports and a delete of one content on
  each kind of store with one failure or one crash; two sources, stores or nodes, one of
  which loses the blob, with two failures and a crash; one or two files that change up to
  three times over two or three import runs, at absolute keys that stay in the root or
  may be promoted, or below a prefix, and a page of links two deep; two callers on one
  file or in a directory that one of them makes; two requests of a client at a time out
  of three, with contents that stay
  in the directory, fill a block, or fill a block and one byte more.  One process has
  one mode: the parts do not share a root in the code either.

`CHECK_DEADLOCK FALSE` is set where the system stops: calls, edits, ticks, puts or
restarts are used up, the file system is shut down, or the command is done.
`store_registry`, `pins`, `blobs` and `blobs_race` are checked for deadlock.

Symmetry (`fs`, `local_root`, `registry`, `sync`) permutes clients, snapshot names or
replicas, which the modules treat alike; no run with a liveness property uses it.

### Fairness

- `RegistryPinner`: tokio's mutex is FIFO, so `Lock` is strongly fair; registry calls
  return, so the steps under the lock are weakly fair.
- `DirActor`: weak fairness of every actor and every timer – the runtime polls each
  task that can go on, and `sleep` ends.
- `BlobsServer`: weak fairness of the handler of each peer: store and pin calls return,
  and an uploading client sends its blob or disconnects.
- `Gc`: weak fairness of the command, a single task.
- `Host`: weak fairness of the importer's tasks and of the jobs on blob stores, which
  the runtime polls and whose calls return.

No client is ever assumed to call anything.

## 5. Proofs

Eight modules, each on its component's module and `TLAPS`; the registries share one, and
`DirActor` has two.  Constants are
arbitrary but for the named `ASSUME`s of the modules, which the runs evaluate: they say
what a well-formed configuration is (stores of the four kinds, paths that are all below
the root, a tree whose directories exist from the root down, the initial snapshots of
such a tree, and no more directories than the promotion threshold, since promotion is
modelled in `DirState`).  Those of
`Host` and `Importer` describe a host before its first step: contents and paths are
sequences, blocks are not empty, the sources of a fetch are stores of the host, the root
refers to stored blobs, requests of the kernel come only to a mount and requests of
users only to a client, whose files are entries of the root itself, only an import may
know that its keys are too few to be promoted, the sources of an import have the times of files or of URLs, and
the pages of a web site link to all of it.

Some theorems have a hypothesis besides.  Each is the condition under which section 6
says that the code is right, and each holds in configurations of the runs:

| Hypothesis | Of | Meaning |
|---|---|---|
| `Exclusive` | `RegistryPinner` | all tasks use one `RegistryPinner` |
| `Alone` | `StoreRegistry` | one writer, and a read fails only on a missing file |
| `UploadsAreReadable` | `AckedDownloadsWhole` | a peer may read the store it uploads to, which the configuration does not enforce |
| `~Inherits` | `KeepsLive`, `ReportIsExact` | every encrypted directory is referred to with its own key |
| `ParentsExist` | `DirActor`, except `SavedTreeLoads`, `NoRollback` and `SaveIsDurable`; `PutsAreNotLost` has it in the property (`OrderCorrect`: or no directory is created) | directories are created below existing ones only; then an actor is never replaced by another one of the same path, and one actor per path, as in the model, is one actor |

- **Registry_proofs**: first `Registry` itself, on the instance `R`:
  `RegistryTypeCorrect`, `RegistryEntryIsBest`, `RegistryConverged`.  The invariant is
  that the row is a greatest element of `since`; the lemmas say that the order on
  (revision, hash) is total up to equal pairs and transitive, so that greatest elements
  of the same set agree.  The payload does not take part in the order, hence "agree on
  revision and hash".  Then the refinement `BackendsAreRegistries`, and through it
  `EntryIsBestCorrect` and `ConvergedCorrect` for the backends of a `MultiRegistry` or
  `TeeRegistry`, for any number of callers, backends and failures: a backend that has
  still to answer answers a set of a message or a delete, never a get (`PendingCalls`).
  Then the calls: `TypeCorrect`, `AckedIsReplicatedCorrect` and, as an action property,
  `GetSeesAckedCorrect`.  Their invariant adds that the backends which answered Ok to a
  set hold its message or a greater one (`OksHold`), that nobody counts on anything
  while a delete or a stream message is under way (`Forgotten`), and that under a policy
  that needs all backends a get that has something to see is still at the first one
  (`GetSees`).
  Last `StoreRegistry`: `StoreTypeCorrect`, the refinement `RefinesRegistry` and
  `TornOrBestCorrect`.  The invariant: a file is the last row written or torn, and what
  the writer has read still decides for its message (`ReadIsFresh`), which is what two
  writers break.  The abstract row is the last one written whole, so a crash inside a
  write is a stutter.
- **RegistryPinner_proofs**: `SnapshotFreshCorrect` and the refinement
  `RefinesPinSet`.  Inductive invariant: types, a task has an operation exactly while
  it is not idle and reads never get to a save (`Shape`), a task that is past the lock
  holds the mutex of its blob (`LockHeld`), and what it has read is still the row (`SnapshotFresh`).  Then
  the next revision is greater than the stored one, `should_store` holds, and each step
  maps to an atomic operation or a stutter.
- **BlobsServer_proofs**: `TypeCorrect`, `AckedIsPinnedCorrect`, for any number of
  peers, blobs and stores and any failures.  The strengthening is `DeleteIsNotAcked`: a
  peer does not count on a blob while its own `DeleteBlob` is under way.
  `NoGarbageCorrect`: every blob that was not there at first is pinned or some request
  under way answers for it (`Accounted`) – an upload that will pin it, its cleanup, or a
  deletion that has yet to come to that store.  `AckedIsStoredIfAloneCorrect` and
  `AckedDownloadsWholeCorrect`: for a peer that has the node for itself, what it was
  promised or is about to be promised is in the store it uploads to (`Kept`), and a
  download has not passed that store while it looks for the blob (`Loading`).
- **LocalRoot_proofs**: all invariants of the run and `TypeOK`, for any number of clients,
  names, states and crashes.  The inductive invariant says for each step of a handler
  what is true in the middle of it: the actor has a message it works on (`Jobs`), what
  is about to be recorded is in the meta store (`Stored`), states on disk lie between
  the acknowledged and the live one (`Durable`), the head is pinned except between the
  unpin and the rename of a save (`Head`), `current_hash` is what the next save has to
  unpin (`Previous`), and pins follow the index by one step (`Snapshots`).

- **Gc_proofs**: `TypeCorrect`, `KeepsLiveCorrect`, `ReportIsExactCorrect`, for any
  graph of directories.  `Live` is what lies in every closed set, so no induction over
  the graph is needed: what is queued or marked lies in every closed set (`Sound`), a
  visited directory is queued or all of it is marked and its subdirectories are visited
  or queued (`Complete`), and so the visited directories are a closed set once the
  queues are empty.  `Report` says what the sweep has done so far.
- **Host_proofs**: all safety properties of the run `host`; the invariants are in
  `HostInvariants`.  First
  `BlobsAreWholeCorrect`, `ImportsAreCleanCorrect` and `RefsAreStoredCorrect`, over all
  modes of a process.  The invariant, `HostInv`, says what a job on
  a store knows at each step (`JobOK`: its temporary object is what its hash says, the
  outboard is written before the blob, a blob is put under its own name only where no
  rename is to follow), that each job is the one that a fetch, an import task, a
  released handle or an upload waits for (`FetchIds`, `ImportIds`, `MountIds`,
  `ClientIds`), so that an answer is never taken for another's, and that the live tree,
  the saved one and every version that a late save may write refer to stored blobs
  (`Rooted`).  On it rest four more
  theorems, each with an invariant of its own:
  - `AnsweredIsDurableCorrect`.  For the mount (`MountInv`): a release that has saved is
    in the open root, and in the saved one if its path has one component (`Kept`), or
    something put there later is; one that has not saved yet is in the open root.  No
    save, however late the hashes of other directories are, writes an own entry of the
    root from anything but the open root.  For the client (`ClientInv`): unless it was
    misled, the open and the saved root have at each path what the last answered request
    left there or a later one left (`Seen`), and every reference gives the content it was
    made for.  The latter is
    `RoundTrip`: encrypted block by block, joined, cut and decrypted, a content of any
    length is itself again.
  - `ReadsAreRightCorrect`.  Each source that kept the blob since the call began
    (`Lasting`) and lies behind the fetcher has failed or could not look (`hid`), and the
    job it waits for imports what was asked for unless the stream was cut (`FetchInv`); a
    client that reads has a reference that was put at the path no earlier than the last
    one answered when it asked (`AskInv`), and gives its content or, cut, a beginning of
    it (`Given`).
  - `ImportIsCurrentCorrect` (`ImportInv`).  A reference with the time its source has
    now was made from what the source holds now (`DatedRef`), because the time is read
    before the content and a change gives the source a time that no reference and no
    task has.  This holds of all references that the open root, the saved one or a late
    save may have (`RootRight`, `HasRef`, `Fits`): a run after a restart may start from
    an older state of a directory.  A task that is done left a current reference; every
    unchanged source had a task, for a web site because the visited URLs are a set that
    contains the base and is closed under links; the saves at the end keep own entries
    (`Finished`).
  - `CacheIsFreshCorrect` (`CacheInv`).  A cached directory is what the root holds, or
    a request under way will read it again, or the race that made it stale is noted in
    `raced`; cached attributes follow the directory above them.  The path of a
    request that has put or made something can be read, so that its refresh does read it
    (`RequestInv`).

  The inductions in these proofs are over lengths, by the least counterexample: the
  library's induction theorems cannot be instantiated (`Least`, `Induct`).
- **DirActor_proofs**, in layers, each on the ones before it.  `Shapes`: every hash
  that a mailbox, an actor or a snapshot holds is stored, or zeroed where directories
  are created; `SavedTreeLoadsCorrect` follows, whatever fails and for any use.
  `TreeCorrect`: the open actors are a tree over the paths and no call replaces one
  that is open.  `CallsAreOwedCorrect` (`Owing`): taking a message from a mailbox makes
  it the actor's task, forwards it, or answers it, and an actor that ends answers what
  is left.  `AskedCorrect`: a save is asked of a child at most once at a time, by its
  own parent, which stays in its save until the child has answered.
  `DirtyIsKnownAboveCorrect` (`Dirt`): a dirty child has its report under way, or its
  parent is dirty and, if that one is in a save, has the child among those it will ask
  or waits for; a directory other than the root saves only while it is dirty itself, so
  a hash that comes up does not clear what a report would have to set.
  `OrderCorrect` (`Order`): the puts to a path are in order in every mailbox and from
  each mailbox to the one above it, and no snapshot is ahead of a put on its way.  A put
  is carried out only where its way ends, so every put below that place is older or gone
  (`WayIsOpen`, `LaterPuts`).  Most steps change no directory and send no put (`Quiet`).
  `NoRollbackCorrect` needs three more.  `Plain`: nobody sends an UpdateDirRefHash.
  `Leq`: one snapshot is later than another, a largest relation (the snapshots of the
  directories are inside a snapshot, and there is no induction over them).  `Grow`: an
  open directory is later than the entry of its parent, and the root than its file; a
  put is later by `Order`, and a save replaces an entry by what its directory holds.
  `Holder` is then followed down the path: that a function given along the paths exists
  is proved from `PathAssumption` (`AlongPaths`), by induction over sets of paths.
- **DirActorPuts_proofs**, on the module before it.
  `PutsAreNotLostCorrect` (`Kept`) puts three things together.  `Match`: a call is one
  message in one mailbox or the task of one actor, and it is the call its client waits
  for, so that the answer to a put accepts that put and no other answer accepts anything.
  `LReads`: the directory a client is routed to is followed down the path as `Holder` is,
  and a step changes what is seen of a path only if it carries out a put to it; opening
  a directory, a hash that comes up (`Told`: only from a directory that is open) and
  create_dir, which moves the files below a path (`Made`), leave it as it is.  `Smooth`:
  while no directory ends, a put leaves a mailbox only for the next one down or when it
  is carried out, and by `Order` it is then not older than what was seen before.
  `SaveIsDurableCorrect` (`Durable`), under the conditions in the property (`FlatUse`: a
  tree of one level without autosave and create_dir, a blob store that does its work).
  It follows the puts that a call of save has to keep.  While the call waits in the
  root's mailbox, each of them is visible, or ahead of the call there, or with a child
  (`Called`).  While the root carries the save out, each is noted in the root, or lies
  with a child that the save has not heard of yet, carried out or ahead of the request
  to save in that child's mailbox (`Saving`).  A child drops out of that set only with
  its hash, which notes the put, or because it has no changes; then what its parent
  refers to notes the put already (`Clean`).  So the file that is written last notes
  every such put, and keeps noting it, since the root file only grows (`Promised`, by
  `Grow`).  All but `Promised` holds until the root begins to end (`NoneEnds`); from
  then on, until the next process, no save is answered Ok.

Left to TLC:

- Liveness (`CallsAnswer`, `CallsReturn`, `AutosavePersists`, `Terminates`,
  `ImportEnds`), which needs fairness and `ENABLED`.
- `Sync` and `DirState`: merge, split and listing are recursive operators.
- `CallsAreOwed` and `DirtyIsKnownAbove` without `ParentsExist`: the run checks them for
  creations below missing directories too, the theorems do not.

## 6. Where code and documentation disagree

Two disagreements have a run of their own (`findings` in `PROJECT.json`).  The
properties of the passing runs carry conditions; each of these is there because of
one of the following, and dropping it makes TLC print the trace.

Registry and pins
- `RegistryApi` says that on a tie the larger hash wins (`stream/mod.rs:25`);
  `order.rs:20` keeps the smaller one.
- `StoreRegistry::set` compares and writes without a lock: of two writers the older
  message may win (`Writer = {w1, w2}` violates `TornOrBest`), although the type
  promises "to avoid regressing to older revisions".  A read error taken for a missing
  file does the same (`ReadErrors = TRUE`).
- Two `RegistryPinner`s on one registry lose pins: each has mutexes of its own, both
  write revision n + 1, both answer Ok (`PinnerOf` not constant violates
  `ImplementsPinSet`).
- `RegistryServer::handle_get` answers an error with "no entry"; a pinner on a
  `RemoteRegistry` then takes the pin set for empty and reports the blob orphaned.
- `MultiRegistry::get` returns the first entry, not the latest, and `Ok(None)` when
  all backends fail (the conditions `config.need = config.n` and `~failed` of
  `GetSeesAcked`).

FS5
- A save passes over a grandchild whose `MarkAsDirty` is still under way (condition
  `OneLevel` of `SaveIsDurable`), and a child's save error is logged while the parent
  answers Ok (`~config.errors`).
- On `Shutdown` a directory saves itself before its children and the children's saves
  do not go up, so that a changed child is imported but nothing refers to it
  (`actor.rs:226`); `api.rs:85` says that the state is persisted "periodically and on
  shutdown/drop".
- An autosave's hash that waits in the mailbox of a saving parent is applied after the
  newer one (condition `WithoutAutosave` of `NoRollback`).
- A save between `create_dir` or a promotion and the first hash of the new directory
  writes the zeroed hash, and the directory cannot be read after a restart (condition
  `WithoutCreate` of `SavedTreeLoads`, `Unknown` in `LikeAFlatDir`, `lost` in `RootFs`);
  `sharding.rs:270` describes and avoids the same race.
- A directory whose autosave runs just before the save of its parent answers
  `SaveIfDirty` with none while its hash is still queued (`persistence.rs:316`): the save
  answers Ok and the root has the old hash.  So a FUSE release in a directory is answered
  and not saved (condition `Own` of `AnsweredIsDurable`).  An older queued hash is
  applied after the save and written by the shutdown (`actor.rs:224`, `388`): an import
  with a prefix succeeds and its last files are not in the saved root (condition `Own` of
  `ImportIsCurrent`).
- `create_dir` of an existing path makes a directory named "" in it; `create_dir` of
  "a/b" without "a" hides the files it moves (condition `ParentsExist`).
- A child that waits for room in its parent's mailbox while the parent waits for the
  child's answer: neither goes on (condition `config.capacity > config.calls`).
- The save after a shutdown's answer may end between unpin and pin and leave the root
  without its head pin (`Exit` counts as a fault); a snapshot of an unsaved state leaks
  a head pin (`unsaved`); two snapshots of one root share one pin (`shared`).
- The exclusive lock of a root is on the file that the first save replaces by a rename,
  so a second process can take it (`context.rs:120`).

Merge, sharding and sync
- `shard()` and the merge into shards choose the bucket by the whole key, the routing of
  a call by its first component: after sharding a key with a slash is not found
  (`sharding.rs:231` says that entries are addressed by "the immediate entry name";
  `LikeAFlatDir` is about keys without a slash).
- A merge into a sharded directory drops the entries of buckets that have no shard and
  reports success (`merge.rs:114`).
- `export_snapshot` of a sharded root has no entries, so that sync of it stops without
  an error (condition `~Sharded` of `ReplicasAgree`).
- Equal timestamps never converge, since the comparison is strict (`merge.rs:150`), and
  references made by `FileRef::new` have none, which counts as 0.
- A remote directory is compared with the local *file* of its name only
  (`merge.rs:143`).  After `create_dir` over a file both exist, and a directory that is
  newer than the remote one, which is newer than the file, is replaced by the older one
  (condition `Both` of `SyncKeepsNewest`).
- The timestamp of a directory is set when it is made: what changes below it is not
  propagated.  The snapshots of child directories are not copied, so a directory that
  was pulled cannot be read on the other replica, and what its old actor still sends
  does not matter.
- A registry error looks like "no entry": a push then starts from an empty directory or
  signs revision 0, which the registry ignores without a word; the next ticks repair it
  (`ReplicasAgree` covers this).

Blob stores and transfer
- Besides the race of the run `blobs_race`: when pinning fails, `handle_upload` deletes
  a blob that was stored before (configuration `Failing`); an upload that breaks off
  may become a stored blob, such as the empty one, and its cleanup deletes that
  (`Cut`).  With either in `RaceConfigs` the run `blobs_race` shows it.
- `import_bytes` on a remote store returns without a pin if the blob is there.
- `DeleteBlob` by a peer without a pin removes a blob that nobody pins, the node's own
  ones included.
- A download that ends early, or that the node refuses, is returned as Ok, even as an
  empty blob; size and hash are not checked (`client.rs:186`; `cut` in `ReadsAreRight`).
  A fetch from such a node says Ok and has imported something else.
- A node that fails to look into its store answers that the blob does not exist
  (`net_protocol.rs:230`), so a fetch says "not found" (`hid` in `ReadsAreRight`).
- A file that grows while it is imported, by no more than the pipe holds, is stored
  whole under the hash of its beginning (`outboard.rs:18` says that a size change is an
  error), and a later import of that beginning finds it there (`grown` in
  `BlobsAreWhole`).
- A delete between the two halves of an import leaves a blob without an outboard
  (`removed`).  On Sia the second of two imports of one content fails at the rename and
  leaves its temporary object; every interrupted import leaves one (`broken`).
- `fetch_to_store` does not compare the hash of what it imported with the one that was
  asked for, so that a source with a grown file answers for its beginning (`grown` in
  `FetchIsRight`), and takes an error of the destination's `contains` for "not there".

Importers, FUSE, client
- Two pages that link to each other are followed for ever; only a link of a page to
  itself is skipped.  A `HEAD` that is answered with an error skips the URL and counts
  as success, and `key_for_url` drops the query, so that two URLs may share a key.
- `CacheIsFresh` leaves out what a request had read before another one changed it: the
  stale directory stays cached until the next change below it.  A save that fails skips
  the refresh, a release whose import fails has lost what was written.  The lock on the
  parent's cache entry is held across an await.  `open` gives every existing file the
  handle 0, so it cannot be written; ctrl-c saves nothing.
- A registry error that the node answers with "no entry" opens an empty root, whose next
  save replaces the old one, or makes a save sign revision 0, which is ignored while the
  save answers Ok (`persistence.rs:222`, `s5_registry/src/lib.rs:103`; condition `misled`
  of `AnsweredIsDurable` and `ReadsAreRight`).  A root that fails to load ends its actor,
  and `file_get` reports that as "no file" (`api.rs:336`; condition `loaded` of
  `ReadsAreRight`).
- Two clients of one seed phrase publish their whole root over each other's: a save
  numbers its entry after the head it reads and does not merge it.  A listing shows the
  first 1000 entries and drops
  the cursor.  The hash in the reference of an encrypted file is that of the plain
  content, so `collect_fs_reachable_hashes` does not find its blob; only the node's pin
  keeps it.

GC
- Besides the run `gc_skipped`: a directory that inherits its parent's key is not
  decoded, since the collector uses the key in the reference only
  (`Inherits = TRUE` in `MCGc.cfg`).

## 7. Not modelled

- The CBOR and bao encodings as bytes, the codecs of identifiers and locations, hashing
  and key derivation: library calls and tables of tags without state; a hash is the
  thing itself, a key is a token.
- The requests of the S3, Sia and HTTP clients, funding and host selection: I/O; of the
  stores, what their users can tell apart is in `BlobStore`.
- Configuration parsing, key files and command-line output; commands that call one
  modelled operation and print its result.
- The RPC framing of one registry call; range reads and the locations in the answer to a
  query.
- Encrypted subdirectories and versions of a file in `DirActor`; two clients of one
  registry root in `Client`; `download_blob`, which reads one blob by its hash.
- Generated bindings, and the Sia streaming experiment, which is outside the system.

Time is not modelled: a timer may fire at any moment after it is armed.
