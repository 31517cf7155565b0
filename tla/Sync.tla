--------------------------------- MODULE Sync ---------------------------------
(***************************************************************************)
(* The snapshot sync of a node (s5_node/src/sync.rs).  Each replica keeps  *)
(* a plaintext FS5 on a local path and, at every tick, opens an encrypted  *)
(* FS5 that is kept under a registry key on an untrusted node, pushes its  *)
(* own root snapshot into it and pulls the result back.  Pushing is load,  *)
(* merge, import, read the revision, publish: nothing keeps two replicas   *)
(* from doing so at the same time.                                         *)
(*                                                                         *)
(* The directories are those of DirState; only the root is synced.  The    *)
(* one-replica configurations have no ticks: they are there for what users *)
(* of one FS5 do with a directory while it is promoted, sharded, saved,    *)
(* reopened and listed.                                                    *)
(***************************************************************************)
EXTENDS DirState

CONSTANTS
    Replica,   \* the nodes that sync
    Configs    \* the file systems and the uses of them that are tried

Ops == {"put", "delete", "dir", "list"}

\* A setting and how it is used.
Config ==
    [replicas : SUBSET Replica,
     names : SUBSET Name,         \* the keys that are used
     files : SUBSET Name,         \* the files there are at first
     ops : SUBSET Ops,
     stamps : SUBSET Nat,         \* timestamps that entries are given
     threshold : Nat,             \* the size from which on a directory shards
     edits : Nat,                 \* bound: edits of all replicas together
     ticks : Nat,                 \* bound: ticks of all replicas together
     limit : Nat,                 \* entries on a page of a listing
     faults : Nat]                \* bound: failed requests and restarts together

ASSUME ConfigAssumption ==
    \A k \in Configs : k \in Config /\ k.files \subseteq k.names

VARIABLES
    config,    \* the setting; it does not change
    fs,        \* the plaintext file system of each replica, in memory
    disk,      \* the same as last saved
    remote,    \* the entry under the registry key: revision and directory, or None
    job,       \* the tick of each replica
    edits,     \* edits so far
    ticks,     \* ticks so far
    faults,    \* failed requests and restarts so far
    flat,      \* history: what each key was last set to, in memory
    flatDisk,  \* history: the same as last saved
    made,      \* history: every entry that was made
    calm,      \* history: the last ticks, as long as each ran alone and undisturbed
    listing    \* a client that pages through a directory

vars == <<config, fs, disk, remote, job, edits, ticks, faults, flat, flatDisk, made, calm, listing>>

R == config.replicas

\* What is in the saved state of a directory whose hash had not come.
Unknown == [unknown |-> TRUE]

Idle == [at |-> "idle"]
Job(at, enc, rev, alone) == [at |-> at, enc |-> enc, rev |-> rev, alone |-> alone]

Init ==
    /\ config \in Configs
    /\ LET start == [x \in Name |-> IF x \in config.files THEN FileRef(0, None, FALSE) ELSE None] IN
       /\ fs = [n \in R |-> Flat(DirV1(NoEntries, start))]
       /\ flat = [n \in R |-> start]
    /\ disk = fs
    /\ flatDisk = flat
    /\ remote = None
    /\ job = [n \in R |-> Idle]
    /\ edits = 0
    /\ ticks = 0
    /\ faults = 0
    /\ made = {}
    /\ calm = <<>>
    /\ listing = None

\* Whether a request to the untrusted node, or to the local store, may fail.
Fails == IF faults < config.faults THEN BOOLEAN ELSE {FALSE}
Count(failed) == faults' = IF failed THEN faults + 1 ELSE faults

\* RegistryApi get as the client has it: the node answers an error of its registry
\* with no entry; a lost connection is an error.
RegistryGet == {"entry"} \cup (IF TRUE \in Fails THEN {"none", "dead"} ELSE {})

\* What was there all the time since the listing began.
Watch(dir) ==
    listing' = IF listing = None THEN None
               ELSE [listing EXCEPT !.stable = @ \cap Listed(Merged(dir))]

\* The ticks under way do not count as undisturbed.
Disturb == /\ calm' = <<>>
           /\ job' = [n \in R |-> IF job[n] = Idle THEN Idle ELSE [job[n] EXCEPT !.alone = FALSE]]

------------------------------------------------------------------------------
(* Users of a plaintext file system.                                        *)

\* The child directory that key x belongs to, None if it is an entry of its own.
Child(d, x) == d[Home(d, x)].dirs[First[x]]

\* What file_get finds for key x.
Found(d, x) ==
    IF Child(d, x) = None THEN d[Home(d, x)].files[x]
    ELSE IF First[x] = x \/ OpenDir(Child(d, x)) = None THEN None ELSE OpenDir(Child(d, x))[x]

\* create_dir_at and promote_prefix: a new child for prefix x takes over the files
\* below it.  Its entry has the zero hash until the child has saved itself and its
\* UpdateDirRefHash has come.
Promote(s, x, ts, n) ==
    LET below(y) == First[y] = x /\ y # x
        moved == [y \in Name |-> IF below(y) THEN s.files[y] ELSE None] IN
    [s EXCEPT !.dirs[x] = DirRef(ts, n, None, Kid(moved, FALSE, moved)),
              !.files = [y \in Name |-> IF below(y) THEN None ELSE @[y]]]

\* check_auto_promote, after a put of key x.
AutoPromoted(s, x, ts, n) ==
    IF x # First[x]
       /\ Cardinality({y \in Name : s.files[y] # None /\ First[y] = First[x] /\ y # First[y]})
            > PromotionThreshold
    THEN Promote(s, First[x], ts, n) ELSE s

\* A file operation that leaves FileRef e under key x, in the directory of replica
\* n or in one of its children, whose snapshot must be in the store of n.
Write(n, x, e) ==
    LET d == fs[n]
        p == Home(d, x)
        c == Child(d, x) IN
    IF c # None
    THEN [d EXCEPT ![p].dirs[First[x]].kid =
             Kid([OpenDir(c) EXCEPT ![x] = e], TRUE, IF c.kid = None THEN None ELSE c.kid.sent)]
    ELSE [d EXCEPT ![p] = AutoPromoted([@ EXCEPT !.files[x] = e], x, e.ts, n)]
Writable(n, x) ==
    LET c == Child(fs[n], x) IN
    c # None => First[x] # x /\ c.by = n /\ OpenDir(c) # None

Edit(n, op, x, kind, e, dir) ==
    /\ op \in config.ops /\ edits < config.edits /\ x \in config.names
    /\ edits' = edits + 1
    /\ fs' = [fs EXCEPT ![n] = dir]
    /\ flat' = [flat EXCEPT ![n] = IF kind = "file" THEN [@ EXCEPT ![x] = e] ELSE @]
    /\ made' = made \cup {<<x, kind, e>>}
    /\ Disturb
    /\ Watch(dir)
    /\ UNCHANGED <<config, disk, remote, ticks, faults, flatDisk>>

\* file_put_sync, with the timestamp the caller gives the FileRef.
FilePut(n, x, ts) ==
    LET e == FileRef(ts, n, FALSE) IN
    /\ Writable(n, x)
    /\ Edit(n, "put", x, "file", e, Write(n, x, e))

\* file_delete: a tombstone for what is there.
FileDelete(n, x, ts) ==
    LET e == FileRef(ts, n, TRUE) IN
    /\ Writable(n, x) /\ Found(fs[n], x) # None
    /\ Edit(n, "delete", x, "file", e, Write(n, x, e))

\* create_dir of a name that is not a directory yet.
CreateDir(n, x, ts) ==
    LET p == Home(fs[n], x) IN
    /\ First[x] = x /\ Child(fs[n], x) = None
    /\ Edit(n, "dir", x, "dir", FileRef(ts, n, FALSE),
            [fs[n] EXCEPT ![p] = Promote(@, x, ts, n)])

\* UpdateDirRefHash, from the first save of a new child: an entry that has a newer
\* hash by then gets the older one.  If that save fails there is no message.
UpdateDirRefHash(n, p, x) ==
    /\ fs[n][p] # None /\ fs[n][p].dirs[x] # None
    /\ LET e == fs[n][p].dirs[x] IN
       /\ e.kid # None /\ e.kid.sent # None
       /\ \E failed \in Fails :
           /\ fs' = [fs EXCEPT ![n][p].dirs[x] =
                       [@ EXCEPT !.hash = IF failed THEN @ ELSE e.kid.sent, !.kid.sent = None]]
           /\ Count(failed)
    /\ UNCHANGED <<config, disk, remote, job, edits, ticks, flat, flatDisk, made, calm, listing>>

\* save_if_dirty of every child: a dirty one answers with its hash, one that is not
\* with none, even if its hash has not come yet.  One that fails is logged.
KidsSaved(d, failed) ==
    LET saved(e, x) == IF e = None \/ e.kid = None \/ ~e.kid.dirty \/ x \in failed THEN e
                       ELSE [e EXCEPT !.hash = e.kid.files, !.kid.dirty = FALSE] IN
    [p \in Place |-> IF d[p] = None THEN None
                     ELSE [d[p] EXCEPT !.dirs = [x \in Name |-> saved(@[x], x)]]]

\* What a save of directory d leaves on disk.  A shard that has not heard yet that one
\* of its own shards is dirty does not ask it.  A shard that fails is logged, and the
\* root keeps the hash that it has.
OnDisk(d, old, unasked, failed) ==
    [p \in Place |->
        IF p # <<>> /\ p[1] \in failed THEN old[p]
        ELSE IF d[p] = None THEN None
        ELSE IF Len(p) > 1 /\ p[1] \in unasked /\ old[p] # None THEN old[p]
        ELSE Snapshot(d[p])]

\* The children that have something to save; the shards that have saved before, and
\* those that have shards of their own.
DirtyKids(d) ==
    {x \in Name : \E p \in Place : d[p] # None /\ d[p].dirs[x] # None
                    /\ d[p].dirs[x].kid # None /\ d[p].dirs[x].kid.dirty}
Shards(d) == {b \in Buckets : d[<<b>>] # None}
Parents(d) == {b \in Shards(d) : d[<<b>>].sharded}

\* The key is in a child whose entry does not have the hash of what it holds.
Behind(d, x) ==
    LET c == Child(d, x) IN x # First[x] /\ c # None /\ c.hash # OpenDir(c)

\* save, of directory d as it is once it has been sharded.
SavedAs(n, d) ==
    \E unasked \in SUBSET Parents(d), kids \in SUBSET DirtyKids(d), shards \in SUBSET Shards(disk[n]) :
        LET new == KidsSaved(d, kids)
            failed == kids \cup shards # {} IN
        /\ failed \in Fails
        /\ Count(failed)
        /\ fs' = [fs EXCEPT ![n] = new]
        /\ disk' = [disk EXCEPT ![n] = OnDisk(new, @, unasked, shards)]
        /\ flatDisk' = [flatDisk EXCEPT ![n] =
              [x \in Name |-> IF Behind(new, x) THEN Unknown
                              ELSE IF disk'[n][Home(new, x)] # Snapshot(new[Home(new, x)]) THEN @[x]
                              ELSE flat[n][x]]]
        /\ Watch(new)

\* save: a snapshot that is too large is sharded first.  If a shard of the root
\* cannot be imported the save fails.
Saved(n) ==
    \/ SavedAs(n, fs[n])
    \/ \E p \in Place : MayShard(fs[n], p, config.threshold) /\ SavedAs(n, Shard(fs[n], p, None))
    \/ /\ TRUE \in Fails
       /\ Count(TRUE)
       /\ UNCHANGED <<disk, flatDisk>>
       /\ IF MayShard(fs[n], <<>>, config.threshold)
          THEN \E stop \in Buckets : /\ fs' = [fs EXCEPT ![n] = Shard(@, <<>>, stop)]
                                     /\ Watch(fs'[n])
          ELSE UNCHANGED <<fs, listing>>

Save(n) ==
    /\ config.ticks = 0
    /\ Saved(n)
    /\ UNCHANGED <<config, remote, job, edits, ticks, flat, made, calm>>

\* The process ends and opens the local path again.
Restart(n) ==
    /\ TRUE \in Fails /\ (fs[n] # disk[n] \/ job[n] # Idle)
    /\ fs' = [fs EXCEPT ![n] = disk[n]]
    /\ flat' = [flat EXCEPT ![n] = flatDisk[n]]
    /\ job' = [k \in R |-> IF k = n \/ job[k] = Idle THEN Idle ELSE [job[k] EXCEPT !.alone = FALSE]]
    /\ calm' = <<>>
    /\ listing' = None
    /\ Count(TRUE)
    /\ UNCHANGED <<config, disk, remote, edits, ticks, flatDisk, made>>

\* FS5::list, called again with the cursor of the last page until one is empty.
StartListing(n) ==
    /\ "list" \in config.ops /\ listing = None
    /\ listing' = [of |-> n, cursor |-> None, got |-> <<>>, done |-> FALSE,
                   stable |-> Listed(Merged(fs[n]))]
    /\ UNCHANGED <<config, fs, disk, remote, job, edits, ticks, faults, flat, flatDisk, made, calm>>

NextPage ==
    /\ listing # None /\ ~listing.done
    /\ LET page == ListEntries(Merged(fs[listing.of]), listing.cursor, config.limit) IN
       listing' = IF page = <<>> THEN [listing EXCEPT !.done = TRUE]
                  ELSE [listing EXCEPT !.cursor = Last(page), !.got = @ \o page]
    /\ UNCHANGED <<config, fs, disk, remote, job, edits, ticks, faults, flat, flatDisk, made, calm>>

------------------------------------------------------------------------------
(* A tick.                                                                  *)

TickStep(n, j) ==
    /\ job' = [job EXCEPT ![n] = j]
    /\ UNCHANGED <<config, edits, flat, flatDisk, made>>

\* open_encrypted_fs and the load of its root: a registry that answers with no
\* entry gives an empty directory, also when that is how the server reports an
\* error; a lost connection ends the actor.
OpenEncrypted(n) ==
    /\ job[n] = Idle /\ ticks < config.ticks
    /\ ticks' = ticks + 1
    /\ LET others == \E k \in R \ {n} : job[k] # Idle IN
       \E got \in RegistryGet :
          /\ Count(got # "entry")
          /\ job' = [k \in R |->
               IF k = n
               THEN Job("opened",
                        CASE got = "dead" -> None
                          [] got = "none" \/ remote = None -> NewDir
                          [] OTHER -> remote.dir,
                        None, ~others /\ got = "entry")
               ELSE IF job[k] = Idle THEN Idle ELSE [job[k] EXCEPT !.alone = FALSE]]
    /\ UNCHANGED <<config, fs, disk, remote, edits, flat, flatDisk, made, calm, listing>>

\* push_snapshot: export_snapshot is the root's own state, whether it is sharded or
\* not, and merge_from_snapshot fails if the encrypted root has not loaded; then
\* pull_snapshot fails as well.
Push(n) ==
    /\ job[n].at = "opened"
    /\ IF job[n].enc = None THEN TickStep(n, Idle)
       ELSE TickStep(n, [job[n] EXCEPT !.at = "merged",
                                       !.enc = MergeSnapshot(@, Snapshot(fs[n][<<>>]))])
    /\ calm' = IF job[n].enc = None THEN <<>> ELSE calm
    /\ UNCHANGED <<fs, disk, remote, ticks, faults, listing>>

\* Broken variant of Revision: the revision is not raised.
RevisionAgain == IF remote = None THEN 0 ELSE remote.rev

\* The revision after the one that the registry has.
Revision == IF remote = None THEN 0 ELSE remote.rev + 1

\* encrypted.save, up to the read of the revision: an error ends the push.
SaveEncrypted(n) ==
    /\ job[n].at = "merged"
    /\ \E got \in RegistryGet :
        /\ Count(got # "entry")
        /\ \/ /\ got # "dead"
              /\ \E enc \in {job[n].enc} \cup
                       (IF MayShard(job[n].enc, <<>>, config.threshold)
                        THEN {Shard(job[n].enc, <<>>, None)} ELSE {}) :
                    TickStep(n, Job("signed", enc, IF got = "none" THEN 0 ELSE Revision,
                                    job[n].alone /\ got = "entry"))
           \/ got = "dead" /\ TickStep(n, [job[n] EXCEPT !.at = "pull", !.alone = FALSE])
    /\ UNCHANGED <<fs, disk, remote, ticks, calm, listing>>

\* StreamMessage::should_store.  Ciphertexts are random, so either may have the
\* smaller hash.
Stores(rev) ==
    IF remote = None \/ rev > remote.rev THEN {TRUE}
    ELSE IF rev = remote.rev THEN BOOLEAN ELSE {FALSE}

\* The registry decides whether the entry is stored; the answer may get lost, and
\* the pull follows in any case.
Publish(n) ==
    /\ job[n].at = "signed"
    /\ \E lost \in Fails, stored \in Stores(job[n].rev) :
        /\ remote' = IF stored THEN [rev |-> job[n].rev, dir |-> job[n].enc] ELSE remote
        /\ TickStep(n, [job[n] EXCEPT !.at = "pull", !.alone = @ /\ ~lost])
        /\ Count(lost)
    /\ UNCHANGED <<fs, disk, ticks, calm, listing>>

\* pull_snapshot, up to the save: the root's own state of the encrypted file system
\* that the push has merged into.
Pull(n) ==
    /\ job[n].at = "pull"
    /\ fs' = [fs EXCEPT ![n] = MergeSnapshot(@, job[n].enc[<<>>])]
    /\ TickStep(n, [job[n] EXCEPT !.at = "save"])
    /\ UNCHANGED <<disk, remote, ticks, faults, calm, listing>>

\* plaintext.save, the end of the tick.
EndTick(n) ==
    /\ job[n].at = "save"
    /\ Saved(n)
    /\ job' = [job EXCEPT ![n] = Idle]
    /\ calm' = IF ~job[n].alone THEN <<>>
               ELSE IF Len(calm) < 3 THEN Append(calm, n) ELSE Append(Tail(calm), n)
    /\ UNCHANGED <<config, remote, edits, ticks, flat, made>>

Next ==
    \/ \E n \in R, x \in Name, ts \in config.stamps :
          FilePut(n, x, ts) \/ FileDelete(n, x, ts) \/ CreateDir(n, x, ts)
    \/ \E n \in R, p \in Place, x \in Name : UpdateDirRefHash(n, p, x)
    \/ \E n \in R :
          \/ Save(n) \/ Restart(n) \/ StartListing(n)
          \/ OpenEncrypted(n) \/ Push(n) \/ SaveEncrypted(n) \/ Publish(n) \/ Pull(n) \/ EndTick(n)
    \/ NextPage

Spec == Init /\ [][Next]_vars

------------------------------------------------------------------------------
(* Properties.                                                              *)

\* Keys for which two different entries were made with the same timestamp: the
\* comparison is strict, so each replica keeps its own (merge.rs:150).
Tied(x) ==
    \E e, f \in {m \in made : m[1] = x} : e # f /\ e[3].ts = f[3].ts

Sharded == \E d \in {fs[n] : n \in R} \cup (IF remote = None THEN {} ELSE {remote.dir}) :
              d[<<>>].sharded

\* What replicas can agree on: timestamps and writers.
Stamp(e) == IF e = None THEN None ELSE <<e.ts, e.by>>
Entries(d) == [x \in {y \in Name : ~Tied(y)} |->
                  <<d[<<>>].files[x], Stamp(d[<<>>].dirs[x])>>]

\* Three ticks in turn, alone and without an error after the last edit, and the two
\* replicas and the untrusted node have the same entries, whatever happened before:
\* pushes that overwrote each other, lost answers, revisions that were read as
\* absent, restarts.  It is not so for ties and for directories that have been
\* sharded (sync.rs:84, persistence.rs:222).
ReplicasAgree ==
    Len(calm) = 3 /\ calm[1] # calm[2] /\ calm[2] # calm[3] /\ ~Sharded =>
        \A n \in R : Entries(fs[n]) = Entries(remote.dir)

\* The timestamp of what a directory shows under key x, s being its flat view.
Age(s, x) ==
    IF s.dirs[x] # None /\ (s.files[x] = None \/ s.dirs[x].ts > s.files[x].ts)
    THEN s.dirs[x].ts + 1
    ELSE IF s.files[x] # None THEN s.files[x].ts + 1 ELSE 0

\* A name that is both a file and a directory, after a create_dir over the file.
Both(s, x) == s.files[x] # None /\ s.dirs[x] # None

\* No tick, save or failed attempt to shard replaces an entry of a replica by an
\* older one or loses it: only an edit or a restart does.  It is not so for a name
\* that is a file and a directory, where a directory is compared with the file only
\* (merge.rs:143).
SyncKeepsNewest ==
    [][edits' = edits => \A n \in R :
          \/ fs'[n] = fs[n]
          \/ LET old == Merged(fs[n])
                 new == Merged(fs'[n]) IN
             \A x \in Name : Age(old, x) <= Age(new, x) \/ Both(old, x)
          \/ Restart(n)]_vars

\* A sharded directory behaves like a flat one: file_get finds what was last put or
\* deleted under a key without a slash, or before the directory was sharded, after
\* promotions, splits that stopped half way and restarts too (actor.rs:263,
\* sharding.rs:254).  It is not so after a restart for what was in a directory whose
\* entry was saved before its hash had come, or with an older one (sharding.rs:105).
LikeAFlatDir ==
    config.ticks = 0 =>
    \A n \in R, x \in config.names :
        /\ x = First[x] \/ ~fs[n][<<>>].sharded
        /\ x = First[x] => Child(fs[n], x) = None
        /\ flat[n][x] # Unknown
        => Found(fs[n], x) = flat[n][x]

\* Whatever is edited, promoted or sharded between two pages, a listing returns
\* nothing twice and in the end everything that was there all the time
\* (listing.rs:31).
PagesAreComplete ==
    listing # None =>
        /\ \A i, j \in DOMAIN listing.got : i < j => ListedBefore(listing.got[i], listing.got[j])
        /\ listing.done => listing.stable \subseteq {listing.got[i] : i \in DOMAIN listing.got}
==============================================================================
