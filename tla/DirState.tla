------------------------------- MODULE DirState -------------------------------
(***************************************************************************)
(* The state of one directory and the operations on it: last-write-wins    *)
(* merge (s5_fs/src/actor/merge.rs), promotion and sharding                *)
(* (actor/sharding.rs), the flat view of a sharded directory               *)
(* (actor/snapshots.rs) and paged listing (actor/listing.rs).              *)
(*                                                                         *)
(* A key of a directory is a path below it: First[x] is its first          *)
(* component, and First[x] = x for a key without a slash.  Keys are        *)
(* numbers, in the order of the strings.  A directory that grew too large  *)
(* is a tree of snapshots: the one at place <<>> is its own, the one at    *)
(* Append(p, b) is shard b of the one at p, whose shard level is Len(p).   *)
(***************************************************************************)
EXTENDS Naturals, Sequences, FiniteSets, SequencesExt

CONSTANTS
    Name,                 \* keys of directory entries
    First,                \* the first component of each key
    Buckets,              \* the shard indexes
    Bucket,               \* the byte of the hash of each key that a level uses
    MaxShardLevel,        \* bound: shards of this level do not shard again
    PromotionThreshold,   \* FS5_PROMOTION_THRESHOLD
    None                  \* no entry, no snapshot

ASSUME NameAssumption ==
    /\ Name \subseteq Nat
    /\ First \in [Name -> Name]
    /\ \A x \in Name : First[First[x]] = First[x] /\ First[x] <= x
    /\ Buckets \subseteq Nat /\ MaxShardLevel \in Nat
    /\ Bucket \in [0 .. MaxShardLevel -> [Name -> Buckets]]
    /\ PromotionThreshold \in Nat

\* DirV1: entries that are not there are None.  A FileRef has the timestamp it
\* was given (0: none), whoever wrote it and whether it is a tombstone.  A DirRef has
\* the time it was made, whoever made it, the files of the child whose hash it has
\* (None: the zero hash that it begins with) and, in memory, the child's actor if
\* there is one: its files, whether they are dirty, and those whose hash is on its
\* way to the parent.
NoEntries == [x \in Name |-> None]
DirV1(dirs, files) == [dirs |-> dirs, files |-> files, sharded |-> FALSE, shards |-> {}]
FileRef(ts, by, dead) == [ts |-> ts, by |-> by, dead |-> dead]
DirRef(ts, by, hash, kid) == [ts |-> ts, by |-> by, hash |-> hash, kid |-> kid]
Kid(files, dirty, sent) == [files |-> files, dirty |-> dirty, sent |-> sent]

\* open_dir: the files of a child, from its actor or as its hash says; None if there is
\* nothing under the zero hash.
OpenDir(e) == IF e.kid = None THEN e.hash ELSE e.kid.files

\* The entries without the actors: what is written of a snapshot.
Written(dirs) == [x \in Name |-> IF dirs[x] = None THEN None ELSE [dirs[x] EXCEPT !.kid = None]]
Snapshot(s) == [s EXCEPT !.dirs = Written(@)]

Place == UNION {[1 .. k -> Buckets] : k \in 0 .. MaxShardLevel + 1}

\* DirV1::new(), as a directory that is not sharded.
Flat(s) == [p \in Place |-> IF p = <<>> THEN s ELSE None]
NewDir == Flat(DirV1(NoEntries, NoEntries))

------------------------------------------------------------------------------
(* Merge.                                                                   *)

Newer(e, than) == than = None \/ e.ts > than.ts

\* Broken variant of TakesFile: whatever is remote wins over a file.
TakesAnyFile(s, r, x) ==
    /\ r.files[x] # None
    /\ s.dirs[x] # None => Newer(r.files[x], s.dirs[x])

\* The remote directory is compared with the local file of that name if there is
\* one, and else with the local directory; a remote file the other way round.
TakesDir(s, r, x) ==
    /\ r.dirs[x] # None
    /\ Newer(r.dirs[x], IF s.files[x] # None THEN s.files[x] ELSE s.dirs[x])
TakesFile(s, r, x) ==
    /\ r.files[x] # None
    /\ Newer(r.files[x], IF s.dirs[x] # None THEN s.dirs[x] ELSE s.files[x])

\* merge_entries_local: all directories, then all files.
MergeDirs(s, r) ==
    [s EXCEPT !.dirs = [x \in Name |-> IF TakesDir(s, r, x) THEN r.dirs[x] ELSE s.dirs[x]],
              !.files = [x \in Name |-> IF TakesDir(s, r, x) THEN None ELSE s.files[x]]]
MergeFiles(s, r) ==
    [s EXCEPT !.dirs = [x \in Name |-> IF TakesFile(s, r, x) THEN None ELSE s.dirs[x]],
              !.files = [x \in Name |-> IF TakesFile(s, r, x) THEN r.files[x] ELSE s.files[x]]]
MergeEntriesLocal(s, r) == MergeFiles(MergeDirs(s, r), r)

------------------------------------------------------------------------------
(* Shards.                                                                  *)

\* The snapshot that is reached from the directory by going, level by level, to
\* the shard for key y as long as there is one.
Reached(d, y) ==
    LET walk[k \in 0 .. MaxShardLevel] ==
            LET p == IF k = 0 THEN <<>> ELSE walk[k - 1] IN
            IF Len(p) = k /\ d[p].sharded /\ Bucket[k][y] \in d[p].shards
            THEN Append(p, Bucket[k][y]) ELSE p
    IN walk[MaxShardLevel]

\* Broken variant of Home: every level uses the byte of the first.
HomeFirstByte(d, x) ==
    LET b == Bucket[0][First[x]] IN
    IF ~(d[<<>>].sharded /\ b \in d[<<>>].shards) THEN <<>>
    ELSE IF d[<<b>>].sharded /\ b \in d[<<b>>].shards THEN <<b, b>> ELSE <<b>>

\* route_to_child: an operation on key x is routed by its first component.
Home(d, x) == Reached(d, First[x])

\* merge_snapshot and merge_snapshot_into_shards: an entry is routed by its whole
\* key, and lost where a sharded snapshot has no shard for it.
MergeSnapshot(d, r) ==
    LET kept(p, f) == [x \in Name |-> IF Reached(d, x) = p THEN f[x] ELSE None] IN
    [p \in Place |->
        IF d[p] = None \/ d[p].sharded THEN d[p]
        ELSE MergeEntriesLocal(d[p], [dirs |-> kept(p, r.dirs), files |-> kept(p, r.files)])]

\* The entries of snapshot s, and how many there are: what to_bytes is long for.
Used(s) == {x \in Name : s.dirs[x] # None \/ s.files[x] # None}
Size(s) == Cardinality(Used(s))

\* The entries of s for shard b: all keys that hash to it.  The shard does not know the
\* actors of the children.
SplitOff(s, level, b) ==
    LET part(f) == [x \in Name |-> IF Bucket[level][x] = b THEN f[x] ELSE None] IN
    DirV1(part(Written(s.dirs)), part(s.files))

\* shard: the snapshot at p is split into the shards it has entries for, which are
\* imported one by one.  If an import fails, here at shard `stop`, the ones before
\* it stay and the entries are not cleared.
Shard(d, p, stop) ==
    LET s == d[p]
        used == {Bucket[Len(p)][x] : x \in Used(s)}
        done == {b \in used : stop = None \/ b < stop} IN
    [q \in Place |->
        IF q = p
        THEN [dirs |-> IF done = used THEN NoEntries ELSE s.dirs,
              files |-> IF done = used THEN NoEntries ELSE s.files,
              sharded |-> TRUE, shards |-> done]
        ELSE IF \E b \in done : q = Append(p, b)
        THEN SplitOff(s, Len(p), q[Len(q)]) ELSE d[q]]

\* shard_if_needed may shard the snapshot at p, whose size has reached the
\* threshold; it is measured now and then only.
MayShard(d, p, threshold) ==
    /\ d[p] # None /\ Len(p) <= MaxShardLevel /\ ~d[p].sharded
    /\ Size(d[p]) >= threshold

\* The order in which export_merged_snapshot visits the snapshots of a directory:
\* its own, then shard after shard.  What comes later replaces what was there.
Before(p, q) ==
    \/ IsStrictPrefix(p, q)
    \/ \E i \in 1 .. (IF Len(p) < Len(q) THEN Len(p) ELSE Len(q)) :
          /\ SubSeq(p, 1, i - 1) = SubSeq(q, 1, i - 1)
          /\ p[i] < q[i]

\* export_merged_snapshot.
Merged(d) ==
    LET last(f(_, _), x) ==
            LET at == {p \in Place : d[p] # None /\ f(d[p], x) # None} IN
            IF at = {} THEN None
            ELSE f(d[CHOOSE p \in at : \A q \in at \ {p} : Before(q, p)], x)
        dir(s, x) == s.dirs[x]
        file(s, x) == s.files[x] IN
    DirV1([x \in Name |-> last(dir, x)], [x \in Name |-> last(file, x)])

------------------------------------------------------------------------------
(* Listing.                                                                 *)

\* What a directory lists: directories and files, tombstones too.
Listed(s) ==
    {<<x, "dir">> : x \in {y \in Name : s.dirs[y] # None}}
        \cup {<<x, "file">> : x \in {y \in Name : s.files[y] # None}}
ListedBefore(e, f) == e[1] < f[1] \/ (e[1] = f[1] /\ e[2] = "dir" /\ f[2] = "file")

\* Broken variant of PastCursor: a file with the name of the last directory of a
\* page is taken for listed.
PastCursorName(e, cursor) == cursor = None \/ e[1] > cursor[1]

\* Where the next page begins: after the last entry of this one.
PastCursor(e, cursor) ==
    \/ cursor = None
    \/ e[1] > cursor[1]
    \/ (e[1] = cursor[1] /\ cursor[2] = "dir" /\ e[2] = "file")

\* list_entries: a page of at most `limit` entries after the cursor.
ListEntries(s, cursor, limit) ==
    LET rest == SetToSortSeq({e \in Listed(s) : PastCursor(e, cursor)}, ListedBefore) IN
    SubSeq(rest, 1, IF limit < Len(rest) THEN limit ELSE Len(rest))
==============================================================================
