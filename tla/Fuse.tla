-------------------------------- MODULE Fuse ---------------------------------
(***************************************************************************)
(* The FUSE file system over an FS5 root (s5_fuse/src/fs.rs, cache.rs).    *)
(* Requests of the kernel run concurrently, except create and mkdir, which *)
(* take the file system exclusively.  Directories, listings and attributes *)
(* are cached; a directory is read from FS5 in one step and put into the   *)
(* cache in a later one.  An inode is its path.                            *)
(***************************************************************************)
EXTENDS RootFs

VARIABLES
    cache,      \* Cached directories, their listings, and attributes
    open,       \* Open files with what was written to them, and the next handle
    calls,      \* The request each caller waits for
    puts,       \* History: the contents put at each path, in order
    floor,      \* History: the last put at each path that a release has answered for
    raced       \* History: what a request put into the cache when it was no longer so

fuseVars == <<cache, open, calls, puts, floor, raced>>

Root == <<>>

NoRaces == [dirs |-> {}, attrs |-> {}]
NoDir == [dirs |-> {}, files |-> Empty]
NoCache == [dirs |-> Empty, entries |-> Empty, attrs |-> Empty]
Idle == [op |-> "idle", path |-> <<>>, step |-> "idle", at |-> <<>>, dir |-> NoDir,
         fh |-> 0, n |-> 0, size |-> 0]

DirAttr == [dir |-> TRUE, size |-> 0]
FileAttr(length) == [dir |-> FALSE, size |-> length]

\* What a map holds once new entries are inserted over the old ones.
Over(new, old) ==
    [x \in DOMAIN new \cup DOMAIN old |-> IF x \in DOMAIN new THEN new[x] ELSE old[x]]

\* The attributes that a directory gives to its entries.
EntryAttrs(d) ==
    Over([p \in d.dirs |-> DirAttr], [p \in DOMAIN d.files |-> FileAttr(d.files[p].size)])

----------------------------------------------------------------------------
\* A request begins.  create and mkdir exclude every other request.

Exclusive == {"create", "mkdir"}
Busy == {p \in config.callers : calls[p].op # "idle"}

Begin(p, op, path, step, fh) ==
    /\ alive
    /\ calls[p].op = "idle"
    /\ op \in Exclusive => Busy = {}
    /\ \A q \in Busy : calls[q].op \notin Exclusive
    /\ calls' = [calls EXCEPT ![p] = [Idle EXCEPT !.op = op, !.path = path, !.step = step, !.fh = fh]]

End(p) == calls' = [calls EXCEPT ![p] = Idle]
Then(p, step) == calls' = [calls EXCEPT ![p].step = step]
On(p, step) == alive /\ calls[p].step = step

Request(p, op, path) ==
    /\ op \in Exclusive => ~config.readOnly
    /\ op = "create" => open.next <= config.handles
    /\ Begin(p, op, path, CASE op = "readdir" -> "cached"
                            [] op = "mkdir" -> "mkdir"
                            [] OTHER -> "ensure", 0)
    /\ UNCHANGED <<cache, open, puts, floor, raced, storeVars, fsVars>>

----------------------------------------------------------------------------
\* ensure_dir_cached: the directories from the root to the one wanted are loaded
\* one after the other, unless that one is cached already.

Wanted(p) == IF calls[p].op = "readdir" THEN calls[p].path ELSE Parent(calls[p].path)

Ensured(p) == Root \in DOMAIN cache.dirs /\ Wanted(p) \in DOMAIN cache.dirs

FirstMissing(p) ==
    CHOOSE d \in {SubSeq(Wanted(p), 1, n) : n \in 0..Len(Wanted(p))} \ DOMAIN cache.dirs :
        \A e \in {SubSeq(Wanted(p), 1, n) : n \in 0..(Len(d) - 1)} : e \in DOMAIN cache.dirs

\* The parent's cache entry must know the directory, and it must be readable;
\* otherwise the request ends.
LoadDir(p) ==
    LET d == FirstMissing(p) IN
    /\ On(p, "ensure") /\ ~Ensured(p)
    /\ IF d = Root \/ (d \in cache.dirs[Parent(d)].dirs /\ Readable(d))
       THEN calls' = [calls EXCEPT ![p].step = "insert", ![p].at = d,
                                   ![p].dir = export_merged_snapshot_at(d)]
       ELSE End(p)
    /\ UNCHANGED <<cache, open, puts, floor, raced, storeVars, fsVars>>

\* What was read may be old by now, and a listing may have been made meanwhile.
InsertDir(p) ==
    LET c == calls[p] IN
    /\ On(p, "insert")
    /\ cache' = [cache EXCEPT !.dirs = With(@, c.at, c.dir), !.attrs = With(@, c.at, DirAttr)]
    /\ raced' = IF c.dir = export_merged_snapshot_at(c.at) /\ c.at \notin DOMAIN cache.entries
                THEN [raced EXCEPT !.dirs = @ \ {c.at}] ELSE [raced EXCEPT !.dirs = @ \cup {c.at}]
    /\ Then(p, "ensure")
    /\ UNCHANGED <<open, puts, floor, storeVars, fsVars>>

\* A load of a subdirectory keeps its parent's cache entry locked until it returns.
Locked(d) == \E p \in Busy : calls[p].step = "insert" /\ calls[p].at # Root /\ Parent(calls[p].at) = d

----------------------------------------------------------------------------
\* refresh_dir_cache: the directory is read again, its listing dropped.

\* Broken variant of Refreshed: the listing stays.
RefreshedDirOnly(d, dir) == [cache EXCEPT !.dirs = With(@, d, dir)]

Refreshed(d, dir) ==
    [cache EXCEPT !.dirs = With(@, d, dir), !.entries = Without(@, d)]

\* Whether that directory can be read: release and mkdir read the one above their path.
CanRead(p) == IF calls[p].op = "readdir" THEN Readable(calls[p].path) ELSE Reachable(calls[p].path)

ReadAgain(p) ==
    /\ On(p, "export")
    /\ IF CanRead(p)
       THEN calls' = [calls EXCEPT ![p].step = "refresh", ![p].at = Wanted(p),
                                   ![p].dir = export_merged_snapshot_at(Wanted(p))]
       ELSE End(p)
    /\ UNCHANGED <<cache, open, puts, floor, raced, storeVars, fsVars>>

Refresh(p) ==
    LET c == calls[p] IN
    /\ On(p, "refresh") /\ ~Locked(c.at)
    /\ cache' = Refreshed(c.at, c.dir)
    /\ raced' = [raced EXCEPT !.dirs = IF c.dir = export_merged_snapshot_at(c.at)
                                       THEN @ \ {c.at} ELSE @ \cup {c.at}]
    /\ Then(p, IF c.op = "readdir" THEN "ensure" ELSE "attr")
    /\ UNCHANGED <<open, puts, floor, storeVars, fsVars>>

----------------------------------------------------------------------------
\* The answers of lookup and readdir, which also fill in attributes.

CheckCached(p) ==
    /\ On(p, "cached")
    /\ Then(p, IF calls[p].path \in DOMAIN cache.dirs THEN "ensure" ELSE "export")
    /\ UNCHANGED <<cache, open, puts, floor, raced, storeVars, fsVars>>

\* Attributes from a directory that is old are old themselves.
Fill(attrs) ==
    LET new == EntryAttrs([dirs |-> tree.dirs, files |-> tree.files]) IN
    [raced EXCEPT !.attrs = (@ \ DOMAIN attrs) \cup {p \in DOMAIN attrs : attrs[p] # new[p]}]

lookup(p) ==
    LET c == calls[p]
        all == EntryAttrs(cache.dirs[Wanted(p)])
        found == [q \in {c.path} \cap DOMAIN all |-> all[q]]
    IN
    /\ On(p, "ensure") /\ c.op = "lookup" /\ Ensured(p)
    /\ cache' = [cache EXCEPT !.attrs = Over(found, @)]
    /\ raced' = Fill(found)
    /\ End(p)
    /\ UNCHANGED <<open, puts, floor, storeVars, fsVars>>

\* A listing is made once and kept.
readdir(p) ==
    LET d == calls[p].path
        all == EntryAttrs(cache.dirs[d])
    IN
    /\ On(p, "ensure") /\ calls[p].op = "readdir" /\ Ensured(p)
    /\ IF d \in DOMAIN cache.entries THEN UNCHANGED <<cache, raced>>
       ELSE /\ cache' = [cache EXCEPT !.entries = With(@, d, DOMAIN all), !.attrs = Over(all, @)]
            /\ raced' = Fill(all)
    /\ End(p)
    /\ UNCHANGED <<open, puts, floor, storeVars, fsVars>>

----------------------------------------------------------------------------
\* create, write and release of a file.

\* The file gets a handle and an attribute; FS5 hears of it at the release.
create(p) ==
    LET path == calls[p].path IN
    /\ On(p, "ensure") /\ calls[p].op = "create" /\ Ensured(p)
    /\ open' = [next |-> open.next + 1,
                files |-> With(open.files, open.next, [path |-> path, buf |-> <<>>])]
    /\ cache' = [cache EXCEPT !.attrs = With(@, path, FileAttr(0))]
    /\ End(p)
    /\ UNCHANGED <<puts, floor, raced, storeVars, fsVars>>

\* Only at the end of what has been written.
write(fh, data) ==
    /\ alive
    /\ Len(open.files[fh].buf \o data) <= config.length
    /\ open' = [open EXCEPT !.files[fh].buf = @ \o data]
    /\ UNCHANGED <<cache, calls, puts, floor, raced, storeVars, fsVars>>

ReleaseId(fh) == [fh |-> fh]

\* The handle goes first, then the blob is imported.
release(p, fh) ==
    LET f == open.files[fh] IN
    /\ Begin(p, "release", f.path, "import", fh)
    /\ open' = [open EXCEPT !.files = Without(@, fh)]
    /\ jobs' = With(jobs, ReleaseId(fh), NewJob("bytes", config.dest, f.buf))
    /\ UNCHANGED <<cache, puts, floor, raced, objects, faults, grown, removed, broken, fsVars>>

\* file_put_sync.  A failed import or put ends the release and what was written is
\* lost.
PutReleased(p) ==
    LET c == calls[p]
        i == ReleaseId(c.fh)
        j == jobs[i]
    IN
    /\ On(p, "import") /\ j.step \in Ended
    /\ \/ /\ j.step = "ok" /\ Reachable(c.path)
          /\ file_put(c.path, FileRef(j.hash, Len(j.hash), 0))
          /\ puts' = With(puts, c.path,
                          Append(IF c.path \in DOMAIN puts THEN puts[c.path] ELSE <<>>, j.hash))
          /\ calls' = [calls EXCEPT ![p].step = "save", ![p].size = Len(j.hash),
                                    ![p].n = Len(puts'[c.path])]
          /\ UNCHANGED <<raced, saved, alive>>
       \/ /\ ~(j.step = "ok" /\ Reachable(c.path))
          /\ raced' = [raced EXCEPT !.attrs = @ \cup {c.path}]
          /\ End(p)
          /\ UNCHANGED <<puts, fsVars>>
    /\ jobs' = Without(jobs, i)
    /\ UNCHANGED <<cache, open, floor, objects, faults, grown, removed, broken>>

mkdir(p) ==
    /\ On(p, "mkdir")
    /\ \/ /\ Reachable(calls[p].path)
          /\ create_dir(calls[p].path)
          /\ Then(p, "save")
       \/ /\ ~Reachable(calls[p].path)
          /\ UNCHANGED <<tree, past>>
          /\ End(p)
    /\ UNCHANGED <<cache, open, puts, floor, raced, saved, alive, storeVars>>

\* The step that makes a release or a mkdir durable.
AfterPut == save

SaveRoot(p) ==
    /\ On(p, "save")
    /\ AfterPut
    /\ Then(p, "export")
    /\ UNCHANGED <<cache, open, puts, floor, raced, tree, past, alive, storeVars>>

\* A save that fails ends the request; the cache does not hear of the change.
SaveFails(p) ==
    /\ On(p, "save")
    /\ faults < config.faults
    /\ faults' = faults + 1
    /\ raced' = [dirs |-> raced.dirs \cup {Wanted(p)}, attrs |-> raced.attrs \cup {calls[p].path}]
    /\ End(p)
    /\ UNCHANGED <<cache, open, puts, floor, objects, jobs, grown, removed, broken, fsVars>>

\* The last step of release and mkdir, which then answer.
Answer(p) ==
    LET c == calls[p]
        attr == IF c.op = "mkdir" THEN DirAttr ELSE FileAttr(c.size)
        new == With(Empty, c.path, attr)
    IN
    /\ On(p, "attr")
    /\ cache' = [cache EXCEPT !.attrs = Over(new, @)]
    /\ raced' = Fill(new)
    /\ floor' = IF c.op = "mkdir" THEN floor
                ELSE With(floor, c.path, IF c.path \in DOMAIN floor /\ floor[c.path] > c.n
                                         THEN floor[c.path] ELSE c.n)
    /\ End(p)
    /\ UNCHANGED <<open, puts, storeVars, fsVars>>

\* read: the reference is taken from FS5, the bytes from the blob store.
read(path, offset, max) == read_as_bytes(config.dest, file_get(path).hash, offset, max)

\* getattr answers from the cache alone.
getattr(path) == cache.attrs[path]

FuseStep(p) ==
    \/ LoadDir(p)
    \/ InsertDir(p)
    \/ ReadAgain(p)
    \/ Refresh(p)
    \/ CheckCached(p)
    \/ lookup(p)
    \/ readdir(p)
    \/ create(p)
    \/ PutReleased(p)
    \/ mkdir(p)
    \/ SaveRoot(p)
    \/ SaveFails(p)
    \/ Answer(p)

\* mount loads the root before the first request.
Mounted ==
    IF config.callers = {} THEN NoCache
    ELSE [NoCache EXCEPT !.dirs = With(@, Root, export_merged_snapshot_at(Root)),
                         !.attrs = With(@, Root, DirAttr)]

FuseInit ==
    /\ cache = Mounted
    /\ open = [next |-> 1, files |-> Empty]
    /\ calls = [p \in config.callers |-> Idle]
    /\ puts = Empty /\ floor = Empty
    /\ raced = NoRaces

----------------------------------------------------------------------------

\* A release that has answered is durable if the file is an entry of the root itself:
\* after any crash the saved root has what it put, or something put there later, and
\* its blob can be read back.  In another directory it lasts as long as the process:
\* what the release has saved there may be an older state.
ReleasedIsDurable ==
    \A path \in DOMAIN floor :
        /\ Own(saved, path) =>
            /\ path \in DOMAIN saved.files
            /\ \E n \in floor[path]..Len(puts[path]) : saved.files[path].hash = puts[path][n]
            /\ contains(config.dest, saved.files[path].hash)
        /\ alive =>
            \E n \in floor[path]..Len(puts[path]) :
                file_exists(path) /\ read(path, 0, file_get(path).size) = puts[path][n]

\* With no request under way, a cached directory, its listing and the attributes
\* are what FS5 has, except where a request put into the cache what it had read
\* before another one changed it, or failed between its change and the refresh.
CacheIsFresh ==
    Busy = {} =>
        /\ \A d \in DOMAIN cache.dirs \ raced.dirs :
            /\ cache.dirs[d] = export_merged_snapshot_at(d)
            /\ d \in DOMAIN cache.entries =>
                cache.entries[d] = DOMAIN EntryAttrs(export_merged_snapshot_at(d))
        /\ LET attrs == EntryAttrs([dirs |-> tree.dirs, files |-> tree.files])
               closed == DOMAIN cache.attrs \ ({Root} \cup raced.attrs
                            \cup {open.files[fh].path : fh \in DOMAIN open.files})
           IN \A p \in closed : p \in DOMAIN attrs /\ getattr(p) = attrs[p]
==============================================================================
