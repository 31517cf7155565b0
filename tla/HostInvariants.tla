---------------------------- MODULE HostInvariants ---------------------------
(***************************************************************************)
(* What makes the claims about a process on its blob store inductive: what *)
(* each part knows at each of its steps.  Host_proofs proves that every    *)
(* step keeps it.                                                          *)
(***************************************************************************)
EXTENDS Host

-----------------------------------------------------------------------------
(***************************************************************************)
(* The store.  What makes the two claims about it inductive is what a job  *)
(* knows at each of its steps: that its temporary object is there and is   *)
(* what its hash says, that the outboard has been written before the blob, *)
(* and that a blob is put under its own name only where a store shows it   *)
(* at once.                                                                *)
(***************************************************************************)
OpName == {"bytes", "stream", "file", "delete"}
StepName == {"obao0", "exists0", "temp", "put", "meta", "check", "obao", "exists", "rename",
             "copy", "discard", "delete", "delobao", "ok", "err"}

\* Steps with a temporary object, and steps that count on the outboard.
WithTemp == {"check", "obao", "exists", "rename", "copy", "discard"}
WithOutboard == {"exists0", "put", "exists", "rename", "copy"}

JobFields == {"op", "store", "arg", "size", "hash", "step"}
Families == {"blob3", "obao6", "tmp"}

Shapes ==
    /\ config \in Configs
    /\ \A i \in DOMAIN jobs :
        /\ DOMAIN jobs[i] = JobFields
        /\ jobs[i].op \in OpName /\ jobs[i].store \in Stores /\ jobs[i].step \in StepName
    /\ DOMAIN objects = Stores
    /\ \A s \in Stores : DOMAIN objects[s] = Families

\* Store s has the blob of a hash, and its outboard, unless the blob was deleted.
HasBlob(s, h) == h \in DOMAIN objects[s].blob3 \/ <<s, h>> \in removed
HasObao(s, h) == h \in DOMAIN objects[s].obao6 \/ <<s, h>> \in removed

\* What job i knows.
JobOK(i) ==
    LET j == jobs[i] IN
    /\ j.op = "bytes" => j.hash = j.arg
    /\ j.op = "stream" => j.step \in {"temp", "err"} \/ j.hash = j.arg
    /\ j.step \in {"obao0", "exists0", "put"} => j.op = "bytes"
    /\ j.step \in {"delete", "delobao"} => j.op = "delete"
    /\ j.step \in WithTemp =>
        /\ i \in DOMAIN objects[j.store].tmp
        /\ j.hash \in grown \/ objects[j.store].tmp[i] = j.hash
    /\ j.step \in WithOutboard /\ HasOutboard(j.hash) => HasObao(j.store, j.hash)
    /\ j.step \in {"put", "copy"} => ~Kind(j.store).renames
    /\ j.step = "delobao" => <<j.store, j.hash>> \in removed
    /\ j.step \in {"discard", "ok"} /\ j.op # "delete" => HasBlob(j.store, j.hash)

\* A temporary object belongs to a job that knows of it, or that broke.
TempOK(i) ==
    \A s \in Stores : i \in DOMAIN objects[s].tmp =>
        \/ i \in broken
        \/ i \in DOMAIN jobs /\ jobs[i].store = s /\ jobs[i].step \in WithTemp

StoreInv ==
    /\ Shapes
    /\ \A i \in DOMAIN jobs : JobOK(i)
    /\ \A i : TempOK(i)
    /\ BlobsAreWhole

\* What a step of job i, or the start or the end of it, leaves to the others.
Others(i) ==
    /\ config' = config
    /\ grown \subseteq grown' /\ removed \subseteq removed' /\ broken \subseteq broken'
    /\ DOMAIN jobs' \ {i} = DOMAIN jobs \ {i}
    /\ \A k \in DOMAIN jobs \ {i} : jobs'[k] = jobs[k]
    /\ \A s \in Stores :
        /\ \A h : HasBlob(s, h) => HasBlob(s, h)'
        /\ \A h : HasObao(s, h) => HasObao(s, h)'
        /\ DOMAIN objects'[s].tmp \ {i} = DOMAIN objects[s].tmp \ {i}
        /\ \A k \in DOMAIN objects[s].tmp \ {i} : objects'[s].tmp[k] = objects[s].tmp[k]

\* What a step must respect of the blobs.
BlobsStay ==
    \A s \in Stores : \A h \in DOMAIN objects'[s].blob3 :
        \/ h \in DOMAIN objects[s].blob3 /\ objects'[s].blob3[h] = objects[s].blob3[h]
        \/ /\ h \in grown' \/ objects'[s].blob3[h] = h
           /\ HasOutboard(h) => HasObao(s, h)'

-----------------------------------------------------------------------------
\* The parts that put references into a root, and never delete a blob.
Serving == config.mode \in {"import", "mount", "client"}

FetchFields == {"op", "hash", "step", "k", "had", "errs", "hid", "cut", "n"}
TreeFields == {"dirs", "lost", "files"}
PastFields == {"dirs", "files"}
RunFields == {"n", "step"}
TaskFields == {"step", "time", "size"}
OpenFields == {"next", "files"}
CallFields == {"op", "path", "step", "at", "dir", "fh", "n", "size"}
AskFields == {"op", "step", "path", "data", "id", "n", "since", "ref", "result", "cut",
              "names", "found"}

\* Every job of the fetcher is the one it waits for.
FetchIds ==
    /\ DOMAIN fetch = FetchFields
    /\ ~Mode("fetch") => fetch.step = "idle"
    /\ Mode("fetch") => \A n : <<0, n>> \in DOMAIN jobs => n = fetch.n /\ fetch.step = "store"

\* Every job of the importer is that of a task that waits for it.
ImportIds ==
    /\ DOMAIN run = RunFields
    /\ \A t \in DOMAIN tasks : DOMAIN tasks[t] = TaskFields
    /\ run.step = "idle" => DOMAIN tasks = {}
    /\ \A i \in DOMAIN jobs : i \in DOMAIN tasks /\ tasks[i].step = "import"
    /\ alive => \A t \in DOMAIN tasks : tasks[t].step = "import" => t \in DOMAIN jobs

\* Every job of the mount is that of a handle that a caller has released.
MountIds ==
    /\ DOMAIN open = OpenFields /\ open.next \in Nat
    /\ \A fh \in DOMAIN open.files : fh \in Nat /\ fh < open.next
    /\ DOMAIN calls = config.callers
    /\ \A p \in config.callers :
        /\ DOMAIN calls[p] = CallFields
        /\ calls[p].step = "import" =>
            /\ calls[p].op = "release"
            /\ calls[p].fh \in Nat /\ calls[p].fh < open.next /\ calls[p].fh \notin DOMAIN open.files
            /\ alive => ReleaseId(calls[p].fh) \in DOMAIN jobs
            /\ \A q \in config.callers \ {p} : calls[q].step = "import" => calls[q].fh # calls[p].fh
    /\ \A i \in DOMAIN jobs : \E p \in config.callers :
        calls[p].step = "import" /\ i = ReleaseId(calls[p].fh)

\* Every job of the client is that of a request that has sent its upload.
ClientIds ==
    /\ asked \in Nat
    /\ DOMAIN asks = config.clients
    /\ \A p \in config.clients :
        /\ DOMAIN asks[p] = AskFields /\ asks[p].id \in Nat /\ asks[p].id <= asked
        /\ asks[p].step \in {"send", "sent"} =>
            /\ asks[p].op = "upload"
            /\ \A q \in config.clients \ {p} :
                asks[q].step \in {"send", "sent"} => asks[q].id # asks[p].id
        /\ alive /\ asks[p].step = "sent" =>
            /\ UploadId(p) \in DOMAIN jobs
            /\ jobs[UploadId(p)].op = "stream"
            /\ jobs[UploadId(p)].arg = Encrypted(asks[p].id, asks[p].data)
        /\ asks[p].step = "put" /\ ~Inline(asks[p].data) =>
            contains(config.dest, Encrypted(asks[p].id, asks[p].data))
    /\ \A i \in DOMAIN jobs : \E p \in config.clients :
        asks[p].step = "sent" /\ i = UploadId(p)

\* A reference to blobs that are stored.
RefStored(ref) ==
    /\ ref.locations = <<>> => contains(config.dest, ref.hash)
    /\ \A n \in DOMAIN ref.locations :
        ref.locations[n].kind = "encrypted" => contains(config.dest, ref.locations[n].hash)

Rooted ==
    /\ DOMAIN tree = TreeFields /\ DOMAIN saved = TreeFields /\ DOMAIN past = PastFields
    /\ \A path \in DOMAIN tree.files : RefStored(tree.files[path])
    /\ \A path \in DOMAIN saved.files : RefStored(saved.files[path])
    /\ \A v \in past.files : RefStored(v[2])
    /\ ~Serving => DOMAIN tree.files = {} /\ DOMAIN saved.files = {} /\ past.files = {}
    /\ Serving => /\ removed = {}
                  /\ \A i \in DOMAIN jobs : jobs[i].op # "delete" /\ jobs[i].store = config.dest

HostInv ==
    /\ StoreInv
    /\ FetchIds
    /\ Mode("import") => ImportIds
    /\ Mode("mount") => MountIds
    /\ Mode("client") => ClientIds
    /\ Rooted

-----------------------------------------------------------------------------
(***************************************************************************)
(* The fetcher.  While it goes through the sources, each one that has kept *)
(* the blob since the call began and lies behind it has failed or could    *)
(* not look; the job that it waits for imports the blob that was asked     *)
(* for, unless the stream of a node ended early.                           *)
(***************************************************************************)

\* The sources that have kept the blob since the call began.
Lasting == {k \in fetch.had : <<Source(k), fetch.hash>> \notin removed}

FetchInv ==
    /\ fetch.had \subseteq DOMAIN config.sources
    /\ IsContent(fetch.hash)
    /\ \A k \in Lasting : contains(Source(k), fetch.hash)
    /\ fetch.step = "have" => fetch.k = 1
    /\ fetch.step \in {"ask", "read"} =>
        /\ fetch.k \in Nat
        /\ \A k \in Lasting : k < fetch.k => k \in fetch.errs \cup fetch.hid
    /\ fetch.step = "read" => fetch.k \in DOMAIN config.sources
    /\ fetch.step = "store" /\ alive =>
        /\ FetchId \in DOMAIN jobs
        /\ jobs[FetchId].op = "bytes" /\ jobs[FetchId].store = config.dest
        /\ jobs[FetchId].arg = fetch.hash \/ fetch.hash \in grown \/ fetch.cut
    /\ FetchIsRight

-----------------------------------------------------------------------------
(***************************************************************************)
(* The mount.  A release that has saved is in the saved root and in the    *)
(* open one, or something put there later is; one that has not saved yet   *)
(* is in the open root.  The saved root promises it for its own entries.   *)
(***************************************************************************)

\* At path, tree t has the put with number k or a later one.
Holds(t, path, k) ==
    /\ k \in Nat \ {0}
    /\ path \in DOMAIN t.files /\ path \in DOMAIN puts
    /\ \E n \in k..Len(puts[path]) : t.files[path].hash = puts[path][n]
    /\ IsContent(t.files[path].hash) /\ t.files[path].size = Len(t.files[path].hash)

\* The saved root promises that for its own entries, those with one component.
Kept(path, k) == Len(path) <= 1 => Holds(saved, path, k)

CallInv(c) ==
    /\ c.step = "cached" => c.op = "readdir"
    /\ c.step = "mkdir" => c.op = "mkdir"
    /\ c.step \in {"save", "attr"} => c.op \in {"release", "mkdir"}
    /\ c.step \in {"export", "refresh"} => c.op \in {"release", "mkdir", "readdir"}
    /\ c.op = "release" /\ c.step \in {"save", "export", "refresh", "attr"} =>
        Holds(tree, c.path, c.n)
    /\ c.op = "release" /\ c.step \in {"export", "refresh", "attr"} => Kept(c.path, c.n)

PlainFiles(t) == \A path \in DOMAIN t.files : t.files[path].locations = <<>>

PlainRoot ==
    PlainFiles(tree) /\ PlainFiles(saved) /\ \A v \in past.files : v[2].locations = <<>>

OpenInv ==
    \A fh \in DOMAIN open.files :
        DOMAIN open.files[fh] = {"path", "buf"} /\ IsContent(open.files[fh].buf)

ByteJobs == \A i \in DOMAIN jobs : jobs[i].op = "bytes" /\ IsContent(jobs[i].arg)

FloorInv ==
    \A path \in DOMAIN floor : Holds(tree, path, floor[path]) /\ Kept(path, floor[path])

MountInv ==
    /\ grown = {}
    /\ ByteJobs
    /\ OpenInv
    /\ \A path \in DOMAIN puts : IsContent(puts[path])
    /\ PlainRoot
    /\ \A p \in config.callers : CallInv(calls[p])
    /\ FloorInv

-----------------------------------------------------------------------------
(***************************************************************************)
(* The client.  Every reference of its root gives the content it was made  *)
(* for, so that a path can be compared with the log of what was put there  *)
(* by its hash alone.                                                      *)
(***************************************************************************)
GoodRef(ref) ==
    \/ ref.locations = <<>> /\ IsContent(ref.hash)
    \/ \E c, id : IsContent(c) /\ ref = NewRef(c, id)

GoodTree(t) ==
    /\ DOMAIN t.files \subseteq config.paths
    /\ \A path \in DOMAIN t.files : GoodRef(t.files[path])

\* What a tree has at a path.
Entry(t, path) == IF path \in DOMAIN t.files THEN Data(t.files[path].hash) ELSE Gone

\* v was put at path as number k, or later; once the client was misled by a failed query,
\* anything may be there.
Seen(path, k, v) ==
    /\ path \in DOMAIN log /\ k \in Nat \ {0}
    /\ misled \/ \E n \in k..Len(log[path]) : v = log[path][n]

\* The same of what a download gave, which may be the beginning of it.
Given(path, k, v, cut) ==
    /\ cut => \E e : Seen(path, k, e) /\ PartOf(v, e)
    /\ ~cut => Seen(path, k, v)

AskInv(r) ==
    /\ r.op = "idle" => r.step = "idle"
    /\ r.op \in {"upload", "download", "delete"} => r.path \in DOMAIN log
    /\ r.step \in {"put", "send", "sent"} => r.op = "upload" /\ IsContent(r.data)
    /\ r.step = "delete" => r.op = "delete"
    /\ r.step \in {"list", "entries"} => r.op = "list"
    /\ r.step \in {"download", "read"} => r.op = "download" /\ r.result = Gone /\ ~r.cut
    /\ r.step = "mkdir" => r.op = "mkdir"
    /\ r.step = "save" => r.op \in {"upload", "delete", "mkdir"}
    /\ r.step = "save" /\ r.op # "mkdir" => Seen(r.path, r.n, Entry(tree, r.path))
    /\ r.op # "idle" =>
        \A path \in DOMAIN log : r.since[path] \in Nat \ {0} /\ r.since[path] <= answered[path]
    /\ r.step = "read" =>
        /\ GoodRef(r.ref) /\ RefStored(r.ref)
        /\ Seen(r.path, r.since[r.path], Data(r.ref.hash))
    /\ r.step = "answer" /\ r.op = "download" /\ loaded =>
        Given(r.path, r.since[r.path], r.result, r.cut)
    /\ r.names \subseteq DOMAIN log
    /\ \A x \in DOMAIN r.found : Seen(x, r.since[x], r.found[x])

LogInv ==
    /\ DOMAIN log = ClientPaths /\ DOMAIN answered = ClientPaths
    /\ \A path \in DOMAIN log :
        /\ IsContent(log[path])
        /\ Seen(path, answered[path], Entry(tree, path))
        /\ Seen(path, answered[path], Entry(saved, path))

ClientInv ==
    /\ grown = {}
    /\ \A i \in DOMAIN jobs : jobs[i].op = "stream"
    /\ GoodTree(tree) /\ GoodTree(saved) /\ past.files = {}
    /\ session = "closed" => \A p \in config.clients : asks[p].op = "idle"
    /\ LogInv
    /\ \A p \in config.clients : AskInv(asks[p])

-----------------------------------------------------------------------------
(***************************************************************************)
(* The importers.  A reference with the time that its source has now was   *)
(* made from what the source holds now: the time is read before the        *)
(* content, and every change gives the source a time that it never had.    *)
(***************************************************************************)
FileFields == {"data", "time", "up"}

\* What a run still finds in source x is what it found when it began, or since.
FilesInv ==
    /\ clock \in Nat \ {0}
    /\ \A x \in DOMAIN files :
        /\ DOMAIN files[x] = FileFields /\ IsContent(files[x].data)
        /\ files[x].time \in Nat /\ files[x].time <= clock
        /\ Local => files[x].time # 0

\* A reference to source x is right if its time is.
DatedRef(x, ref) ==
    /\ ref.time \in Nat /\ ref.time <= clock
    /\ ref.locations = <<>>
    /\ files[x].time # 0 /\ ref.time = files[x].time =>
        ref.hash = files[x].data /\ ref.size = Len(files[x].data)

\* What the root may have at a path: no page is ever put into it.
Fits(path, ref) ==
    /\ \A x \in DOMAIN files : path = Key(x) => DatedRef(x, ref)
    /\ ~Local => \A x \in DOMAIN config.links : path # Key(x)

\* What the root has, had in a directory, or has saved.
HasRef(path, ref) ==
    \/ path \in DOMAIN tree.files /\ ref = tree.files[path]
    \/ path \in DOMAIN saved.files /\ ref = saved.files[path]
    \/ \E v \in past.files : v[1] = path /\ v[2] = ref

RootRight == \A path, ref : HasRef(path, ref) => Fits(path, ref)

Recent(f, x) ==
    /\ Key(x) \in DOMAIN f
    /\ f[Key(x)].hash = files[x].data /\ f[Key(x)].size = Len(files[x].data)
    /\ files[x].time # 0 => f[Key(x)].time = files[x].time

\* Source x is in the root as it is, and saved if it is an entry of the root itself.
Finished(x) ==
    /\ Recent(tree.files, x)
    /\ Own(tree, Key(x)) => Key(x) \in DOMAIN saved.files /\ saved.files[Key(x)] = tree.files[Key(x)]

\* The source of task t is as it was when the task read its time.
UpToDate(t) ==
    \/ Item(t) \notin touched
    \/ files[Item(t)].time # 0 /\ tasks[t].time = files[Item(t)].time

TaskForm(t) ==
    /\ DOMAIN t = {"run", "path"} /\ IsContent(t.path) /\ Len(t.path) # 0
    /\ Item(t) \in DOMAIN files
    /\ tasks[t].time \in Nat /\ tasks[t].time <= clock

\* What a job of the importer has read.
ReadJob(t) ==
    /\ Local => /\ jobs[t].op = "file" /\ jobs[t].arg = Item(t)
                /\ UpToDate(t) /\ jobs[t].step \notin {"meta", "err"} =>
                    jobs[t].size = Len(files[Item(t)].data)
                /\ UpToDate(t) /\ jobs[t].step \notin {"meta", "temp", "err"} =>
                    jobs[t].hash = files[Item(t)].data
    /\ ~Local => /\ jobs[t].op = "stream" /\ jobs[t].step # "meta"
                 /\ UpToDate(t) => jobs[t].arg = files[Item(t)].data
                 /\ jobs[t].step \notin {"temp", "err"} =>
                    jobs[t].hash = jobs[t].arg /\ jobs[t].size = Len(jobs[t].arg)

Children(t) == {[t EXCEPT !.path = Append(@, y)] : y \in config.links[Item(t)] \ {Item(t)}}

TaskInv(t) ==
    /\ TaskForm(t)
    /\ tasks[t].step \in {"meta"} => Local
    /\ tasks[t].step \in {"head", "fetch", "links"} => ~Local
    /\ tasks[t].step = "import" \/ (Local /\ tasks[t].step = "get") =>
        (Item(t) \notin touched => tasks[t].time = files[Item(t)].time)
    /\ ~Local /\ tasks[t].step = "import" => (tasks[t].time = 0 <=> files[Item(t)].time = 0)
    /\ ~Local /\ tasks[t].step \in {"head", "import"} => ~Page(Item(t))
    /\ tasks[t].step = "links" => Page(Item(t))
    /\ ~Local /\ Page(Item(t)) /\ tasks[t].step \in {"links", "done"} => Children(t) \subseteq DOMAIN tasks
    /\ tasks[t].step = "import" /\ t \in DOMAIN jobs => ReadJob(t)
    /\ tasks[t].step = "done" /\ Item(t) \notin touched /\ files[Item(t)].up /\ ~Page(Item(t)) =>
        Recent(tree.files, Item(t))

\* The tasks that a run begins with.
Begun ==
    IF Local THEN \A x \in DOMAIN files \ touched : files[x].up => \E t \in DOMAIN tasks : Item(t) = x
    ELSE \E t \in DOMAIN tasks : Item(t) = config.base

ImportInv ==
    /\ FilesInv
    /\ DOMAIN files = DOMAIN config.files
    /\ RootRight
    /\ \A t \in DOMAIN tasks : TaskInv(t)
    /\ run.step = "run" => Begun
    /\ run.step = "done" =>
        /\ ~alive
        /\ \A x \in DOMAIN files \ touched : files[x].up /\ ~Page(x) => Finished(x)

-----------------------------------------------------------------------------
(***************************************************************************)
(* The cache of the mount.  A directory that a request has changed is      *)
(* right again once that request has read it; until then the request      *)
(* covers for it.                                                          *)
(***************************************************************************)

\* The attributes of everything in the open root.
TreeAttrs == EntryAttrs([dirs |-> tree.dirs, files |-> tree.files])

\* Request p has changed directory d and has not put it into the cache again.
Pending(p, d) ==
    /\ calls[p].step \in {"save", "export", "refresh"} /\ calls[p].op # "readdir"
    /\ Parent(calls[p].path) = d

\* Request p still has to say what the attributes of x are.
Unsettled(p, x) ==
    /\ calls[p].path = x
    /\ calls[p].op = "release" \/ (calls[p].op = "mkdir" /\ calls[p].step # "mkdir")

OpenPath(x) == \E fh \in DOMAIN open.files : open.files[fh].path = x

\* The entries of a directory that was read at some time are still there.
Part(dir) == dir.dirs \subseteq tree.dirs /\ DOMAIN dir.files \subseteq DOMAIN tree.files

Fresh(d) ==
    /\ cache.dirs[d] = export_merged_snapshot_at(d)
    /\ d \in DOMAIN cache.entries =>
        cache.entries[d] = DOMAIN EntryAttrs(export_merged_snapshot_at(d))

Right(x) == x \in DOMAIN TreeAttrs /\ cache.attrs[x] = TreeAttrs[x]

CacheForm == DOMAIN cache = {"dirs", "entries", "attrs"} /\ DOMAIN raced = {"dirs", "attrs"}

PathForm == \A x \in tree.dirs \cup saved.dirs : IsContent(x)

RequestInv(p) ==
    /\ calls[p].step \in {"ensure", "insert"} => calls[p].op \in {"lookup", "create", "readdir"}
    /\ calls[p].step = "cached" => calls[p].op = "readdir"
    /\ calls[p].op \in {"lookup", "create", "readdir", "mkdir"} => IsContent(calls[p].path)
    /\ calls[p].step \in {"insert", "refresh"} => Part(calls[p].dir)
    /\ calls[p].step = "insert" => calls[p].at = Root \/ calls[p].at \in tree.dirs
    /\ calls[p].step = "refresh" => calls[p].at = Wanted(p)
    /\ calls[p].op = "mkdir" /\ calls[p].step # "mkdir" => calls[p].path \in tree.dirs
    /\ calls[p].step \in {"save", "export"} /\ calls[p].op # "readdir" => Reachable(calls[p].path)

DirInv(d) ==
    /\ Part(cache.dirs[d])
    /\ \/ d \in raced.dirs
       \/ \E p \in config.callers : Pending(p, d)
       \/ Fresh(d)

AttrInv(x) ==
    \/ x = Root \/ x \in raced.attrs \/ OpenPath(x)
    \/ \E p \in config.callers : Unsettled(p, x)
    \/ Right(x)

CacheInv ==
    /\ CacheForm
    /\ PathForm
    /\ \A p \in config.callers : RequestInv(p)
    /\ \A d \in DOMAIN cache.dirs : DirInv(d)
    /\ \A x \in DOMAIN cache.attrs : AttrInv(x)

=============================================================================
