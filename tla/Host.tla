-------------------------------- MODULE Host ---------------------------------
(***************************************************************************)
(* The parts that bring blobs into stores, each as a process runs it: the  *)
(* callers of a blob store, the multi-source fetcher, the import command,  *)
(* the mounted file system and the client of a remote node.  The process   *)
(* may stop at any step, and another one opens the root and the stores     *)
(* that it left behind.                                                    *)
(***************************************************************************)
EXTENDS MultiFetcher, Importer, Fuse, Client

VARIABLE crashes    \* How often the process stopped by itself

vars == <<config, files, storeVars, fsVars, fetch, importVars, fuseVars, clientVars, crashes>>

\* What every instance starts from: a root whose references are to blobs that are
\* stored.  Only the runs of a blob store by itself and of the fetcher, which have
\* no root, call the store directly; call 0 would be the fetcher's.
ASSUME HostAssumption ==
    \A k \in Configs :
        /\ k.mode \in {"store", "fetch", "import", "mount", "client"}
        /\ \A i \in DOMAIN k.calls :
            /\ k.calls[i].op \in {"bytes", "stream", "file", "delete"}
            /\ k.calls[i].store \in DOMAIN k.stores
        /\ 0 \notin DOMAIN k.calls
        /\ k.sources \in Seq(DOMAIN k.stores)
        /\ \A c \in k.contents \cup k.wanted : IsContent(c)
        /\ k.block \in Nat \ {0} /\ k.inline \in Nat
        /\ DOMAIN k.tree = {"dirs", "lost", "files"} /\ k.tree.lost = {}
        /\ \A path \in DOMAIN k.tree.files :
            LET ref == k.tree.files[path] IN
            ref.locations = <<>> /\ IsContent(ref.hash) /\ ref.hash \in k.held[k.dest]
        /\ \A path \in k.paths \cup k.dirs \cup k.tree.dirs : IsContent(path)
        /\ k.few => k.mode = "import"
        /\ k.mode = "client" => \A path \in k.paths : Len(path) = 1
        /\ k.mode # "mount" => k.callers = {}
        /\ IF k.mode = "client" THEN DOMAIN k.tree.files \subseteq k.paths ELSE k.clients = {}
        /\ IF k.mode \in {"store", "fetch"} THEN DOMAIN k.tree.files = {} ELSE DOMAIN k.calls = {}

Mode(m) == config.mode = m

\* A call of the blob store by a program that uses it directly.
Call(i) ==
    /\ alive
    /\ <<i, crashes>> \notin DOMAIN jobs
    /\ jobs' = With(jobs, <<i, crashes>>, NewJob(config.calls[i].op, config.calls[i].store, config.calls[i].arg))
    /\ UNCHANGED <<objects, faults, grown, removed, broken>>

JobAction ==
    /\ \/ \E i \in DOMAIN config.calls : Call(i)
       \/ /\ alive
          /\ \E i \in DOMAIN jobs : JobStep(i) \/ FailStep(i)
    /\ UNCHANGED <<config, files, fsVars, fetch, importVars, fuseVars, clientVars, crashes>>

FetchAction ==
    /\ alive
    /\ \/ /\ Mode("fetch")
          /\ \E op \in {"fetch"} \cup Asks, h \in config.wanted : StartFetch(op, h)
       \/ FetchStep
    /\ UNCHANGED <<config, files, fsVars, importVars, fuseVars, clientVars, crashes>>

ImportAction ==
    /\ Mode("import")
    /\ \/ StartRun
       \/ ImportStep
       \/ SaveRunFails
       \/ \E t \in DOMAIN tasks : RequestFails(t)
       \/ \E x \in config.editable, c \in config.contents, up \in config.ups : Edit(x, c, up)
    /\ UNCHANGED <<config, fetch, fuseVars, clientVars, crashes>>

MountAction ==
    /\ Mode("mount")
    /\ \E p \in config.callers :
        \/ \E op \in {"lookup", "create"}, path \in config.paths : Request(p, op, path)
        \/ \E path \in config.dirs : path \notin tree.dirs /\ Request(p, "mkdir", path)
        \/ \E path \in {Root} \cup tree.dirs : Request(p, "readdir", path)
        \/ \E fh \in DOMAIN open.files : release(p, fh)
        \/ FuseStep(p)
        \/ \E fh \in DOMAIN open.files, c \in config.contents : write(fh, c)
    /\ UNCHANGED <<config, files, fetch, importVars, clientVars, crashes>>

ClientAction ==
    /\ Mode("client")
    /\ \/ \E p \in config.clients :
           \/ \E path \in config.paths, c \in config.contents : Ask(p, "upload", path, c)
           \/ \E path \in config.paths, op \in {"download", "delete"} : Ask(p, op, path, <<>>)
           \/ \E path \in config.dirs : Ask(p, "mkdir", path, <<>>)
           \/ Ask(p, "list", Root, <<>>)
           \/ ClientStep(p)
       \/ disconnect
       \/ Disconnected
       \/ connect
    /\ UNCHANGED <<config, files, fetch, importVars, fuseVars, crashes>>

\* The client opens its root without the timer.
SaveAction ==
    /\ ~Mode("client")
    /\ AutoSave
    /\ UNCHANGED <<config, files, storeVars, fetch, importVars, fuseVars, clientVars, crashes>>

\* The process is killed, or the mount is ended with ctrl-c, which saves nothing.
Crash ==
    /\ alive
    /\ crashes < config.crashes
    /\ crashes' = crashes + 1
    /\ alive' = FALSE
    /\ UNCHANGED <<config, files, storeVars, tree, saved, past, fetch, importVars, fuseVars, clientVars>>

\* The jobs of a process that has ended are dropped wherever they are.
Drop ==
    /\ ~alive
    /\ \E i \in DOMAIN jobs : DropJob(i)
    /\ UNCHANGED <<config, files, fsVars, fetch, importVars, fuseVars, clientVars, crashes>>

Restart ==
    /\ ~alive
    /\ DOMAIN jobs = {}
    /\ UNCHANGED <<config, files, storeVars, saved, clock, touched, puts, misled, asked, log, answered, crashes>>
    /\ alive' = TRUE
    /\ Opened(saved)
    /\ run' = [run EXCEPT !.step = "idle"]
    /\ tasks' = Empty
    /\ fetch' = NoFetch(fetch.n)
    /\ cache' = Mounted'
    /\ open' = [open EXCEPT !.files = Empty]
    /\ calls' = [p \in config.callers |-> Idle]
    /\ raced' = NoRaces
    /\ floor' = [x \in {y \in DOMAIN floor : Own(saved, y)} |-> floor[x]]
    /\ session' = "closed" /\ loaded' = TRUE
    /\ asks' = [p \in config.clients |-> Quiet]

Init ==
    /\ config \in Configs
    /\ files = config.files
    /\ StoreInit
    /\ FsInit(config.tree)
    /\ FetchInit
    /\ ImportInit
    /\ FuseInit
    /\ ClientInit
    /\ crashes = 0

Next ==
    \/ JobAction
    \/ FetchAction
    \/ ImportAction
    \/ MountAction
    \/ ClientAction
    \/ SaveAction
    \/ Crash
    \/ Drop
    \/ Restart

\* The runtime polls every task of a running process again and again.
Fairness ==
    /\ WF_vars(ImportStep /\ UNCHANGED <<config, fetch, fuseVars, clientVars, crashes>>)
    /\ WF_vars(alive /\ (\E i \in DOMAIN jobs : JobStep(i))
               /\ UNCHANGED <<config, files, fsVars, fetch, importVars, fuseVars, clientVars, crashes>>)

Spec == Init /\ [][Next]_vars /\ Fairness

\* A reference in the saved root never points to a blob that is not stored.
RefsAreStored ==
    \A path \in DOMAIN saved.files :
        LET ref == saved.files[path] IN
        /\ ref.locations = <<>> => contains(config.dest, ref.hash)
        /\ \A n \in DOMAIN ref.locations :
            ref.locations[n].kind = "encrypted" => contains(config.dest, ref.locations[n].hash)

\* What a release, an upload or a delete has answered for survives every crash,
\* failed save and reconnect that follows, and can be read back and decrypted: in
\* the entries of the root itself, and for the client until a query of the registry
\* that failed is taken for no entry.
AnsweredIsDurable == ReleasedIsDurable /\ UploadedIsDurable

\* Fetches answer with the blob that was asked for, downloads and listings with
\* what was at the path when they were asked, or later; unless a stream ended early,
\* a node could not look into its store, or a failed query was taken for no entry,
\* none of which the client is told.
ReadsAreRight == FetchIsRight /\ DownloadIsRight
==============================================================================
