------------------------------ MODULE Importer -------------------------------
(***************************************************************************)
(* The local and the HTTP importer (importers/local, importers/http) as    *)
(* the import command runs them (s5_cli/src/cmd/import.rs): files or URLs  *)
(* that change meanwhile are imported into a blob store and their          *)
(* references put into the FS5 root, which is saved at the end.            *)
(***************************************************************************)
EXTENDS RootFs

VARIABLES
    run,        \* The runs of the command: their number and the state of the last
    tasks,      \* The files or URLs under way
    clock,      \* The time of the last change of a source
    touched     \* History: the sources that changed since the run began

importVars == <<run, tasks, clock, touched>>

\* What an import starts from: sources as old as the clock, of which only a URL may
\* be undated, and a root with references of others, which are undated.  Sources have
\* names.  The import of a URL finds every source by the links of the pages.
ASSUME ImportAssumption ==
    \A k \in Configs : k.mode = "import" =>
        /\ \A x \in DOMAIN k.files :
            /\ DOMAIN k.files[x] = {"data", "time", "up"} /\ IsContent(k.files[x].data)
            /\ k.files[x].time \in IF k.importer = "local" THEN {1} ELSE {0, 1}
        /\ \A path \in DOMAIN k.tree.files : k.importer = "local" /\ k.tree.files[path].time = 0
        /\ "" \notin DOMAIN k.files \cup DOMAIN k.links
        /\ k.importer # "local" =>
            \A S \in SUBSET DOMAIN k.files :
                k.base \in S /\ (\A x \in S \cap DOMAIN k.links : k.links[x] \subseteq S)
                    => S = DOMAIN k.files
        /\ k.importer # "local" =>
            /\ k.base \in DOMAIN k.files
            /\ \A x \in DOMAIN k.links : k.links[x] \subseteq DOMAIN k.files

Local == config.importer = "local"

\* The directory that a prefix names: with one, keys are relative to what is imported.
Prefix == <<"prefix">>

\* Where a file goes: its absolute path, or the one below the imported directory.
entry_key(x) == IF config.relative THEN Append(Prefix, x) ELSE <<config.base, x>>

\* Where a URL goes; below the base URL, that one itself has the empty key.
key_for_url(x) ==
    IF ~config.relative THEN <<config.base, x>>
    ELSE Append(Prefix, IF x = config.base THEN "" ELSE x)

Key(x) == IF Local THEN entry_key(x) ELSE key_for_url(x)

Page(x) == x \in DOMAIN config.links

\* A task is named by the run and by the links that led to it.
NewTask == [step |-> "queued", time |-> 0, size |-> 0]
Item(t) == t.path[Len(t.path)]

In(t, step) == alive /\ t \in DOMAIN tasks /\ tasks[t].step = step
Step(t, step) == tasks' = [tasks EXCEPT ![t].step = step]

----------------------------------------------------------------------------

\* subdir opens or makes the directory of a prefix.  import_path walks the files that
\* are there; import_url starts with the base.
StartRun ==
    /\ alive
    /\ run.step = "idle" /\ run.n < config.runs
    /\ run' = [n |-> run.n + 1, step |-> "run"]
    /\ tasks' = [t \in {[run |-> run.n + 1, path |-> <<x>>] :
                            x \in IF Local THEN {y \in DOMAIN files : files[y].up} ELSE {config.base}}
                    |-> NewTask]
    /\ touched' = {}
    /\ IF config.relative THEN create_dir(Prefix) ELSE UNCHANGED <<tree, past>>
    /\ UNCHANGED <<clock, files, storeVars, saved, alive>>

\* Broken variant of Holding: a page keeps its permit while its links are visited.
HoldingAll == {t \in DOMAIN tasks : tasks[t].step \notin {"queued", "done"}}

\* A place in buffer_unordered, or a permit of the rate limiter, which an HTML
\* page gives back before its links are visited.
Holding == {t \in DOMAIN tasks : tasks[t].step \notin {"queued", "links", "done"}}

Acquire(t) ==
    /\ In(t, "queued")
    /\ Cardinality(Holding) < config.max
    /\ Step(t, IF Local THEN "meta" ELSE "get")
    /\ UNCHANGED <<run, clock, touched, files, storeVars, fsVars>>

\* The first error ends the command, and with it every other task, without a save.
Abort ==
    /\ run' = [run EXCEPT !.step = "failed"]
    /\ alive' = FALSE
    /\ UNCHANGED <<tasks, tree, saved, past>>

----------------------------------------------------------------------------
\* LocalFileSystemImporter::process_entry

EntryMetadata(t) ==
    LET x == files[Item(t)] IN
    /\ In(t, "meta")
    /\ \/ /\ x.up
          /\ tasks' = [tasks EXCEPT ![t] = [step |-> "get", time |-> x.time, size |-> Len(x.data)]]
          /\ UNCHANGED <<run, fsVars>>
       \/ ~x.up /\ Abort
    /\ UNCHANGED <<clock, touched, files, storeVars>>

\* What the run compares with the reference in FS5.
Unchanged(t, length, time) ==
    /\ file_exists(Key(Item(t)))
    /\ file_get(Key(Item(t))).size = length
    /\ file_get(Key(Item(t))).time = time

CompareEntry(t) ==
    /\ Local /\ In(t, "get")
    /\ IF ~config.always /\ Unchanged(t, tasks[t].size, tasks[t].time)
       THEN Step(t, "done") /\ UNCHANGED jobs
       ELSE Step(t, "import") /\ jobs' = With(jobs, t, NewJob("file", config.dest, Item(t)))
    /\ UNCHANGED <<run, clock, touched, files, objects, faults, grown, removed, broken, fsVars>>

\* Broken variant of EntryTime: the time is read again when the file has been imported.
EntryTimeAfter(t) == files[Item(t)].time

\* The time in the reference is the one that was read before the file.
EntryTime(t) == tasks[t].time

\* A URL without Last-Modified is dated by the clock of the importer.
UrlTime(t) == IF tasks[t].time # 0 THEN tasks[t].time ELSE clock

\* Broken variant of Imported: the error of the import is ignored.
ImportedOrNot(j) == j.step \in Ended

\* The reference is put only when the blob store has answered Ok.
Imported(j) == j.step = "ok"

PutRef(t) ==
    LET j == jobs[t] IN
    /\ In(t, "import") /\ j.step \in Ended
    /\ \/ /\ Imported(j) /\ Reachable(Key(Item(t)))
          /\ file_put(Key(Item(t)), FileRef(j.hash, j.size, IF Local THEN EntryTime(t) ELSE UrlTime(t)))
          /\ Step(t, "done")
          /\ UNCHANGED <<run, saved, alive>>
       \/ ~(Imported(j) /\ Reachable(Key(Item(t)))) /\ Abort
    /\ jobs' = Without(jobs, t)
    /\ UNCHANGED <<clock, touched, files, objects, faults, grown, removed, broken>>

----------------------------------------------------------------------------
\* HttpImporter::import_url

CompareUrl(t) ==
    /\ ~Local /\ In(t, "get")
    /\ Step(t, IF file_exists(Key(Item(t))) THEN "head" ELSE "fetch")
    /\ UNCHANGED <<run, clock, touched, files, storeVars, fsVars>>

\* A URL that is gone is skipped.  One without Last-Modified counts as changed.
HeadRequest(t) ==
    LET x == files[Item(t)] IN
    /\ In(t, "head")
    /\ Step(t, IF ~x.up \/ (x.time # 0 /\ Unchanged(t, Len(x.data), x.time)) THEN "done" ELSE "fetch")
    /\ UNCHANGED <<run, clock, touched, files, storeVars, fsVars>>

\* handle_html_page visits the links of the page at once, handle_file imports the
\* body as a stream.
GetRequest(t) ==
    LET x == Item(t)
        children == {[t EXCEPT !.path = Append(@, y)] : y \in config.links[x] \ {x}}
    IN
    /\ In(t, "fetch")
    /\ \/ /\ ~files[x].up /\ Abort
          /\ UNCHANGED jobs
       \/ /\ files[x].up /\ Page(x)
          /\ tasks' = [c \in DOMAIN tasks \cup children |->
                        IF c = t THEN [tasks[t] EXCEPT !.step = "links"]
                        ELSE IF c \in DOMAIN tasks THEN tasks[c] ELSE NewTask]
          /\ UNCHANGED <<run, jobs, fsVars>>
       \/ /\ files[x].up /\ ~Page(x)
          /\ tasks' = [tasks EXCEPT ![t] = [step |-> "import", time |-> files[x].time, size |-> 0]]
          /\ jobs' = With(jobs, t, NewJob("stream", config.dest, files[x].data))
          /\ UNCHANGED <<run, fsVars>>
    /\ UNCHANGED <<clock, touched, files, objects, faults, grown, removed, broken>>

\* A request fails.
RequestFails(t) ==
    /\ In(t, "head") \/ In(t, "fetch")
    /\ faults < config.faults
    /\ faults' = faults + 1
    /\ Abort
    /\ UNCHANGED <<clock, touched, files, objects, jobs, grown, removed, broken>>

LinksDone(t) ==
    /\ In(t, "links")
    /\ \A c \in DOMAIN tasks : Parent(c.path) = t.path => tasks[c].step = "done"
    /\ Step(t, "done")
    /\ UNCHANGED <<run, clock, touched, files, storeVars, fsVars>>

----------------------------------------------------------------------------

\* run_import saves and shuts the root down, which saves what hashes of directories
\* have come since; the command ends.
FinishRun ==
    /\ alive
    /\ run.step = "run"
    /\ \A t \in DOMAIN tasks : tasks[t].step = "done"
    /\ run' = [run EXCEPT !.step = "done"]
    /\ save
    /\ tasks' = Empty
    /\ alive' = FALSE
    /\ UNCHANGED <<clock, touched, tree, past, files, storeVars>>

\* The save fails, and the command with it.
SaveRunFails ==
    /\ alive
    /\ run.step = "run"
    /\ \A t \in DOMAIN tasks : tasks[t].step = "done"
    /\ faults < config.faults
    /\ faults' = faults + 1
    /\ Abort
    /\ UNCHANGED <<clock, touched, files, objects, jobs, grown, removed, broken>>

\* A source changes, or goes.
Edit(x, data, up) ==
    /\ clock < config.edits
    /\ clock' = clock + 1
    /\ files' = [files EXCEPT ![x] = [data |-> data, up |-> up,
                                      time |-> IF @.time = 0 THEN 0 ELSE clock + 1]]
    /\ touched' = touched \cup {x}
    /\ UNCHANGED <<run, tasks, storeVars, fsVars>>

ImportStep ==
    \/ FinishRun
    \/ \E t \in DOMAIN tasks :
        \/ Acquire(t)
        \/ EntryMetadata(t)
        \/ CompareEntry(t)
        \/ PutRef(t)
        \/ CompareUrl(t)
        \/ HeadRequest(t)
        \/ GetRequest(t)
        \/ LinksDone(t)

ImportInit ==
    /\ run = [n |-> 0, step |-> "idle"]
    /\ tasks = Empty
    /\ clock = 1
    /\ touched = {}

----------------------------------------------------------------------------

\* Reference ref is that of source x as it is.
Current(x, ref) ==
    /\ ref.hash = files[x].data /\ ref.size = Len(files[x].data)
    /\ files[x].time # 0 => ref.time = files[x].time
    /\ contains(config.dest, ref.hash)

\* Whatever earlier runs and changes left in the root: after a run that succeeded,
\* every source that stayed as it was since the run began has its content, length
\* and time in the root, and the blob is stored.  It is in the saved root too if it
\* is an entry of the root itself; below a prefix, or in a directory that it was
\* promoted to, the end of the command may leave an older state.
ImportIsCurrent ==
    run.step = "done" =>
        \A x \in DOMAIN files \ touched :
            files[x].up /\ ~Page(x) =>
                /\ file_exists(Key(x)) /\ Current(x, file_get(Key(x)))
                /\ Own(tree, Key(x)) => /\ Key(x) \in DOMAIN saved.files
                                       /\ saved.files[Key(x)] = file_get(Key(x))

\* Every run of an importer ends, however few tasks may run at once.
ImportEnds == (run.step = "run" /\ alive) ~> (run.step # "run" \/ ~alive)
==============================================================================
