------------------------------- MODULE DirActor -------------------------------
(***************************************************************************)
(* The tree of directory actors behind FS5 (s5_fs/src/actor.rs,            *)
(* actor/persistence.rs and the part of api.rs that talks to them), for a  *)
(* root kept in a local file.                                              *)
(*                                                                         *)
(* Every open directory is an actor with a bounded mailbox.  A request     *)
(* enters at the root and is routed down; a directory that changes tells   *)
(* its parent (MarkAsDirty); an autosave tells it the new hash             *)
(* (UpdateDirRefHash); a save asks the children for their hashes first.    *)
(*                                                                         *)
(* A path is a member of Dir, and every directory holds one file, whose    *)
(* content is the number of the put that wrote it (0: no file).  The file  *)
(* of a path whose directory does not exist is kept by the nearest         *)
(* ancestor that does, under a longer name: files is a function of paths.  *)
(* A hash is the snapshot it is the hash of; the zeroed hash is NoHash.    *)
(* Files are far fewer than FS5_PROMOTION_THRESHOLD and snapshots far      *)
(* smaller than MAX_DIR_BYTES_BEFORE_SHARD, so check_auto_promote and      *)
(* shard_if_needed do nothing.                                             *)
(***************************************************************************)
EXTENDS Integers, Sequences, FiniteSets

CONSTANTS
    Dir,         \* the paths
    Root,        \* the path of the root
    Parent,      \* the path above each path other than the root
    Blank,       \* the path that appends an empty name, or None if not modelled
    Client,      \* the tasks that hold the FS5 handle
    MaxPuts,     \* bound: puts per path
    Configs,     \* the file systems and the uses of them that are tried
    Initial,     \* the snapshots of empty directories, by the set of those that exist
    None         \* no directory, no client

Ops == {"file_put", "file_put_sync", "file_get", "create_dir", "save",
        "with_autosave", "shutdown", "drop"}

\* A file system and how it is used.
Config ==
    [dirs : SUBSET Dir,      \* the paths that are used
     exists : SUBSET Dir,    \* the directories there are at first
     ops : SUBSET Ops,       \* what the clients call
     capacity : Nat \ {0},   \* the length of a mailbox
     calls : Nat,            \* bound: calls of all clients together
     crashes : Nat,          \* bound: crashes of the process
     errors : BOOLEAN]       \* whether the blob store may fail

\* DirV1::new(), and the directory with some files and subdirectories.
NoFiles == [d \in Dir |-> 0]
Snapshot(files, dirs) == [files |-> files, dirs |-> dirs]

\* The zeroed hash that a new directory's reference has until its first save.
NoHash == [zeroed |-> TRUE]

\* The directories below d among those of a set.
ChildrenIn(dirs, d) == {e \in dirs \ {Root} : Parent[e] = d}

\* FS5_PROMOTION_THRESHOLD: no prefix ever has more files than this.
PromotionThreshold == 10

ASSUME TreeAssumption ==
    /\ Root \in Dir
    /\ Parent \in [Dir \ {Root} -> Dir]
    /\ \A d \in Dir \ {Root} : Parent[d] # d
    /\ Blank \in [Dir -> Dir \cup {None}]
    /\ \A d \in Dir : Blank[d] # None => Blank[d] \notin {d, Root} /\ Parent[Blank[d]] = d
    /\ None \notin Dir \cup Client /\ Dir \cap Client = {}
    /\ Cardinality(Dir) <= PromotionThreshold

\* Every path is reached from the root by going down.
ASSUME PathAssumption ==
    \A S \in SUBSET Dir :
        Root \in S /\ (\A d \in Dir \ {Root} : Parent[d] \in S => d \in S) => S = Dir

ASSUME ConfigAssumption ==
    /\ MaxPuts \in Nat
    /\ \A k \in Configs :
        /\ k \in Config
        /\ Root \in k.exists /\ k.exists \subseteq k.dirs
        /\ \A d \in k.exists \ {Root} : Parent[d] \in k.exists
        /\ \A d \in k.exists : LET s == Initial[k.exists] IN
            s[d] = Snapshot(NoFiles, [e \in ChildrenIn(k.exists, d) |-> s[e]])

VARIABLES
    config,    \* the file system and its use; it does not change
    actor,     \* the actor of each directory, open or not
    box,       \* its mailbox
    stored,    \* the meta blob store: the snapshots that can be read by hash
    rootFile,  \* root.fs5.cbor
    client,    \* the call each client waits for
    handles,   \* whether any client still holds the FS5 handle
    next,      \* the number of the last put to each path
    made,      \* the directories that were there at first or that create_dir was called for
    calls,     \* calls made so far
    crashes,   \* crashes so far
    acked,     \* the last put to each path a client was told has been accepted
    kept       \* the puts that a save has promised to have stored

vars == <<config, actor, box, stored, rootFile, client, handles, next, made,
          calls, crashes, acked, kept>>

------------------------------------------------------------------------------
(* Paths.                                                                   *)

\* The path itself and all paths above it: the least set of that kind.
Up == [d \in Dir |->
         {a \in Dir : \A S \in SUBSET Dir :
             d \in S /\ (\A e \in S \ {Root} : Parent[e] \in S) => a \in S}]

Above(a, d) == a # d /\ a \in Up[d]

\* The first component of what is left of the path of message m in directory a:
\* `path.split_once('/')`.  Below its directory a file op has the name of the file
\* left, which is no directory, and a create_dir the empty string.
FirstOf(a, m) ==
    IF Above(a, m.dir) THEN CHOOSE e \in Up[m.dir] : e # Root /\ Parent[e] = a
    ELSE IF m.op = "create_dir" THEN Blank[a] ELSE None

\* Where a reader of the root file finds the file of path d: the directory it
\* is routed to, and that directory's snapshot (NoHash if it cannot be loaded).
Holder[d \in Dir] ==
    IF d = Root THEN [dir |-> Root, snap |-> rootFile]
    ELSE LET h == Holder[Parent[d]] IN
         IF h.snap # NoHash /\ h.dir = Parent[d] /\ d \in DOMAIN h.snap.dirs
         THEN [dir |-> d,
               snap |-> IF h.snap.dirs[d] \in stored THEN h.snap.dirs[d] ELSE NoHash]
         ELSE h

\* The put that a process which opens the root file would read for path d.
Persisted(d) == IF Holder[d].snap = NoHash THEN 0 ELSE Holder[d].snap.files[d]

------------------------------------------------------------------------------
(* Actors, messages and calls.                                              *)

Idle == [op |-> "idle"]
NoCall == [op |-> "none"]
Msg(op, dir, arg, from) == [op |-> op, dir |-> dir, arg |-> arg, from |-> from]

\* DirActorHandle::spawn by directory p: load the snapshot of that hash, or
\* start from an initial state that is still to be saved.
Spawn(life, p, state, auto) ==
    [life |-> life, up |-> p, state |-> state, dirty |-> FALSE, timer |-> "off",
     auto |-> auto, task |-> Idle]
NotOpen == Spawn("none", None, NoHash, FALSE)
FreshActors(file) ==
    [d \in Dir |-> IF d = Root THEN Spawn("loading", None, file, FALSE) ELSE NotOpen]

\* dir_handles: the children that directory a has opened.
Handles(a) == {e \in Dir : actor[e].life # "none" /\ actor[e].up = a}

HasRoom(d) == Len(box[d]) < config.capacity
IsRoot(d) == actor[d].up = None
Free(d) == actor[d].life = "running" /\ actor[d].task = Idle
Receives(d, ops) == Free(d) /\ box[d] # <<>> /\ Head(box[d]).op \in ops

\* Broken variant of Arm: forgets a directory that was made dirty by a child.
ArmOnlyFiles(r) ==
    IF r.auto /\ r.dirty /\ r.timer = "off" /\ DOMAIN r.state.dirs = {}
    THEN [r EXCEPT !.timer = "armed"] ELSE r

\* The end of process_msg: start the autosave timer if there is something to save.
Arm(r) ==
    IF r.auto /\ r.dirty /\ r.timer = "off" THEN [r EXCEPT !.timer = "armed"] ELSE r

\* A message for the parent that has to be sent before the handler goes on.
Telling(op, dir, hash, then, from) ==
    [op |-> "tell", msg |-> Msg(op, dir, hash, None), then |-> then, from |-> from]

\* Broken variant of MarkAsDirty: does not tell the parent.
MarkSilently(d, r, from) == Arm([r EXCEPT !.dirty = TRUE])

\* mark_as_dirty, as the last call of a handler that answers `from` when it ends.
MarkAsDirty(d, r, from) ==
    IF r.dirty \/ r.up = None \/ actor[r.up].life = "stopped"
    THEN Arm([r EXCEPT !.dirty = TRUE])
    ELSE [r EXCEPT !.dirty = TRUE,
                   !.task = Telling("mark_as_dirty", d, None, "arm", from)]

\* Whether the blob store does its work.
Outcome == IF config.errors THEN BOOLEAN ELSE {TRUE}

\* Broken variant of Persist: a directory below the root is not imported.
PersistRootOnly(d, ok) ==
    /\ stored' = IF ok /\ IsRoot(d) THEN stored \cup {actor[d].state} ELSE stored
    /\ rootFile' = IF ok /\ IsRoot(d) THEN actor[d].state ELSE rootFile

\* What save(..) leaves behind: the imported snapshot and, for the root, the file
\* that replaces root.fs5.cbor.
Persist(d, ok) ==
    /\ stored' = IF ok THEN stored \cup {actor[d].state} ELSE stored
    /\ rootFile' = IF ok /\ IsRoot(d) THEN actor[d].state ELSE rootFile

\* Broken variants of Released: a closed channel, or an answer, wakes nobody up.
ReleasedAnswered(c, failed) == {c}
ReleasedFailed(c, failed) == failed

\* The clients that stop waiting when c is answered and others see their channel
\* close.
Released(c, failed) == {c} \cup failed

\* Client c has its answer, and the clients in `failed` an error.
Merge(f, g) == [d \in Dir |-> IF f[d] >= g[d] THEN f[d] ELSE g[d]]
Answer(c, failed) ==
    LET call == IF c \in Client THEN client[c] ELSE NoCall IN
    /\ client' = [k \in Client |-> IF k \in Released(c, failed) THEN NoCall ELSE client[k]]
    /\ acked' = IF call.op = "file_put_sync"
                THEN Merge(acked, [NoFiles EXCEPT ![call.dir] = call.arg]) ELSE acked
    /\ kept' = IF call.op = "save"
               THEN Merge(kept, call.need) ELSE kept
NoAnswer == UNCHANGED <<client, acked, kept>>

\* Broken variant of ToParent: the parent does not note the hash.
ToParentUnread(acts, p, d, hash) ==
    IF p \notin Dir THEN acts ELSE [acts EXCEPT ![p].task.wait = @ \ {d}]

\* Broken variant of ToParent: Ok(None) of a clean child is taken for its hash.
ToParentClears(acts, p, d, hash) ==
    IF p \notin Dir THEN acts
    ELSE LET r == [acts[p] EXCEPT !.task.wait = @ \ {d}] IN
         [acts EXCEPT ![p] =
            IF d \notin DOMAIN r.state.dirs THEN r
            ELSE [r EXCEPT !.dirty = @ \/ r.state.dirs[d] # hash,
                           !.state.dirs[d] = hash]]

\* Child d answers the parent that waits for it.  A hash goes into the parent's
\* entry for d and makes the parent dirty if it is new.
ToParent(acts, p, d, hash) ==
    IF p \notin Dir THEN acts
    ELSE LET r == [acts[p] EXCEPT !.task.wait = @ \ {d}] IN
         [acts EXCEPT ![p] =
            IF hash = NoHash \/ d \notin DOMAIN r.state.dirs THEN r
            ELSE [r EXCEPT !.dirty = @ \/ r.state.dirs[d] # hash,
                           !.state.dirs[d] = hash]]

------------------------------------------------------------------------------
(* The clients (api.rs).  All calls go to the mailbox of the root.          *)

Init ==
    /\ config \in Configs
    /\ rootFile = Initial[config.exists][Root]
    /\ stored = {Initial[config.exists][d] : d \in config.exists}
    /\ actor = FreshActors(rootFile)
    /\ box = [d \in Dir |-> <<>>]
    /\ client = [c \in Client |-> NoCall]
    /\ handles = TRUE
    /\ next = NoFiles
    /\ made = config.exists
    /\ calls = 0
    /\ crashes = 0
    /\ acked = NoFiles
    /\ kept = NoFiles

\* A client sends a message to the root.  A full mailbox makes it wait first, and
\* an actor that has stopped makes the call fail, which changes nothing.
Post(op, d, arg, from) ==
    /\ handles /\ op \in config.ops /\ calls < config.calls
    /\ actor[Root].life # "stopped" /\ HasRoom(Root)
    /\ calls' = calls + 1
    /\ box' = [box EXCEPT ![Root] = Append(@, Msg(op, d, arg, from))]
    /\ UNCHANGED <<config, actor, stored, rootFile, handles, crashes, kept>>

\* The same, and client c waits for the answer.
Call(c, op, d, arg) ==
    /\ client[c] = NoCall
    /\ Post(op, d, arg, c)
    /\ client' = [client EXCEPT ![c] = [op |-> op, dir |-> d, arg |-> arg, need |-> acked]]
    /\ UNCHANGED acked

\* file_put_sync waits until the actor has run it.
FilePutSync(c, d) ==
    /\ next[d] < MaxPuts
    /\ next' = [next EXCEPT ![d] = @ + 1]
    /\ Call(c, "file_put_sync", d, next'[d])
    /\ UNCHANGED made

\* file_put returns once the message is in the mailbox.
FilePut(d) ==
    /\ next[d] < MaxPuts
    /\ next' = [next EXCEPT ![d] = @ + 1]
    /\ Post("file_put", d, next'[d], None)
    /\ acked' = [acked EXCEPT ![d] = next'[d]]
    /\ UNCHANGED <<client, made>>

FileGet(c, d) == Call(c, "file_get", d, 0) /\ UNCHANGED <<next, made>>

\* create_dir.  Bound: a path is created again only if there is a path for what
\* create_dir("") makes in it, and only once.
CreateDir(c, d) ==
    /\ d # Root /\ (d \in made => Blank[d] \in config.dirs \ made)
    /\ made' = made \cup {d, IF d \in made THEN Blank[d] ELSE d}
    /\ Call(c, "create_dir", d, 0)
    /\ UNCHANGED next

Save(c) == Call(c, "save", Root, 0) /\ UNCHANGED <<next, made>>
Shutdown(c) == Call(c, "shutdown", Root, 0) /\ UNCHANGED <<next, made>>
WithAutosave ==
    Post("with_autosave", Root, 0, None) /\ UNCHANGED <<client, next, acked, made>>

\* The last clone of the FS5 handle is dropped.
Drop ==
    /\ handles /\ "drop" \in config.ops /\ \A c \in Client : client[c] = NoCall
    /\ handles' = FALSE
    /\ UNCHANGED <<config, actor, box, stored, rootFile, client, next, made,
                   calls, crashes, acked, kept>>

\* The process dies and opens the root again.  What was not stored is gone.
Crash ==
    /\ crashes < config.crashes
    /\ crashes' = crashes + 1
    /\ actor' = FreshActors(rootFile)
    /\ box' = [d \in Dir |-> <<>>]
    /\ client' = [c \in Client |-> NoCall]
    /\ handles' = TRUE
    /\ acked' = [d \in Dir |-> Persisted(d)]
    /\ UNCHANGED <<config, stored, rootFile, next, made, calls, kept>>

ClientStep ==
    \/ \E c \in Client, d \in config.dirs :
          FilePutSync(c, d) \/ FileGet(c, d) \/ CreateDir(c, d)
    \/ \E d \in config.dirs : FilePut(d)
    \/ \E c \in Client : Save(c) \/ Shutdown(c)
    \/ WithAutosave
    \/ Drop
    \/ Crash

------------------------------------------------------------------------------
(* The actors (actor.rs, actor/persistence.rs).                             *)

\* What an actor step never touches.
ClientsOnly == <<config, handles, next, made, calls, crashes>>

Take(d) == [box EXCEPT ![d] = Tail(@)]

\* The messages left in the mailbox of d when its actor ends: their senders see
\* the channel close.
Dropped(d) == {box[d][i].from : i \in DOMAIN box[d]}

\* run, before the loop: publish the initial state, or load the snapshot.
Publish(d) ==
    /\ actor[d].life = "creating"
    /\ \E ok \in Outcome :
        /\ Persist(d, ok)
        /\ actor' = [actor EXCEPT ![d] =
             [@ EXCEPT !.life = "running",
                       !.task = IF ok /\ actor[actor[d].up].life # "stopped"
                                THEN Telling("update_ref", d, actor[d].state, "loop", None)
                                ELSE Idle]]
    /\ NoAnswer /\ UNCHANGED box /\ UNCHANGED ClientsOnly

Load(d) ==
    /\ actor[d].life = "loading"
    /\ \E ok \in Outcome :
        IF IsRoot(d) \/ (ok /\ actor[d].state \in stored)
        THEN /\ actor' = [actor EXCEPT ![d].life = "running"]
             /\ NoAnswer /\ UNCHANGED box
        ELSE /\ actor' = ToParent([actor EXCEPT ![d].life = "stopped"],
                                  IF actor[d].up \in Dropped(d) THEN actor[d].up ELSE None,
                                  d, NoHash)
             /\ box' = [box EXCEPT ![d] = <<>>]
             /\ Answer(None, Dropped(d))
    /\ UNCHANGED <<stored, rootFile>> /\ UNCHANGED ClientsOnly

\* PathOp for a path that leads into a child: open it if need be and pass the
\* message on.  (A full mailbox of the child keeps the actor from going on.)
PathOps == {"file_put", "file_put_sync", "file_get", "create_dir"}
Forward(d) ==
    /\ Receives(d, PathOps)
    /\ LET e == FirstOf(d, Head(box[d])) IN
       /\ e \in DOMAIN actor[d].state.dirs
       /\ IF actor[e].life = "stopped"
          THEN /\ box' = Take(d)
               /\ Answer(None, {Head(box[d]).from})
               /\ UNCHANGED actor
          ELSE /\ HasRoom(e)
               /\ box' = [Take(d) EXCEPT ![e] = Append(@, Head(box[d]))]
               /\ actor' = IF actor[e].life # "none" THEN actor
                           ELSE [actor EXCEPT ![e] =
                                   Spawn("loading", d, actor[d].state.dirs[e], actor[d].auto)]
               /\ NoAnswer
    /\ UNCHANGED <<stored, rootFile>> /\ UNCHANGED ClientsOnly

IsLocal(d) == FirstOf(d, Head(box[d])) \notin DOMAIN actor[d].state.dirs

\* PathOp with a FileOp on an entry of this directory.  The task answers before
\* mark_as_dirty tells the parent; a read marks the directory dirty too.
FileOp(d) ==
    /\ Receives(d, {"file_put", "file_put_sync", "file_get"})
    /\ IsLocal(d)
    /\ LET m == Head(box[d])
           r == IF m.op = "file_get" THEN actor[d]
                ELSE [actor[d] EXCEPT !.state.files[m.dir] = m.arg] IN
       /\ actor' = [actor EXCEPT ![d] = MarkAsDirty(d, r, None)]
       /\ Answer(m.from, {})
    /\ box' = Take(d)
    /\ UNCHANGED <<stored, rootFile>> /\ UNCHANGED ClientsOnly

\* Broken variant of ExtractChild: the files stay where nobody looks for them.
ExtractNothing(files, e) == NoFiles

\* extract_child_dir_state: the files below e, which leave the directory.
ExtractChild(files, e) == [f \in Dir |-> IF e \in Up[f] THEN files[f] ELSE 0]

\* PathOp with CreateDir: create_dir_at.  The files below the path move into the
\* new child, whose entry has a zeroed hash until it publishes its first snapshot.
CreateDirAt(d) ==
    /\ Receives(d, {"create_dir"})
    /\ IsLocal(d)
    /\ LET m == Head(box[d])
           e == IF Above(d, m.dir) THEN m.dir ELSE Blank[d]
           old == actor[d].state
           moved == ExtractChild(old.files, e)
           stay == [f \in Dir |-> IF e \in Up[f] THEN 0 ELSE old.files[f]]
           r == IF e \notin Dir \ DOMAIN old.dirs THEN Arm(actor[d])
                ELSE MarkAsDirty(d, [actor[d] EXCEPT
                        !.state = Snapshot(stay, [f \in DOMAIN old.dirs \cup {e} |->
                                    IF f = e THEN NoHash ELSE old.dirs[f]])], m.from) IN
       /\ actor' = [actor EXCEPT
                      ![d] = r,
                      ![e] = IF e \notin Dir \ DOMAIN old.dirs THEN @
                             ELSE Spawn("creating", d, Snapshot(moved, <<>>), actor[d].auto)]
       /\ IF r.task = Idle THEN Answer(m.from, {}) ELSE NoAnswer
    /\ box' = Take(d)
    /\ UNCHANGED <<stored, rootFile>> /\ UNCHANGED ClientsOnly

\* The message for the parent goes out, and the handler ends: an autosave that has
\* told the parent its hash clears the dirty flag, and whoever waits is answered.
Tell(d) ==
    /\ actor[d].life = "running" /\ actor[d].task.op = "tell"
    /\ LET t == actor[d].task
           r == [actor[d] EXCEPT !.task = Idle] IN
       /\ HasRoom(actor[d].up)
       /\ box' = [box EXCEPT ![actor[d].up] = Append(@, t.msg)]
       /\ actor' = [actor EXCEPT ![d] =
                      CASE t.then = "loop"  -> r
                        [] t.then = "arm"   -> Arm(r)
                        [] t.then = "saved" -> [r EXCEPT !.dirty = FALSE]]
       /\ IF t.from = None THEN NoAnswer ELSE Answer(t.from, {})
    /\ UNCHANGED <<stored, rootFile>> /\ UNCHANGED ClientsOnly

\* MarkAsDirty from a child.
ChildIsDirty(d) ==
    /\ Receives(d, {"mark_as_dirty"})
    /\ actor' = [actor EXCEPT ![d] = MarkAsDirty(d, @, None)]
    /\ box' = Take(d)
    /\ NoAnswer /\ UNCHANGED <<stored, rootFile>> /\ UNCHANGED ClientsOnly

\* UpdateDirRefHash from a child; a hash that is already there ends the handler early.
UpdateDirRefHash(d) ==
    /\ Receives(d, {"update_ref"})
    /\ LET m == Head(box[d]) IN
       actor' = [actor EXCEPT ![d] =
                   IF m.dir \notin DOMAIN @.state.dirs \/ @.state.dirs[m.dir] = m.arg THEN @
                   ELSE MarkAsDirty(d, [@ EXCEPT !.state.dirs[m.dir] = m.arg], None)]
    /\ box' = Take(d)
    /\ NoAnswer /\ UNCHANGED <<stored, rootFile>> /\ UNCHANGED ClientsOnly

\* SaveIfDirty: a directory that is neither dirty nor a root has nothing to do;
\* otherwise the children are saved first.
SaveIfDirty(d) ==
    /\ Receives(d, {"save"})
    /\ LET from == Head(box[d]).from IN
       IF actor[d].dirty \/ IsRoot(d)
       THEN /\ actor' = [actor EXCEPT ![d].task =
                 [op |-> "save", from |-> from, todo |-> Handles(d), wait |-> {}]]
            /\ NoAnswer
       ELSE /\ actor' = ToParent([actor EXCEPT ![d] = Arm(@)], from, d, NoHash)
            /\ NoAnswer
    /\ box' = Take(d)
    /\ UNCHANGED <<stored, rootFile>> /\ UNCHANGED ClientsOnly

\* save_if_dirty or shutdown is called on child e: all saves at once, shutdowns one
\* by one.  The call fails at once if the child has ended.
AskChild(d, e) ==
    /\ actor[d].task.op \in {"save", "shutdown"}
    /\ LET t == actor[d].task IN
       /\ e \in t.todo
       /\ t.op = "shutdown" => t.wait = {}
       /\ IF actor[e].life = "stopped"
          THEN /\ actor' = [actor EXCEPT ![d].task.todo = @ \ {e}]
               /\ UNCHANGED box
          ELSE /\ HasRoom(e)
               /\ actor' = [actor EXCEPT ![d].task.todo = @ \ {e}, ![d].task.wait = @ \cup {e}]
               /\ box' = [box EXCEPT ![e] = Append(@, Msg(t.op, e, 0, d))]
    /\ NoAnswer /\ UNCHANGED <<stored, rootFile>> /\ UNCHANGED ClientsOnly

ChildrenDone(d, op) ==
    /\ actor[d].task.op = op
    /\ actor[d].task.todo = {} /\ actor[d].task.wait = {}

\* The rest of SaveIfDirty once every child has answered (an error of a child is
\* only logged): save(false) if the directory is dirty, and answer.
SaveDone(d) ==
    /\ ChildrenDone(d, "save")
    /\ LET from == actor[d].task.from
           r == [actor[d] EXCEPT !.task = Idle]
           hash(ok) == IF ok /\ r.dirty THEN r.state ELSE NoHash IN
       \E ok \in IF r.dirty THEN Outcome ELSE {TRUE} :
          /\ Persist(d, ok /\ r.dirty)
          /\ actor' = ToParent([actor EXCEPT ![d] = Arm([r EXCEPT !.dirty = @ /\ ~ok])],
                               from, d, hash(ok))
          /\ Answer(IF ok THEN from ELSE None, {from})
    /\ UNCHANGED box /\ UNCHANGED ClientsOnly

\* The autosave timer fires.
Fire(d) ==
    /\ actor[d].timer = "armed" /\ actor[d].life = "running" /\ HasRoom(d)
    /\ actor' = [actor EXCEPT ![d].timer = "fired"]
    /\ box' = [box EXCEPT ![d] = Append(@, Msg("autosave_tick", d, 0, None))]
    /\ NoAnswer /\ UNCHANGED <<stored, rootFile>> /\ UNCHANGED ClientsOnly

\* AutosaveTick: save(true), and start over if that fails.
AutosaveTick(d) ==
    /\ Receives(d, {"autosave_tick"})
    /\ LET r == [actor[d] EXCEPT !.timer = "off"]
           tell == ~IsRoot(d) /\ actor[r.up].life # "stopped" IN
       \E ok \in IF r.dirty THEN Outcome ELSE {TRUE} :
          /\ Persist(d, ok /\ r.dirty)
          /\ actor' = [actor EXCEPT ![d] =
               IF ~ok THEN Arm(r)
               ELSE IF r.dirty /\ tell
               THEN [r EXCEPT !.task = Telling("update_ref", d, r.state, "saved", None)]
               ELSE [r EXCEPT !.dirty = FALSE]]
    /\ box' = Take(d)
    /\ NoAnswer /\ UNCHANGED ClientsOnly

\* SetAutosave, passed on to the children that are open.
SetAutosave(d) ==
    /\ Receives(d, {"with_autosave"})
    /\ LET live == {e \in Handles(d) : actor[e].life # "stopped"} IN
       /\ \A e \in live : HasRoom(e)
       /\ box' = [f \in Dir |-> IF f = d THEN Tail(box[f])
                                ELSE IF f \in live THEN Append(box[f], Head(box[d]))
                                ELSE box[f]]
    /\ actor' = [actor EXCEPT ![d] = Arm([@ EXCEPT !.auto = TRUE])]
    /\ NoAnswer /\ UNCHANGED <<stored, rootFile>> /\ UNCHANGED ClientsOnly

\* Shutdown: save(false) first, then the children, one after the other.
BeginShutdown(d) ==
    /\ Receives(d, {"shutdown"})
    /\ \E ok \in IF actor[d].dirty THEN Outcome ELSE {TRUE} : Persist(d, ok /\ actor[d].dirty)
    /\ actor' = [actor EXCEPT ![d].task = [op |-> "shutdown", from |-> Head(box[d]).from,
                                           todo |-> Handles(d), wait |-> {}]]
    /\ box' = Take(d)
    /\ NoAnswer /\ UNCHANGED ClientsOnly

\* The actor answers, leaves the loop and, as the dirty flag is still set, saves
\* its unchanged state once more.  What is left in the mailbox is dropped.
Stop(d) ==
    /\ ChildrenDone(d, "shutdown")
    /\ \E ok \in IF actor[d].dirty THEN Outcome ELSE {TRUE} : Persist(d, ok /\ actor[d].dirty)
    /\ actor' = ToParent([actor EXCEPT ![d].life = "stopped", ![d].task = Idle],
                         actor[d].task.from, d, NoHash)
    /\ box' = [box EXCEPT ![d] = <<>>]
    /\ Answer(actor[d].task.from, Dropped(d))
    /\ UNCHANGED ClientsOnly

\* The loop ends because nobody holds a handle any more: neither the clients or
\* the parent, nor a child that is sending.
Orphan(d) ==
    /\ Free(d) /\ box[d] = <<>>
    /\ IF IsRoot(d) THEN ~handles ELSE actor[actor[d].up].life = "stopped"
    /\ \A e \in Handles(d) : actor[e].task.op # "tell"
    /\ \E ok \in IF actor[d].dirty THEN Outcome ELSE {TRUE} : Persist(d, ok /\ actor[d].dirty)
    /\ actor' = [actor EXCEPT ![d].life = "stopped"]
    /\ NoAnswer /\ UNCHANGED box /\ UNCHANGED ClientsOnly

ActorStep(d) ==
    \/ Publish(d) \/ Load(d) \/ Forward(d) \/ FileOp(d) \/ CreateDirAt(d) \/ Tell(d)
    \/ ChildIsDirty(d) \/ UpdateDirRefHash(d)
    \/ SaveIfDirty(d) \/ (\E e \in Dir : AskChild(d, e)) \/ SaveDone(d)
    \/ AutosaveTick(d) \/ SetAutosave(d)
    \/ BeginShutdown(d) \/ Stop(d) \/ Orphan(d)

Next == ClientStep \/ \E d \in Dir : ActorStep(d) \/ Fire(d)

Spec == Init /\ [][Next]_vars

\* The runtime runs every actor and every timer that can go on.
FairSpec ==
    Spec /\ \A d \in Dir : WF_vars(ActorStep(d)) /\ WF_vars(Fire(d))

------------------------------------------------------------------------------
(* Properties.                                                              *)

Tasks == {"idle", "tell", "save", "shutdown"}

TypeOK ==
    /\ config \in Configs
    /\ \A d \in Dir :
        LET r == actor[d] IN
        /\ r.life \in {"none", "loading", "creating", "running", "stopped"}
        /\ r.up \in Dir \cup {None} /\ r.up # d
        /\ r.dirty \in BOOLEAN /\ r.auto \in BOOLEAN
        /\ r.timer \in {"off", "armed", "fired"}
        /\ r.task.op \in Tasks
        /\ r.state # NoHash => /\ r.state.files \in [Dir -> 0 .. MaxPuts]
                             /\ DOMAIN r.state.dirs \subseteq Dir
        /\ Len(box[d]) <= config.capacity
        /\ r.life \in {"none", "stopped"} => box[d] = <<>>
    /\ rootFile.files \in [Dir -> 0 .. MaxPuts]
    /\ DOMAIN client = Client
    /\ acked \in [Dir -> 0 .. MaxPuts]
    /\ kept \in [Dir -> 0 .. MaxPuts]

\* Every hash that a stored snapshot, the root file or an actor refers to can be
\* read from the blob store, unless it is the zeroed hash of a new directory: the
\* import comes before the hash is told to anyone (persistence.rs:205).
HashesAreStored ==
    LET live == {actor[d].state : d \in {e \in Dir : actor[e].life = "running"}} IN
    \A s \in stored \cup {rootFile} \cup live :
        \A e \in DOMAIN s.dirs : s.dirs[e] \in stored \cup {NoHash}

\* No call is forgotten: a client that waits has its message in a mailbox or its
\* answer owed by an actor, also when actors end with messages in their mailbox.
CallsAreOwed ==
    \A c \in Client : client[c] # NoCall =>
        \E d \in Dir :
            \/ c \in Dropped(d)
            \/ actor[d].task.op # "idle" /\ actor[d].task.from = c

\* What the clients can see of path d: its put, in the directory it is routed to.
LiveHolder[d \in Dir] ==
    IF d = Root THEN [dir |-> Root, snap |-> actor[Root].state]
    ELSE LET h == LiveHolder[Parent[d]] IN
         IF h.snap # NoHash /\ h.dir = Parent[d] /\ d \in DOMAIN h.snap.dirs
         THEN [dir |-> d, snap |-> IF actor[d].life = "none" THEN h.snap.dirs[d]
                                   ELSE actor[d].state]
         ELSE h
Visible(d) == IF LiveHolder[d].snap = NoHash THEN 0 ELSE LiveHolder[d].snap.files[d]

\* Ways of use under which a property is stated.  WithoutAutosave: no autosave;
\* WithoutCreate: no directory is created; ParentsExist: none is created below one
\* that does not exist; OneLevel: no directory is below another but the root.
WithoutAutosave == "with_autosave" \notin config.ops
WithoutCreate == "create_dir" \notin config.ops
ParentsExist == \A d \in config.dirs \ {Root} : Parent[d] \in config.exists
OneLevel == \A d \in config.dirs \ {Root} : Parent[d] = Root

\* An accepted put is visible or on its way while the actors run, whatever is
\* created, saved or reloaded in the meantime: later puts do not fall behind, and a
\* file that create_dir moves into a new directory is found there (actor.rs:303,
\* sharding.rs:60).
PutsAreNotLost ==
    ParentsExist /\ (\A d \in Dir : actor[d].life # "stopped") =>
    \A d \in Dir :
        \/ Visible(d) >= acked[d]
        \/ \E a \in Dir : \E i \in DOMAIN box[a] :
              /\ box[a][i].op \in {"file_put", "file_put_sync"}
              /\ box[a][i].dir = d /\ box[a][i].arg >= acked[d]

\* A directory with unsaved changes has a dirty parent, or a MarkAsDirty on its way
\* there, unless that one has ended: without it a save that starts at the root would
\* not reach the directory (persistence.rs:265).
DirtyIsKnownAbove ==
    WithoutAutosave /\ ~config.errors =>
    \A d \in Dir :
        LET r == actor[d] IN
        r.life = "running" /\ r.dirty /\ ~IsRoot(d) /\ actor[r.up].life # "stopped" =>
            \/ actor[r.up].dirty
            \/ r.task.op = "tell" /\ r.task.msg.op = "mark_as_dirty"
            \/ \E i \in DOMAIN box[r.up] :
                  box[r.up][i].op = "mark_as_dirty" /\ box[r.up][i].dir = d

\* Every put that was accepted before a save was called is read by a process that
\* opens the root after the save has returned Ok, for good (FS5::save).
SaveIsDurable ==
    WithoutAutosave /\ WithoutCreate /\ OneLevel /\ ~config.errors =>
        \A d \in Dir : Persisted(d) >= kept[d]

\* No snapshot, root file or actor refers to a hash that the store cannot give
\* back, and every directory below the root file and below a snapshot that was ever
\* saved can be loaded (persistence.rs:39).
SavedTreeLoads ==
    /\ HashesAreStored
    /\ WithoutCreate =>
        \A s \in stored \cup {rootFile} : \A e \in DOMAIN s.dirs : s.dirs[e] \in stored

\* What the root file holds of a path is never replaced by an older put.
NoRollback ==
    [][WithoutAutosave /\ WithoutCreate =>
          \A d \in Dir : Persisted(d)' >= Persisted(d)]_vars

\* With autosave every accepted put gets into the root file by itself
\* (FS5::with_autosave).
AutosavePersists ==
    \A d \in Dir : \A n \in 1 .. MaxPuts :
        (actor[Root].auto /\ ~config.errors /\ acked[d] >= n) ~> Persisted(d) >= n

\* Every call returns, as long as the mailboxes do not fill up.
CallsReturn ==
    config.capacity > config.calls =>
        \A c \in Client : client[c] # NoCall ~> client[c] = NoCall
==============================================================================
