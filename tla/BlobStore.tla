------------------------------ MODULE BlobStore ------------------------------
(***************************************************************************)
(* The blob store: content-addressed blobs and their Bao outboards on top  *)
(* of a path-based store (blob/store.rs, blob/import.rs, blob/read.rs) and *)
(* the four stores it runs on.                                             *)
(*                                                                         *)
(* A content is a short sequence, its hash is the content itself.  A store *)
(* holds three families of objects: blob3/<hash>, obao6/<hash> and the     *)
(* temporary objects .tmp/<uuid>, here named by the import that writes     *)
(* them.  An operation is a job that takes one step per call of the store, *)
(* so that imports, deletes and their failures interleave.                 *)
(***************************************************************************)
EXTENDS Naturals, Sequences, FiniteSets, TLC

CONSTANTS
    Configs,    \* The instances: stores, callers, faults and bounds of a run
    BlockLen    \* The length of a Bao block, S5_BLOCK_SIZE

ASSUME BlockLenAssumption == BlockLen \in Nat \ {0}

VARIABLES
    config,     \* The instance that runs
    objects,    \* The objects of every store
    jobs,       \* The operations on blob stores that run or have ended
    files,      \* The files and URLs that imports read
    faults,     \* How many failures have happened
    grown,      \* History: hashes of files that grew while they were imported
    removed,    \* History: the stores and hashes of the blobs that were deleted
    broken      \* History: the imports that did not end well

storeVars == <<objects, jobs, faults, grown, removed, broken>>

\* A content is a sequence of whatever stands for bytes.
IsContent(c) == c \in Seq({c[i] : i \in DOMAIN c})

----------------------------------------------------------------------------
\* The stores.  renames: a temporary object is moved in one step.  inPlace: an
\* object is written under its own name while it grows.  replaces: a rename may
\* land on an existing object.  forgives: deleting a missing object succeeds.

LocalStore == [renames |-> TRUE, inPlace |-> TRUE, replaces |-> TRUE, forgives |-> TRUE]

MemoryStore == [renames |-> TRUE, inPlace |-> FALSE, replaces |-> TRUE, forgives |-> TRUE]

S3Store == [renames |-> FALSE, inPlace |-> FALSE, replaces |-> TRUE, forgives |-> TRUE]

SiaStore == [renames |-> TRUE, inPlace |-> FALSE, replaces |-> FALSE, forgives |-> FALSE]

ASSUME StoresAssumption ==
    \A k \in Configs :
        /\ \A s \in DOMAIN k.stores : k.stores[s] \in {LocalStore, MemoryStore, S3Store, SiaStore}
        /\ k.dest \in DOMAIN k.stores

Kind(s) == config.stores[s]
Stores == DOMAIN config.stores

Empty == [x \in {} |-> x]
NoObjects == [blob3 |-> Empty, obao6 |-> Empty, tmp |-> Empty]

With(f, x, y) == [z \in DOMAIN f \cup {x} |-> IF z = x THEN y ELSE f[z]]
Without(f, x) == [y \in DOMAIN f \ {x} |-> f[y]]

----------------------------------------------------------------------------
\* Reading a blob store.

contains(s, h) == h \in DOMAIN objects[s].blob3
contains_obao6(s, h) == config.outboard /\ h \in DOMAIN objects[s].obao6
size(s, h) == Len(objects[s].blob3[h])

\* A read past the end is empty, a read across it is cut.
read_as_bytes(s, h, offset, max) ==
    LET c == objects[s].blob3[h] IN
    SubSeq(c, offset + 1, IF offset + max < Len(c) THEN offset + max ELSE Len(c))

\* Temporary objects and outboards are not listed.
list_hashes(s) == DOMAIN objects[s].blob3

----------------------------------------------------------------------------
\* A job on a blob store.  arg is the content of a bytes or stream import, the
\* name of a file, or the hash to delete.

Ended == {"ok", "err"}
Running == {i \in DOMAIN jobs : jobs[i].step \notin Ended}

\* compute_outboard gives no outboard to a content of one block.
Large(h) == Len(h) > BlockLen
HasOutboard(h) == config.outboard /\ Large(h)

NewJob(op, s, arg) ==
    [op |-> op, store |-> s, arg |-> arg, size |-> 0,
     hash |-> IF op \in {"bytes", "delete"} THEN arg ELSE <<>>,
     step |-> CASE op = "bytes" -> IF HasOutboard(arg) THEN "obao0" ELSE "exists0"
                [] op = "stream" -> "temp"
                [] op = "file" -> "meta"
                [] op = "delete" -> "delete"]

At(i, step) == i \in DOMAIN jobs /\ jobs[i].step = step
Goto(i, step) == jobs' = [jobs EXCEPT ![i].step = step]

\* The first step of finalize_import.
Finalize(h) == IF HasOutboard(h) THEN "obao" ELSE "exists"

Put(s, family, x, c) == objects' = [objects EXCEPT ![s][family] = With(@, x, c)]

----------------------------------------------------------------------------
\* The steps of an import.

\* The outboard is written whether or not the blob is there already.
PutOutboard(i) ==
    LET j == jobs[i] IN
    /\ At(i, "obao0") \/ At(i, "obao")
    /\ Put(j.store, "obao6", j.hash, TRUE)
    /\ Goto(i, IF j.step = "obao0" THEN "exists0" ELSE "exists")
    /\ UNCHANGED <<faults, grown, removed, broken>>

\* Broken variant of AfterFirstCheck: every store is written under the final name.
AfterFirstCheckInPlace(j) == IF contains(j.store, j.hash) THEN "ok" ELSE "put"

\* import_bytes returns at once when the blob is there and puts it under its
\* own name when the store cannot rename.
AfterFirstCheck(j) ==
    IF contains(j.store, j.hash) THEN "ok"
    ELSE IF Kind(j.store).renames THEN "temp" ELSE "put"

\* Broken variant of AfterLastCheck: the temporary object is left behind.
AfterLastCheckKeep(j) ==
    IF contains(j.store, j.hash) THEN "ok"
    ELSE IF Kind(j.store).renames THEN "rename" ELSE "copy"

\* finalize_import drops the temporary object when the blob is there.
AfterLastCheck(j) ==
    IF contains(j.store, j.hash) THEN "discard"
    ELSE IF Kind(j.store).renames THEN "rename" ELSE "copy"

CheckExists(i) ==
    /\ At(i, "exists0") \/ At(i, "exists")
    /\ Goto(i, IF jobs[i].step = "exists0" THEN AfterFirstCheck(jobs[i])
               ELSE AfterLastCheck(jobs[i]))
    /\ UNCHANGED <<objects, faults, grown, removed, broken>>

\* import_bytes and import_stream; the stream is hashed while it is written.
PutTemp(i) ==
    LET j == jobs[i] IN
    /\ At(i, "temp") /\ j.op # "file"
    /\ Put(j.store, "tmp", i, j.arg)
    /\ jobs' = [jobs EXCEPT ![i].hash = j.arg, ![i].size = Len(j.arg),
                            ![i].step = IF j.op = "stream" /\ config.outboard THEN "check"
                                        ELSE Finalize(j.arg)]
    /\ UNCHANGED <<faults, grown, removed, broken>>

\* import_stream reads the temporary object back and compares the hashes.
compute_from_store(i) ==
    LET j == jobs[i]
        same == objects[j.store].tmp[i] = j.hash
    IN
    /\ At(i, "check")
    /\ Goto(i, IF same THEN Finalize(j.hash) ELSE "err")
    /\ broken' = IF same THEN broken ELSE broken \cup {i}
    /\ UNCHANGED <<objects, faults, grown, removed>>

\* import_file takes the length of the file first ...
FileMetadata(i) ==
    LET j == jobs[i] IN
    /\ At(i, "meta")
    /\ jobs' = [jobs EXCEPT ![i].step = IF files[j.arg].up THEN "temp" ELSE "err",
                            ![i].size = Len(files[j.arg].data)]
    /\ broken' = IF files[j.arg].up THEN broken ELSE broken \cup {i}
    /\ UNCHANGED <<objects, faults, grown, removed>>

\* ... and reads it later.  With an outboard exactly that many bytes are hashed,
\* while the temporary object receives all: a file that shrank fails, and one
\* that grew fails when the hashing side hangs up before the rest is written,
\* and passes when the rest fits into the pipe between them.
PutTempFile(i) ==
    LET j == jobs[i]
        c == files[j.arg].data
        Passes(h) ==
            /\ Put(j.store, "tmp", i, c)
            /\ jobs' = [jobs EXCEPT ![i].hash = h, ![i].step = Finalize(h)]
            /\ grown' = IF h = c THEN grown ELSE grown \cup {h}
            /\ UNCHANGED broken
        Fails ==
            /\ Goto(i, "err")
            /\ broken' = broken \cup {i}
            /\ UNCHANGED grown
    IN
    /\ At(i, "temp") /\ j.op = "file"
    /\ \/ (~config.outboard \/ Len(c) = j.size) /\ Passes(c)
       \/ config.outboard /\ Len(c) < j.size /\ Put(j.store, "tmp", i, c) /\ Fails
       \/ /\ config.outboard /\ Len(c) > j.size
          /\ \/ Passes(SubSeq(c, 1, j.size))
             \/ /\ IF Kind(j.store).inPlace THEN Put(j.store, "tmp", i, c) ELSE UNCHANGED objects
                /\ Fails
    /\ UNCHANGED <<faults, removed>>

\* The move of the temporary object to its final name, in one step.
Rename(i) ==
    LET j == jobs[i]
        o == objects[j.store]
        refused == ~Kind(j.store).replaces /\ contains(j.store, j.hash)
    IN
    /\ At(i, "rename")
    /\ objects' = IF refused THEN objects
                  ELSE [objects EXCEPT ![j.store].blob3 = With(@, j.hash, o.tmp[i]),
                                       ![j.store].tmp = Without(@, i)]
    /\ Goto(i, IF refused THEN "err" ELSE "ok")
    /\ broken' = IF refused THEN broken \cup {i} ELSE broken
    /\ UNCHANGED <<faults, grown, removed>>

\* A store without rename: import_bytes puts the blob, finalize_import copies it
\* from the temporary object.
PutBlob(i) ==
    LET j == jobs[i] IN
    /\ At(i, "put") \/ At(i, "copy")
    /\ Put(j.store, "blob3", j.hash, IF j.step = "put" THEN j.arg ELSE objects[j.store].tmp[i])
    /\ Goto(i, IF j.step = "put" THEN "ok" ELSE "discard")
    /\ UNCHANGED <<faults, grown, removed, broken>>

Discard(i) ==
    /\ At(i, "discard")
    /\ objects' = [objects EXCEPT ![jobs[i].store].tmp = Without(@, i)]
    /\ Goto(i, "ok")
    /\ UNCHANGED <<faults, grown, removed, broken>>

----------------------------------------------------------------------------
\* delete: the blob, then its outboard.

DeleteBlob(i) ==
    LET j == jobs[i]
        refused == ~Kind(j.store).forgives /\ ~contains(j.store, j.hash)
    IN
    /\ At(i, "delete")
    /\ objects' = [objects EXCEPT ![j.store].blob3 = Without(@, j.hash)]
    /\ Goto(i, IF refused THEN "err" ELSE IF config.outboard THEN "delobao" ELSE "ok")
    /\ removed' = removed \cup {<<j.store, j.hash>>}
    /\ UNCHANGED <<faults, grown, broken>>

\* An outboard that is missing or cannot be deleted is only logged.
DeleteOutboard(i) ==
    LET j == jobs[i] IN
    /\ At(i, "delobao")
    /\ objects' = [objects EXCEPT ![j.store].obao6 = Without(@, j.hash)]
    /\ Goto(i, "ok")
    /\ UNCHANGED <<faults, grown, removed, broken>>

----------------------------------------------------------------------------
\* A call of the store that fails, or a job that is dropped with its future or
\* its process, has written nothing, or a part of the object if the store writes
\* in place, or all of it.

Parts(s, c) == IF Kind(s).inPlace THEN {SubSeq(c, 1, n) : n \in 0..Len(c)} ELSE {c}

Content(i) ==
    LET j == jobs[i] IN
    CASE j.step = "copy" -> objects[j.store].tmp[i]
      [] j.step = "temp" /\ j.op = "file" -> files[j.arg].data
      [] OTHER -> j.arg

Interrupted(i) ==
    LET j == jobs[i] IN
    CASE j.step \in {"obao0", "obao"} ->
            {[objects EXCEPT ![j.store].obao6 = With(@, j.hash, whole)] :
                whole \in {TRUE, ~Kind(j.store).inPlace}}
      [] j.step = "temp" ->
            {[objects EXCEPT ![j.store].tmp = With(@, i, c)] : c \in Parts(j.store, Content(i))}
      [] j.step \in {"put", "copy"} ->
            {[objects EXCEPT ![j.store].blob3 = With(@, j.hash, c)] :
                c \in Parts(j.store, Content(i))}
      [] OTHER -> {}

Break(i) ==
    /\ i \in Running
    /\ objects' \in Interrupted(i) \cup {objects}
    /\ broken' = broken \cup {i}

FailStep(i) ==
    /\ faults < config.faults
    /\ faults' = faults + 1
    /\ Break(i)
    /\ Goto(i, IF jobs[i].step = "delobao" THEN "ok" ELSE "err")
    /\ UNCHANGED <<grown, removed>>

DropJob(i) ==
    /\ IF i \in Running THEN Break(i) ELSE UNCHANGED <<objects, broken>>
    /\ jobs' = Without(jobs, i)
    /\ UNCHANGED <<faults, grown, removed>>

JobStep(i) ==
    \/ PutOutboard(i)
    \/ CheckExists(i)
    \/ PutTemp(i)
    \/ compute_from_store(i)
    \/ FileMetadata(i)
    \/ PutTempFile(i)
    \/ Rename(i)
    \/ PutBlob(i)
    \/ Discard(i)
    \/ DeleteBlob(i)
    \/ DeleteOutboard(i)

----------------------------------------------------------------------------

StoreInit ==
    /\ objects = [s \in Stores |->
                    [NoObjects EXCEPT !.blob3 = [h \in config.held[s] |-> h],
                                      !.obao6 = [h \in {x \in config.held[s] : HasOutboard(x)} |-> TRUE]]]
    /\ jobs = Empty
    /\ faults = 0
    /\ grown = {} /\ removed = {} /\ broken = {}

\* A blob under a hash has that hash, whatever imports and deletes interleave and
\* wherever they are cut short, except for a file that grew while it was read;
\* and a blob of more than a block has its outboard unless it was deleted.
BlobsAreWhole ==
    \A s \in Stores : \A h \in list_hashes(s) :
        /\ h \notin grown => objects[s].blob3[h] = h
        /\ HasOutboard(h) /\ <<s, h>> \notin removed => contains_obao6(s, h)

\* An import that answers ok has stored its blob, unless it was deleted, and the
\* temporary objects of a store belong to imports that run or that failed.
ImportsAreClean ==
    /\ \A i \in DOMAIN jobs :
        LET j == jobs[i] IN
        j.op # "delete" /\ j.step = "ok" => contains(j.store, j.hash) \/ <<j.store, j.hash>> \in removed
    /\ \A s \in Stores : DOMAIN objects[s].tmp \subseteq Running \cup broken
==============================================================================
