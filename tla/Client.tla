------------------------------- MODULE Client --------------------------------
(***************************************************************************)
(* The client of the bindings (bindings/s5_flutter/src/api.rs, and          *)
(* bindings/s5_wasm/src/client.rs, which has the same operations): an FS5   *)
(* root that is kept on a remote node, with small files in the directory    *)
(* and large ones encrypted in blocks and uploaded.  Requests share a lock, *)
(* so they interleave at every await; disconnect takes it exclusively.      *)
(*                                                                         *)
(* BlobsServer models the node's side of an upload; here it is a stream     *)
(* import into the node's store.  A content is a sequence of bytes, and a   *)
(* byte is a record, so that plain and encrypted ones can be told apart.    *)
(*                                                                         *)
(* The root is found by its registry key.  The node's registry answers a    *)
(* query that fails as if there were no entry (s5_registry/src/lib.rs).     *)
(***************************************************************************)
EXTENDS RootFs
Seqs == INSTANCE SequencesExt

VARIABLES
    session,    \* Whether the client is open, closing or closed
    loaded,     \* Whether the actor of its root runs: it ends when it cannot load
    misled,     \* History: a query of the registry that failed was taken for no entry
    asks,       \* The request each caller waits for
    asked,      \* How many requests have begun
    log,        \* History: what was put at each path, in order
    answered    \* History: the newest of these that a request has answered for

clientVars == <<session, loaded, misled, asks, asked, log, answered>>

\* What a read of a file gives.
Data(c) == [data |-> c]
Gone == [gone |-> TRUE]
Failed == [failed |-> TRUE]

Quiet == [op |-> "idle", step |-> "idle", path |-> <<>>, data |-> <<>>, id |-> 0, n |-> 0,
          since |-> Empty, ref |-> Gone, result |-> Gone, cut |-> FALSE, names |-> {}, found |-> Empty]

----------------------------------------------------------------------------
\* Encryption.  A block is encrypted under the file's key with its index as nonce
\* and gets a tag that depends on all of it.

Overhead == 1

encrypt_chunk(key, index, chunk) ==
    [n \in 1..Len(chunk) |-> [key |-> key, nonce |-> index, at |-> n, byte |-> chunk[n]]]
    \o <<[key |-> key, nonce |-> index, tag |-> chunk]>>

\* Anything but the encryption of some block under this key and index fails.
decrypt_chunk(key, index, bytes) ==
    LET last == bytes[Len(bytes)] IN
    IF "tag" \in DOMAIN last /\ bytes = encrypt_chunk(key, index, last.tag)
    THEN Data(last.tag) ELSE Failed

\* The blocks of a content, of which the last may be shorter.
Blocks(c, length) ==
    [i \in 1..((Len(c) + length - 1) \div length) |->
        SubSeq(c, (i - 1) * length + 1, IF i * length < Len(c) THEN i * length ELSE Len(c))]

Encrypted(key, c) ==
    LET blocks == Blocks(c, config.block) IN
    Seqs!FlattenSeq([i \in DOMAIN blocks |-> encrypt_chunk(key, i - 1, blocks[i])])

\* The size that the client declares before it sends a byte.
encrypted_size(c) ==
    LET full == Len(c) \div config.block
        rest == Len(c) % config.block
    IN full * (config.block + Overhead) + IF rest > 0 THEN rest + Overhead ELSE 0

\* The first n bytes of a blob.  A stream that ends early, or that the node ends at
\* once because it does not have the blob, is no error to the client.
download_bytes(h, n) ==
    IF contains(config.dest, h) THEN Data(read_as_bytes(config.dest, h, 0, n)) ELSE Data(<<>>)

download_encrypted_blob(loc, n) ==
    LET blocks == Blocks(download_bytes(loc.hash, n).data, loc.block + Overhead)
        plain == [i \in DOMAIN blocks |-> decrypt_chunk(loc.key, i - 1, blocks[i])]
    IN
    IF Failed \in {plain[i] : i \in DOMAIN plain} THEN Failed
    ELSE Data(Seqs!FlattenSeq([i \in DOMAIN plain |-> plain[i].data]))

\* The locations that hold the data or a key, and the first of them.
Known(ref) == {n \in DOMAIN ref.locations : ref.locations[n].kind \in {"identity", "encrypted"}}
First(ref) == ref.locations[CHOOSE n \in Known(ref) : \A m \in Known(ref) : n <= m]

\* download_file: the first location that holds the data or a key, else the hash.
download(ref, n) ==
    IF Known(ref) = {} THEN download_bytes(ref.hash, n)
    ELSE IF First(ref).kind = "identity" THEN Data(First(ref).data)
    ELSE download_encrypted_blob(First(ref), n)

\* How much of the blob there is to download.
Length(h) == IF contains(config.dest, h) THEN size(config.dest, h) ELSE 0
WholeLength(ref) ==
    IF Known(ref) = {} THEN Length(ref.hash)
    ELSE IF First(ref).kind = "identity" THEN 0 ELSE Length(First(ref).hash)

\* What a reader of a tree finds at a path.
Shown(t, path) ==
    IF path \in DOMAIN t.files THEN download(t.files[path], WholeLength(t.files[path])) ELSE Gone

----------------------------------------------------------------------------
\* A request begins.  The lock is given in turn: it waits behind a disconnect.

Inline(c) == Len(c) <= config.inline

Ask(p, op, path, c) ==
    /\ alive /\ session = "open" /\ asks[p].op = "idle"
    /\ asked < config.requests
    /\ asked' = asked + 1
    /\ asks' = [asks EXCEPT ![p] =
                    [Quiet EXCEPT !.op = op, !.path = path, !.data = c, !.id = asked',
                                  !.since = answered,
                                  !.step = IF op = "upload" THEN IF Inline(c) THEN "put" ELSE "send"
                                           ELSE op]]
    /\ UNCHANGED <<session, loaded, misled, log, answered, storeVars, fsVars>>

Doing(p, step) == alive /\ asks[p].step = step
Proceed(p, step) == asks' = [asks EXCEPT ![p].step = step]
Done(p) == asks' = [asks EXCEPT ![p] = Quiet]

----------------------------------------------------------------------------
\* upload_file.

UploadId(p) == [upload |-> asks[p].id]

\* Every file gets a key of its own, here the number of the request.
upload_encrypted_blob(p) ==
    LET r == asks[p] IN
    /\ Doing(p, "send")
    /\ jobs' = With(jobs, UploadId(p), NewJob("stream", config.dest, Encrypted(r.id, r.data)))
    /\ Proceed(p, "sent")
    /\ UNCHANGED <<session, loaded, misled, asked, log, answered, objects, faults, grown, removed, broken, fsVars>>

\* The node answers; it refuses an upload whose size is not the declared one.
UploadAnswers(p) ==
    LET j == jobs[UploadId(p)] IN
    /\ Doing(p, "sent") /\ j.step \in Ended
    /\ jobs' = Without(jobs, UploadId(p))
    /\ IF j.step = "ok" /\ j.size = encrypted_size(asks[p].data) THEN Proceed(p, "put") ELSE Done(p)
    /\ UNCHANGED <<session, loaded, misled, asked, log, answered, objects, faults, grown, removed, broken, fsVars>>

\* The reference has the hash of the plain content.
NewRef(c, id) ==
    [FileRef(c, Len(c), id) EXCEPT !.locations =
        <<IF Inline(c) THEN [kind |-> "identity", data |-> c]
          ELSE [kind |-> "encrypted", hash |-> Encrypted(id, c), key |-> id, block |-> config.block]>>]

Logged(p, entry) ==
    LET path == asks[p].path IN
    /\ log' = [log EXCEPT ![path] = Append(@, entry)]
    /\ asks' = [asks EXCEPT ![p].step = "save", ![p].n = Len(log'[path])]

PutUploaded(p) ==
    LET r == asks[p] IN
    /\ Doing(p, "put") /\ loaded
    /\ file_put(r.path, NewRef(r.data, r.id))
    /\ Logged(p, Data(r.data))
    /\ UNCHANGED <<session, loaded, misled, asked, answered, saved, alive, storeVars>>

\* delete_file; a path without a file is saved all the same.
DeleteFile(p) ==
    /\ Doing(p, "delete") /\ loaded
    /\ file_delete(asks[p].path)
    /\ Logged(p, Gone)
    /\ UNCHANGED <<session, loaded, misled, asked, answered, saved, alive, storeVars>>

CreateDirectory(p) ==
    /\ Doing(p, "mkdir") /\ loaded
    /\ create_dir(asks[p].path)
    /\ Proceed(p, "save")
    /\ UNCHANGED <<session, loaded, misled, asked, log, answered, saved, alive, storeVars>>

\* The root's actor has ended: it answers nothing.
RootIsGone(p) ==
    /\ ~loaded
    /\ \E step \in {"put", "delete", "mkdir", "list"} : Doing(p, step)
    /\ Done(p)
    /\ UNCHANGED <<session, loaded, misled, asked, log, answered, storeVars, fsVars>>

\* Broken variant of SaveRemote: the save is left to the disconnect.
SaveRemoteLater == UNCHANGED <<saved, faults, misled>>

\* A save that answers Ok.  When the query of the revision failed, the entry is signed
\* with revision 0, which the registry ignores; the actor is not dirty any more, and
\* a save without another change does nothing.
SaveRemote ==
    \/ save /\ UNCHANGED <<faults, misled>>
    \/ /\ faults < config.faults
       /\ faults' = faults + 1
       /\ misled' = TRUE
       /\ UNCHANGED saved
    \/ misled /\ UNCHANGED <<saved, faults, misled>>

\* Every request that changes the root saves it before it answers.
SaveAndAnswer(p) ==
    LET r == asks[p] IN
    /\ Doing(p, "save")
    /\ SaveRemote
    /\ answered' = IF r.op = "mkdir" \/ answered[r.path] >= r.n THEN answered
                   ELSE [answered EXCEPT ![r.path] = r.n]
    /\ Done(p)
    /\ UNCHANGED <<session, loaded, asked, log, tree, past, alive, objects, jobs, grown, removed, broken>>

----------------------------------------------------------------------------
\* download_file and list_directory.

\* An actor that has ended is a file that is not there.
DownloadFile(p) ==
    LET there == loaded /\ file_exists(asks[p].path) IN
    /\ Doing(p, "download")
    /\ asks' = [asks EXCEPT ![p].ref = IF there THEN file_get(asks[p].path) ELSE Gone,
                            ![p].step = IF there THEN "read" ELSE "answer"]
    /\ UNCHANGED <<session, loaded, misled, asked, log, answered, storeVars, fsVars>>

\* The file may have been replaced since its reference was taken.  What has come of a
\* stream that ends early is the answer, unless it cannot be decrypted.
ReadFile(p) ==
    LET ref == asks[p].ref
        whole == WholeLength(ref)
    IN
    /\ Doing(p, "read")
    /\ \E n \in 0..whole :
        /\ \/ n = whole /\ UNCHANGED faults
           \/ n < whole /\ faults < config.faults /\ faults' = faults + 1
        /\ asks' = [asks EXCEPT ![p] =
                        IF download(ref, n) = Failed THEN Quiet
                        ELSE [@ EXCEPT !.result = download(ref, n), !.cut = n < whole, !.step = "answer"]]
    /\ UNCHANGED <<session, loaded, misled, asked, log, answered, objects, jobs, grown, removed, broken, fsVars>>

\* One page of names; the cursor to the next one is dropped.
ListDirectory(p) ==
    /\ Doing(p, "list") /\ loaded
    /\ \E page \in SUBSET DOMAIN tree.files :
        /\ \/ page = DOMAIN tree.files
           \/ Cardinality(page) = config.page
        /\ Cardinality(page) <= config.page
        /\ asks' = [asks EXCEPT ![p].names = page, ![p].step = "entries"]
    /\ UNCHANGED <<session, loaded, misled, asked, log, answered, storeVars, fsVars>>

\* The reference of each name is fetched by a call of its own; a file that is
\* gone by then is left out.
ListEntry(p) ==
    LET r == asks[p] IN
    /\ Doing(p, "entries")
    /\ IF r.names = {} THEN Proceed(p, "answer")
       ELSE \E x \in r.names :
            asks' = [asks EXCEPT ![p].names = @ \ {x},
                                 ![p].found = With(@, x, IF file_exists(x) THEN Data(file_get(x).hash) ELSE Gone)]
    /\ UNCHANGED <<session, loaded, misled, asked, log, answered, storeVars, fsVars>>

Return(p) ==
    /\ Doing(p, "answer")
    /\ Done(p)
    /\ UNCHANGED <<session, loaded, misled, asked, log, answered, storeVars, fsVars>>

\* A call of the node fails: the request ends, what it changed in the root stays.  The
\* answer to a save may get lost.
RemoteFails(p) ==
    /\ \/ Doing(p, "save") /\ (save \/ UNCHANGED saved)
       \/ Doing(p, "read") /\ UNCHANGED saved
    /\ faults < config.faults
    /\ faults' = faults + 1
    /\ Done(p)
    /\ UNCHANGED <<session, loaded, misled, asked, log, answered, objects, jobs, grown, removed, broken,
                   tree, past, alive>>

----------------------------------------------------------------------------
\* disconnect waits for the requests that hold the lock, saves, and does not look
\* at the outcome.

disconnect ==
    /\ alive /\ session = "open"
    /\ session' = "closing"
    /\ UNCHANGED <<loaded, misled, asks, asked, log, answered, storeVars, fsVars>>

Disconnected ==
    /\ alive /\ session = "closing"
    /\ \A p \in DOMAIN asks : asks[p].op = "idle"
    /\ \/ loaded /\ SaveRemote
       \/ ~loaded /\ UNCHANGED <<saved, faults, misled>>
       \/ /\ faults < config.faults
          /\ faults' = faults + 1
          /\ (loaded /\ save) \/ UNCHANGED saved
          /\ UNCHANGED misled
    /\ session' = "closed"
    /\ UNCHANGED <<loaded, asks, asked, log, answered, tree, past, alive, objects, jobs, grown, removed, broken>>

\* A new client opens the root that the registry names.  A query that fails gives an
\* empty root; a connection or a snapshot that fails ends the actor.
connect ==
    /\ alive /\ session = "closed" /\ asked < config.requests
    /\ session' = "open"
    /\ \/ Opened(saved) /\ loaded' = TRUE /\ UNCHANGED <<faults, misled>>
       \/ /\ faults < config.faults
          /\ faults' = faults + 1
          /\ \/ Opened(NoTree) /\ loaded' = TRUE /\ misled' = TRUE
             \/ Opened(saved) /\ loaded' = FALSE /\ UNCHANGED misled
    /\ UNCHANGED <<asks, asked, log, answered, saved, alive, objects, jobs, grown, removed, broken>>

ClientStep(p) ==
    \/ upload_encrypted_blob(p)
    \/ UploadAnswers(p)
    \/ PutUploaded(p)
    \/ DeleteFile(p)
    \/ CreateDirectory(p)
    \/ RootIsGone(p)
    \/ SaveAndAnswer(p)
    \/ DownloadFile(p)
    \/ ReadFile(p)
    \/ ListDirectory(p)
    \/ ListEntry(p)
    \/ Return(p)
    \/ RemoteFails(p)

ClientPaths == {path \in config.paths : config.clients # {}}

ClientInit ==
    /\ session = "open" /\ loaded = TRUE /\ misled = FALSE
    /\ asks = [p \in config.clients |-> Quiet]
    /\ asked = 0
    /\ log = [path \in ClientPaths |-> <<Shown(tree, path)>>]
    /\ answered = [path \in ClientPaths |-> 1]

----------------------------------------------------------------------------

\* An upload or delete that has answered is durable: the root that the next client
\* opens gives back, decrypted, what it put, or something put there later; as long as
\* no failed query of the registry was taken for an empty one.
UploadedIsDurable ==
    ~misled =>
        \A path \in DOMAIN answered :
            \E n \in answered[path]..Len(log[path]) : Shown(saved, path) = log[path][n]

\* What a download gives back of an entry when the stream ended after some bytes.
PartOf(result, entry) ==
    entry # Gone /\ \E n \in 0..Len(entry.data) : result = Data(SubSeq(entry.data, 1, n))

\* A download or a listing gives back what was at the path at the newest answer
\* before it began, or something put there later, whatever other requests do; and the
\* beginning of one of these if the stream ended early, which is no error to the
\* client.  It is not so for a root that was opened empty, or not at all, because a
\* query failed.
DownloadIsRight ==
    loaded /\ ~misled =>
    \A p \in DOMAIN asks :
        LET r == asks[p]
            Since(path) == {log[path][n] : n \in r.since[path]..Len(log[path])}
        IN
        r.step = "answer" =>
            /\ r.op = "download" =>
                IF r.cut THEN \E entry \in Since(r.path) : PartOf(r.result, entry)
                ELSE r.result \in Since(r.path)
            /\ \A x \in DOMAIN r.found : r.found[x] \in Since(x)
==============================================================================
