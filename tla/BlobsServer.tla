----------------------------- MODULE BlobsServer -----------------------------
(***************************************************************************)
(* BlobsServer (s5_blobs/src/net_protocol.rs) and its clients: peers       *)
(* upload, pin, query, download and delete blobs in the named stores of    *)
(* one node.  The accept task of a connection handles one request after    *)
(* the other; requests of different peers interleave at every await.       *)
(*                                                                         *)
(* A peer makes client calls: upload_bytes (s5_blobs/src/client.rs),       *)
(* import_bytes on a BlobStore over RemoteBlobStore (exists, PinBlob and   *)
(* UploadBlob, in this order), delete_blob and blob_download.              *)
(*                                                                         *)
(* The pin sets are the atomic ones of PinSet, which RegistryPinner        *)
(* implements; the pin context of a request is the peer's node id.         *)
(***************************************************************************)
EXTENDS Integers, Sequences

CONSTANTS
    Blob,          \* contents, which are also their hashes
    Peer,          \* node ids, each with one connection
    StoreName,     \* store names that occur in the configuration
    Store,         \* the stores of this node
    Wildcard,      \* the "*" entry among the peers' settings
    Chunks,        \* reads that a whole blob takes
    Configs,       \* the nodes and the uses of them that are tried
    None

Setting == [uploads : StoreName \cup {None}, readable : Seq(StoreName)]
CallName == {"upload_bytes", "import_bytes", "delete_blob", "blob_download"}
Request == [call : CallName, blob : Blob]

\* A node and what happens to it, but for the settings of the configured peers
\* (peers, a function from node ids and the wildcard).
Use ==
    [local : [Store -> SUBSET Blob],   \* what the node itself keeps in its stores
     callers : SUBSET Peer,            \* the peers that make calls
     calls : SUBSET CallName,          \* the calls that are made
     on : SUBSET Blob,                 \* the blobs they are about
     cuts : [Blob -> SUBSET Blob],     \* what is received if the connection breaks
     errors : BOOLEAN,                 \* whether stores and pins may fail
     crashes : Nat]                    \* bound: restarts of the node

ASSUME BlobsAssumption ==
    /\ Store # {} /\ Store \subseteq StoreName
    /\ Chunks \in Nat \ {0}
    /\ \A k \in Configs :
        /\ k.use \in Use
        /\ \A p \in DOMAIN k.peers : k.peers[p] \in Setting
    /\ None \notin StoreName \cup Setting \cup Request

VARIABLES
    config,    \* the node and its use: peers and use; it does not change
    blobs,     \* the blobs in each store
    pins,      \* the peers that pin each blob
    pc,        \* where the handler of each peer's request is
    req,       \* the client call under way: its name and its blob
    got,       \* upload: the blob that was received
    left,      \* delete: the stores still to delete from
    next,      \* query and download: position in readable_stores
    sent,      \* download: chunks sent
    ret,       \* the result of the last call
    acked,     \* history: the blobs each peer was told are stored and pinned
    crashes    \* restarts so far

vars == <<config, blobs, pins, pc, req, got, left, next, sent, ret, acked, crashes>>

PcType == {"idle", "query", "pin", "pin_hash", "upload", "exists", "rename",
           "upload_pin", "cleanup", "delete", "remove", "download", "find", "read"}

TypeOK ==
    /\ config \in Configs
    /\ blobs \in [Store -> SUBSET Blob]
    /\ pins \in [Blob -> SUBSET Peer]
    /\ pc \in [Peer -> PcType]
    /\ req \in [Peer -> Request \cup {None}]
    /\ got \in [Peer -> Blob \cup {None}]
    /\ left \in [Peer -> SUBSET Store]
    /\ next \in [Peer -> Nat]
    /\ sent \in [Peer -> 0..Chunks]
    /\ ret \in [Peer -> [ok : BOOLEAN, size : 0..Chunks] \cup {None}]
    /\ acked \in [Peer -> SUBSET Blob]
    /\ crashes \in 0..config.use.crashes

\* cfg_for: the peer's own entry, else the wildcard's.
CfgFor(p) ==
    IF p \in DOMAIN config.peers THEN config.peers[p]
    ELSE IF Wildcard \in DOMAIN config.peers THEN config.peers[Wildcard]
    ELSE None

\* Uploads and pins need a store_uploads_in that names a store, deletions
\* need any.
MayUpload(p) == CfgFor(p) # None /\ CfgFor(p).uploads \in Store
MayDelete(p) == CfgFor(p) # None /\ CfgFor(p).uploads # None
UploadStore(p) == CfgFor(p).uploads

\* readable_stores, in which there may be names that no store has.
Readable(p) == IF CfgFor(p) = None THEN <<>> ELSE CfgFor(p).readable

\* stores.get and contains.
Holds(s, b) == s \in Store /\ b \in blobs[s]

Init ==
    /\ config \in Configs
    /\ blobs = config.use.local
    /\ pins = [b \in Blob |-> {}]
    /\ pc = [p \in Peer |-> "idle"]
    /\ req = [p \in Peer |-> None]
    /\ got = [p \in Peer |-> None]
    /\ left = [p \in Peer |-> {}]
    /\ next = [p \in Peer |-> 1]
    /\ sent = [p \in Peer |-> 0]
    /\ ret = [p \in Peer |-> None]
    /\ acked = [p \in Peer |-> {}]
    /\ crashes = 0
-----------------------------------------------------------------------------
(***************************************************************************)
(* Helpers.                                                                *)
(***************************************************************************)
Go(p, step) == pc' = [pc EXCEPT ![p] = step]

\* The last RPC of the call is answered and the call returns.
Return(p, ok, size) ==
    /\ Go(p, "idle")
    /\ req' = [req EXCEPT ![p] = None]
    /\ got' = [got EXCEPT ![p] = None]
    /\ left' = [left EXCEPT ![p] = {}]
    /\ next' = [next EXCEPT ![p] = 1]
    /\ sent' = [sent EXCEPT ![p] = 0]
    /\ ret' = [ret EXCEPT ![p] = [ok |-> ok, size |-> size]]
    /\ UNCHANGED <<config, crashes>>

Fail(p) == Return(p, FALSE, 0)

\* The handler goes on to step.
Continue(p, step) ==
    /\ Go(p, step)
    /\ UNCHANGED <<config, req, ret, crashes>>

Delete(s, b) == blobs' = [blobs EXCEPT ![s] = @ \ {b}]

Add(p) == pins' = [pins EXCEPT ![req[p].blob] = @ \cup {p}]

\* Broken variant of Release: everybody's pins go.
ReleaseAll(p) == pins' = [pins EXCEPT ![req[p].blob] = {}]

Release(p) == pins' = [pins EXCEPT ![req[p].blob] = @ \ {p}]
-----------------------------------------------------------------------------
(***************************************************************************)
(* The client's side.                                                      *)
(***************************************************************************)
FirstStep ==
    [upload_bytes |-> "upload", import_bytes |-> "query",
     delete_blob |-> "delete", blob_download |-> "download"]

\* A peer makes a client call.  From the moment it asks for the deletion of
\* a blob it no longer counts on it.
Call(p, c, b) ==
    /\ pc[p] = "idle"
    /\ Go(p, FirstStep[c])
    /\ req' = [req EXCEPT ![p] = [call |-> c, blob |-> b]]
    /\ ret' = [ret EXCEPT ![p] = None]
    /\ acked' = [acked EXCEPT ![p] = IF c = "delete_blob" THEN @ \ {b} ELSE @]
    /\ UNCHANGED <<config, blobs, pins, got, left, next, sent, crashes>>
-----------------------------------------------------------------------------
(***************************************************************************)
(* Query, for RemoteBlobStore::exists.                                     *)
(***************************************************************************)
\* import_bytes, once exists has answered: a blob that is there is not sent;
\* any other is put with put_bytes, which begins with PinBlob.
ImportBytes(p, exists) ==
    IF exists THEN Return(p, TRUE, 0)
    ELSE /\ Continue(p, "pin")
         /\ next' = [next EXCEPT ![p] = 1]
         /\ UNCHANGED <<got, left, sent>>

\* contains on the next readable store.
HandleQuery(p) ==
    /\ pc[p] = "query"
    /\ UNCHANGED <<blobs, pins, acked>>
    /\ \/ next[p] > Len(Readable(p)) /\ ImportBytes(p, FALSE)
       \/ /\ next[p] <= Len(Readable(p))
          /\ Holds(Readable(p)[next[p]], req[p].blob)
          /\ ImportBytes(p, TRUE)
       \/ /\ next[p] <= Len(Readable(p))
          /\ ~Holds(Readable(p)[next[p]], req[p].blob)
          /\ Continue(p, "query")
          /\ next' = [next EXCEPT ![p] = @ + 1]
          /\ UNCHANGED <<got, left, sent>>
-----------------------------------------------------------------------------
(***************************************************************************)
(* PinBlob.                                                                *)
(***************************************************************************)
\* put_bytes: after Ok(true) of PinBlob it is done, after Ok(false) it uploads.
PutBytes(found) == IF found THEN "pin_hash" ELSE "upload"

\* handle_pin up to store.contains.
HandlePin(p) ==
    /\ pc[p] = "pin"
    /\ UNCHANGED <<blobs, pins, acked>>
    /\ \/ ~MayUpload(p) /\ Fail(p)
       \/ /\ MayUpload(p)
          /\ Continue(p, PutBytes(Holds(UploadStore(p), req[p].blob)))
          /\ UNCHANGED <<got, left, next, sent>>

\* pin_hash, and the answer Ok: the end of handle_pin and of handle_upload.
PinHash(p) ==
    /\ pc[p] \in {"pin_hash", "upload_pin"}
    /\ Add(p)
    /\ acked' = [acked EXCEPT ![p] = @ \cup {req[p].blob}]
    /\ Return(p, TRUE, 0)
    /\ UNCHANGED blobs
-----------------------------------------------------------------------------
(***************************************************************************)
(* UploadBlob.                                                             *)
(***************************************************************************)
\* put_temp: the stream ends when the client has sent everything, and also
\* when the connection breaks (rx.recv() fails).
HandleUpload(p) ==
    /\ pc[p] = "upload"
    /\ UNCHANGED <<blobs, pins, acked>>
    /\ \/ ~MayUpload(p) /\ Fail(p)
       \/ /\ MayUpload(p)
          /\ Continue(p, "exists")
          /\ \E c \in {req[p].blob} \cup config.use.cuts[req[p].blob] :
                 got' = [got EXCEPT ![p] = c]
          /\ UNCHANGED <<left, next, sent>>

\* What follows import_stream.
AfterImport(p) == IF got[p] = req[p].blob THEN "upload_pin" ELSE "cleanup"

\* finalize_import: a blob that exists already is not written again.
FinalizeExists(p) ==
    /\ pc[p] = "exists"
    /\ Continue(p, IF Holds(UploadStore(p), got[p]) THEN AfterImport(p) ELSE "rename")
    /\ UNCHANGED <<blobs, pins, got, left, next, sent, acked>>

\* Broken variant of FinalizeRename: the temporary file is not renamed.
FinalizeForgets(p) ==
    /\ pc[p] = "rename"
    /\ Continue(p, AfterImport(p))
    /\ UNCHANGED <<blobs, pins, got, left, next, sent, acked>>

\* finalize_import: the temporary file becomes the blob.
FinalizeRename(p) ==
    /\ pc[p] = "rename"
    /\ blobs' = [blobs EXCEPT ![UploadStore(p)] = @ \cup {got[p]}]
    /\ Continue(p, AfterImport(p))
    /\ UNCHANGED <<pins, got, left, next, sent, acked>>

\* store.delete(got_hash) after a mismatch or a failed pin, and the answer Err.
Cleanup(p) ==
    /\ pc[p] = "cleanup"
    /\ Delete(UploadStore(p), got[p])
    /\ Fail(p)
    /\ UNCHANGED <<pins, acked>>
-----------------------------------------------------------------------------
(***************************************************************************)
(* DeleteBlob.                                                             *)
(***************************************************************************)
\* unpin_hash: if no pin is left the blob is removed from every store.
HandleDelete(p) ==
    /\ pc[p] = "delete"
    /\ UNCHANGED <<blobs, acked>>
    /\ \/ ~MayDelete(p) /\ Fail(p) /\ UNCHANGED pins
       \/ /\ MayDelete(p)
          /\ Release(p)
          /\ IF pins'[req[p].blob] = {}
             THEN /\ Continue(p, "remove")
                  /\ left' = [left EXCEPT ![p] = Store]
                  /\ UNCHANGED <<got, next, sent>>
             ELSE Return(p, TRUE, 0)

\* Broken variant of RemoveNext: only one store is visited.
RemoveOne(p) ==
    /\ pc[p] = "remove"
    /\ \E s \in left[p] :
          /\ Delete(s, req[p].blob)
          /\ Return(p, TRUE, 0)
    /\ UNCHANGED <<pins, acked>>

\* store.delete on one store after the other, in the order of the HashMap.
RemoveNext(p) ==
    /\ pc[p] = "remove"
    /\ \E s \in left[p] :
          /\ Delete(s, req[p].blob)
          /\ IF left[p] = {s}
             THEN Return(p, TRUE, 0)
             ELSE /\ left' = [left EXCEPT ![p] = @ \ {s}]
                  /\ Continue(p, "remove")
                  /\ UNCHANGED <<got, next, sent>>
    /\ UNCHANGED <<pins, acked>>
-----------------------------------------------------------------------------
(***************************************************************************)
(* DownloadBlob.  The client returns Ok with what it received.             *)
(***************************************************************************)
HandleDownload(p) ==
    /\ pc[p] = "download"
    /\ \/ /\ CfgFor(p) = None \/ p \notin pins[req[p].blob]
          /\ Return(p, TRUE, 0)
       \/ /\ CfgFor(p) # None /\ p \in pins[req[p].blob]
          /\ Continue(p, "find")
          /\ UNCHANGED <<got, left, next, sent>>
    /\ UNCHANGED <<blobs, pins, acked>>

\* The first readable store that contains the blob.
FindStore(p) ==
    /\ pc[p] = "find"
    /\ \/ next[p] > Len(Readable(p)) /\ Return(p, TRUE, 0)
       \/ /\ next[p] <= Len(Readable(p))
          /\ Holds(Readable(p)[next[p]], req[p].blob)
          /\ Continue(p, "read")
          /\ UNCHANGED <<got, left, next, sent>>
       \/ /\ next[p] <= Len(Readable(p))
          /\ ~Holds(Readable(p)[next[p]], req[p].blob)
          /\ next' = [next EXCEPT ![p] = @ + 1]
          /\ Continue(p, "find")
          /\ UNCHANGED <<got, left, sent>>
    /\ UNCHANGED <<blobs, pins, acked>>

\* Broken variant of WantsMore: the last chunk is not read.
WantsMoreOffByOne(p) == sent[p] + 1 < Chunks

WantsMore(p) == sent[p] < Chunks

\* Broken variant of ReadChunk: an empty read is tried again.
ReadChunkAgain(p) ==
    /\ pc[p] = "read"
    /\ \/ /\ WantsMore(p)
          /\ sent' = [sent EXCEPT ![p] =
                 IF Holds(Readable(p)[next[p]], req[p].blob) THEN @ + 1 ELSE @]
          /\ Continue(p, "read")
          /\ UNCHANGED <<got, left, next>>
       \/ ~WantsMore(p) /\ Return(p, TRUE, sent[p])
    /\ UNCHANGED <<blobs, pins, acked>>

\* read_as_bytes of the next chunk; the stream ends when there is none.
ReadChunk(p) ==
    /\ pc[p] = "read"
    /\ \/ /\ WantsMore(p) /\ Holds(Readable(p)[next[p]], req[p].blob)
          /\ sent' = [sent EXCEPT ![p] = @ + 1]
          /\ Continue(p, "read")
          /\ UNCHANGED <<got, left, next>>
       \/ /\ ~WantsMore(p) \/ ~Holds(Readable(p)[next[p]], req[p].blob)
          /\ Return(p, TRUE, sent[p])
    /\ UNCHANGED <<blobs, pins, acked>>
-----------------------------------------------------------------------------
(***************************************************************************)
(* Failures.                                                               *)
(***************************************************************************)
\* A store fails where the handler answers Err.
StoreError(p) ==
    /\ config.use.errors
    /\ pc[p] \in {"pin", "upload", "exists", "rename"}
    /\ Fail(p)
    /\ UNCHANGED <<blobs, pins, acked>>

\* contains fails in a query or a download: as if the blob were not there.
LookupError(p) ==
    /\ config.use.errors
    /\ pc[p] \in {"query", "find"}
    /\ next[p] <= Len(Readable(p))
    /\ next' = [next EXCEPT ![p] = @ + 1]
    /\ UNCHANGED <<config, blobs, pins, pc, req, got, left, sent, ret, acked, crashes>>

\* read_as_bytes fails: the stream ends.
ReadError(p) ==
    /\ config.use.errors
    /\ pc[p] = "read"
    /\ Return(p, TRUE, sent[p])
    /\ UNCHANGED <<blobs, pins, acked>>

\* store.delete fails, which the handlers ignore.
DeleteError(p) ==
    /\ config.use.errors
    /\ UNCHANGED <<blobs, pins, acked>>
    /\ \/ pc[p] = "cleanup" /\ Fail(p)
       \/ /\ pc[p] = "remove"
          /\ \E s \in left[p] :
                IF left[p] = {s} THEN Return(p, TRUE, 0)
                ELSE /\ left' = [left EXCEPT ![p] = @ \ {s}]
                     /\ Continue(p, "remove")
                     /\ UNCHANGED <<got, next, sent>>

\* A pin operation fails, with or without effect.  handle_upload deletes the
\* blob it imported; a failed is_pinned counts as not pinned.
PinError(p) ==
    /\ config.use.errors
    /\ UNCHANGED <<blobs, acked>>
    /\ \/ /\ pc[p] = "upload_pin"
          /\ Add(p) \/ UNCHANGED pins
          /\ Continue(p, "cleanup")
          /\ UNCHANGED <<got, left, next, sent>>
       \/ /\ pc[p] = "pin_hash"
          /\ Add(p) \/ UNCHANGED pins
          /\ Fail(p)
       \/ /\ pc[p] = "delete" /\ MayDelete(p)
          /\ Release(p) \/ UNCHANGED pins
          /\ Fail(p)
       \/ /\ pc[p] = "download"
          /\ Return(p, TRUE, 0)
          /\ UNCHANGED pins

\* The node stops and starts again: requests under way are gone, the stores
\* and the registry that holds the pins are not.
Crash ==
    /\ crashes < config.use.crashes
    /\ crashes' = crashes + 1
    /\ pc' = [p \in Peer |-> "idle"]
    /\ req' = [p \in Peer |-> None]
    /\ got' = [p \in Peer |-> None]
    /\ left' = [p \in Peer |-> {}]
    /\ next' = [p \in Peer |-> 1]
    /\ sent' = [p \in Peer |-> 0]
    /\ ret' = [p \in Peer |-> None]
    /\ UNCHANGED <<config, blobs, pins, acked>>

Handle(p) ==
    \/ HandleQuery(p)
    \/ HandlePin(p)
    \/ PinHash(p)
    \/ HandleUpload(p)
    \/ FinalizeExists(p)
    \/ FinalizeRename(p)
    \/ Cleanup(p)
    \/ HandleDelete(p)
    \/ RemoveNext(p)
    \/ HandleDownload(p)
    \/ FindStore(p)
    \/ ReadChunk(p)

Failure(p) ==
    \/ StoreError(p)
    \/ LookupError(p)
    \/ ReadError(p)
    \/ DeleteError(p)
    \/ PinError(p)

Next ==
    \/ \E p \in config.use.callers, c \in config.use.calls, b \in config.use.on :
          Call(p, c, b)
    \/ \E p \in Peer : Handle(p) \/ Failure(p)
    \/ Crash

Spec == Init /\ [][Next]_vars

\* The store and pin calls of a handler return, and a client that uploads
\* sends its blob or disconnects.
FairSpec == Spec /\ \A p \in Peer : WF_vars(Handle(p))
-----------------------------------------------------------------------------
(***************************************************************************)
(* Properties.                                                             *)
(***************************************************************************)

\* A peer that was told Ok by UploadBlob or PinBlob, and has not asked for
\* the blob's deletion since, has a pin on it: nothing that the other peers'
\* handlers, failing requests or restarts do takes it away.
AckedIsPinned == \A p \in Peer : \A b \in acked[p] : p \in pins[b]

\* Nothing fails, no upload is cut short, and one peer at most may upload and
\* delete.
Undisturbed ==
    /\ ~config.use.errors
    /\ \A b \in Blob : config.use.cuts[b] = {}
    /\ \A p, q \in config.use.callers : MayDelete(p) /\ MayDelete(q) => p = q

\* "every blob Alice uploads is both stored and pinned": the blob of an
\* acknowledged upload is in the store the peer uploads to.
AckedIsStored ==
    \A p \in Peer : acked[p] \subseteq IF MayUpload(p) THEN blobs[UploadStore(p)] ELSE {}

\* The same of a peer that has the node for itself, whatever it calls and
\* whenever the node restarts.
AckedIsStoredIfAlone == Undisturbed => AckedIsStored

\* When no request is under way, and no failure or restart cut one short,
\* every blob in a store is pinned or was put there by the node itself:
\* aborted uploads and deletions leave nothing behind, however they
\* interleave.
NoGarbage ==
    (\A p \in Peer : pc[p] = "idle") /\ crashes = 0 /\ ~config.use.errors =>
        \A s \in Store : \A b \in blobs[s] : b \in config.use.local[s] \/ pins[b] # {}

\* In this step p's call c on blob b returns Ok.
ReturnsOk(p, c, b) ==
    req[p] = [call |-> c, blob |-> b] /\ req'[p] = None /\ ret'[p] # None /\ ret'[p].ok

\* An acknowledged blob downloads in full.
AckedDownloadsWhole ==
    [][Undisturbed =>
        \A p \in Peer, b \in Blob :
          ReturnsOk(p, "blob_download", b) /\ b \in acked[p] => ret'[p].size = Chunks]_vars

\* Every call returns, or the node restarts.
CallsReturn == \A p \in Peer : (pc[p] # "idle") ~> (pc[p] = "idle")
=============================================================================
