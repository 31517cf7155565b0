-------------------------- MODULE BlobsServer_proofs --------------------------
(***************************************************************************)
(* What the BlobsServer promises, for any number of peers, blobs and       *)
(* stores and any configuration.                                           *)
(*                                                                         *)
(* A peer that was told Ok keeps its pin, whatever fails.  Two facts make  *)
(* this inductive.  A handler past its first step has a request, and one   *)
(* past put_temp a received blob (Control).  And only the handler of a     *)
(* peer's own DeleteBlob takes its pin, at a time when the peer no longer  *)
(* counts on the blob (DeleteIsNotAcked): the accept task of a connection  *)
(* never runs a second request of the same peer.                           *)
(*                                                                         *)
(* Where nothing fails, no blob is left behind (Accounted); and a peer     *)
(* with the node for itself finds what it was promised (Kept, Loading).    *)
(***************************************************************************)
EXTENDS BlobsServer, TLAPS

\* The stores, the pins and what the peers were told.
Data ==
    /\ blobs \in [Store -> SUBSET Blob]
    /\ pins \in [Blob -> SUBSET Peer]
    /\ acked \in [Peer -> SUBSET Blob]

\* The steps of an upload that have received something.
Received == {"exists", "rename", "upload_pin", "cleanup"}

\* The requests under way.
Control ==
    /\ config \in Configs
    /\ pc \in [Peer -> PcType]
    /\ req \in [Peer -> Request \cup {None}]
    /\ got \in [Peer -> Blob \cup {None}]
    /\ left \in [Peer -> SUBSET Store]
    /\ next \in [Peer -> Nat]
    /\ sent \in [Peer -> 0..Chunks]
    /\ ret \in [Peer -> [ok : BOOLEAN, size : 0..Chunks] \cup {None}]
    /\ crashes \in 0..config.use.crashes
    /\ \A p \in Peer : pc[p] # "idle" => req[p] \in Request
    /\ \A p \in Peer : pc[p] \in Received => got[p] \in Blob

\* A peer does not count on a blob while it deletes it.
DeleteIsNotAcked ==
    \A p \in Peer : pc[p] \in {"delete", "remove"} => req[p].blob \notin acked[p]

IInv == Data /\ Control /\ DeleteIsNotAcked /\ AckedIsPinned

\* No peer but p moves.
OthersStay(p) ==
    \A q \in Peer \ {p} : pc'[q] = pc[q] /\ req'[q] = req[q] /\ got'[q] = got[q]

\* What is assumed of a node and its use.
LEMMA UseFacts ==
    ASSUME BlobsAssumption, config \in Configs
    PROVE  /\ config.use.local \in [Store -> SUBSET Blob]
           /\ config.use.callers \subseteq Peer
           /\ config.use.calls \subseteq CallName
           /\ config.use.on \subseteq Blob
           /\ config.use.cuts \in [Blob -> SUBSET Blob]
           /\ config.use.crashes \in Nat
  <1>1. config.use \in Use
    BY DEF BlobsAssumption
  <1> QED
    BY <1>1 DEF Use

\* A request under way is about a blob.
LEMMA RequestBlob ==
    ASSUME Control, NEW p \in Peer, pc[p] # "idle"
    PROVE  req[p].blob \in Blob
  BY DEF Control, Request

\* The end of a call keeps the requests well formed.
LEMMA ReturnControl ==
    ASSUME BlobsAssumption, Control, NEW p \in Peer,
           NEW ok \in BOOLEAN, NEW size \in 0..Chunks, Return(p, ok, size)
    PROVE  Control' /\ OthersStay(p) /\ pc'[p] = "idle"
  <1>1. [ok |-> ok, size |-> size] \in [ok : BOOLEAN, size : 0..Chunks]
    OBVIOUS
  <1>2. 0 \in 0..Chunks /\ 1 \in Nat /\ "idle" \in PcType
    BY DEF BlobsAssumption, PcType
  <1> QED
    BY <1>1, <1>2 DEF Return, Go, Control, OthersStay, Received

\* So does the next step of a handler.
LEMMA ContinueControl ==
    ASSUME Control, NEW p \in Peer, pc[p] # "idle",
           NEW step \in PcType, Continue(p, step),
           got' \in [Peer -> Blob \cup {None}],
           \A q \in Peer \ {p} : got'[q] = got[q],
           step \in Received => got'[p] \in Blob,
           left' \in [Peer -> SUBSET Store],
           next' \in [Peer -> Nat],
           sent' \in [Peer -> 0..Chunks]
    PROVE  /\ Control' /\ OthersStay(p)
           /\ pc'[p] = step /\ req'[p] = req[p]
  BY DEF Continue, Go, Control, OthersStay

\* What a step of p must respect for IInv to survive: the pins and the
\* acknowledgements of the other peers.
LEMMA StepOfOne ==
    ASSUME IInv, NEW p \in Peer, Control', Data', OthersStay(p),
           \A q \in Peer \ {p} : acked'[q] = acked[q],
           \A q \in Peer \ {p}, b \in Blob : q \in pins[b] => q \in pins'[b],
           \A b \in acked'[p] : p \in pins'[b],
           pc'[p] \in {"delete", "remove"} => req'[p].blob \notin acked'[p]
    PROVE  IInv'
  <1>1. DeleteIsNotAcked'
    BY DEF IInv, DeleteIsNotAcked, OthersStay
  <1>2. AckedIsPinned'
    BY DEF IInv, AckedIsPinned, Data
  <1> QED
    BY <1>1, <1>2 DEF IInv

\* A step that leaves pins and acknowledgements alone and stays clear of a
\* deletion, or stays in it.
LEMMA QuietStep ==
    ASSUME IInv, NEW p \in Peer, Control', OthersStay(p),
           blobs' \in [Store -> SUBSET Blob], UNCHANGED <<pins, acked>>,
           \/ pc'[p] \notin {"delete", "remove"}
           \/ pc[p] \in {"delete", "remove"} /\ req'[p] = req[p]
    PROVE  IInv'
  <1>1. Data'
    BY DEF IInv, Data
  <1>2. \A b \in acked'[p] : p \in pins'[b]
    BY DEF IInv, AckedIsPinned
  <1>3. pc'[p] \in {"delete", "remove"} => req'[p].blob \notin acked'[p]
    BY DEF IInv, DeleteIsNotAcked
  <1> QED
    BY <1>1, <1>2, <1>3, StepOfOne

\* Every call and every answer without a change of the pins.
LEMMA QuietReturn ==
    ASSUME BlobsAssumption, IInv, NEW p \in Peer, NEW ok \in BOOLEAN,
           NEW size \in 0..Chunks, Return(p, ok, size),
           blobs' \in [Store -> SUBSET Blob], UNCHANGED <<pins, acked>>
    PROVE  IInv'
  <1>1. Control' /\ OthersStay(p) /\ pc'[p] = "idle"
    BY ReturnControl DEF IInv
  <1> QED
    BY <1>1, QuietStep

\* A call begins: a deletion ends what the peer counts on.
LEMMA CallStep ==
    ASSUME BlobsAssumption, IInv, NEW p \in Peer, NEW c \in CallName, NEW b \in Blob,
           Call(p, c, b)
    PROVE  IInv'
  <1>1. FirstStep[c] \in PcType \ Received /\ (FirstStep[c] = "delete" => c = "delete_blob")
        /\ FirstStep[c] # "remove"
    BY DEF CallName, FirstStep, PcType, Received
  <1>2. [call |-> c, blob |-> b] \in Request
    BY DEF Request
  <1>3. Control' /\ OthersStay(p)
    BY <1>1, <1>2 DEF Call, Go, IInv, Control, OthersStay
  <1>4. Data' /\ (\A q \in Peer \ {p} : acked'[q] = acked[q]) /\ acked'[p] \subseteq acked[p]
    BY DEF Call, IInv, Data
  <1>5. pc'[p] = "delete" => req'[p].blob \notin acked'[p]
    BY <1>1 DEF Call, Go, IInv, Data, Control
  <1>6. pc'[p] # "remove"
    BY <1>1 DEF Call, Go, IInv, Control
  <1>7. \A a \in acked'[p] : p \in pins'[a]
    BY <1>4 DEF Call, IInv, AckedIsPinned
  <1> QED
    BY <1>3, <1>4, <1>5, <1>6, <1>7, StepOfOne DEF Call

\* Every step of a handler that neither ends the call nor touches the pins.
LEMMA QuietContinue ==
    ASSUME IInv, NEW p \in Peer, pc[p] # "idle",
           NEW step \in PcType, Continue(p, step),
           got' \in [Peer -> Blob \cup {None}],
           \A q \in Peer \ {p} : got'[q] = got[q],
           step \in Received => got'[p] \in Blob,
           left' \in [Peer -> SUBSET Store],
           next' \in [Peer -> Nat],
           sent' \in [Peer -> 0..Chunks],
           blobs' \in [Store -> SUBSET Blob], UNCHANGED <<pins, acked>>,
           step \in {"delete", "remove"} => pc[p] \in {"delete", "remove"}
    PROVE  IInv'
  <1>1. Control' /\ OthersStay(p) /\ pc'[p] = step /\ req'[p] = req[p]
    BY ContinueControl DEF IInv
  <1> QED
    BY <1>1, QuietStep

\* Query.
LEMMA QueryStep ==
    ASSUME BlobsAssumption, IInv, NEW p \in Peer, HandleQuery(p)
    PROVE  IInv'
  <1>1. 0 \in 0..Chunks /\ {"pin", "query"} \subseteq PcType \ Received
    BY DEF BlobsAssumption, PcType, Received
  <1>2. pc[p] = "query" /\ UNCHANGED <<blobs, pins, acked>> /\ blobs' \in [Store -> SUBSET Blob]
    BY DEF HandleQuery, IInv, Data
  <1>3. CASE Return(p, TRUE, 0)
    BY <1>1, <1>2, <1>3, QuietReturn
  <1>4. ASSUME NEW step \in {"pin", "query"}, Continue(p, step),
               next' \in [Peer -> Nat], UNCHANGED <<got, left, sent>>
        PROVE  IInv'
    BY <1>1, <1>2, <1>4, QuietContinue DEF IInv, Control
  <1>5. [next EXCEPT ![p] = 1] \in [Peer -> Nat] /\ [next EXCEPT ![p] = @ + 1] \in [Peer -> Nat]
    BY DEF IInv, Control
  <1> QED
    BY <1>3, <1>4, <1>5 DEF HandleQuery, ImportBytes

\* PinBlob, up to the pin.
LEMMA HandlePinStep ==
    ASSUME BlobsAssumption, IInv, NEW p \in Peer, HandlePin(p)
    PROVE  IInv'
  <1>1. 0 \in 0..Chunks /\ {"pin_hash", "upload"} \subseteq PcType \ Received
    BY DEF BlobsAssumption, PcType, Received
  <1>2. pc[p] = "pin" /\ UNCHANGED <<blobs, pins, acked>> /\ blobs' \in [Store -> SUBSET Blob]
    BY DEF HandlePin, IInv, Data
  <1>3. CASE Fail(p)
    BY <1>1, <1>2, <1>3, QuietReturn DEF Fail
  <1>4. ASSUME NEW step \in {"pin_hash", "upload"}, Continue(p, step),
               UNCHANGED <<got, left, next, sent>>
        PROVE  IInv'
    BY <1>1, <1>2, <1>4, QuietContinue DEF IInv, Control
  <1> QED
    BY <1>3, <1>4 DEF HandlePin, PutBytes

\* Adding the peer's own pin takes nobody's away.
LEMMA AddFacts ==
    ASSUME Data, NEW p \in Peer, req[p].blob \in Blob, Add(p)
    PROVE  /\ pins' \in [Blob -> SUBSET Peer]
           /\ \A q \in Peer, b \in Blob : q \in pins[b] => q \in pins'[b]
           /\ p \in pins'[req[p].blob]
  BY DEF Data, Add

\* pin_hash: the peer that is told Ok has the pin.
LEMMA PinHashStep ==
    ASSUME BlobsAssumption, IInv, NEW p \in Peer, PinHash(p)
    PROVE  IInv'
  <1>1. req[p].blob \in Blob
    BY RequestBlob DEF IInv, PinHash
  <1>2. /\ pins' \in [Blob -> SUBSET Peer]
        /\ \A q \in Peer, b \in Blob : q \in pins[b] => q \in pins'[b]
        /\ p \in pins'[req[p].blob]
    BY <1>1, AddFacts DEF IInv, PinHash
  <1>3. Control' /\ OthersStay(p) /\ pc'[p] = "idle"
    <2>1. 0 \in 0..Chunks
      BY DEF BlobsAssumption
    <2> QED
      BY <2>1, ReturnControl DEF PinHash, IInv
  <1>4. /\ acked' \in [Peer -> SUBSET Blob]
        /\ \A q \in Peer \ {p} : acked'[q] = acked[q]
        /\ acked'[p] = acked[p] \cup {req[p].blob}
    BY <1>1 DEF PinHash, IInv, Data
  <1>5. Data'
    BY <1>2, <1>4 DEF PinHash, IInv, Data
  <1>6. \A b \in acked[p] : b \in Blob /\ p \in pins[b]
    BY DEF IInv, Data, AckedIsPinned
  <1>7. \A b \in acked'[p] : p \in pins'[b]
    BY <1>2, <1>4, <1>6
  <1> QED
    BY <1>2, <1>3, <1>4, <1>5, <1>7, StepOfOne

\* UploadBlob, up to the end of put_temp.
LEMMA HandleUploadStep ==
    ASSUME BlobsAssumption, IInv, NEW p \in Peer, HandleUpload(p)
    PROVE  IInv'
  <1>1. 0 \in 0..Chunks /\ "exists" \in PcType
    BY DEF BlobsAssumption, PcType
  <1>2. pc[p] = "upload" /\ UNCHANGED <<blobs, pins, acked>> /\ blobs' \in [Store -> SUBSET Blob]
    BY DEF HandleUpload, IInv, Data
  <1>3. CASE Fail(p)
    BY <1>1, <1>2, <1>3, QuietReturn DEF Fail
  <1>4. CASE /\ Continue(p, "exists")
             /\ \E c \in {req[p].blob} \cup config.use.cuts[req[p].blob] :
                    got' = [got EXCEPT ![p] = c]
             /\ UNCHANGED <<left, next, sent>>
    <2>1. req[p].blob \in Blob
      BY <1>2, RequestBlob DEF IInv
    <2>2. PICK c \in Blob : got' = [got EXCEPT ![p] = c]
      <3>1. config.use.cuts \in [Blob -> SUBSET Blob]
        BY UseFacts DEF IInv, Control
      <3> QED
        BY <1>4, <2>1, <3>1
    <2>3. /\ got' \in [Peer -> Blob \cup {None}] /\ got'[p] \in Blob
          /\ \A q \in Peer \ {p} : got'[q] = got[q]
      BY <2>2 DEF IInv, Control
    <2>4. left' \in [Peer -> SUBSET Store] /\ next' \in [Peer -> Nat]
          /\ sent' \in [Peer -> 0..Chunks]
      BY <1>4 DEF IInv, Control
    <2> QED
      BY <1>1, <1>2, <1>4, <2>3, <2>4, QuietContinue
  <1> QED
    BY <1>3, <1>4 DEF HandleUpload

\* finalize_import.
LEMMA FinalizeStep ==
    ASSUME BlobsAssumption, IInv, NEW p \in Peer,
           FinalizeExists(p) \/ FinalizeRename(p)
    PROVE  IInv'
  <1>1. {"upload_pin", "cleanup", "rename"} \subseteq PcType
    BY DEF PcType
  <1>2. pc[p] \in Received /\ got[p] \in Blob
    BY DEF FinalizeExists, FinalizeRename, Received, IInv, Control
  <1>3. UNCHANGED <<pins, got, left, next, sent, acked>>
    BY DEF FinalizeExists, FinalizeRename
  <1>4. blobs' \in [Store -> SUBSET Blob]
    BY <1>2 DEF FinalizeExists, FinalizeRename, IInv, Data
  <1>5. \E step \in {"upload_pin", "cleanup", "rename"} : Continue(p, step)
    BY DEF FinalizeExists, FinalizeRename, AfterImport
  <1>6. pc[p] # "idle"
    BY <1>2 DEF Received
  <1> QED
    BY <1>1, <1>2, <1>3, <1>4, <1>5, <1>6, QuietContinue DEF IInv, Control

\* store.delete keeps the stores well formed.
LEMMA DeleteFacts ==
    ASSUME Data, NEW s, NEW b, Delete(s, b)
    PROVE  blobs' \in [Store -> SUBSET Blob]
  BY DEF Data, Delete

\* The cleanup of a refused upload.
LEMMA CleanupStep ==
    ASSUME BlobsAssumption, IInv, NEW p \in Peer, Cleanup(p)
    PROVE  IInv'
  <1>1. 0 \in 0..Chunks
    BY DEF BlobsAssumption
  <1>2. blobs' \in [Store -> SUBSET Blob]
    BY DeleteFacts DEF Cleanup, IInv
  <1>3. Return(p, FALSE, 0) /\ UNCHANGED <<pins, acked>>
    BY DEF Cleanup, Fail
  <1> QED
    BY <1>1, <1>2, <1>3, QuietReturn

\* Taking the peer's own pin leaves the others'.
LEMMA ReleaseFacts ==
    ASSUME Data, NEW p \in Peer, req[p].blob \in Blob, Release(p)
    PROVE  /\ pins' \in [Blob -> SUBSET Peer]
           /\ \A q \in Peer \ {p}, b \in Blob : q \in pins[b] => q \in pins'[b]
           /\ \A b \in Blob \ {req[p].blob} : pins'[b] = pins[b]
  BY DEF Data, Release

\* The heart of the argument: the unpin of a deletion takes a pin that its
\* peer no longer counts on.
LEMMA ReleaseStep ==
    ASSUME IInv, NEW p \in Peer, pc[p] = "delete", Release(p),
           Control', OthersStay(p), UNCHANGED <<blobs, acked>>,
           pc'[p] = "idle" \/ req'[p] = req[p]
    PROVE  IInv'
  <1>1. req[p].blob \in Blob /\ req[p].blob \notin acked[p]
    BY RequestBlob DEF IInv, DeleteIsNotAcked
  <1>2. /\ pins' \in [Blob -> SUBSET Peer]
        /\ \A q \in Peer \ {p}, b \in Blob : q \in pins[b] => q \in pins'[b]
        /\ \A b \in Blob \ {req[p].blob} : pins'[b] = pins[b]
    BY <1>1, ReleaseFacts DEF IInv
  <1>3. Data'
    BY <1>2 DEF IInv, Data
  <1>4. \A b \in acked'[p] : p \in pins'[b]
    BY <1>1, <1>2 DEF IInv, Data, AckedIsPinned
  <1>5. pc'[p] \in {"delete", "remove"} => req'[p].blob \notin acked'[p]
    BY <1>1
  <1> QED
    BY <1>2, <1>3, <1>4, <1>5, StepOfOne

\* DeleteBlob, up to the unpin.
LEMMA HandleDeleteStep ==
    ASSUME BlobsAssumption, IInv, NEW p \in Peer, HandleDelete(p)
    PROVE  IInv'
  <1>1. 0 \in 0..Chunks /\ "remove" \in PcType \ Received
    BY DEF BlobsAssumption, PcType, Received
  <1>2. pc[p] = "delete" /\ UNCHANGED <<blobs, acked>> /\ blobs' \in [Store -> SUBSET Blob]
    BY DEF HandleDelete, IInv, Data
  <1>3. CASE Fail(p) /\ UNCHANGED pins
    BY <1>1, <1>2, <1>3, QuietReturn DEF Fail
  <1>4. CASE Release(p) /\ Return(p, TRUE, 0)
    BY <1>1, <1>2, <1>4, ReturnControl, ReleaseStep DEF IInv
  <1>5. CASE /\ Release(p) /\ Continue(p, "remove")
             /\ left' = [left EXCEPT ![p] = Store]
             /\ UNCHANGED <<got, next, sent>>
    <2>1. left' \in [Peer -> SUBSET Store]
      BY <1>5 DEF IInv, Control
    <2>2. Control' /\ OthersStay(p) /\ req'[p] = req[p]
      BY <1>1, <1>2, <1>5, <2>1, ContinueControl DEF IInv, Control
    <2> QED
      BY <1>2, <1>5, <2>2, ReleaseStep
  <1> QED
    BY <1>3, <1>4, <1>5 DEF HandleDelete

\* One store after the other, whether its delete works or not.
LEMMA RemoveStep ==
    ASSUME BlobsAssumption, IInv, NEW p \in Peer, pc[p] = "remove",
           UNCHANGED <<pins, acked>>, blobs' \in [Store -> SUBSET Blob],
           NEW s \in left[p],
           IF left[p] = {s} THEN Return(p, TRUE, 0)
           ELSE /\ left' = [left EXCEPT ![p] = @ \ {s}]
                /\ Continue(p, "remove")
                /\ UNCHANGED <<got, next, sent>>
    PROVE  IInv'
  <1>1. 0 \in 0..Chunks /\ "remove" \in PcType \ Received
    BY DEF BlobsAssumption, PcType, Received
  <1>2. CASE Return(p, TRUE, 0)
    BY <1>1, <1>2, QuietReturn
  <1>3. CASE /\ left' = [left EXCEPT ![p] = @ \ {s}]
             /\ Continue(p, "remove")
             /\ UNCHANGED <<got, next, sent>>
    <2>1. left' \in [Peer -> SUBSET Store]
      BY <1>3 DEF IInv, Control
    <2> QED
      BY <1>1, <1>3, <2>1, QuietContinue DEF IInv, Control
  <1> QED
    BY <1>2, <1>3

\* store.delete on the next store.
LEMMA RemoveNextStep ==
    ASSUME BlobsAssumption, IInv, NEW p \in Peer, RemoveNext(p)
    PROVE  IInv'
  BY RemoveStep, DeleteFacts DEF RemoveNext, IInv

\* DownloadBlob changes nothing.
LEMMA DownloadStep ==
    ASSUME BlobsAssumption, IInv, NEW p \in Peer,
           HandleDownload(p) \/ FindStore(p) \/ ReadChunk(p)
    PROVE  IInv'
  <1>1. {"find", "read"} \subseteq PcType \ Received
    BY DEF PcType, Received
  <1>2. /\ pc[p] \in {"download", "find", "read"}
        /\ UNCHANGED <<blobs, pins, acked>> /\ blobs' \in [Store -> SUBSET Blob]
    BY DEF HandleDownload, FindStore, ReadChunk, IInv, Data
  <1>3. Chunks \in Nat /\ 0 \in 0..Chunks /\ sent[p] \in 0..Chunks /\ next[p] \in Nat
    BY DEF BlobsAssumption, IInv, Control
  <1>4. ASSUME NEW n \in 0..Chunks, Return(p, TRUE, n) PROVE IInv'
    BY <1>2, <1>4, QuietReturn
  <1>5. ASSUME NEW step \in {"find", "read"}, Continue(p, step),
               next' \in [Peer -> Nat], sent' \in [Peer -> 0..Chunks],
               UNCHANGED <<got, left>>
        PROVE  IInv'
    BY <1>1, <1>2, <1>5, QuietContinue DEF IInv, Control
  <1>6. next \in [Peer -> Nat] /\ sent \in [Peer -> 0..Chunks]
        /\ [next EXCEPT ![p] = @ + 1] \in [Peer -> Nat]
    BY DEF IInv, Control
  <1>7. WantsMore(p) => [sent EXCEPT ![p] = @ + 1] \in [Peer -> 0..Chunks]
    BY <1>3, <1>6 DEF WantsMore
  <1>8. CASE HandleDownload(p)
    BY <1>3, <1>4, <1>5, <1>6, <1>8 DEF HandleDownload
  <1>9. CASE FindStore(p)
    BY <1>3, <1>4, <1>5, <1>6, <1>9 DEF FindStore
  <1>10. CASE ReadChunk(p)
    BY <1>3, <1>4, <1>5, <1>6, <1>7, <1>10 DEF ReadChunk
  <1> QED
    BY <1>8, <1>9, <1>10

\* Failures.
LEMMA FailureStep ==
    ASSUME BlobsAssumption, IInv, NEW p \in Peer, Failure(p)
    PROVE  IInv'
  <1>1. 0 \in 0..Chunks /\ "cleanup" \in PcType
    BY DEF BlobsAssumption, PcType
  <1>2. blobs \in [Store -> SUBSET Blob] /\ sent[p] \in 0..Chunks
    BY DEF IInv, Data, Control
  <1>3. CASE StoreError(p)
    BY <1>1, <1>2, <1>3, QuietReturn DEF StoreError, Fail
  <1>4. CASE LookupError(p)
    <2>1. Control' /\ OthersStay(p)
      BY <1>4 DEF LookupError, IInv, Control, OthersStay
    <2> QED
      BY <1>2, <1>4, <2>1, QuietStep DEF LookupError
  <1>5. CASE ReadError(p)
    BY <1>2, <1>5, QuietReturn DEF ReadError
  <1>6. CASE DeleteError(p)
    <2>1. CASE Fail(p)
      BY <1>1, <1>2, <1>6, <2>1, QuietReturn DEF DeleteError, Fail
    <2>2. CASE pc[p] = "remove"
      BY <1>2, <1>6, <2>2, RemoveStep DEF DeleteError
    <2> QED
      BY <1>6, <2>1, <2>2 DEF DeleteError
  <1>7. CASE PinError(p)
    <2>1. UNCHANGED <<blobs, acked>> /\ pc[p] # "idle" /\ req[p].blob \in Blob
      BY <1>7, RequestBlob DEF PinError, IInv
    <2>2. ASSUME Add(p), Control', OthersStay(p), pc'[p] \notin {"delete", "remove"}
          PROVE  IInv'
      <3>1. /\ pins' \in [Blob -> SUBSET Peer]
            /\ \A q \in Peer, b \in Blob : q \in pins[b] => q \in pins'[b]
        BY <2>1, <2>2, AddFacts DEF IInv
      <3>2. Data' /\ \A b \in acked'[p] : p \in pins'[b]
        BY <2>1, <3>1 DEF IInv, Data, AckedIsPinned
      <3> QED
        BY <2>1, <2>2, <3>1, <3>2, StepOfOne
    <2>3. CASE /\ pc[p] = "upload_pin"
               /\ Add(p) \/ UNCHANGED pins
               /\ Continue(p, "cleanup")
               /\ UNCHANGED <<got, left, next, sent>>
      <3>1. Control' /\ OthersStay(p) /\ pc'[p] = "cleanup"
        BY <1>1, <2>1, <2>3, ContinueControl DEF IInv, Control, Received
      <3> QED
        BY <1>2, <2>1, <2>2, <2>3, <3>1, QuietStep
    <2>4. CASE (Add(p) \/ UNCHANGED pins) /\ Fail(p)
      <3>1. Control' /\ OthersStay(p) /\ pc'[p] = "idle"
        BY <1>1, <2>4, ReturnControl DEF Fail, IInv
      <3> QED
        BY <1>2, <2>1, <2>2, <2>4, <3>1, QuietStep
    <2>5. CASE pc[p] = "delete" /\ (Release(p) \/ UNCHANGED pins) /\ Fail(p)
      <3>1. Control' /\ OthersStay(p) /\ pc'[p] = "idle"
        BY <1>1, <2>5, ReturnControl DEF Fail, IInv
      <3> QED
        BY <1>2, <2>1, <2>5, <3>1, QuietStep, ReleaseStep
    <2>6. CASE Return(p, TRUE, 0) /\ UNCHANGED pins
      BY <1>1, <1>2, <2>1, <2>6, QuietReturn
    <2> QED
      BY <1>7, <2>3, <2>4, <2>5, <2>6 DEF PinError
  <1> QED
    BY <1>3, <1>4, <1>5, <1>6, <1>7 DEF Failure

\* A restart drops the requests and keeps the rest.
LEMMA CrashStep ==
    ASSUME BlobsAssumption, IInv, Crash
    PROVE  IInv'
  <1>1. "idle" \in PcType /\ 0 \in 0..Chunks /\ "idle" \notin Received
    BY DEF BlobsAssumption, PcType, Received
  <1>2. Control'
    <2>1. config \in Configs /\ crashes \in 0..config.use.crashes
      BY DEF IInv, Control
    <2>2. config.use.crashes \in Nat
      BY <2>1, UseFacts
    <2>3. crashes' \in 0..config'.use.crashes
      BY <2>1, <2>2 DEF Crash
    <2> QED
      BY <1>1, <2>1, <2>3 DEF Crash, Control
  <1>3. Data' /\ AckedIsPinned' /\ DeleteIsNotAcked'
    BY DEF Crash, IInv, Data, AckedIsPinned, DeleteIsNotAcked
  <1> QED
    BY <1>2, <1>3 DEF IInv

\* The invariant holds at the start,
LEMMA InitIInv == Init => IInv
  <1> SUFFICES ASSUME Init PROVE IInv
    OBVIOUS
  <1> USE BlobsAssumption DEF BlobsAssumption
  <1>0. /\ config.use.local \in [Store -> SUBSET Blob]
        /\ config.use.crashes \in Nat
    BY UseFacts DEF Init
  <1>1. Data /\ AckedIsPinned
    BY <1>0 DEF Init, Data, AckedIsPinned
  <1>2. Control
    BY <1>0 DEF Init, Control, PcType, Received
  <1>3. DeleteIsNotAcked
    BY DEF Init, DeleteIsNotAcked
  <1> QED
    BY <1>1, <1>2, <1>3 DEF IInv

\* is kept by every step,
LEMMA NextIInv == IInv /\ [Next]_vars => IInv'
  <1> SUFFICES ASSUME IInv, [Next]_vars PROVE IInv'
    OBVIOUS
  <1>1. ASSUME NEW p \in Peer, Handle(p) PROVE IInv'
    BY <1>1, BlobsAssumption, QueryStep, HandlePinStep, PinHashStep, HandleUploadStep,
       FinalizeStep, CleanupStep, HandleDeleteStep, RemoveNextStep, DownloadStep
       DEF Handle
  <1>2. CASE UNCHANGED vars
    BY <1>2 DEF vars, IInv, Data, Control, AckedIsPinned, DeleteIsNotAcked
  <1>3. /\ config.use.callers \subseteq Peer
        /\ config.use.calls \subseteq CallName
        /\ config.use.on \subseteq Blob
    BY BlobsAssumption, UseFacts DEF IInv, Control
  <1> QED
    BY <1>1, <1>2, <1>3, BlobsAssumption, CallStep, FailureStep, CrashStep DEF Next

\* and so holds always.
LEMMA Invariant == Spec => []IInv
  BY InitIInv, NextIInv, PTL DEF Spec

\* The state of the server and of its requests is well typed: no handler
\* goes on without a request or with a blob it has not received.
THEOREM TypeCorrect == Spec => []TypeOK
  <1>1. IInv => TypeOK
    BY DEF IInv, Data, Control, TypeOK
  <1> QED
    BY <1>1, Invariant, PTL

\* A peer that was told Ok by UploadBlob or PinBlob has its pin until it asks
\* for the blob's deletion, whatever the other peers do and whatever fails.
THEOREM AckedIsPinnedCorrect == Spec => []AckedIsPinned
  <1>1. IInv => AckedIsPinned
    BY DEF IInv
  <1> QED
    BY <1>1, Invariant, PTL
-----------------------------------------------------------------------------
(***************************************************************************)
(* What a step of one peer leaves alone.                                   *)
(***************************************************************************)
Frame(p) ==
    /\ UNCHANGED <<config, crashes>>
    /\ \A q \in Peer \ {p} :
        /\ pc'[q] = pc[q] /\ req'[q] = req[q] /\ got'[q] = got[q]
        /\ left'[q] = left[q] /\ next'[q] = next[q] /\ acked'[q] = acked[q]

\* A call returns,
LEMMA ReturnFrame ==
    ASSUME IInv, NEW p \in Peer, NEW ok, NEW size, Return(p, ok, size),
           \A q \in Peer \ {p} : acked'[q] = acked[q]
    PROVE  Frame(p) /\ pc'[p] = "idle" /\ next'[p] = 1
  BY DEF Return, Go, IInv, Control, Frame

\* or its handler goes on.
LEMMA ContinueFrame ==
    ASSUME IInv, NEW p \in Peer, NEW step, Continue(p, step),
           \A q \in Peer \ {p} : /\ got'[q] = got[q] /\ left'[q] = left[q]
                                 /\ next'[q] = next[q] /\ acked'[q] = acked[q]
    PROVE  Frame(p) /\ pc'[p] = step /\ req'[p] = req[p]
  BY DEF Continue, Go, IInv, Control, Frame

\* Every step of a handler is of one of the two kinds.
LEMMA HandleFrame ==
    ASSUME IInv, NEW p \in Peer, Handle(p)
    PROVE  Frame(p)
  <1>1. \A q \in Peer \ {p} : acked'[q] = acked[q]
    BY DEF Handle, HandleQuery, HandlePin, PinHash, HandleUpload, FinalizeExists,
       FinalizeRename, Cleanup, HandleDelete, RemoveNext, HandleDownload, FindStore,
       ReadChunk, IInv, Data
  <1>2. ASSUME NEW ok, NEW size, Return(p, ok, size) PROVE Frame(p)
    BY <1>1, <1>2, ReturnFrame
  <1>3. ASSUME NEW step, Continue(p, step),
               \A q \in Peer \ {p} : /\ got'[q] = got[q] /\ left'[q] = left[q]
                                     /\ next'[q] = next[q]
        PROVE  Frame(p)
    BY <1>1, <1>3, ContinueFrame
  <1>4. /\ got \in [Peer -> Blob \cup {None}] /\ left \in [Peer -> SUBSET Store]
        /\ next \in [Peer -> Nat]
    BY DEF IInv, Control
  <1>5. CASE HandleQuery(p)
    BY <1>2, <1>3, <1>4, <1>5 DEF HandleQuery, ImportBytes
  <1>6. CASE HandlePin(p)
    BY <1>2, <1>3, <1>6 DEF HandlePin, Fail
  <1>7. CASE PinHash(p)
    BY <1>2, <1>7 DEF PinHash
  <1>8. CASE HandleUpload(p)
    BY <1>2, <1>3, <1>4, <1>8 DEF HandleUpload, Fail
  <1>9. CASE FinalizeExists(p) \/ FinalizeRename(p)
    BY <1>3, <1>9 DEF FinalizeExists, FinalizeRename
  <1>10. CASE Cleanup(p)
    BY <1>2, <1>10 DEF Cleanup, Fail
  <1>11. CASE HandleDelete(p)
    BY <1>2, <1>3, <1>4, <1>11 DEF HandleDelete, Fail
  <1>12. CASE RemoveNext(p)
    BY <1>2, <1>3, <1>4, <1>12 DEF RemoveNext
  <1>13. CASE HandleDownload(p)
    BY <1>2, <1>3, <1>13 DEF HandleDownload
  <1>14. CASE FindStore(p)
    BY <1>2, <1>3, <1>4, <1>14 DEF FindStore
  <1>15. CASE ReadChunk(p)
    BY <1>2, <1>3, <1>15 DEF ReadChunk
  <1> QED
    BY <1>5, <1>6, <1>7, <1>8, <1>9, <1>10, <1>11, <1>12, <1>13, <1>14, <1>15 DEF Handle

\* A call begins.
LEMMA CallFrame ==
    ASSUME IInv, NEW p \in Peer, NEW c, NEW b, Call(p, c, b)
    PROVE  Frame(p)
  BY DEF Call, Go, Frame, IInv, Data, Control

\* Failures happen where they are allowed, and change neither the node nor
\* the number of its restarts.
LEMMA FailureFacts ==
    ASSUME NEW p \in Peer, Failure(p)
    PROVE  config.use.errors /\ UNCHANGED <<config, crashes>>
  BY DEF Failure, StoreError, LookupError, ReadError, DeleteError, PinError, Fail,
     Return, Continue

\* The settings of the peers do not change.
LEMMA SettingsStay ==
    ASSUME config' = config
    PROVE  /\ Undisturbed' = Undisturbed
           /\ \A p : /\ MayUpload(p)' = MayUpload(p) /\ MayDelete(p)' = MayDelete(p)
                     /\ UploadStore(p)' = UploadStore(p) /\ Readable(p)' = Readable(p)
  BY DEF Undisturbed, MayUpload, MayDelete, UploadStore, Readable, CfgFor
-----------------------------------------------------------------------------
(***************************************************************************)
(* Nothing is left behind.  A blob in a store that the node did not put    *)
(* there itself is pinned, or a request under way answers for it: an       *)
(* upload that will pin it, the cleanup that will delete it, or a deletion *)
(* that has yet to come to its store.                                      *)
(***************************************************************************)
AnswersFor(p, s, b) ==
    \/ pc[p] = "upload_pin" /\ req[p].blob = b
    \/ pc[p] = "cleanup" /\ got[p] = b /\ UploadStore(p) = s
    \/ pc[p] = "remove" /\ req[p].blob = b /\ s \in left[p]

Accounted ==
    crashes = 0 /\ ~config.use.errors =>
        \A s \in Store : \A b \in blobs[s] :
            \/ b \in config.use.local[s]
            \/ pins[b] # {}
            \/ \E p \in Peer : AnswersFor(p, s, b)

\* What a step of p must respect: what is in a store afterwards was there,
\* with a pin or a request of p that has not given it up, or p answers for it.
LEMMA AccountedStep ==
    ASSUME Accounted, NEW p \in Peer, Frame(p),
           \A s \in Store : \A b \in blobs'[s] :
              \/ AnswersFor(p, s, b)'
              \/ /\ b \in blobs[s]
                 /\ pins[b] # {} \/ AnswersFor(p, s, b) => pins'[b] # {}
    PROVE  Accounted'
  <1> SUFFICES ASSUME crashes = 0, ~config.use.errors,
                      NEW s \in Store, NEW b \in blobs'[s],
                      b \notin config.use.local[s], pins'[b] = {}
               PROVE  \E q \in Peer : AnswersFor(q, s, b)'
    BY DEF Accounted, Frame
  <1>1. CASE AnswersFor(p, s, b)'
    BY <1>1
  <1>2. CASE /\ b \in blobs[s]
             /\ pins[b] # {} \/ AnswersFor(p, s, b) => pins'[b] # {}
    <2>1. PICK q \in Peer : AnswersFor(q, s, b)
      BY <1>2 DEF Accounted
    <2>2. q # p
      BY <1>2, <2>1
    <2>3. AnswersFor(q, s, b)'
      BY <2>1, <2>2, SettingsStay DEF AnswersFor, Frame
    <2> QED
      BY <2>3
  <1> QED
    BY <1>1, <1>2

\* The steps that answer for nothing and leave stores and pins alone.
LEMMA AccountedQuiet ==
    ASSUME Accounted, NEW p \in Peer, Frame(p), UNCHANGED <<blobs, pins>>,
           pc[p] \notin {"upload_pin", "cleanup", "remove"}
    PROVE  Accounted'
  <1>1. \A s, b : ~AnswersFor(p, s, b)
    BY DEF AnswersFor
  <1> QED
    BY <1>1, AccountedStep

\* Handlers.
LEMMA AccountedHandle ==
    ASSUME BlobsAssumption, IInv, Accounted, NEW p \in Peer, Handle(p)
    PROVE  Accounted'
  <1>1. Frame(p)
    BY HandleFrame
  <1>2. Data /\ Control
    BY DEF IInv
  <1>3. CASE HandleQuery(p) \/ HandlePin(p) \/ HandleUpload(p) \/ FinalizeExists(p)
             \/ HandleDownload(p) \/ FindStore(p) \/ ReadChunk(p)
    <2>1. UNCHANGED <<blobs, pins>> /\ pc[p] \notin {"upload_pin", "cleanup", "remove"}
      BY <1>3 DEF HandleQuery, HandlePin, HandleUpload, FinalizeExists, HandleDownload,
         FindStore, ReadChunk
    <2> QED
      BY <1>1, <2>1, AccountedQuiet
  <1>4. CASE PinHash(p)
    <2>1. req[p].blob \in Blob
      BY <1>2, <1>4, RequestBlob DEF PinHash
    <2>2. /\ \A q \in Peer, b \in Blob : q \in pins[b] => q \in pins'[b]
          /\ p \in pins'[req[p].blob]
      BY <1>2, <1>4, <2>1, AddFacts DEF PinHash
    <2>3. \A s, b : AnswersFor(p, s, b) => b = req[p].blob
      BY <1>4 DEF PinHash, AnswersFor
    <2>4. blobs' = blobs /\ \A s \in Store : \A b \in blobs[s] : b \in Blob /\ pins[b] \subseteq Peer
      BY <1>2, <1>4 DEF PinHash, Data
    <2>5. \A s \in Store : \A b \in blobs'[s] :
             b \in blobs[s] /\ (pins[b] # {} \/ AnswersFor(p, s, b) => pins'[b] # {})
      BY <2>2, <2>3, <2>4
    <2> QED
      BY <1>1, <2>5, AccountedStep
  <1>5. CASE FinalizeRename(p)
    <2>1. /\ pc'[p] = IF got[p] = req[p].blob THEN "upload_pin" ELSE "cleanup"
          /\ got'[p] = got[p] /\ req'[p] = req[p] /\ pins' = pins
      BY <1>2, <1>5 DEF FinalizeRename, Continue, Go, AfterImport, Control
    <2>2. \A s, b : ~AnswersFor(p, s, b)
      BY <1>5 DEF FinalizeRename, AnswersFor
    <2>3. \A s \in Store : \A b \in blobs'[s] :
             b \in blobs[s] \/ (s = UploadStore(p) /\ b = got[p])
      BY <1>2, <1>5 DEF FinalizeRename, Data
    <2>4. \A s \in Store : \A b \in blobs'[s] : b \in blobs[s] \/ AnswersFor(p, s, b)'
      BY <1>1, <2>1, <2>3, SettingsStay DEF AnswersFor, Frame
    <2> QED
      BY <1>1, <2>1, <2>2, <2>4, AccountedStep
  <1>6. CASE Cleanup(p)
    <2>1. pins' = pins /\ \A s \in Store : \A b \in blobs'[s] :
             b \in blobs[s] /\ ~(s = UploadStore(p) /\ b = got[p])
      BY <1>2, <1>6 DEF Cleanup, Delete, Data
    <2>2. \A s, b : AnswersFor(p, s, b) => s = UploadStore(p) /\ b = got[p]
      BY <1>6 DEF Cleanup, AnswersFor
    <2> QED
      BY <1>1, <2>1, <2>2, AccountedStep
  <1>7. CASE HandleDelete(p)
    <2>1. pc[p] = "delete" /\ blobs' = blobs
      BY <1>7 DEF HandleDelete
    <2>2. \A s, b : ~AnswersFor(p, s, b)
      BY <2>1 DEF AnswersFor
    <2>3. CASE UNCHANGED pins
      BY <1>1, <2>1, <2>3, AccountedQuiet
    <2>4. CASE Release(p)
      <3>1. req[p].blob \in Blob
        BY <1>2, <2>1, RequestBlob
      <3>2. \A b \in Blob \ {req[p].blob} : pins'[b] = pins[b]
        BY <1>2, <2>4, <3>1, ReleaseFacts
      <3>3. \A s \in Store : \A b \in blobs'[s] : b \in blobs[s] /\ b \in Blob
        BY <1>2, <2>1 DEF Data
      <3>4. CASE pins'[req[p].blob] # {}
        BY <1>1, <2>2, <3>2, <3>3, <3>4, AccountedStep
      <3>5. CASE pins'[req[p].blob] = {} /\ Continue(p, "remove") /\ left' = [left EXCEPT ![p] = Store]
        <4>1. pc'[p] = "remove" /\ req'[p] = req[p] /\ left'[p] = Store
          BY <1>2, <3>5 DEF Continue, Go, Control
        <4>2. \A s \in Store, b \in {req[p].blob} : AnswersFor(p, s, b)'
          BY <4>1 DEF AnswersFor
        <4> QED
          BY <1>1, <2>2, <3>2, <3>3, <4>2, AccountedStep
      <3> QED
        BY <1>7, <2>3, <3>4, <3>5 DEF HandleDelete
    <2> QED
      BY <1>7, <2>3, <2>4 DEF HandleDelete
  <1>8. CASE RemoveNext(p)
    <2>1. PICK s \in left[p] :
             /\ Delete(s, req[p].blob)
             /\ \/ left[p] = {s}
                \/ left' = [left EXCEPT ![p] = @ \ {s}] /\ Continue(p, "remove")
      BY <1>8 DEF RemoveNext
    <2>2. pins' = pins /\ \A t \in Store : \A b \in blobs'[t] :
             b \in blobs[t] /\ ~(t = s /\ b = req[p].blob)
      BY <1>2, <1>8, <2>1 DEF RemoveNext, Delete, Data
    <2>3. \A t, b : AnswersFor(p, t, b) => b = req[p].blob /\ t \in left[p]
      BY <1>8 DEF RemoveNext, AnswersFor
    <2>4. CASE left[p] = {s}
      BY <1>1, <2>2, <2>3, <2>4, AccountedStep
    <2>5. CASE left' = [left EXCEPT ![p] = @ \ {s}] /\ Continue(p, "remove")
      <3>1. pc'[p] = "remove" /\ req'[p] = req[p] /\ left'[p] = left[p] \ {s}
        BY <1>2, <2>5 DEF Continue, Go, Control
      <3>2. \A t \in left[p] \ {s}, b \in {req[p].blob} : AnswersFor(p, t, b)'
        BY <3>1 DEF AnswersFor
      <3> QED
        BY <1>1, <2>2, <2>3, <3>2, AccountedStep
    <2> QED
      BY <2>1, <2>4, <2>5
  <1> QED
    BY <1>3, <1>4, <1>5, <1>6, <1>7, <1>8 DEF Handle

\* Every step accounts for what it leaves in the stores.
LEMMA NextAccounted == IInv /\ Accounted /\ [Next]_vars => Accounted'
  <1> SUFFICES ASSUME IInv, Accounted, [Next]_vars PROVE Accounted'
    OBVIOUS
  <1>1. CASE UNCHANGED vars
    BY <1>1 DEF vars, Accounted, AnswersFor, UploadStore, CfgFor
  <1>2. ASSUME NEW p \in Peer, NEW c, NEW b, Call(p, c, b) PROVE Accounted'
    <2>1. UNCHANGED <<blobs, pins>> /\ pc[p] = "idle"
      BY <1>2 DEF Call
    <2> QED
      BY <1>2, <2>1, CallFrame, AccountedQuiet
  <1>3. ASSUME NEW p \in Peer, Handle(p) PROVE Accounted'
    BY <1>3, BlobsAssumption, AccountedHandle
  <1>4. ASSUME NEW p \in Peer, Failure(p) PROVE Accounted'
    BY <1>4, FailureFacts DEF Accounted
  <1>5. CASE Crash
    <2>1. config.use.crashes \in Nat /\ crashes \in 0..config.use.crashes
      BY BlobsAssumption, UseFacts DEF IInv, Control
    <2>2. crashes' # 0
      BY <1>5, <2>1 DEF Crash
    <2> QED
      BY <2>2 DEF Accounted
  <1>6. config.use.callers \subseteq Peer
    BY BlobsAssumption, UseFacts DEF IInv, Control
  <1> QED
    BY <1>1, <1>2, <1>3, <1>4, <1>5, <1>6 DEF Next

\* When no request is under way, and no failure or restart cut one short,
\* every blob in a store is the node's own or pinned: uploads, aborted
\* uploads and deletions leave nothing behind, for any number of peers,
\* blobs and stores and however their handlers interleave.
THEOREM NoGarbageCorrect == Spec => []NoGarbage
  <1>1. Init => Accounted
    BY DEF Init, Accounted
  <1>2. Accounted => NoGarbage
    BY DEF Accounted, NoGarbage, AnswersFor
  <1> QED
    BY <1>1, <1>2, Invariant, NextAccounted, PTL DEF Spec
-----------------------------------------------------------------------------
(***************************************************************************)
(* A peer that has the node for itself.  Every peer that holds or awaits   *)
(* an acknowledgement may delete, so in an undisturbed node it is the only *)
(* one that can: no deletion but its own removes what it was promised, and *)
(* its own requests come one after the other.                              *)
(***************************************************************************)
\* The requests of a peer that uses the node as it may.
Granted(p) ==
    /\ pc[p] # "idle" \/ acked[p] # {} => p \in config.use.callers
    /\ acked[p] # {} => MayUpload(p)
    /\ pc[p] \in {"exists", "rename", "upload_pin", "pin_hash"} => MayUpload(p)
    /\ pc[p] = "remove" => MayDelete(p)

\* What was acknowledged is stored, and so is what is about to be.
Stored(p) ==
    /\ acked[p] \subseteq IF MayUpload(p) THEN blobs[UploadStore(p)] ELSE {}
    /\ pc[p] # "cleanup"
    /\ pc[p] \in {"exists", "rename", "upload_pin"} => got[p] = req[p].blob
    /\ pc[p] \in {"pin_hash", "upload_pin"} => req[p].blob \in blobs[UploadStore(p)]

Kept == Undisturbed => \A p \in Peer : Granted(p) /\ Stored(p)

\* A store that is uploaded to may be deleted from.
LEMMA UploaderMayDelete ==
    ASSUME BlobsAssumption, NEW p, MayUpload(p)
    PROVE  MayDelete(p) /\ UploadStore(p) \in Store
  BY DEF BlobsAssumption, MayUpload, MayDelete, UploadStore

\* A peer that deletes is the only one that was promised anything.
LEMMA OneDeletes ==
    ASSUME BlobsAssumption, Undisturbed, Kept, NEW p \in Peer, NEW q \in Peer,
           pc[p] = "remove", MayUpload(q), pc[q] # "idle" \/ acked[q] # {}
    PROVE  q = p
  BY UploaderMayDelete DEF Kept, Granted, Undisturbed

\* The other peers: a step that only adds blobs takes nothing from them.
LEMMA KeptOfOthers ==
    ASSUME BlobsAssumption, NEW p \in Peer, Frame(p), NEW q \in Peer \ {p},
           Granted(q), Stored(q),
           MayUpload(q) /\ (pc[q] # "idle" \/ acked[q] # {}) =>
              blobs[UploadStore(q)] \subseteq blobs'[UploadStore(q)]
    PROVE  Granted(q)' /\ Stored(q)'
  <1>1. Granted(q)'
    BY SettingsStay DEF Granted, Frame
  <1>2. MayUpload(q)' = MayUpload(q) /\ UploadStore(q)' = UploadStore(q)
    BY SettingsStay DEF Frame
  <1>3. acked'[q] \subseteq IF MayUpload(q) THEN blobs'[UploadStore(q)] ELSE {}
    BY DEF Stored, Granted, Frame
  <1>4. pc[q] \in {"pin_hash", "upload_pin"} => req[q].blob \in blobs'[UploadStore(q)]
    BY DEF Stored, Granted
  <1> QED
    BY <1>1, <1>2, <1>3, <1>4 DEF Stored, Frame

\* So only the peer that moves has to be looked at.
LEMMA KeptStep ==
    ASSUME BlobsAssumption, Kept, NEW p \in Peer, Frame(p),
           \A s \in Store : blobs[s] \subseteq blobs'[s],
           Undisturbed => Granted(p)' /\ Stored(p)'
    PROVE  Kept'
  <1> SUFFICES ASSUME Undisturbed, NEW q \in Peer
               PROVE  Granted(q)' /\ Stored(q)'
    BY SettingsStay DEF Kept, Frame
  <1>1. ASSUME q # p PROVE Granted(q)' /\ Stored(q)'
    BY <1>1, KeptOfOthers, UploaderMayDelete DEF Kept
  <1> QED
    BY <1>1

\* The steps that change nothing but the progress of p's request, and do
\* not come near a change of the stores.
LEMMA KeptQuiet ==
    ASSUME BlobsAssumption, Kept, NEW p \in Peer, Frame(p), UNCHANGED blobs,
           Undisturbed => acked'[p] \subseteq acked[p],
           pc[p] # "idle" \/ p \in config.use.callers,
           Undisturbed => pc'[p] \notin {"exists", "rename", "upload_pin", "pin_hash", "cleanup", "remove"}
    PROVE  Kept'
  <1>1. ASSUME Undisturbed PROVE Granted(p)' /\ Stored(p)'
    <2>1. Granted(p) /\ Stored(p)
      BY <1>1 DEF Kept
    <2>2. acked'[p] \subseteq acked[p]
      BY <1>1
    <2>3. /\ MayUpload(p)' = MayUpload(p) /\ UploadStore(p)' = UploadStore(p)
          /\ config' = config
      BY SettingsStay DEF Frame
    <2>4. Granted(p)'
      BY <1>1, <2>1, <2>2, <2>3 DEF Granted
    <2>5. Stored(p)'
      BY <1>1, <2>1, <2>2, <2>3 DEF Stored
    <2> QED
      BY <2>4, <2>5
  <1> QED
    BY <1>1, KeptStep

\* Handlers.
LEMMA KeptHandle ==
    ASSUME BlobsAssumption, IInv, Kept, NEW p \in Peer, Handle(p)
    PROVE  Kept'
  <1>1. Frame(p)
    BY HandleFrame
  <1>2. Data /\ Control
    BY DEF IInv
  <1>3. ASSUME NEW ok, NEW size, Return(p, ok, size) PROVE pc'[p] = "idle"
    BY <1>2, <1>3 DEF Return, Go, Control
  <1>4. ASSUME NEW step, Continue(p, step)
        PROVE  pc'[p] = step /\ req'[p] = req[p] /\ (req[p].blob \in Blob \/ pc[p] = "idle")
    BY <1>2, <1>4, RequestBlob DEF Continue, Go, Control
  <1>5. Undisturbed => Granted(p) /\ Stored(p)
    BY DEF Kept
  <1>6. /\ MayUpload(p)' = MayUpload(p) /\ UploadStore(p)' = UploadStore(p)
        /\ MayDelete(p)' = MayDelete(p) /\ config' = config
    BY <1>1, SettingsStay DEF Frame
  <1>7. CASE HandleQuery(p) \/ HandleDownload(p) \/ FindStore(p) \/ ReadChunk(p)
    <2>1. UNCHANGED <<blobs, acked>> /\ pc[p] \in {"query", "download", "find", "read"}
      BY <1>7 DEF HandleQuery, HandleDownload, FindStore, ReadChunk
    <2>2. pc'[p] \in {"idle", "pin", "query", "find", "read"}
      BY <1>3, <1>4, <1>7, <2>1
         DEF HandleQuery, ImportBytes, HandleDownload, FindStore, ReadChunk
    <2> QED
      BY <1>1, <2>1, <2>2, KeptQuiet
  <1>8. CASE HandlePin(p)
    <2>1. pc[p] = "pin" /\ UNCHANGED <<blobs, acked>>
      BY <1>8 DEF HandlePin
    <2>2. CASE Fail(p)
      BY <1>1, <1>3, <2>1, <2>2, KeptQuiet DEF Fail
    <2>3. CASE MayUpload(p) /\ Continue(p, PutBytes(Holds(UploadStore(p), req[p].blob)))
      <3>1. CASE Holds(UploadStore(p), req[p].blob)
        <4>1. pc'[p] = "pin_hash" /\ req'[p] = req[p] /\ req[p].blob \in blobs[UploadStore(p)]
          BY <1>4, <2>1, <2>3, <3>1 DEF PutBytes, Holds
        <4>2. Undisturbed => Granted(p)' /\ Stored(p)'
          BY <1>5, <1>6, <2>1, <2>3, <4>1 DEF Granted, Stored
        <4> QED
          BY <1>1, <2>1, <4>2, KeptStep
      <3>2. CASE ~Holds(UploadStore(p), req[p].blob)
        <4>1. pc'[p] = "upload"
          BY <1>4, <2>1, <2>3, <3>2 DEF PutBytes
        <4> QED
          BY <1>1, <2>1, <4>1, KeptQuiet
      <3> QED
        BY <3>1, <3>2
    <2> QED
      BY <1>8, <2>2, <2>3 DEF HandlePin
  <1>9. CASE PinHash(p)
    <2>1. /\ pc[p] \in {"pin_hash", "upload_pin"} /\ pc'[p] = "idle" /\ blobs' = blobs
          /\ acked'[p] = acked[p] \cup {req[p].blob}
      BY <1>2, <1>3, <1>9 DEF PinHash, Data
    <2>2. Undisturbed => Granted(p)' /\ Stored(p)'
      BY <1>5, <1>6, <2>1 DEF Granted, Stored
    <2> QED
      BY <1>1, <2>1, <2>2, KeptStep
  <1>10. CASE HandleUpload(p)
    <2>1. pc[p] = "upload" /\ UNCHANGED <<blobs, acked>> /\ req[p].blob \in Blob
      BY <1>2, <1>10, RequestBlob DEF HandleUpload
    <2>2. CASE Fail(p)
      BY <1>1, <1>3, <2>1, <2>2, KeptQuiet DEF Fail
    <2>3. CASE /\ MayUpload(p) /\ Continue(p, "exists")
               /\ \E c \in {req[p].blob} \cup config.use.cuts[req[p].blob] :
                      got' = [got EXCEPT ![p] = c]
      <3>1. pc'[p] = "exists" /\ req'[p] = req[p]
        BY <1>4, <2>1, <2>3
      <3>2. Undisturbed => got'[p] = req[p].blob
        BY <1>2, <2>1, <2>3 DEF Undisturbed, Control
      <3>3. Undisturbed => Granted(p)' /\ Stored(p)'
        BY <1>5, <1>6, <2>1, <2>3, <3>1, <3>2 DEF Granted, Stored
      <3> QED
        BY <1>1, <2>1, <3>3, KeptStep
    <2> QED
      BY <1>10, <2>2, <2>3 DEF HandleUpload
  <1>11. CASE FinalizeExists(p) \/ FinalizeRename(p)
    <2>1. pc[p] \in {"exists", "rename"} /\ UNCHANGED <<got, acked>>
      BY <1>11 DEF FinalizeExists, FinalizeRename
    <2>2. \A s \in Store : blobs[s] \subseteq blobs'[s]
      BY <1>2, <1>11 DEF FinalizeExists, FinalizeRename, Data
    <2>3. ASSUME Undisturbed
          PROVE  /\ req'[p] = req[p] /\ got[p] = req[p].blob
                 /\ MayUpload(p) /\ UploadStore(p) \in Store
                 /\ \/ pc'[p] = "rename"
                    \/ pc'[p] = "upload_pin" /\ req[p].blob \in blobs'[UploadStore(p)]
      <3>1. got[p] = req[p].blob /\ MayUpload(p) /\ UploadStore(p) \in Store
        BY <1>5, <2>1, <2>3, UploaderMayDelete DEF Granted, Stored
      <3>2. CASE FinalizeExists(p)
        BY <1>4, <2>1, <3>1, <3>2 DEF FinalizeExists, AfterImport, Holds
      <3>3. CASE FinalizeRename(p)
        BY <1>2, <1>4, <2>1, <3>1, <3>3 DEF FinalizeRename, AfterImport, Data
      <3> QED
        BY <1>11, <3>1, <3>2, <3>3
    <2>4. ASSUME Undisturbed PROVE Granted(p)' /\ Stored(p)'
      <3>1. Granted(p)'
        BY <1>5, <1>6, <2>1, <2>3, <2>4 DEF Granted
      <3>2. acked'[p] \subseteq blobs'[UploadStore(p)]
        BY <1>5, <2>1, <2>2, <2>3, <2>4 DEF Stored
      <3>3. Stored(p)'
        BY <1>6, <2>1, <2>3, <2>4, <3>2 DEF Stored
      <3> QED
        BY <3>1, <3>3
    <2> QED
      BY <1>1, <2>2, <2>4, KeptStep
  <1>12. CASE Cleanup(p)
    BY <1>5, <1>6, <1>12, SettingsStay DEF Cleanup, Kept, Stored
  <1>13. CASE HandleDelete(p)
    <2>1. pc[p] = "delete" /\ UNCHANGED <<blobs, acked>>
      BY <1>13 DEF HandleDelete
    <2>2. CASE pc'[p] = "idle"
      BY <1>1, <2>1, <2>2, KeptQuiet
    <2>3. CASE MayDelete(p) /\ pc'[p] = "remove"
      <3>1. Undisturbed => Granted(p)' /\ Stored(p)'
        BY <1>5, <1>6, <2>1, <2>3 DEF Granted, Stored
      <3> QED
        BY <1>1, <2>1, <3>1, KeptStep
    <2> QED
      BY <1>3, <1>4, <1>13, <2>1, <2>2, <2>3 DEF HandleDelete, Fail
  <1>14. CASE RemoveNext(p)
    <2>1. PICK s \in left[p] : Delete(s, req[p].blob)
      BY <1>14 DEF RemoveNext
    <2>2. pc[p] = "remove" /\ acked' = acked /\ pc'[p] \in {"idle", "remove"}
      BY <1>3, <1>4, <1>14 DEF RemoveNext
    <2>3. \A t \in Store : \A b \in blobs[t] : b # req[p].blob => b \in blobs'[t]
      BY <1>2, <2>1 DEF Delete, Data
    <2> SUFFICES ASSUME Undisturbed, NEW q \in Peer
                 PROVE  Granted(q)' /\ Stored(q)'
      BY <1>6, SettingsStay DEF Kept
    <2>4. CASE q = p
      <3>1. req[p].blob \notin acked[p]
        BY <2>2 DEF IInv, DeleteIsNotAcked
      <3>2. acked[p] \subseteq IF MayUpload(p) THEN blobs'[UploadStore(p)] ELSE {}
        BY <1>5, <2>3, <3>1, UploaderMayDelete DEF Stored
      <3>3. Granted(p)' /\ Stored(p)'
        BY <1>5, <1>6, <2>2, <3>2 DEF Granted, Stored
      <3> QED
        BY <2>4, <3>3
    <2>5. CASE q # p
      BY <1>1, <2>2, <2>5, KeptOfOthers, OneDeletes DEF Kept
    <2> QED
      BY <2>4, <2>5
  <1> QED
    BY <1>7, <1>8, <1>9, <1>10, <1>11, <1>12, <1>13, <1>14 DEF Handle

\* Every step keeps what was promised.
LEMMA NextKept == IInv /\ Kept /\ [Next]_vars => Kept'
  <1> SUFFICES ASSUME IInv, Kept, [Next]_vars PROVE Kept'
    OBVIOUS
  <1>1. CASE UNCHANGED vars
    BY <1>1, SettingsStay DEF vars, Kept, Granted, Stored
  <1>2. ASSUME NEW p \in config.use.callers, NEW c \in config.use.calls, NEW b, Call(p, c, b)
        PROVE  Kept'
    <2>1. p \in Peer /\ c \in CallName
      BY BlobsAssumption, UseFacts DEF IInv, Control
    <2>2. FirstStep[c] \in {"upload", "query", "delete", "download"}
      BY <2>1 DEF CallName, FirstStep
    <2>3. UNCHANGED blobs /\ acked'[p] \subseteq acked[p] /\ pc'[p] = FirstStep[c]
      BY <1>2, <2>1 DEF Call, Go, IInv, Data, Control
    <2> QED
      BY <1>2, <2>1, <2>2, <2>3, BlobsAssumption, CallFrame, KeptQuiet
  <1>3. ASSUME NEW p \in Peer, Handle(p) PROVE Kept'
    BY <1>3, BlobsAssumption, KeptHandle
  <1>4. ASSUME NEW p \in Peer, Failure(p) PROVE Kept'
    BY <1>4, FailureFacts DEF Kept, Undisturbed
  <1>5. CASE Crash
    <2>1. UNCHANGED <<config, blobs, acked>> /\ \A p \in Peer : pc'[p] = "idle"
      BY <1>5 DEF Crash
    <2> QED
      BY <2>1, SettingsStay DEF Kept, Granted, Stored
  <1> QED
    BY <1>1, <1>2, <1>3, <1>4, <1>5 DEF Next

\* At the start nothing was promised.
LEMMA InitKept == Init => Kept
  BY DEF Init, Kept, Granted, Stored

\* What a peer with the node for itself was told is stored is in its store,
\* whatever it calls, in every configuration and across restarts.
THEOREM AckedIsStoredIfAloneCorrect == Spec => []AckedIsStoredIfAlone
  <1>1. Kept => AckedIsStoredIfAlone
    BY DEF Kept, Stored, AckedIsStoredIfAlone, AckedIsStored
  <1> QED
    BY <1>1, InitKept, Invariant, NextKept, PTL DEF Spec

-----------------------------------------------------------------------------
(***************************************************************************)
(* Downloads of a peer that has the node for itself.  The argument needs   *)
(* that a peer may read the store it uploads to, which the configuration   *)
(* does not enforce.                                                       *)
(***************************************************************************)
UploadsAreReadable ==
    \A k \in Configs : \A x \in DOMAIN k.peers :
        k.peers[x].uploads \in Store =>
            \E i \in 1..Len(k.peers[x].readable) : k.peers[x].readable[i] = k.peers[x].uploads

\* A download of what was acknowledged has not passed the peer's own store
\* while it looks for the blob, and reads from a store that has it.
Downloads(p) ==
    /\ pc[p] \notin {"query", "find", "read"} => next[p] = 1
    /\ pc[p] = "find" /\ req[p].blob \in acked[p] =>
        \E i \in 1..Len(Readable(p)) : next[p] <= i /\ Readable(p)[i] = UploadStore(p)
    /\ pc[p] = "read" /\ req[p].blob \in acked[p] =>
        Holds(Readable(p)[next[p]], req[p].blob)
\* Where the handler of a blob_download is.
Serving == {"download", "find", "read"}

Served(p) ==
    pc[p] # "idle" /\ req[p].call = "blob_download" => pc[p] \in Serving

Loading == Undisturbed => \A p \in Peer : Downloads(p) /\ Served(p)

\* The peer's own store is in its list of readable stores.
LEMMA OwnStoreIsReadable ==
    ASSUME UploadsAreReadable, config \in Configs, NEW p, MayUpload(p)
    PROVE  \E i \in 1..Len(Readable(p)) : Readable(p)[i] = UploadStore(p)
  BY DEF UploadsAreReadable, MayUpload, Readable, UploadStore, CfgFor

\* The other peers: their downloads do not notice a step that takes no blob.
LEMMA LoadingOfOthers ==
    ASSUME NEW p \in Peer, Frame(p), NEW q \in Peer \ {p}, Downloads(q), Served(q),
           pc[q] = "read" /\ req[q].blob \in acked[q] =>
              \A s \in Store : blobs[s] \subseteq blobs'[s]
    PROVE  Downloads(q)' /\ Served(q)'
  <1>1. /\ pc'[q] = pc[q] /\ req'[q] = req[q] /\ next'[q] = next[q] /\ acked'[q] = acked[q]
        /\ Readable(q)' = Readable(q) /\ UploadStore(q)' = UploadStore(q)
    BY SettingsStay DEF Frame
  <1>2. Served(q)'
    BY <1>1 DEF Served
  <1> QED
    BY <1>1, <1>2 DEF Downloads, Holds

\* So only the peer that moves has to be looked at.
LEMMA LoadingStep ==
    ASSUME Loading, NEW p \in Peer, Frame(p),
           \A s \in Store : blobs[s] \subseteq blobs'[s],
           Undisturbed => Downloads(p)' /\ Served(p)'
    PROVE  Loading'
  <1> SUFFICES ASSUME Undisturbed, NEW q \in Peer PROVE Downloads(q)' /\ Served(q)'
    BY SettingsStay DEF Loading, Frame
  <1>1. ASSUME q # p PROVE Downloads(q)' /\ Served(q)'
    BY <1>1, LoadingOfOthers DEF Loading
  <1> QED
    BY <1>1

\* Handlers.
LEMMA LoadingHandle ==
    ASSUME BlobsAssumption, UploadsAreReadable, IInv, Kept, Loading, NEW p \in Peer, Handle(p)
    PROVE  Loading'
  <1>1. Frame(p)
    BY HandleFrame
  <1>2. Data /\ Control
    BY DEF IInv
  <1>3. ASSUME NEW ok, NEW size, Return(p, ok, size)
        PROVE  Downloads(p)' /\ Served(p)'
    BY <1>2, <1>3 DEF Return, Go, Control, Downloads, Served
  <1>4. ASSUME NEW step, Continue(p, step)
        PROVE  pc'[p] = step /\ req'[p] = req[p]
    BY <1>2, <1>4 DEF Continue, Go, Control
  <1>5. Undisturbed => Granted(p) /\ Stored(p) /\ Downloads(p) /\ Served(p)
    BY DEF Kept, Loading
  <1>6. /\ UploadStore(p)' = UploadStore(p) /\ Readable(p)' = Readable(p)
        /\ config' = config /\ Undisturbed' = Undisturbed
    BY <1>1, SettingsStay DEF Frame
  <1>7. CASE HandleQuery(p)
    <2>1. UNCHANGED <<blobs, acked>> /\ pc[p] = "query"
      BY <1>7 DEF HandleQuery
    <2>2. ASSUME Continue(p, "pin"), next' = [next EXCEPT ![p] = 1]
          PROVE  Undisturbed => Downloads(p)' /\ Served(p)'
      BY <1>2, <1>4, <1>5, <2>1, <2>2 DEF Downloads, Served, Control, Serving
    <2>3. ASSUME Continue(p, "query")
          PROVE  Undisturbed => Downloads(p)' /\ Served(p)'
      BY <1>4, <1>5, <2>1, <2>3 DEF Downloads, Served, Serving
    <2>4. Undisturbed => Downloads(p)' /\ Served(p)'
      BY <1>3, <1>7, <2>2, <2>3 DEF HandleQuery, ImportBytes
    <2> QED
      BY <1>1, <2>1, <2>4, LoadingStep
  <1>8. ASSUME NEW step \in PcType \ {"query", "find", "read"}, Continue(p, step),
               UNCHANGED next, pc[p] \notin Serving \cup {"query", "idle"}
        PROVE  Undisturbed => Downloads(p)' /\ Served(p)'
    BY <1>4, <1>5, <1>8 DEF Downloads, Served, Serving
  <1>9. CASE HandlePin(p) \/ HandleUpload(p) \/ FinalizeExists(p) \/ HandleDelete(p)
    <2>1. UNCHANGED blobs /\ pc[p] \notin Serving \cup {"query", "idle"}
      BY <1>9 DEF HandlePin, HandleUpload, FinalizeExists, HandleDelete, Serving
    <2>2. \/ \E ok, size : Return(p, ok, size)
          \/ UNCHANGED next /\ \E step \in PcType \ {"query", "find", "read"} : Continue(p, step)
      BY <1>9 DEF HandlePin, HandleUpload, FinalizeExists, HandleDelete, Fail, PutBytes,
         AfterImport, PcType
    <2> QED
      BY <1>1, <1>3, <1>8, <2>1, <2>2, LoadingStep
  <1>10. CASE FinalizeRename(p)
    <2>1. /\ \A s \in Store : blobs[s] \subseteq blobs'[s]
          /\ pc[p] \notin Serving \cup {"query", "idle"}
      BY <1>2, <1>10 DEF FinalizeRename, Data, Serving
    <2>2. UNCHANGED next /\ \E step \in PcType \ {"query", "find", "read"} : Continue(p, step)
      BY <1>10 DEF FinalizeRename, AfterImport, PcType
    <2> QED
      BY <1>1, <1>8, <2>1, <2>2, LoadingStep
  <1>11. CASE PinHash(p)
    BY <1>1, <1>3, <1>11, LoadingStep DEF PinHash
  <1>12. CASE Cleanup(p)
    BY <1>5, <1>6, <1>12 DEF Cleanup, Loading, Stored
  <1>13. CASE RemoveNext(p)
    <2>1. pc[p] = "remove"
      BY <1>13 DEF RemoveNext
    <2>2. Undisturbed => Downloads(p)' /\ Served(p)'
      <3>1. \/ \E ok, size : Return(p, ok, size)
            \/ UNCHANGED next /\ Continue(p, "remove")
        BY <1>13 DEF RemoveNext
      <3> QED
        BY <1>3, <1>8, <2>1, <3>1 DEF PcType, Serving
    <2> SUFFICES ASSUME Undisturbed, NEW q \in Peer PROVE Downloads(q)' /\ Served(q)'
      BY <1>6 DEF Loading
    <2>3. CASE q = p
      BY <2>2, <2>3
    <2>4. CASE q # p
      <3>1. ~(pc[q] = "read" /\ req[q].blob \in acked[q])
        BY <2>1, <2>4, OneDeletes DEF Kept, Granted
      <3> QED
        BY <1>1, <2>4, <3>1, LoadingOfOthers DEF Loading
    <2> QED
      BY <2>3, <2>4
  <1>14. CASE HandleDownload(p)
    <2>1. UNCHANGED <<blobs, acked>> /\ pc[p] = "download"
      BY <1>14 DEF HandleDownload
    <2>2. ASSUME Continue(p, "find"), UNCHANGED next, Undisturbed
          PROVE  Downloads(p)' /\ Served(p)'
      <3>1. next[p] = 1
        BY <1>5, <2>1, <2>2 DEF Downloads
      <3>2. ASSUME req[p].blob \in acked[p]
            PROVE  \E i \in 1..Len(Readable(p)) : next[p] <= i /\ Readable(p)[i] = UploadStore(p)
        BY <1>2, <1>5, <2>2, <3>1, <3>2, OwnStoreIsReadable DEF Granted, Control
      <3> QED
        BY <1>4, <1>6, <2>1, <2>2, <3>2 DEF Downloads, Served, Serving
    <2>3. Undisturbed => Downloads(p)' /\ Served(p)'
      BY <1>3, <1>14, <2>2 DEF HandleDownload
    <2> QED
      BY <1>1, <2>1, <2>3, LoadingStep
  <1>15. CASE FindStore(p)
    <2>1. UNCHANGED <<blobs, acked>> /\ pc[p] = "find"
      BY <1>15 DEF FindStore
    <2>2. ASSUME Continue(p, "read"), UNCHANGED next, Undisturbed,
                 Holds(Readable(p)[next[p]], req[p].blob)
          PROVE  Downloads(p)' /\ Served(p)'
      BY <1>4, <1>6, <2>1, <2>2 DEF Downloads, Served, Serving, Holds
    <2>3. ASSUME Continue(p, "find"), next' = [next EXCEPT ![p] = @ + 1], Undisturbed,
                 ~Holds(Readable(p)[next[p]], req[p].blob)
          PROVE  Downloads(p)' /\ Served(p)'
      <3>1. next[p] \in Nat /\ next'[p] = next[p] + 1
        BY <1>2, <2>3 DEF Control
      <3>2. ASSUME req[p].blob \in acked[p]
            PROVE  \E i \in 1..Len(Readable(p)) : next'[p] <= i /\ Readable(p)[i] = UploadStore(p)
        <4>1. PICK i \in 1..Len(Readable(p)) : next[p] <= i /\ Readable(p)[i] = UploadStore(p)
          BY <1>5, <2>1, <2>3, <3>2 DEF Downloads
        <4>2. Holds(UploadStore(p), req[p].blob)
          BY <1>5, <2>3, <3>2, UploaderMayDelete DEF Stored, Granted, Holds
        <4>3. i # next[p]
          BY <2>3, <4>1, <4>2
        <4>4. next[p] + 1 <= i
          BY <3>1, <4>1, <4>3
        <4> QED
          BY <3>1, <4>1, <4>4
      <3> QED
        BY <1>4, <1>6, <2>1, <2>3, <3>2 DEF Downloads, Served, Serving
    <2>4. Undisturbed => Downloads(p)' /\ Served(p)'
      BY <1>3, <1>15, <2>2, <2>3 DEF FindStore
    <2> QED
      BY <1>1, <2>1, <2>4, LoadingStep
  <1>16. CASE ReadChunk(p)
    <2>1. UNCHANGED <<blobs, acked>> /\ pc[p] = "read"
      BY <1>16 DEF ReadChunk
    <2>2. ASSUME Continue(p, "read"), UNCHANGED next, Undisturbed
          PROVE  Downloads(p)' /\ Served(p)'
      BY <1>4, <1>5, <1>6, <2>1, <2>2 DEF Downloads, Served, Serving, Holds
    <2>3. Undisturbed => Downloads(p)' /\ Served(p)'
      BY <1>3, <1>16, <2>2 DEF ReadChunk
    <2> QED
      BY <1>1, <2>1, <2>3, LoadingStep
  <1> QED
    BY <1>7, <1>9, <1>10, <1>11, <1>12, <1>13, <1>14, <1>15, <1>16 DEF Handle

\* Every step keeps the downloads on their way.
LEMMA NextLoading ==
    ASSUME UploadsAreReadable
    PROVE  IInv /\ Kept /\ Loading /\ [Next]_vars => Loading'
  <1> SUFFICES ASSUME IInv, Kept, Loading, [Next]_vars PROVE Loading'
    OBVIOUS
  <1>1. CASE UNCHANGED vars
    BY <1>1, SettingsStay DEF vars, Loading, Downloads, Served, Holds
  <1>2. ASSUME NEW p \in config.use.callers, NEW c \in config.use.calls, NEW b, Call(p, c, b)
        PROVE  Loading'
    <2>1. p \in Peer /\ c \in CallName
      BY BlobsAssumption, UseFacts DEF IInv, Control
    <2>2. /\ FirstStep[c] \notin {"query", "find", "read"} \/ c = "import_bytes"
          /\ FirstStep[c] \notin {"find", "read"}
          /\ c = "blob_download" => FirstStep[c] = "download"
      BY <2>1 DEF CallName, FirstStep
    <2>3. /\ blobs' = blobs /\ pc[p] = "idle" /\ pc'[p] = FirstStep[c] /\ next' = next
          /\ req'[p] = [call |-> c, blob |-> b]
      BY <1>2, <2>1 DEF Call, Go, IInv, Control
    <2>4. Undisturbed => next[p] = 1
      BY <2>1, <2>3 DEF Loading, Downloads
    <2>5. Undisturbed => Downloads(p)' /\ Served(p)'
      BY <2>2, <2>3, <2>4 DEF Downloads, Served, Serving
    <2> QED
      BY <1>2, <2>1, <2>3, <2>5, CallFrame, LoadingStep
  <1>3. ASSUME NEW p \in Peer, Handle(p) PROVE Loading'
    BY <1>3, BlobsAssumption, LoadingHandle
  <1>4. ASSUME NEW p \in Peer, Failure(p) PROVE Loading'
    BY <1>4, FailureFacts DEF Loading, Undisturbed
  <1>5. CASE Crash
    <2>1. config' = config /\ \A p \in Peer : pc'[p] = "idle" /\ next'[p] = 1
      BY <1>5 DEF Crash
    <2> QED
      BY <2>1, SettingsStay DEF Loading, Downloads, Served
  <1> QED
    BY <1>1, <1>2, <1>3, <1>4, <1>5 DEF Next

\* A download of an acknowledged blob does not end before its last chunk.
LEMMA WholeStep ==
    ASSUME IInv, Kept, Loading, [Next]_vars, Undisturbed,
           NEW p \in Peer, NEW b \in Blob, ReturnsOk(p, "blob_download", b), b \in acked[p]
    PROVE  ret'[p].size = Chunks
  <1>1. /\ req[p] = [call |-> "blob_download", blob |-> b]
        /\ req'[p] = None /\ ret'[p] # None
    BY DEF ReturnsOk
  <1>2. req[p] \in Request /\ req[p] # None /\ req[p].blob = b
    BY <1>1, BlobsAssumption DEF BlobsAssumption, Request, CallName
  <1>3. ~UNCHANGED vars
    BY <1>1, <1>2 DEF vars
  <1>4. ~Crash
    BY <1>1 DEF Crash
  <1>5. ASSUME NEW q \in config.use.callers, NEW c \in config.use.calls,
               NEW a \in config.use.on, Call(q, c, a)
        PROVE  FALSE
    <2>1. q \in Peer /\ c \in CallName /\ a \in Blob
      BY BlobsAssumption, UseFacts DEF IInv, Control
    <2>2. [call |-> c, blob |-> a] \in Request
      BY <2>1 DEF Request
    <2>3. req'[p] = req[p] \/ req'[p] = [call |-> c, blob |-> a]
      BY <1>5, <2>1 DEF Call, IInv, Control
    <2> QED
      BY <1>1, <1>2, <2>2, <2>3, BlobsAssumption DEF BlobsAssumption
  <1>6. \A q \in Peer : ~Failure(q)
    BY FailureFacts DEF Undisturbed
  <1>7. Handle(p)
    BY <1>1, <1>2, <1>3, <1>4, <1>5, <1>6, HandleFrame DEF Next, Frame
  <1>8. /\ Control /\ Granted(p) /\ Stored(p) /\ Downloads(p) /\ Served(p)
        /\ p \in pins[b] /\ MayUpload(p)
    BY DEF IInv, Kept, Loading, AckedIsPinned, Granted
  <1>9. pc[p] \in Serving
    <2>1. pc[p] # "idle"
      BY <1>7 DEF Handle, HandleQuery, HandlePin, PinHash, HandleUpload, FinalizeExists,
         FinalizeRename, Cleanup, HandleDelete, RemoveNext, HandleDownload, FindStore, ReadChunk
    <2> QED
      BY <1>1, <1>8, <2>1 DEF Served
  <1>10. HandleDownload(p) \/ FindStore(p) \/ ReadChunk(p)
    BY <1>7, <1>9 DEF Serving, Handle, HandleQuery, HandlePin, PinHash, HandleUpload,
       FinalizeExists, FinalizeRename, Cleanup, HandleDelete, RemoveNext
  <1>11. ASSUME NEW step PROVE ~Continue(p, step)
    BY <1>1, <1>2 DEF Continue
  <1>12. ~HandleDownload(p)
    BY <1>2, <1>8, <1>11 DEF HandleDownload, MayUpload
  <1>13. ~FindStore(p)
    <2> SUFFICES ASSUME pc[p] = "find", next[p] > Len(Readable(p)) PROVE FALSE
      BY <1>11 DEF FindStore
    <2>1. PICK i \in 1..Len(Readable(p)) : next[p] <= i
      BY <1>2, <1>8 DEF Downloads
    <2>2. next[p] \in Nat /\ Len(Readable(p)) \in Int
      BY <1>8, <2>1 DEF Control
    <2> QED
      BY <2>1, <2>2
  <1>14. pc[p] = "read" /\ ~WantsMore(p) /\ Return(p, TRUE, sent[p])
    BY <1>2, <1>8, <1>10, <1>11, <1>12, <1>13 DEF ReadChunk, Downloads
  <1>15. sent[p] = Chunks
    <2>1. Chunks \in Nat /\ sent[p] \in 0..Chunks
      BY <1>8, BlobsAssumption DEF Control, BlobsAssumption
    <2>2. ~(sent[p] < Chunks)
      BY <1>14 DEF WantsMore
    <2> QED
      BY <2>1, <2>2
  <1> QED
    BY <1>8, <1>14, <1>15 DEF Return, Control

\* An acknowledged blob downloads in full if a peer with the node for itself
\* may read the store it uploads to: the handler finds a store that has the
\* blob, and the blob stays there until the last chunk is sent.
THEOREM AckedDownloadsWholeCorrect == UploadsAreReadable => (Spec => AckedDownloadsWhole)
  <1> SUFFICES ASSUME UploadsAreReadable PROVE Spec => AckedDownloadsWhole
    OBVIOUS
  <1>1. Init => Loading
    BY DEF Init, Loading, Downloads, Served
  <1>2. IInv /\ Kept /\ Loading /\ [Next]_vars =>
          [Undisturbed =>
             \A p \in Peer, b \in Blob :
               ReturnsOk(p, "blob_download", b) /\ b \in acked[p] => ret'[p].size = Chunks]_vars
    BY WholeStep
  <1> QED
    BY <1>1, <1>2, InitKept, Invariant, NextKept, NextLoading, PTL
       DEF Spec, AckedDownloadsWhole
=============================================================================
