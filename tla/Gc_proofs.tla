------------------------------ MODULE Gc_proofs ------------------------------
(***************************************************************************)
(* Proofs about Gc: for any directory graph, store, set of pins and any    *)
(* failures to read, gc-local deletes no pinned blob, and no live one if   *)
(* everything could be read.                                               *)
(*                                                                         *)
(* What can be reached is what lies in every closed set of directories.    *)
(* So no induction over the graph is needed: all that is ever queued lies  *)
(* in every closed set, and once the queues are empty the visited          *)
(* directories are themselves a closed set.                                *)
(***************************************************************************)
EXTENDS Gc, TLAPS

Typed == TypeOK /\ WellFormed(input)

\* Nothing is marked that is not live.
Sound ==
    /\ \A r \in hashQueue : r.hash \in Reach
    /\ \A d \in dirQueue : d = input.root \/ \E h \in Reach : d = input.tree[h]
    /\ reachable \subseteq Live

\* The content of d is marked and its subdirectories are visited or queued.
Followed(d) ==
    /\ Collected(d) \subseteq reachable
    /\ \A r \in d.dirs : r \in hashQueue \/ r.hash \in visited

\* Each reference that is queued has the key of its directory.
Keyed == \A r \in hashQueue : r.key = input.sealed[r.hash]

\* If everything was read, no directory is forgotten.
Complete ==
    /\ pc \in {"root", "index"} => hashQueue = {} /\ visited = {}
    /\ pc = "index" => input.root \in dirQueue
    /\ pc # "root" => input.root \in dirQueue \/ Followed(input.root)
    /\ pc \notin {"root", "index"} =>
          \A h \in input.index : h \in visited \/ [hash |-> h, key |-> None] \in hashQueue
    /\ \A h \in visited : input.tree[h] \in dirQueue \/ Followed(input.tree[h])
    /\ pc = "mark" => hashQueue = {} \/ input.root \in dirQueue
    /\ pc \in {"sweep", "done"} => hashQueue = {} /\ dirQueue = {}

\* What the sweep has done to the store and to the report.
Report ==
    /\ pc \in {"root", "index", "mark", "drain"} =>
          store = input.store /\ candidates = {}
    /\ pc = "sweep" =>
          ~input.verify /\ candidates = (input.store \ todo) \ (reachable \cup input.pins)
    /\ pc = "done" /\ ~input.verify => candidates = input.store \ (reachable \cup input.pins)
    /\ pc = "done" /\ input.verify => missing = reachable \ input.store
    /\ input.dry_run => store = input.store

IInv ==
    /\ Typed
    /\ Sound
    /\ ~Inherits => Keyed /\ (~unread => Complete)
    /\ Report
    /\ ~Inherits => KeepsLive
-----------------------------------------------------------------------------
\* What follows from input alone stays.
LEMMA LiveStays ==
    ASSUME UNCHANGED input
    PROVE  Reach' = Reach /\ Live' = Live /\ WellFormed(input)' = WellFormed(input)
  <1>1. Reach' = Reach
    BY DEF Reach, Closed
  <1> QED
    BY <1>1 DEF Live, WellFormed, SealedAs

LEMMA InReach ==
    ASSUME NEW h \in Dir
    PROVE  h \in Reach <=> \A S \in SUBSET Dir : Closed(S) => h \in S
  BY DEF Reach

\* The snapshots of the index, the subdirectories of the root and those of what
\* can be reached can be reached.
LEMMA ReachIsClosed ==
    ASSUME input \in Disk
    PROVE  /\ \A h \in input.index : h \in Reach
           /\ \A r \in input.root.dirs : r.hash \in Reach
           /\ \A h \in Reach : \A r \in input.tree[h].dirs : r.hash \in Reach
  <1>1. ASSUME NEW h \in input.index PROVE h \in Reach
    <2>1. h \in Dir
      BY DEF Disk
    <2> QED
      BY <2>1, InReach DEF Closed
  <1>2. ASSUME NEW r \in input.root.dirs PROVE r.hash \in Reach
    <2>1. r.hash \in Dir
      BY DEF Disk, DirV1, DirRef
    <2>2. ASSUME NEW S \in SUBSET Dir, Closed(S) PROVE r.hash \in S
      BY <2>2 DEF Closed
    <2> QED
      BY <2>1, <2>2, InReach
  <1>3. ASSUME NEW h \in Reach, NEW r \in input.tree[h].dirs PROVE r.hash \in Reach
    <2>1. h \in Dir /\ r.hash \in Dir
      BY DEF Disk, DirV1, DirRef, Reach
    <2>2. ASSUME NEW S \in SUBSET Dir, Closed(S) PROVE r.hash \in S
      <3>1. h \in S
        BY <2>1, <2>2, InReach
      <3> QED
        BY <2>2, <3>1 DEF Closed
    <2> QED
      BY <2>1, <2>2, InReach
  <1> QED
    BY <1>1, <1>2, <1>3

LEMMA InCollected ==
    ASSUME NEW d, NEW x
    PROVE  x \in Collected(d) <=>
             \E f \in d.files : x \in Range(IF f.tombstone THEN Tail(f.versions) ELSE f.versions)
  BY DEF Collected

LEMMA InLive ==
    ASSUME NEW x
    PROVE  x \in Live <=>
             \/ \E f \in input.root.files : x \in Range(f.versions)
             \/ \E h \in Reach : \E f \in input.tree[h].files : x \in Range(f.versions)
  BY DEF Live

\* Leaving out a tombstone loses nothing: it repeats the version it deletes.
LEMMA VersionsOfTombstone ==
    ASSUME NEW f \in FileRef,
           f.tombstone => Len(f.versions) > 1 /\ f.versions[1] = f.versions[2]
    PROVE  Range(IF f.tombstone THEN Tail(f.versions) ELSE f.versions) = Range(f.versions)
  <1>1. CASE f.tombstone
    <2> DEFINE v == f.versions
    <2>1. v \in Seq(Content) /\ Len(v) > 1 /\ v[1] = v[2]
      BY <1>1 DEF FileRef
    <2>2. Len(Tail(v)) = Len(v) - 1 /\ Tail(v) \in Seq(Content)
          /\ \A i \in 1 .. Len(v) - 1 : Tail(v)[i] = v[i + 1]
      BY <2>1
    <2>3. ASSUME NEW i \in 1 .. Len(v) PROVE \E k \in 1 .. Len(v) - 1 : Tail(v)[k] = v[i]
      <3>1. CASE i = 1
        BY <2>1, <2>2, <3>1
      <3>2. CASE i # 1
        <4>1. i - 1 \in 1 .. Len(v) - 1 /\ (i - 1) + 1 = i
          BY <2>1, <3>2
        <4> QED
          BY <2>2, <4>1
      <3> QED
        BY <3>1, <3>2
    <2>4. ASSUME NEW k \in 1 .. Len(v) - 1 PROVE \E i \in 1 .. Len(v) : Tail(v)[k] = v[i]
      <3>1. k + 1 \in 1 .. Len(v)
        BY <2>1
      <3> QED
        BY <2>2, <3>1
    <2>5. DOMAIN v = 1 .. Len(v) /\ DOMAIN Tail(v) = 1 .. Len(v) - 1
      BY <2>1, <2>2
    <2> HIDE DEF v
    <2>6. Range(Tail(v)) = Range(v)
      <3> DEFINE t == Tail(v)
      <3>1. DOMAIN t = 1 .. Len(v) - 1
        BY <2>5
      <3>2. (\A i \in 1 .. Len(v) : \E k \in 1 .. Len(v) - 1 : t[k] = v[i])
            /\ \A k \in 1 .. Len(v) - 1 : \E i \in 1 .. Len(v) : t[k] = v[i]
        BY <2>3, <2>4
      <3> HIDE DEF t
      <3>3. Range(t) = Range(v)
        <4>1. ASSUME NEW x \in Range(t) PROVE x \in Range(v)
          <5>1. PICK k \in DOMAIN t : x = t[k]
            BY <4>1 DEF Range
          <5>2. PICK i \in DOMAIN v : t[k] = v[i]
            BY <2>5, <3>1, <3>2
          <5> QED
            BY <5>1, <5>2 DEF Range
        <4>2. ASSUME NEW x \in Range(v) PROVE x \in Range(t)
          <5>1. PICK i \in DOMAIN v : x = v[i]
            BY <4>2 DEF Range
          <5>2. PICK k \in DOMAIN t : t[k] = v[i]
            BY <2>5, <3>1, <3>2
          <5> QED
            BY <5>1, <5>2 DEF Range
        <4> QED
          BY <4>1, <4>2
      <3> QED
        BY <3>3 DEF t
    <2> QED
      BY <1>1, <2>6 DEF v
  <1> QED
    BY <1>1

\* collect_hashes_from_dir collects what the files of the directory refer to.
LEMMA CollectedIsAll ==
    ASSUME Typed, NEW d \in {input.root} \cup Range(input.tree), NEW x
    PROVE  x \in Collected(d) <=> \E f \in d.files : x \in Range(f.versions)
  <1>1. d \in DirV1
    BY DEF Typed, TypeOK, Disk, Range
  <1>2. ASSUME NEW f \in d.files
        PROVE  Range(IF f.tombstone THEN Tail(f.versions) ELSE f.versions) = Range(f.versions)
    <2>1. f \in FileRef
      BY <1>1 DEF DirV1
    <2>2. f.tombstone => Len(f.versions) > 1 /\ f.versions[1] = f.versions[2]
      BY DEF Typed, WellFormed
    <2> QED
      BY <2>1, <2>2, VersionsOfTombstone
  <1> QED
    BY <1>2, InCollected

\* Without inherited keys each reference has the key of its directory.
LEMMA RefsHaveKeys ==
    ASSUME Typed, ~Inherits
    PROVE  /\ \A r \in input.root.dirs : r.key = input.sealed[r.hash]
           /\ \A h \in Dir : \A r \in input.tree[h].dirs : r.key = input.sealed[r.hash]
           /\ \A h \in input.index : input.sealed[h] = None
  BY DEF Typed, WellFormed, SealedAs

\* Once the queues are empty everything live is marked.
LEMMA LiveIsMarked ==
    ASSUME Typed, Complete, hashQueue = {}, dirQueue = {}, pc \notin {"root", "index"}
    PROVE  Live \subseteq reachable
  <1>1. Followed(input.root) /\ \A h \in visited : Followed(input.tree[h])
    BY DEF Complete
  <1>2. Closed(visited) /\ visited \subseteq Dir
    BY <1>1 DEF Closed, Followed, Complete, Typed, TypeOK
  <1>3. Reach \subseteq visited
    BY <1>2 DEF Reach
  <1>4. ASSUME NEW x \in Live PROVE x \in reachable
    <2>1. ASSUME NEW f \in input.root.files, x \in Range(f.versions) PROVE x \in reachable
      BY <1>1, <2>1, CollectedIsAll DEF Followed
    <2>2. ASSUME NEW h \in Reach, NEW f \in input.tree[h].files, x \in Range(f.versions)
          PROVE  x \in reachable
      <3>1. h \in visited /\ h \in Dir
        BY <1>3 DEF Reach
      <3>2. input.tree[h] \in {input.root} \cup Range(input.tree)
        BY <3>1 DEF Typed, TypeOK, Disk, Range
      <3>3. x \in Collected(input.tree[h])
        BY <2>2, <3>2, CollectedIsAll
      <3> QED
        BY <1>1, <3>1, <3>3 DEF Followed
    <2> QED
      BY <2>1, <2>2, InLive
  <1> QED
    BY <1>4
-----------------------------------------------------------------------------
\* Every variable the marking works on.
marking == <<input, dirQueue, hashQueue, visited, reachable, unread>>

LEMMA TypedStep ==
    ASSUME Typed, Next
    PROVE  Typed' /\ UNCHANGED input
  <1>1. UNCHANGED input
    BY DEF Next, ReadRoot, ReadIndex, TakeDir, LoadDir, Drained, Marked, Examine,
           StoreError, Swept
  <1>2. WellFormed(input)'
    BY <1>1, LiveStays DEF Typed
  <1>3. input \in Disk /\ input.root \in DirV1 /\ input.tree \in [Dir -> DirV1]
        /\ input.index \subseteq Dir /\ input.store \subseteq Content
    BY DEF Typed, TypeOK, Disk
  <1>4. CASE ReadRoot
    BY <1>1, <1>2, <1>4 DEF Typed, TypeOK, ReadRoot
  <1>5. CASE ReadIndex
    <2>1. {[hash |-> h, key |-> None] : h \in input.index} \subseteq DirRef
      BY <1>3 DEF DirRef
    <2> QED
      BY <1>1, <1>2, <1>5, <2>1 DEF Typed, TypeOK, ReadIndex
  <1>6. ASSUME NEW d \in dirQueue, TakeDir(d) PROVE Typed'
    <2>1. d \in {input.root} \cup Range(input.tree) /\ d \in DirV1
      BY <1>3 DEF Typed, TypeOK, Range
    <2>2. d.dirs \subseteq DirRef
      BY <2>1 DEF DirV1
    <2>3. Collected(d) \subseteq Content
      <3>1. ASSUME NEW x \in Collected(d) PROVE x \in Content
        <4>1. PICK f \in d.files : x \in Range(f.versions)
          BY <2>1, <3>1, CollectedIsAll
        <4>2. f.versions \in Seq(Content)
          BY <2>1 DEF DirV1, FileRef
        <4> QED
          BY <4>1, <4>2 DEF Range
      <3> QED
        BY <3>1
    <2> QED
      BY <1>1, <1>2, <1>6, <2>2, <2>3 DEF Typed, TypeOK, TakeDir
  <1>7. ASSUME NEW r \in hashQueue, LoadDir(r) PROVE Typed'
    <2>1. r.hash \in Dir
      BY DEF Typed, TypeOK, DirRef
    <2>2. input.tree[r.hash] \in Range(input.tree)
      BY <1>3, <2>1 DEF Range
    <2> QED
      BY <1>1, <1>2, <1>7, <2>1, <2>2 DEF Typed, TypeOK, LoadDir
  <1>8. CASE Drained \/ StoreError \/ Swept
    BY <1>1, <1>2, <1>8 DEF Typed, TypeOK, Drained, StoreError, Swept
  <1>9. CASE Marked
    BY <1>1, <1>2, <1>9 DEF Typed, TypeOK, Marked
  <1>10. ASSUME NEW h \in todo, Examine(h) PROVE Typed'
    BY <1>1, <1>2, <1>10 DEF Typed, TypeOK, Examine
  <1> QED
    BY <1>1, <1>4, <1>5, <1>6, <1>7, <1>8, <1>9, <1>10 DEF Next

\* The later steps do not mark.
LEMMA MarkingDone ==
    ASSUME Drained \/ Marked \/ StoreError \/ Swept \/ \E h \in todo : Examine(h)
    PROVE  UNCHANGED marking
  BY DEF Drained, Marked, StoreError, Swept, Examine, marking

LEMMA SoundStep ==
    ASSUME Typed, Sound, Next
    PROVE  Sound'
  <1>1. UNCHANGED input /\ Reach' = Reach /\ Live' = Live
    BY TypedStep, LiveStays
  <1>2. input \in Disk
    BY DEF Typed, TypeOK
  <1>3. CASE ReadRoot
    BY <1>1, <1>3 DEF Sound, ReadRoot
  <1>4. CASE ReadIndex
    BY <1>1, <1>2, <1>4, ReachIsClosed DEF Sound, ReadIndex
  <1>5. ASSUME NEW d \in dirQueue, TakeDir(d) PROVE Sound'
    <2>1. d \in {input.root} \cup Range(input.tree)
      BY DEF Typed, TypeOK
    <2>2. \A r \in d.dirs : r.hash \in Reach
      BY <1>2, ReachIsClosed DEF Sound
    <2>3. Collected(d) \subseteq Live
      <3>1. ASSUME NEW x \in Collected(d) PROVE x \in Live
        <4>1. PICK f \in d.files : x \in Range(f.versions)
          BY <2>1, <3>1, CollectedIsAll
        <4> QED
          BY <4>1, InLive DEF Sound
      <3> QED
        BY <3>1
    <2> QED
      BY <1>1, <1>5, <2>2, <2>3 DEF Sound, TakeDir
  <1>6. ASSUME NEW r \in hashQueue, LoadDir(r) PROVE Sound'
    <2>1. r.hash \in Reach
      BY DEF Sound
    <2> QED
      BY <1>1, <1>6, <2>1 DEF Sound, LoadDir
  <1>7. CASE Drained \/ Marked \/ StoreError \/ Swept \/ \E h \in todo : Examine(h)
    BY <1>1, <1>7, MarkingDone DEF Sound, marking
  <1> QED
    BY <1>3, <1>4, <1>5, <1>6, <1>7 DEF Next

LEMMA KeyedStep ==
    ASSUME ~Inherits, Typed, Keyed, Next
    PROVE  Keyed'
  <1>1. UNCHANGED input
    BY TypedStep
  <1>2. CASE ReadRoot
    BY <1>1, <1>2 DEF Keyed, ReadRoot
  <1>3. CASE ReadIndex
    BY <1>1, <1>3, RefsHaveKeys DEF Keyed, ReadIndex
  <1>4. ASSUME NEW d \in dirQueue, TakeDir(d) PROVE Keyed'
    <2>1. d = input.root \/ \E h \in Dir : d = input.tree[h]
      BY DEF Typed, TypeOK, Disk, Range
    <2>2. \A r \in d.dirs : r.key = input.sealed[r.hash]
      BY <2>1, RefsHaveKeys
    <2> QED
      BY <1>1, <1>4, <2>2 DEF Keyed, TakeDir
  <1>5. ASSUME NEW r \in hashQueue, LoadDir(r) PROVE Keyed'
    BY <1>1, <1>5 DEF Keyed, LoadDir
  <1>6. CASE Drained \/ Marked \/ StoreError \/ Swept \/ \E h \in todo : Examine(h)
    BY <1>6, MarkingDone DEF Keyed, marking
  <1> QED
    BY <1>2, <1>3, <1>4, <1>5, <1>6 DEF Next

\* unread only ever becomes TRUE.
LEMMA UnreadStays ==
    ASSUME Next, ~unread', TypeOK
    PROVE  ~unread
  BY DEF Next, ReadRoot, ReadIndex, TakeDir, LoadDir, Drained, Marked, Examine,
         StoreError, Swept, TypeOK

\* Followed holds on.
LEMMA FollowedStays ==
    ASSUME NEW d, Followed(d), reachable \subseteq reachable',
           \A r \in hashQueue : r \in hashQueue' \/ r.hash \in visited',
           visited \subseteq visited'
    PROVE  Followed(d)'
  BY DEF Followed, Collected

LEMMA CompleteStep ==
    ASSUME Typed, Keyed, ~unread, Complete, Next, ~unread'
    PROVE  Complete'
  <1>1. UNCHANGED input
    BY TypedStep
  <1>2. CASE ReadRoot
    BY <1>1, <1>2 DEF Complete, ReadRoot, Followed, Collected
  <1>3. CASE ReadIndex
    BY <1>1, <1>3 DEF Complete, ReadIndex, Followed, Collected
  <1>4. ASSUME NEW d \in dirQueue, TakeDir(d) PROVE Complete'
    <2>1. Followed(d)'
      BY <1>4 DEF TakeDir, Followed, Collected
    <2>2. ASSUME NEW e, Followed(e) PROVE Followed(e)'
      BY <1>4, <2>2, FollowedStays DEF TakeDir
    <2> QED
      BY <1>1, <1>4, <2>1, <2>2 DEF Complete, TakeDir
  <1>5. ASSUME NEW r \in hashQueue, LoadDir(r) PROVE Complete'
    <2>1. ASSUME NEW e, Followed(e) PROVE Followed(e)'
      BY <1>5, <2>1, FollowedStays DEF LoadDir
    <2>2. \A h \in visited' : h \in visited \/ (h = r.hash /\ input.tree[h] \in dirQueue')
      BY <1>5 DEF LoadDir, Keyed
    <2>3. dirQueue \subseteq dirQueue' /\ pc = "drain" /\ pc' = "drain"
      BY <1>5 DEF LoadDir
    <2>4. \A h \in input.index : h \in visited' \/ [hash |-> h, key |-> None] \in hashQueue'
      BY <1>5, <2>3 DEF LoadDir, Complete
    <2> QED
      BY <1>1, <2>1, <2>2, <2>3, <2>4 DEF Complete
  <1>6. CASE Drained \/ Marked \/ StoreError \/ Swept \/ \E h \in todo : Examine(h)
    <2>1. UNCHANGED marking
      BY <1>6, MarkingDone
    <2>2. \A e : Followed(e) => Followed(e)'
      BY <2>1 DEF Followed, Collected, marking
    <2>3. /\ pc \notin {"root", "index"} /\ pc' \notin {"root", "index"}
          /\ pc' = "mark" => hashQueue = {}
          /\ pc' \in {"sweep", "done"} => hashQueue = {} /\ dirQueue = {}
      BY <1>6 DEF Drained, Marked, StoreError, Swept, Examine, Complete
    <2> QED
      BY <2>1, <2>2, <2>3 DEF Complete, marking
  <1> QED
    BY <1>2, <1>3, <1>4, <1>5, <1>6 DEF Next

LEMMA ReportStep ==
    ASSUME Typed, Report, Next
    PROVE  Report'
  <1>1. CASE ReadRoot \/ ReadIndex
    BY <1>1 DEF Report, ReadRoot, ReadIndex
  <1>2. ASSUME NEW d \in dirQueue, TakeDir(d) PROVE Report'
    BY <1>2 DEF Report, TakeDir
  <1>3. ASSUME NEW r \in hashQueue, LoadDir(r) PROVE Report'
    BY <1>3 DEF Report, LoadDir
  <1>4. CASE Drained
    BY <1>4 DEF Report, Drained
  <1>5. CASE Marked
    BY <1>5 DEF Report, Marked
  <1>6. ASSUME NEW h \in todo, Examine(h) PROVE Report'
    BY <1>6 DEF Report, Examine, Kept, Typed, TypeOK
  <1>7. CASE StoreError \/ Swept
    BY <1>7 DEF Report, StoreError, Swept
  <1> QED
    BY <1>1, <1>2, <1>3, <1>4, <1>5, <1>6, <1>7 DEF Next

LEMMA KeepsLiveStep ==
    ASSUME ~Inherits, Typed, ~unread => Complete, KeepsLive, Next
    PROVE  KeepsLive'
  <1>1. UNCHANGED input /\ Live' = Live
    BY TypedStep, LiveStays
  <1>2. ~unread' => ~unread
    BY UnreadStays DEF Typed
  <1>3. CASE UNCHANGED store
    BY <1>1, <1>2, <1>3 DEF KeepsLive
  <1>4. ASSUME NEW h \in todo, Examine(h), store' # store PROVE KeepsLive'
    <2>1. pc = "sweep" /\ UNCHANGED unread
      BY <1>4 DEF Examine
    <2>2. ~unread => Live \subseteq reachable
      BY <2>1, LiveIsMarked DEF Complete
    <2>3. store' = store \ {h} /\ h \notin input.pins /\ h \notin reachable
      BY <1>4 DEF Examine, Kept
    <2> QED
      BY <1>1, <2>1, <2>2, <2>3 DEF KeepsLive
  <1> QED
    BY <1>3, <1>4 DEF Next, ReadRoot, ReadIndex, TakeDir, LoadDir, Drained, Marked,
                      StoreError, Swept
-----------------------------------------------------------------------------
LEMMA Inductive ==
    /\ Init => IInv
    /\ IInv /\ [Next]_vars => IInv'
  <1>1. ASSUME Init PROVE IInv
    <2>1. Typed
      BY <1>1, InputAssumption DEF Init, InputAssumption, Typed, TypeOK, Disk
    <2>2. Sound /\ Keyed /\ Complete /\ Report
      BY <1>1 DEF Init, Sound, Keyed, Complete, Report
    <2>3. KeepsLive
      BY <1>1 DEF Init, KeepsLive
    <2> QED
      BY <2>1, <2>2, <2>3 DEF IInv
  <1>2. ASSUME IInv, Next PROVE IInv'
    <2>1. Typed' /\ Sound' /\ Report'
      BY <1>2, TypedStep, SoundStep, ReportStep DEF IInv
    <2>2. ASSUME ~Inherits PROVE Keyed' /\ (~unread' => Complete') /\ KeepsLive'
      BY <1>2, <2>2, KeyedStep, UnreadStays, CompleteStep, KeepsLiveStep DEF IInv, Typed
    <2> QED
      BY <2>1, <2>2 DEF IInv
  <1>3. ASSUME IInv, UNCHANGED vars PROVE IInv'
    <2>1. UNCHANGED marking /\ UNCHANGED <<pc, store, todo, candidates, missing>>
      BY <1>3 DEF vars, marking
    <2>2. Reach' = Reach /\ Live' = Live /\ WellFormed(input)' = WellFormed(input)
      BY <2>1, LiveStays DEF marking
    <2> QED
      BY <1>3, <2>1, <2>2 DEF IInv, marking, Typed, TypeOK, Sound, Keyed, Complete, Followed,
           Collected, Report, KeepsLive
  <1> QED
    BY <1>1, <1>2, <1>3

LEMMA Invariance == Spec => []IInv
  BY Inductive, PTL DEF Spec

\* Every state of the command is well typed: the queues hold directories of the
\* disk, and candidates are blobs of the store.
THEOREM TypeCorrect == Spec => []TypeOK
  <1>1. IInv => TypeOK
    BY DEF IInv, Typed
  <1> QED
    BY <1>1, Invariance, PTL

\* gc-local deletes no pinned blob whatever fails, and no blob that a version of
\* a file in the root or in a snapshot refers to, if all of them could be read
\* (gc_store and collect_fs_reachable_hashes).
THEOREM KeepsLiveCorrect == ~Inherits => (Spec => []KeepsLive)
  <1> SUFFICES ASSUME ~Inherits PROVE Spec => []KeepsLive
    OBVIOUS
  <1>1. IInv => KeepsLive
    BY DEF IInv
  <1> QED
    BY <1>1, Invariance, PTL

\* If everything could be read, gc-local reports all other blobs and verify-local
\* exactly the live blobs that are missing.
THEOREM ReportIsExactCorrect == ~Inherits => (Spec => []ReportIsExact)
  <1> SUFFICES ASSUME ~Inherits PROVE Spec => []ReportIsExact
    OBVIOUS
  <1>1. ASSUME IInv PROVE ReportIsExact
    <2>1. ASSUME pc = "done", ~unread PROVE reachable = Live
      BY <1>1, <2>1, LiveIsMarked DEF IInv, Complete, Sound
    <2> QED
      BY <1>1, <2>1 DEF IInv, Report, ReportIsExact
  <1>2. IInv => ReportIsExact
    BY <1>1
  <1> QED
    BY <1>2, Invariance, PTL
=============================================================================
