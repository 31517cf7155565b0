--------------------------- MODULE DirActor_proofs ---------------------------
(***************************************************************************)
(* Proofs about DirActor: for any tree of no more directories than the     *)
(* promotion threshold, any number of clients and any use of it.           *)
(***************************************************************************)
EXTENDS DirActor, TLAPS

(***************************************************************************)
(* The shapes of the state.  Known is what a directory may refer to.       *)
(***************************************************************************)
Known == stored \cup {h \in {NoHash} : ~WithoutCreate}

Senders == Dir \cup Client \cup {None}

\* The messages that somebody waits for.
Answered == {"file_put_sync", "file_get", "create_dir", "save", "shutdown"}

Messages ==
    {m \in [op : Ops \cup {"mark_as_dirty", "update_ref", "autosave_tick"}, dir : Dir,
            arg : Nat \cup {None} \cup stored, from : Senders] :
        /\ m.op = "update_ref" => m.arg \in stored
        /\ m.op \in PathOps \cup {"with_autosave"} => m.op \in config.ops
        /\ m.op \in PathOps => m.dir \in config.dirs
        /\ m.op = "create_dir" => m.dir # Root
        /\ m.op \notin Answered => m.from = None}

TellTasks(M) ==
    [op : {"tell"}, msg : M, then : {"loop", "arm", "saved"}, from : Senders]
WorkTasks ==
    [op : {"save", "shutdown"}, from : Senders, todo : SUBSET Dir, wait : SUBSET Dir]
AllTasks(M) == {Idle} \cup TellTasks(M) \cup WorkTasks

\* A snapshot whose entries are in S.
Snap(s, S) ==
    /\ s = Snapshot(s.files, s.dirs)
    /\ s.dirs \in [DOMAIN s.dirs -> S] /\ DOMAIN s.dirs \subseteq Dir

\* An actor whose entries are in S and whose messages are in M.  Without a snapshot
\* it does nothing.
RecordOK(r, S, M) ==
    /\ r = [life |-> r.life, up |-> r.up, state |-> r.state, dirty |-> r.dirty,
            timer |-> r.timer, auto |-> r.auto, task |-> r.task]
    /\ r.dirty \in BOOLEAN
    /\ r.task \in AllTasks(M)
    /\ r.state = NoHash \/ Snap(r.state, S)
    /\ r.state = NoHash => /\ r.life \in {"none", "loading", "stopped"}
                           /\ r.task = Idle
                           /\ r.life = "none" \/ r.up # None

ActorsOK(acts, S, M) ==
    /\ acts = [d \in Dir |-> acts[d]]
    /\ \A d \in Dir : RecordOK(acts[d], S, M)

StoredOK == \A s \in stored \cup {rootFile} : Snap(s, Known)

Shapes ==
    /\ config \in Configs
    /\ next \in [Dir -> Nat]
    /\ box \in [Dir -> Seq(Messages)]
    /\ StoredOK
    /\ ActorsOK(actor, Known, Messages)

LEMMA SnapIsNoHash ==
    ASSUME NEW s, NEW S, Snap(s, S)
    PROVE  s # NoHash
<1>1. s = [files |-> s.files, dirs |-> s.dirs]
  BY DEF Snap, Snapshot
<1>2. "files" \in DOMAIN s /\ "files" \notin DOMAIN NoHash
  BY <1>1 DEF NoHash
<1> QED
  BY <1>2

LEMMA SnapGrows ==
    ASSUME NEW s, NEW S, NEW T, S \subseteq T, Snap(s, S)
    PROVE  Snap(s, T)
BY DEF Snap

LEMMA TasksGrow ==
    ASSUME NEW M, NEW N, M \subseteq N
    PROVE  AllTasks(M) \subseteq AllTasks(N)
BY DEF AllTasks, TellTasks

LEMMA RecordGrows ==
    ASSUME NEW r, NEW S, NEW T, NEW M, NEW N, S \subseteq T, M \subseteq N,
           RecordOK(r, S, M)
    PROVE  RecordOK(r, T, N)
BY SnapGrows, TasksGrow, Zenon DEF RecordOK

LEMMA ActorsGrow ==
    ASSUME NEW acts, NEW S, NEW T, NEW M, NEW N, S \subseteq T, M \subseteq N,
           ActorsOK(acts, S, M)
    PROVE  ActorsOK(acts, T, N)
BY RecordGrows, Zenon DEF ActorsOK

LEMMA BoxGrows ==
    ASSUME NEW M, NEW N, M \subseteq N, NEW b, b \in [Dir -> Seq(M)]
    PROVE  b \in [Dir -> Seq(N)]
<1>1. \A s \in Seq(M) : s \in Seq(N)
  OBVIOUS
<1> QED
  BY <1>1

\* One actor is replaced.
LEMMA ReplaceOK ==
    ASSUME NEW acts, NEW S, NEW M, ActorsOK(acts, S, M), NEW d, NEW r,
           d \in Dir => RecordOK(r, S, M)
    PROVE  ActorsOK([acts EXCEPT ![d] = r], S, M)
<1> DEFINE new == [acts EXCEPT ![d] = r]
<1>1. acts = [e \in Dir |-> acts[e]]
  BY DEF ActorsOK
<1>2. new = [e \in Dir |-> new[e]]
  BY <1>1
<1>3. ASSUME NEW e \in Dir PROVE RecordOK(new[e], S, M)
  <2>1. CASE e = d
    BY <1>1, <2>1
  <2>2. CASE e # d
    BY <1>1, <2>2 DEF ActorsOK
  <2> QED
    BY <2>1, <2>2
<1> QED
  BY <1>2, <1>3 DEF ActorsOK

-----------------------------------------------------------------------------
(* What the handlers do to an actor.                                        *)

LEMMA ArmFacts ==
    ASSUME NEW r, NEW S, NEW M, RecordOK(r, S, M)
    PROVE  /\ RecordOK(Arm(r), S, M)
           /\ Arm(r).life = r.life /\ Arm(r).up = r.up /\ Arm(r).state = r.state
           /\ Arm(r).dirty = r.dirty /\ Arm(r).auto = r.auto /\ Arm(r).task = r.task
BY DEF RecordOK, Arm

LEMMA IdleOK ==
    ASSUME NEW r, NEW S, NEW M, RecordOK(r, S, M)
    PROVE  /\ RecordOK([r EXCEPT !.task = Idle], S, M)
           /\ [r EXCEPT !.task = Idle].life = r.life
           /\ [r EXCEPT !.task = Idle].up = r.up
           /\ [r EXCEPT !.task = Idle].state = r.state
           /\ [r EXCEPT !.task = Idle].dirty = r.dirty
           /\ [r EXCEPT !.task = Idle].auto = r.auto
           /\ [r EXCEPT !.task = Idle].task = Idle
BY DEF RecordOK, AllTasks

\* Once there is a snapshot, the task may be any.
LEMMA TaskOK ==
    ASSUME NEW r, NEW S, NEW M, RecordOK(r, S, M), r.state # NoHash, NEW t \in AllTasks(M)
    PROVE  /\ RecordOK([r EXCEPT !.task = t], S, M)
           /\ [r EXCEPT !.task = t].life = r.life
           /\ [r EXCEPT !.task = t].up = r.up
           /\ [r EXCEPT !.task = t].state = r.state
           /\ [r EXCEPT !.task = t].dirty = r.dirty
           /\ [r EXCEPT !.task = t].auto = r.auto
           /\ [r EXCEPT !.task = t].task = t
BY DEF RecordOK

LEMMA DirtyOK ==
    ASSUME NEW r, NEW S, NEW M, RecordOK(r, S, M), NEW b \in BOOLEAN
    PROVE  /\ RecordOK([r EXCEPT !.dirty = b], S, M)
           /\ [r EXCEPT !.dirty = b].life = r.life
           /\ [r EXCEPT !.dirty = b].up = r.up
           /\ [r EXCEPT !.dirty = b].state = r.state
           /\ [r EXCEPT !.dirty = b].dirty = b
           /\ [r EXCEPT !.dirty = b].auto = r.auto
           /\ [r EXCEPT !.dirty = b].task = r.task
BY DEF RecordOK

LEMMA AutoOK ==
    ASSUME NEW r, NEW S, NEW M, RecordOK(r, S, M), NEW b
    PROVE  /\ RecordOK([r EXCEPT !.auto = b], S, M)
           /\ [r EXCEPT !.auto = b].life = r.life
           /\ [r EXCEPT !.auto = b].up = r.up
           /\ [r EXCEPT !.auto = b].state = r.state
           /\ [r EXCEPT !.auto = b].dirty = r.dirty
           /\ [r EXCEPT !.auto = b].task = r.task
BY DEF RecordOK

LEMMA LifeOK ==
    ASSUME NEW r, NEW S, NEW M, RecordOK(r, S, M), r.state # NoHash, NEW life
    PROVE  /\ RecordOK([r EXCEPT !.life = life], S, M)
           /\ [r EXCEPT !.life = life].life = life
           /\ [r EXCEPT !.life = life].up = r.up
           /\ [r EXCEPT !.life = life].state = r.state
           /\ [r EXCEPT !.life = life].dirty = r.dirty
           /\ [r EXCEPT !.life = life].auto = r.auto
           /\ [r EXCEPT !.life = life].task = r.task
BY DEF RecordOK

LEMMA StateOK ==
    ASSUME NEW r, NEW S, NEW M, RecordOK(r, S, M), NEW s, Snap(s, S)
    PROVE  /\ RecordOK([r EXCEPT !.state = s], S, M)
           /\ [r EXCEPT !.state = s].life = r.life
           /\ [r EXCEPT !.state = s].up = r.up
           /\ [r EXCEPT !.state = s].state = s
           /\ [r EXCEPT !.state = s].dirty = r.dirty
           /\ [r EXCEPT !.state = s].auto = r.auto
           /\ [r EXCEPT !.state = s].task = r.task
<1>1. s # NoHash
  BY SnapIsNoHash
<1> QED
  BY <1>1 DEF RecordOK

\* What mark_as_dirty makes of an actor.
Marked(d, r, q, from) ==
    /\ q.life = r.life /\ q.up = r.up /\ q.state = r.state /\ q.dirty = TRUE
    /\ q.auto = r.auto
    /\ r.dirty \/ r.up = None \/ actor[r.up].life = "stopped" => q.task = Idle
    /\ \/ r.dirty \/ r.up = None \/ actor[r.up].life = "stopped"
       \/ q.task = Telling("mark_as_dirty", d, None, "arm", from)

LEMMA MarkFacts ==
    ASSUME NEW r, NEW S, NEW M, RecordOK(r, S, M), r.state # NoHash, r.task = Idle,
           NEW d, NEW from \in Senders, Msg("mark_as_dirty", d, None, None) \in M
    PROVE  /\ RecordOK(MarkAsDirty(d, r, from), S, M)
           /\ Marked(d, r, MarkAsDirty(d, r, from), from)
<1> DEFINE r1 == [r EXCEPT !.dirty = TRUE]
           t == Telling("mark_as_dirty", d, None, "arm", from)
<1>1. /\ RecordOK(r1, S, M) /\ r1.life = r.life /\ r1.up = r.up /\ r1.state = r.state
      /\ r1.dirty = TRUE /\ r1.auto = r.auto /\ r1.task = r.task
  BY DirtyOK
<1>2. CASE r.dirty \/ r.up = None \/ actor[r.up].life = "stopped"
  BY <1>1, <1>2, ArmFacts DEF MarkAsDirty, Marked
<1>3. CASE ~(r.dirty \/ r.up = None \/ actor[r.up].life = "stopped")
  <2>1. t \in AllTasks(M)
    BY DEF Telling, AllTasks, TellTasks
  <2>2. MarkAsDirty(d, r, from) = [r1 EXCEPT !.task = t]
    BY <1>3 DEF MarkAsDirty
  <2> HIDE DEF r1, t
  <2>3. RecordOK(r1, S, M) /\ r1.state # NoHash
    BY <1>1
  <2>4. /\ RecordOK([r1 EXCEPT !.task = t], S, M)
        /\ [r1 EXCEPT !.task = t].life = r1.life
        /\ [r1 EXCEPT !.task = t].up = r1.up
        /\ [r1 EXCEPT !.task = t].state = r1.state
        /\ [r1 EXCEPT !.task = t].dirty = r1.dirty
        /\ [r1 EXCEPT !.task = t].auto = r1.auto
        /\ [r1 EXCEPT !.task = t].task = t
    BY <2>1, <2>3, TaskOK
  <2>5. t = Telling("mark_as_dirty", d, None, "arm", from)
    BY DEF t
  <2> QED
    BY <1>1, <1>3, <2>2, <2>4, <2>5, Zenon DEF Marked
<1> QED
  BY <1>2, <1>3

\* An entry of a snapshot is replaced.
Replaced(s, q, e, h) ==
    /\ DOMAIN q.dirs = DOMAIN s.dirs
    /\ \A f \in DOMAIN s.dirs : q.dirs[f] = IF f = e THEN h ELSE s.dirs[f]

LEMMA EntryOK ==
    ASSUME NEW s, NEW S, Snap(s, S), NEW e, NEW h \in S
    PROVE  /\ Snap([s EXCEPT !.dirs[e] = h], S)
           /\ Replaced(s, [s EXCEPT !.dirs[e] = h], e, h)
<1> DEFINE q == [s EXCEPT !.dirs[e] = h]
<1>1. s = [files |-> s.files, dirs |-> s.dirs]
  BY DEF Snap, Snapshot
<1>2. q = [files |-> s.files, dirs |-> [s.dirs EXCEPT ![e] = h]]
  BY <1>1
<1>3. q.files = s.files /\ q.dirs = [s.dirs EXCEPT ![e] = h]
  BY <1>2
<1>4. q.dirs \in [DOMAIN s.dirs -> S]
  BY <1>3 DEF Snap
<1> QED
  BY <1>2, <1>3, <1>4 DEF Snap, Snapshot, Replaced

LEMMA WaitOK ==
    ASSUME NEW M, NEW t \in AllTasks(M), NEW d
    PROVE  /\ [t EXCEPT !.wait = @ \ {d}] \in AllTasks(M)
           /\ t.op \notin {"save", "shutdown"} => [t EXCEPT !.wait = @ \ {d}] = t
           /\ t.op \in {"save", "shutdown"} =>
                 /\ t \in WorkTasks
                 /\ [t EXCEPT !.wait = @ \ {d}] =
                      [op |-> t.op, from |-> t.from, todo |-> t.todo, wait |-> t.wait \ {d}]
           /\ [t EXCEPT !.wait = @ \ {d}].op = t.op
<1> DEFINE q == [t EXCEPT !.wait = @ \ {d}]
<1>1. CASE t \in WorkTasks
  <2>1. t = [op |-> t.op, from |-> t.from, todo |-> t.todo, wait |-> t.wait]
    BY <1>1 DEF WorkTasks
  <2>2. q = [op |-> t.op, from |-> t.from, todo |-> t.todo, wait |-> t.wait \ {d}]
    BY <2>1
  <2>3. q \in WorkTasks /\ t.op \in {"save", "shutdown"}
    BY <1>1, <2>2 DEF WorkTasks
  <2> QED
    BY <1>1, <2>2, <2>3 DEF AllTasks
<1>2. CASE t \in TellTasks(M)
  <2>1. t = [op |-> t.op, msg |-> t.msg, then |-> t.then, from |-> t.from] /\ t.op = "tell"
    BY <1>2 DEF TellTasks
  <2>2. q = t
    BY <2>1
  <2> QED
    BY <2>1, <2>2
<1>3. CASE t = Idle
  <2>1. q = t
    BY <1>3 DEF Idle
  <2> QED
    BY <1>3, <2>1 DEF Idle
<1> QED
  BY <1>1, <1>2, <1>3 DEF AllTasks

\* What a child's answer does to the parent, and only to it.
AnswerTo(acts, new, p, d, hash) ==
    /\ \A f \in Dir : f # p => new[f] = acts[f]
    /\ p \in Dir =>
         /\ new[p].life = acts[p].life /\ new[p].up = acts[p].up
         /\ new[p].auto = acts[p].auto /\ new[p].timer = acts[p].timer
         /\ new[p].task = [acts[p].task EXCEPT !.wait = @ \ {d}]
         /\ acts[p].dirty => new[p].dirty
         /\ hash = NoHash => new[p].dirty = acts[p].dirty
         /\ \/ new[p].state = acts[p].state
            \/ /\ acts[p].state # NoHash /\ d \in DOMAIN acts[p].state.dirs
               /\ hash # NoHash
               /\ new[p].state = [acts[p].state EXCEPT !.dirs[d] = hash]

LEMMA ToParentFacts ==
    ASSUME NEW acts, NEW S, NEW M, ActorsOK(acts, S, M), NEW p, NEW d, NEW hash,
           hash = NoHash \/ hash \in S
    PROVE  /\ ActorsOK(ToParent(acts, p, d, hash), S, M)
           /\ AnswerTo(acts, ToParent(acts, p, d, hash), p, d, hash)
<1> DEFINE r0 == acts[p]
           t == [r0.task EXCEPT !.wait = @ \ {d}]
           r == [r0 EXCEPT !.task.wait = @ \ {d}]
           b == r.dirty \/ r.state.dirs[d] # hash
           s == [r.state EXCEPT !.dirs[d] = hash]
           r2 == [r EXCEPT !.dirty = @ \/ r.state.dirs[d] # hash, !.state.dirs[d] = hash]
           skip == hash = NoHash \/ d \notin DOMAIN r.state.dirs
<1>1. CASE p \notin Dir
  BY <1>1 DEF ToParent, AnswerTo
<1>2. CASE p \in Dir
  <2>0. acts = [f \in Dir |-> acts[f]] /\ RecordOK(r0, S, M)
    BY <1>2 DEF ActorsOK
  <2>1. t \in AllTasks(M)
    <3>1. r0.task \in AllTasks(M)
      BY <2>0 DEF RecordOK
    <3> QED
      BY <3>1, WaitOK
  <2>2. /\ r = [r0 EXCEPT !.task = t]
        /\ r.life = r0.life /\ r.up = r0.up /\ r.state = r0.state /\ r.dirty = r0.dirty
        /\ r.auto = r0.auto /\ r.task = t /\ r.timer = r0.timer
    BY <2>0 DEF RecordOK
  <2>3. RecordOK(r, S, M)
    <3>1. CASE r0.state = NoHash
      <4>1. r0.task = Idle
        BY <2>0, <3>1 DEF RecordOK
      <4>2. t = r0.task
        BY <4>1 DEF Idle
      <4>3. r = r0
        BY <2>0, <2>2, <4>2 DEF RecordOK
      <4> QED
        BY <2>0, <4>3
    <3>2. CASE r0.state # NoHash
      BY <2>0, <2>1, <2>2, <3>2, TaskOK
    <3> QED
      BY <3>1, <3>2
  <2> DEFINE new == ToParent(acts, p, d, hash)
  <2>4. new = [acts EXCEPT ![p] = IF skip THEN r ELSE r2]
    BY <1>2 DEF ToParent
  <2> HIDE DEF r, r2, s, b, new
  <2>5. CASE skip
    <3>1. new = [acts EXCEPT ![p] = r]
      BY <2>4, <2>5
    <3>2. ActorsOK(new, S, M)
      BY <2>3, <3>1, ReplaceOK
    <3>3. new[p] = r /\ \A f \in Dir : f # p => new[f] = acts[f]
      BY <1>2, <2>0, <3>1
    <3> QED
      BY <1>2, <2>2, <3>2, <3>3 DEF new, AnswerTo
  <2>6. CASE ~skip /\ r.state = NoHash
    <3>1. s = r.state
      BY <2>6 DEF NoHash, s
    <3>2. /\ r2 = [r EXCEPT !.dirty = b]
          /\ r2.timer = r.timer
      BY <2>3, <3>1 DEF RecordOK, r2, b, s
    <3>3. b \in BOOLEAN
      BY <2>3 DEF RecordOK, b
    <3>4. /\ RecordOK(r2, S, M) /\ r2.life = r.life /\ r2.up = r.up /\ r2.state = r.state
          /\ r2.dirty = b /\ r2.auto = r.auto /\ r2.task = r.task
      BY <2>3, <3>2, <3>3, DirtyOK
    <3>5. new = [acts EXCEPT ![p] = r2]
      BY <2>4, <2>6
    <3>6. ActorsOK(new, S, M)
      BY <3>4, <3>5, ReplaceOK
    <3>7. new[p] = r2 /\ \A f \in Dir : f # p => new[f] = acts[f]
      BY <1>2, <2>0, <3>5
    <3> QED
      BY <1>2, <2>2, <2>6, <3>2, <3>4, <3>6, <3>7 DEF new, b, AnswerTo
  <2>7. CASE ~skip /\ r.state # NoHash
    <3>1. Snap(r.state, S) /\ hash \in S
      BY <2>3, <2>7 DEF RecordOK
    <3>2. Snap(s, S)
      BY <3>1, EntryOK DEF s
    <3>3. b \in BOOLEAN
      BY <2>3 DEF RecordOK, b
    <3> DEFINE r1 == [r EXCEPT !.dirty = b]
    <3>4. /\ RecordOK(r1, S, M) /\ r1.life = r.life /\ r1.up = r.up /\ r1.state = r.state
          /\ r1.dirty = b /\ r1.auto = r.auto /\ r1.task = r.task /\ r1.timer = r.timer
      <4>1. r1.timer = r.timer
        BY <2>3 DEF RecordOK
      <4> QED
        BY <2>3, <3>3, <4>1, DirtyOK
    <3>5. r2 = [r1 EXCEPT !.state = s] /\ r2.timer = r.timer
      BY <2>3 DEF RecordOK, r2, b, s
    <3> HIDE DEF r1
    <3>6. /\ RecordOK(r2, S, M) /\ r2.life = r1.life /\ r2.up = r1.up /\ r2.state = s
          /\ r2.dirty = r1.dirty /\ r2.auto = r1.auto /\ r2.task = r1.task
      BY <3>2, <3>4, <3>5, StateOK
    <3>7. new = [acts EXCEPT ![p] = r2]
      BY <2>4, <2>7
    <3>8. ActorsOK(new, S, M)
      BY <3>6, <3>7, ReplaceOK
    <3>9. new[p] = r2 /\ \A f \in Dir : f # p => new[f] = acts[f]
      BY <1>2, <2>0, <3>7
    <3>10. /\ r2.life = r0.life /\ r2.up = r0.up /\ r2.auto = r0.auto
           /\ r2.timer = r0.timer /\ r2.task = t /\ (r0.dirty => r2.dirty)
           /\ r2.state = s /\ s = [r0.state EXCEPT !.dirs[d] = hash]
      BY <2>2, <3>4, <3>5, <3>6 DEF s, b
    <3> QED
      BY <1>2, <2>2, <2>7, <3>8, <3>9, <3>10 DEF new, AnswerTo
  <2> QED
    BY <2>5, <2>6, <2>7
<1> QED
  BY <1>1, <1>2

LEMMA SpawnOK ==
    ASSUME NEW S, NEW M, NEW life, NEW p, NEW state, NEW auto,
           state = NoHash \/ Snap(state, S),
           state = NoHash => life \in {"none", "loading"} /\ (life = "none" \/ p # None)
    PROVE  RecordOK(Spawn(life, p, state, auto), S, M)
BY DEF RecordOK, Spawn, AllTasks

LEMMA FreshOK ==
    ASSUME NEW S, NEW M, NEW file, Snap(file, S)
    PROVE  ActorsOK(FreshActors(file), S, M)
<1>1. RecordOK(NotOpen, S, M)
  BY SpawnOK DEF NotOpen
<1>2. RecordOK(Spawn("loading", None, file, FALSE), S, M)
  BY SpawnOK, SnapIsNoHash
<1> QED
  BY <1>1, <1>2, Zenon DEF ActorsOK, FreshActors

LEMMA SendOK ==
    ASSUME NEW M, NEW b \in [Dir -> Seq(M)], NEW e, NEW m \in M
    PROVE  [b EXCEPT ![e] = Append(@, m)] \in [Dir -> Seq(M)]
<1>1. \A f \in Dir : Append(b[f], m) \in Seq(M)
  OBVIOUS
<1> QED
  BY <1>1

LEMMA TakeOK ==
    ASSUME NEW M, box \in [Dir -> Seq(M)], NEW d \in Dir, box[d] # <<>>
    PROVE  /\ Take(d) \in [Dir -> Seq(M)]
           /\ Head(box[d]) \in M
BY DEF Take

\* A save only adds snapshots.
LEMMA PersistFacts ==
    ASSUME Shapes, NEW d \in Dir, actor[d].state # NoHash, NEW ok, Persist(d, ok),
           config' = config
    PROVE  /\ stored \subseteq stored' /\ StoredOK'
           /\ Known \subseteq Known' /\ Messages \subseteq Messages'
           /\ ok => actor[d].state \in stored'
<1>1. stored \subseteq stored' /\ (ok => actor[d].state \in stored')
  BY DEF Persist
<1>2. Known \subseteq Known' /\ Messages \subseteq Messages'
  BY <1>1 DEF Known, Messages, WithoutCreate
<1>3. Snap(actor[d].state, Known)
  BY DEF Shapes, ActorsOK, RecordOK
<1>4. \A s \in stored' \cup {rootFile'} : s \in stored \cup {rootFile} \/ s = actor[d].state
  BY DEF Persist
<1>5. \A s \in stored' \cup {rootFile'} : Snap(s, Known)
  BY <1>3, <1>4 DEF Shapes, StoredOK
<1>6. StoredOK'
  BY <1>2, <1>5, SnapGrows DEF StoredOK
<1> QED
  BY <1>1, <1>2, <1>6

LEMMA SameStore ==
    ASSUME Shapes, UNCHANGED <<stored, rootFile, config>>
    PROVE  StoredOK' /\ Known' = Known /\ Messages' = Messages
<1>1. Known' = Known /\ Messages' = Messages
  BY DEF Known, Messages, WithoutCreate
<1> QED
  BY <1>1 DEF Shapes, StoredOK

LEMMA ShapesStay ==
    ASSUME Shapes, UNCHANGED <<stored, rootFile, config>>, next' \in [Dir -> Nat],
           box' \in [Dir -> Seq(Messages)], ActorsOK(actor', Known, Messages)
    PROVE  Shapes'
BY SameStore DEF Shapes

\* The same when the actors and mailboxes fit the new store.
LEMMA ShapesSaved ==
    ASSUME Shapes, UNCHANGED <<config, next>>, StoredOK',
           box' \in [Dir -> Seq(Messages')], ActorsOK(actor', Known', Messages')
    PROVE  Shapes'
BY DEF Shapes

-----------------------------------------------------------------------------
LEMMA ShapesInit == Init => Shapes
<1> SUFFICES ASSUME Init PROVE Shapes
  OBVIOUS
<1>1. config \in Configs /\ next \in [Dir -> Nat] /\ box \in [Dir -> Seq(Messages)]
  BY DEF Init, NoFiles
<1> DEFINE tree == Initial[config.exists]
<1>2. Root \in config.exists /\ config.exists \subseteq Dir
  BY <1>1, ConfigAssumption DEF Config
<1>3. ASSUME NEW d \in config.exists PROVE Snap(tree[d], Known)
  <2>1. tree[d] = Snapshot(NoFiles, [e \in ChildrenIn(config.exists, d) |-> tree[e]])
    BY <1>1, ConfigAssumption
  <2>2. \A e \in ChildrenIn(config.exists, d) : tree[e] \in Known
    BY DEF ChildrenIn, Known, Init
  <2>3. ChildrenIn(config.exists, d) \subseteq Dir
    BY <1>2 DEF ChildrenIn
  <2> HIDE DEF tree
  <2> QED
    BY <2>1, <2>2, <2>3 DEF Snap, Snapshot
<1>4. StoredOK
  BY <1>2, <1>3 DEF StoredOK, Init
<1>5. ActorsOK(actor, Known, Messages)
  BY <1>2, <1>3, FreshOK DEF Init
<1> QED
  BY <1>1, <1>4, <1>5 DEF Shapes

LEMMA ShapesClient == Shapes /\ ClientStep => Shapes'
<1> SUFFICES ASSUME Shapes, ClientStep PROVE Shapes'
  OBVIOUS
<1>0. config.dirs \subseteq Dir /\ config \in Config
  BY ConfigAssumption DEF Shapes, Config
<1>1. ASSUME NEW op \in Ops, NEW d \in Dir, NEW arg \in Nat, NEW from \in Client \cup {None},
             op \in PathOps => d \in config.dirs, op = "create_dir" => d # Root,
             op \notin Answered => from = None, Post(op, d, arg, from)
      PROVE  /\ box' \in [Dir -> Seq(Messages)]
             /\ UNCHANGED <<stored, rootFile, config, actor>>
  <2>1. Msg(op, d, arg, from) \in Messages
    BY <1>1 DEF Msg, Messages, Senders, Post, Ops, Answered
  <2> QED
    BY <1>1, <2>1, SendOK DEF Post, Shapes
<1>2. ASSUME NEW d \in config.dirs, next[d] < MaxPuts,
             next' = [next EXCEPT ![d] = @ + 1]
      PROVE  next' \in [Dir -> Nat] /\ next'[d] \in Nat
  BY <1>0, <1>2 DEF Shapes
<1>3. ASSUME UNCHANGED <<stored, rootFile, config, actor>>, next' \in [Dir -> Nat],
             box' \in [Dir -> Seq(Messages)]
      PROVE  Shapes'
  BY <1>3, ShapesStay DEF Shapes
<1>4. ASSUME NEW c \in Client, NEW d \in config.dirs, FilePutSync(c, d) PROVE Shapes'
  BY <1>0, <1>1, <1>2, <1>3, <1>4 DEF FilePutSync, Call, Ops, Answered
<1>5. ASSUME NEW c \in Client, NEW d \in config.dirs, FileGet(c, d) PROVE Shapes'
  BY <1>0, <1>1, <1>3, <1>5 DEF FileGet, Call, Ops, Answered, Shapes
<1>6. ASSUME NEW c \in Client, NEW d \in config.dirs, CreateDir(c, d) PROVE Shapes'
  BY <1>0, <1>1, <1>3, <1>6 DEF CreateDir, Call, Ops, Answered, Shapes
<1>7. ASSUME NEW d \in config.dirs, FilePut(d) PROVE Shapes'
  BY <1>0, <1>1, <1>2, <1>3, <1>7 DEF FilePut, Ops, Answered
<1>8. ASSUME NEW c \in Client, Save(c) \/ Shutdown(c) PROVE Shapes'
  BY <1>1, <1>3, <1>8, TreeAssumption DEF Save, Shutdown, Call, Ops, Answered, Shapes, PathOps
<1>9. CASE WithAutosave
  BY <1>1, <1>3, <1>9, TreeAssumption DEF WithAutosave, Ops, Answered, Shapes, PathOps
<1>10. CASE Drop
  BY <1>3, <1>10 DEF Drop, Shapes
<1>11. CASE Crash
  <2>1. Snap(rootFile, Known)
    BY DEF Shapes, StoredOK
  <2>2. ActorsOK(actor', Known, Messages)
    BY <1>11, <2>1, FreshOK DEF Crash
  <2> QED
    BY <1>11, <2>2, ShapesStay DEF Crash, Shapes
<1> QED
  BY <1>4, <1>5, <1>6, <1>7, <1>8, <1>9, <1>10, <1>11 DEF ClientStep

-----------------------------------------------------------------------------
LEMMA FilesOK ==
    ASSUME NEW s, NEW S, Snap(s, S), NEW f, NEW n
    PROVE  /\ Snap([s EXCEPT !.files[f] = n], S)
           /\ [s EXCEPT !.files[f] = n].dirs = s.dirs
BY DEF Snap, Snapshot

\* An actor that does something has a snapshot.
LEMMA Busy ==
    ASSUME Shapes, NEW d \in Dir,
           \/ actor[d].life \in {"creating", "running"}
           \/ actor[d].task.op \in {"tell", "save", "shutdown"}
    PROVE  /\ RecordOK(actor[d], Known, Messages)
           /\ actor[d].state # NoHash /\ Snap(actor[d].state, Known)
<1>1. RecordOK(actor[d], Known, Messages)
  BY DEF Shapes, ActorsOK
<1>2. actor[d].state # NoHash
  BY <1>1 DEF RecordOK, Idle
<1> QED
  BY <1>1, <1>2 DEF RecordOK

\* What a free actor takes from its mailbox.
LEMMA Receiving ==
    ASSUME Shapes, NEW d \in Dir, NEW ops, Receives(d, ops)
    PROVE  /\ Take(d) \in [Dir -> Seq(Messages)]
           /\ Head(box[d]) \in Messages /\ Head(box[d]).op \in ops
           /\ actor[d].life = "running" /\ actor[d].task = Idle
           /\ RecordOK(actor[d], Known, Messages)
           /\ actor[d].state # NoHash /\ Snap(actor[d].state, Known)
           /\ Msg("mark_as_dirty", d, None, None) \in Messages
<1>1. Take(d) \in [Dir -> Seq(Messages)] /\ Head(box[d]) \in Messages
  BY TakeOK DEF Shapes, Receives
<1>2. Msg("mark_as_dirty", d, None, None) \in Messages
  BY DEF Msg, Messages, Senders, PathOps
<1> QED
  BY <1>1, <1>2, Busy DEF Receives, Free

LEMMA ShapesPublish ==
    ASSUME Shapes, NEW d \in Dir, Publish(d)
    PROVE  Shapes'
<1>1. RecordOK(actor[d], Known, Messages) /\ actor[d].state # NoHash
  BY Busy DEF Publish
<1>2. PICK ok \in Outcome :
        /\ Persist(d, ok)
        /\ actor' = [actor EXCEPT ![d] =
             [@ EXCEPT !.life = "running",
                       !.task = IF ok /\ actor[actor[d].up].life # "stopped"
                                THEN Telling("update_ref", d, actor[d].state, "loop", None)
                                ELSE Idle]]
  BY DEF Publish
<1>3. config' = config /\ next' = next /\ box' = box
  BY DEF Publish, ClientsOnly
<1>4. /\ StoredOK' /\ Known \subseteq Known' /\ Messages \subseteq Messages'
      /\ ok => actor[d].state \in stored'
  BY <1>1, <1>2, <1>3, PersistFacts
<1> DEFINE t == IF ok /\ actor[actor[d].up].life # "stopped"
                THEN Telling("update_ref", d, actor[d].state, "loop", None) ELSE Idle
           r == [actor[d] EXCEPT !.life = "running", !.task = t]
<1>5. t \in AllTasks(Messages')
  <2>1. CASE ok
    <3>1. Msg("update_ref", d, actor[d].state, None) \in Messages'
      BY <1>4, <2>1 DEF Msg, Messages, Senders, PathOps
    <3> QED
      BY <3>1 DEF Telling, AllTasks, TellTasks, Senders
  <2>2. CASE ~ok
    BY <2>2 DEF AllTasks
  <2> QED
    BY <2>1, <2>2
<1>6. RecordOK(actor[d], Known', Messages')
  BY <1>1, <1>4, RecordGrows
<1> HIDE DEF t
<1>7. RecordOK(r, Known', Messages')
  <2> DEFINE q == [actor[d] EXCEPT !.life = "running"]
  <2>1. RecordOK(q, Known', Messages') /\ q.state # NoHash
    BY <1>1, <1>6, LifeOK
  <2>2. r = [q EXCEPT !.task = t]
    BY <1>1 DEF RecordOK
  <2> HIDE DEF q
  <2> QED
    BY <1>5, <2>1, <2>2, TaskOK
<1>8. ActorsOK(actor, Known', Messages')
  BY <1>4, ActorsGrow DEF Shapes
<1>9. actor' = [actor EXCEPT ![d] = r]
  BY <1>2 DEF t, Shapes, ActorsOK
<1> HIDE DEF r
<1>10. ActorsOK(actor', Known', Messages')
  BY <1>7, <1>8, <1>9, ReplaceOK
<1>11. box' \in [Dir -> Seq(Messages')]
  BY <1>3, <1>4, BoxGrows DEF Shapes
<1> QED
  BY <1>3, <1>4, <1>10, <1>11, ShapesSaved

LEMMA ShapesLoad ==
    ASSUME Shapes, NEW d \in Dir, Load(d)
    PROVE  Shapes'
<1>1. RecordOK(actor[d], Known, Messages) /\ actor = [e \in Dir |-> actor[e]]
  BY DEF Shapes, ActorsOK
<1>2. UNCHANGED <<stored, rootFile, config, next>> /\ next \in [Dir -> Nat]
  BY DEF Load, ClientsOnly, Shapes
<1>3. CASE /\ actor' = [actor EXCEPT ![d].life = "running"]
           /\ UNCHANGED box
           /\ IsRoot(d) \/ actor[d].state \in stored
  <2>1. actor[d].state # NoHash
    BY <1>1, <1>3, SnapIsNoHash DEF RecordOK, IsRoot, Load, Shapes, StoredOK
  <2>2. RecordOK([actor[d] EXCEPT !.life = "running"], Known, Messages)
    BY <1>1, <2>1 DEF RecordOK
  <2>3. ActorsOK(actor', Known, Messages)
    BY <1>1, <1>3, <2>2, ReplaceOK DEF Shapes
  <2> QED
    BY <1>2, <1>3, <2>3, ShapesStay DEF Shapes
<1>4. CASE /\ actor' = ToParent([actor EXCEPT ![d].life = "stopped"],
                                IF actor[d].up \in Dropped(d) THEN actor[d].up ELSE None,
                                d, NoHash)
           /\ box' = [box EXCEPT ![d] = <<>>]
  <2>1. RecordOK([actor[d] EXCEPT !.life = "stopped"], Known, Messages)
    BY <1>1 DEF RecordOK, Load
  <2>2. ActorsOK([actor EXCEPT ![d].life = "stopped"], Known, Messages)
    BY <1>1, <2>1, ReplaceOK DEF Shapes
  <2>3. ActorsOK(actor', Known, Messages)
    BY <1>4, <2>2, ToParentFacts
  <2>4. box' \in [Dir -> Seq(Messages)]
    BY <1>4 DEF Shapes
  <2> QED
    BY <1>2, <2>3, <2>4, ShapesStay
<1> QED
  BY <1>3, <1>4 DEF Load

LEMMA ShapesForward ==
    ASSUME Shapes, NEW d \in Dir, Forward(d)
    PROVE  Shapes'
<1> DEFINE e == FirstOf(d, Head(box[d]))
           new == Spawn("loading", d, actor[d].state.dirs[e], actor[d].auto)
<1>1. /\ Take(d) \in [Dir -> Seq(Messages)] /\ Head(box[d]) \in Messages
      /\ Snap(actor[d].state, Known)
  BY Receiving DEF Forward
<1>2. UNCHANGED <<stored, rootFile, config, next>> /\ next \in [Dir -> Nat]
  BY DEF Forward, ClientsOnly, Shapes
<1>3. e \in DOMAIN actor[d].state.dirs
  BY DEF Forward
<1>4. box' = Take(d) \/ box' = [Take(d) EXCEPT ![e] = Append(@, Head(box[d]))]
  BY DEF Forward
<1>5. actor' = actor \/ actor' = [actor EXCEPT ![e] = new]
  BY DEF Forward
<1> HIDE DEF e
<1>6. box' \in [Dir -> Seq(Messages)]
  <2>1. [Take(d) EXCEPT ![e] = Append(@, Head(box[d]))] \in [Dir -> Seq(Messages)]
    BY <1>1, SendOK
  <2> QED
    BY <1>1, <1>4, <2>1
<1>7. RecordOK(new, Known, Messages)
  <2>1. actor[d].state.dirs[e] \in Known
    BY <1>1, <1>3 DEF Snap
  <2>2. actor[d].state.dirs[e] = NoHash \/ Snap(actor[d].state.dirs[e], Known)
    BY <2>1 DEF Known, Shapes, StoredOK
  <2>3. d # None
    BY TreeAssumption
  <2> QED
    BY <2>2, <2>3, SpawnOK
<1> HIDE DEF new
<1>8. ActorsOK(actor', Known, Messages)
  <2>1. ActorsOK([actor EXCEPT ![e] = new], Known, Messages)
    BY <1>7, ReplaceOK DEF Shapes
  <2> QED
    BY <1>5, <2>1 DEF Shapes
<1> QED
  BY <1>2, <1>6, <1>8, ShapesStay

LEMMA ShapesFileOp ==
    ASSUME Shapes, NEW d \in Dir, FileOp(d)
    PROVE  Shapes'
<1> DEFINE m == Head(box[d])
           r == IF m.op = "file_get" THEN actor[d]
                ELSE [actor[d] EXCEPT !.state.files[m.dir] = m.arg]
<1>1. /\ Take(d) \in [Dir -> Seq(Messages)] /\ actor[d].task = Idle
      /\ RecordOK(actor[d], Known, Messages) /\ Snap(actor[d].state, Known)
      /\ actor[d].state # NoHash /\ Msg("mark_as_dirty", d, None, None) \in Messages
  BY Receiving DEF FileOp
<1>2. /\ UNCHANGED <<stored, rootFile, config, next>> /\ next \in [Dir -> Nat]
      /\ box' = Take(d) /\ actor' = [actor EXCEPT ![d] = MarkAsDirty(d, r, None)]
  BY DEF FileOp, ClientsOnly, Shapes
<1>3. RecordOK(r, Known, Messages) /\ r.state # NoHash /\ r.task = Idle
  <2> DEFINE s == [actor[d].state EXCEPT !.files[m.dir] = m.arg]
  <2>1. Snap(s, Known) /\ s # NoHash
    BY <1>1, FilesOK, SnapIsNoHash
  <2>2. [actor[d] EXCEPT !.state.files[m.dir] = m.arg] = [actor[d] EXCEPT !.state = s]
    BY <1>1 DEF RecordOK
  <2>3. CASE m.op = "file_get"
    BY <1>1, <2>3
  <2> HIDE DEF s
  <2>4. CASE m.op # "file_get"
    <3>1. r = [actor[d] EXCEPT !.state = s]
      BY <2>2, <2>4
    <3> HIDE DEF r
    <3> QED
      BY <1>1, <2>1, <3>1, StateOK
  <2> QED
    BY <2>3, <2>4
<1> HIDE DEF r
<1>4. RecordOK(MarkAsDirty(d, r, None), Known, Messages)
  BY <1>1, <1>3, MarkFacts DEF Senders
<1>5. ActorsOK(actor', Known, Messages)
  BY <1>2, <1>4, ReplaceOK DEF Shapes
<1> QED
  BY <1>1, <1>2, <1>5, ShapesStay

LEMMA ShapesCreateDirAt ==
    ASSUME Shapes, NEW d \in Dir, CreateDirAt(d)
    PROVE  Shapes'
<1> DEFINE m == Head(box[d])
           e == IF Above(d, m.dir) THEN m.dir ELSE Blank[d]
           old == actor[d].state
           moved == ExtractChild(old.files, e)
           stay == [f \in Dir |-> IF e \in Up[f] THEN 0 ELSE old.files[f]]
           none == e \notin Dir \ DOMAIN old.dirs
           s == Snapshot(stay, [f \in DOMAIN old.dirs \cup {e} |->
                                    IF f = e THEN NoHash ELSE old.dirs[f]])
           q == [actor[d] EXCEPT !.state = s]
           new == Spawn("creating", d, Snapshot(moved, <<>>), actor[d].auto)
<1>1. /\ Take(d) \in [Dir -> Seq(Messages)] /\ actor[d].task = Idle
      /\ m \in Messages /\ m.op = "create_dir"
      /\ RecordOK(actor[d], Known, Messages) /\ Snap(actor[d].state, Known)
      /\ actor[d].state # NoHash /\ Msg("mark_as_dirty", d, None, None) \in Messages
  BY Receiving DEF CreateDirAt
<1>2. /\ UNCHANGED <<stored, rootFile, config, next>> /\ next \in [Dir -> Nat]
      /\ box' = Take(d)
      /\ actor' = [actor EXCEPT
                      ![d] = IF none THEN Arm(actor[d]) ELSE MarkAsDirty(d, q, m.from),
                      ![e] = IF none THEN @ ELSE new]
  BY DEF CreateDirAt, ClientsOnly, Shapes
<1>3. NoHash \in Known /\ m.from \in Senders
  BY <1>1 DEF Known, Messages, WithoutCreate, PathOps
<1>6. e # d
  BY <1>1, TreeAssumption DEF Above
<1>4. CASE none
  <2>1. RecordOK(Arm(actor[d]), Known, Messages)
    BY <1>1, ArmFacts
  <2> DEFINE acts == [actor EXCEPT ![d] = Arm(actor[d])]
  <2>2. ActorsOK(acts, Known, Messages)
    BY <2>1, ReplaceOK DEF Shapes
  <2> DEFINE x == MarkAsDirty(d, q, m.from)
             a == Arm(actor[d])
             n == none
  <2>3. actor' = [actor EXCEPT ![d] = IF n THEN a ELSE x, ![e] = IF n THEN @ ELSE new]
    BY <1>2
  <2>4. n /\ acts = [actor EXCEPT ![d] = a]
    BY <1>4
  <2> HIDE DEF e, new, x, a, acts, n
  <2>7. actor' = acts
    BY <1>6, <2>3, <2>4 DEF Shapes, ActorsOK
  <2>8. ActorsOK(actor', Known, Messages)
    BY <2>2, <2>7
  <2> QED
    BY <1>1, <1>2, <2>8, ShapesStay
<1>5. CASE ~none
  <2> HIDE DEF m, e, moved, stay
  <2>1. Snap(s, Known)
    BY <1>1, <1>3, <1>5 DEF Snap, Snapshot
  <2> HIDE DEF s
  <2>2. RecordOK(q, Known, Messages) /\ q.state # NoHash /\ q.task = Idle
    BY <1>1, <2>1, StateOK, SnapIsNoHash
  <2> HIDE DEF q
  <2>3. RecordOK(MarkAsDirty(d, q, m.from), Known, Messages)
    BY <1>1, <1>3, <2>2, MarkFacts
  <2>4. Snap(Snapshot(moved, <<>>), Known)
    BY DEF Snap, Snapshot
  <2>5. RecordOK(new, Known, Messages)
    BY <2>4, SpawnOK, SnapIsNoHash
  <2> HIDE DEF new
  <2> DEFINE acts == [actor EXCEPT ![d] = MarkAsDirty(d, q, m.from)]
  <2>6. ActorsOK(acts, Known, Messages)
    BY <2>3, ReplaceOK DEF Shapes
  <2>7. actor' = [acts EXCEPT ![e] = new]
    BY <1>2, <1>5
  <2> HIDE DEF acts
  <2>8. ActorsOK(actor', Known, Messages)
    BY <2>5, <2>6, <2>7, ReplaceOK
  <2> QED
    BY <1>1, <1>2, <2>8, ShapesStay
<1> QED
  BY <1>4, <1>5

LEMMA ShapesTell ==
    ASSUME Shapes, NEW d \in Dir, Tell(d)
    PROVE  Shapes'
<1> DEFINE t == actor[d].task
           r == [actor[d] EXCEPT !.task = Idle]
           q == CASE t.then = "loop"  -> r
                  [] t.then = "arm"   -> Arm(r)
                  [] t.then = "saved" -> [r EXCEPT !.dirty = FALSE]
<1>1. /\ UNCHANGED <<stored, rootFile, config, next>> /\ next \in [Dir -> Nat]
      /\ box' = [box EXCEPT ![actor[d].up] = Append(@, t.msg)]
      /\ actor' = [actor EXCEPT ![d] = q]
  BY DEF Tell, ClientsOnly, Shapes
<1>2. RecordOK(actor[d], Known, Messages) /\ t.op = "tell"
  BY Busy DEF Tell
<1>3. t \in TellTasks(Messages)
  BY <1>2 DEF RecordOK, AllTasks, WorkTasks, Idle
<1>4. t.msg \in Messages /\ t.then \in {"loop", "arm", "saved"}
  BY <1>3 DEF TellTasks
<1>5. RecordOK(r, Known, Messages)
  BY <1>2, IdleOK
<1> HIDE DEF t, r
<1>6. RecordOK(q, Known, Messages)
  <2>1. CASE t.then = "loop"
    BY <1>5, <2>1
  <2>2. CASE t.then = "arm"
    BY <1>5, <2>2, ArmFacts
  <2>3. CASE t.then = "saved"
    BY <1>5, <2>3, DirtyOK
  <2> QED
    BY <1>4, <2>1, <2>2, <2>3
<1> HIDE DEF q
<1>7. ActorsOK(actor', Known, Messages)
  BY <1>1, <1>6, ReplaceOK DEF Shapes
<1>8. box' \in [Dir -> Seq(Messages)]
  BY <1>1, <1>4, SendOK DEF Shapes
<1> QED
  BY <1>1, <1>7, <1>8, ShapesStay

LEMMA ShapesChildIsDirty ==
    ASSUME Shapes, NEW d \in Dir, ChildIsDirty(d)
    PROVE  Shapes'
<1>1. /\ Take(d) \in [Dir -> Seq(Messages)] /\ actor[d].task = Idle
      /\ RecordOK(actor[d], Known, Messages)
      /\ actor[d].state # NoHash /\ Msg("mark_as_dirty", d, None, None) \in Messages
  BY Receiving DEF ChildIsDirty
<1>2. /\ UNCHANGED <<stored, rootFile, config, next>> /\ next \in [Dir -> Nat]
      /\ box' = Take(d) /\ actor' = [actor EXCEPT ![d] = MarkAsDirty(d, @, None)]
  BY DEF ChildIsDirty, ClientsOnly, Shapes
<1>3. actor' = [actor EXCEPT ![d] = MarkAsDirty(d, actor[d], None)]
  BY <1>2
<1>4. RecordOK(MarkAsDirty(d, actor[d], None), Known, Messages)
  BY <1>1, MarkFacts DEF Senders
<1>5. ActorsOK(actor', Known, Messages)
  BY <1>3, <1>4, ReplaceOK DEF Shapes
<1> QED
  BY <1>1, <1>2, <1>5, ShapesStay

LEMMA ShapesUpdateDirRefHash ==
    ASSUME Shapes, NEW d \in Dir, UpdateDirRefHash(d)
    PROVE  Shapes'
<1> DEFINE m == Head(box[d])
           s == [actor[d].state EXCEPT !.dirs[m.dir] = m.arg]
           q == [actor[d] EXCEPT !.state.dirs[m.dir] = m.arg]
<1>1. /\ Take(d) \in [Dir -> Seq(Messages)] /\ actor[d].task = Idle
      /\ m \in Messages /\ m.op = "update_ref"
      /\ RecordOK(actor[d], Known, Messages) /\ Snap(actor[d].state, Known)
      /\ actor[d].state # NoHash /\ Msg("mark_as_dirty", d, None, None) \in Messages
  BY Receiving DEF UpdateDirRefHash
<1>2. /\ UNCHANGED <<stored, rootFile, config, next>> /\ next \in [Dir -> Nat]
      /\ box' = Take(d)
      /\ actor' = [actor EXCEPT ![d] = actor[d]]
         \/ actor' = [actor EXCEPT ![d] = MarkAsDirty(d, q, None)]
  BY DEF UpdateDirRefHash, ClientsOnly, Shapes
<1>3. m.arg \in Known
  BY <1>1 DEF Messages, Known
<1>4. q = [actor[d] EXCEPT !.state = s]
  BY <1>1 DEF RecordOK
<1>5. Snap(s, Known)
  BY <1>1, <1>3, EntryOK
<1> HIDE DEF s, q
<1>6. RecordOK(q, Known, Messages) /\ q.state # NoHash /\ q.task = Idle
  BY <1>1, <1>4, <1>5, StateOK, SnapIsNoHash
<1>7. RecordOK(MarkAsDirty(d, q, None), Known, Messages)
  BY <1>1, <1>6, MarkFacts DEF Senders
<1>8. ActorsOK(actor', Known, Messages)
  <2>1. ActorsOK([actor EXCEPT ![d] = MarkAsDirty(d, q, None)], Known, Messages)
    BY <1>7, ReplaceOK DEF Shapes
  <2>2. ActorsOK([actor EXCEPT ![d] = actor[d]], Known, Messages)
    BY <1>1, ReplaceOK DEF Shapes
  <2> QED
    BY <1>2, <2>1, <2>2
<1> QED
  BY <1>1, <1>2, <1>8, ShapesStay

LEMMA ShapesSaveIfDirty ==
    ASSUME Shapes, NEW d \in Dir, SaveIfDirty(d)
    PROVE  Shapes'
<1> DEFINE from == Head(box[d]).from
           t == [op |-> "save", from |-> from, todo |-> Handles(d), wait |-> {}]
<1>1. /\ Take(d) \in [Dir -> Seq(Messages)] /\ Head(box[d]) \in Messages
      /\ RecordOK(actor[d], Known, Messages) /\ actor[d].state # NoHash
  BY Receiving DEF SaveIfDirty
<1>2. /\ UNCHANGED <<stored, rootFile, config, next>> /\ next \in [Dir -> Nat]
      /\ box' = Take(d)
      /\ \/ actor' = [actor EXCEPT ![d].task = t]
         \/ actor' = ToParent([actor EXCEPT ![d] = Arm(@)], from, d, NoHash)
  BY DEF SaveIfDirty, ClientsOnly, Shapes
<1>3. CASE actor' = [actor EXCEPT ![d].task = t]
  <2>1. t \in AllTasks(Messages)
    BY <1>1 DEF AllTasks, WorkTasks, Messages, Handles
  <2> HIDE DEF t
  <2>2. actor' = [actor EXCEPT ![d] = [actor[d] EXCEPT !.task = t]]
    BY <1>3
  <2>3. ActorsOK(actor', Known, Messages)
    BY <1>1, <2>1, <2>2, TaskOK, ReplaceOK DEF Shapes
  <2> QED
    BY <1>1, <1>2, <2>3, ShapesStay
<1>4. CASE actor' = ToParent([actor EXCEPT ![d] = Arm(@)], from, d, NoHash)
  <2>1. ActorsOK([actor EXCEPT ![d] = Arm(@)], Known, Messages)
    BY <1>1, ArmFacts, ReplaceOK DEF Shapes
  <2>2. ActorsOK(actor', Known, Messages)
    BY <1>4, <2>1, ToParentFacts
  <2> QED
    BY <1>1, <1>2, <2>2, ShapesStay
<1> QED
  BY <1>2, <1>3, <1>4

LEMMA ShapesAskChild ==
    ASSUME Shapes, NEW d \in Dir, NEW e \in Dir, AskChild(d, e)
    PROVE  Shapes'
<1> DEFINE t == actor[d].task
           t1 == [t EXCEPT !.todo = @ \ {e}]
           t2 == [t EXCEPT !.todo = @ \ {e}, !.wait = @ \cup {e}]
           m == Msg(t.op, e, 0, d)
<1>1. /\ RecordOK(actor[d], Known, Messages) /\ actor[d].state # NoHash
      /\ t.op \in {"save", "shutdown"}
  BY Busy DEF AskChild
<1>2. /\ UNCHANGED <<stored, rootFile, config, next>> /\ next \in [Dir -> Nat]
      /\ \/ box' = box /\ actor' = [actor EXCEPT ![d].task.todo = @ \ {e}]
         \/ /\ actor' = [actor EXCEPT ![d].task.todo = @ \ {e}, ![d].task.wait = @ \cup {e}]
            /\ box' = [box EXCEPT ![e] = Append(@, m)]
  BY DEF AskChild, ClientsOnly, Shapes
<1>3. t \in WorkTasks
  BY <1>1 DEF RecordOK, AllTasks, TellTasks, Idle
<1>4. t1 \in AllTasks(Messages) /\ t2 \in AllTasks(Messages)
  BY <1>3 DEF WorkTasks, AllTasks
<1>5. m \in Messages
  BY <1>1 DEF Messages, Msg, Senders, PathOps, Ops, Answered
<1>6. [actor EXCEPT ![d].task.todo = @ \ {e}] = [actor EXCEPT ![d] = [actor[d] EXCEPT !.task = t1]]
  BY <1>1 DEF RecordOK
<1>7. [actor EXCEPT ![d].task.todo = @ \ {e}, ![d].task.wait = @ \cup {e}]
        = [actor EXCEPT ![d] = [actor[d] EXCEPT !.task = t2]]
  BY <1>1, <1>3 DEF RecordOK, WorkTasks, Shapes, ActorsOK
<1> HIDE DEF t1, t2, m
<1>8. ActorsOK(actor', Known, Messages)
  <2>1. \A u \in AllTasks(Messages) :
          ActorsOK([actor EXCEPT ![d] = [actor[d] EXCEPT !.task = u]], Known, Messages)
    BY <1>1, TaskOK, ReplaceOK DEF Shapes
  <2> QED
    BY <1>2, <1>4, <1>6, <1>7, <2>1
<1>9. box' \in [Dir -> Seq(Messages)]
  <2>1. [box EXCEPT ![e] = Append(@, m)] \in [Dir -> Seq(Messages)]
    BY <1>5, SendOK DEF Shapes
  <2> QED
    BY <1>2, <2>1 DEF Shapes
<1> QED
  BY <1>2, <1>8, <1>9, ShapesStay

LEMMA ShapesSaveDone ==
    ASSUME Shapes, NEW d \in Dir, SaveDone(d)
    PROVE  Shapes'
<1> DEFINE from == actor[d].task.from
           r == [actor[d] EXCEPT !.task = Idle]
           hash(ok) == IF ok /\ r.dirty THEN r.state ELSE NoHash
<1>1. RecordOK(actor[d], Known, Messages) /\ actor[d].state # NoHash
  BY Busy DEF SaveDone, ChildrenDone
<1>2. /\ RecordOK(r, Known, Messages) /\ r.state = actor[d].state
      /\ r.dirty \in BOOLEAN
  BY <1>1, IdleOK DEF RecordOK
<1>3. PICK ok \in IF r.dirty THEN Outcome ELSE {TRUE} :
        /\ Persist(d, ok /\ r.dirty)
        /\ actor' = ToParent([actor EXCEPT ![d] = Arm([r EXCEPT !.dirty = @ /\ ~ok])],
                             from, d, hash(ok))
  BY DEF SaveDone
<1>4. config' = config /\ next' = next /\ box' = box
  BY DEF SaveDone, ClientsOnly
<1>5. /\ StoredOK' /\ Known \subseteq Known' /\ Messages \subseteq Messages'
      /\ ok /\ r.dirty => actor[d].state \in stored'
  BY <1>1, <1>3, <1>4, PersistFacts
<1> HIDE DEF r
<1> DEFINE b == r.dirty /\ ~ok
           q == [r EXCEPT !.dirty = b]
<1>6. RecordOK(q, Known', Messages')
  <2>1. RecordOK(r, Known', Messages') /\ b \in BOOLEAN
    BY <1>2, <1>5, RecordGrows
  <2> HIDE DEF b
  <2> QED
    BY <2>1, DirtyOK
<1>7. ActorsOK(actor, Known', Messages')
  BY <1>5, ActorsGrow DEF Shapes
<1> DEFINE acts == [actor EXCEPT ![d] = Arm(q)]
           h == hash(ok)
<1>8. h = NoHash \/ h \in Known'
  BY <1>2, <1>5 DEF Known
<1>9. actor' = ToParent(acts, from, d, h)
  BY <1>3
<1> HIDE DEF q, h
<1>10. ActorsOK(acts, Known', Messages')
  BY <1>6, <1>7, ArmFacts, ReplaceOK
<1> HIDE DEF acts
<1>11. ActorsOK(actor', Known', Messages')
  BY <1>8, <1>9, <1>10, ToParentFacts
<1>12. box' \in [Dir -> Seq(Messages')]
  BY <1>4, <1>5, BoxGrows DEF Shapes
<1> QED
  BY <1>4, <1>5, <1>11, <1>12, ShapesSaved

LEMMA ShapesFire ==
    ASSUME Shapes, NEW d \in Dir, Fire(d)
    PROVE  Shapes'
<1> DEFINE m == Msg("autosave_tick", d, 0, None)
<1>1. RecordOK(actor[d], Known, Messages)
  BY Busy DEF Fire
<1>2. /\ UNCHANGED <<stored, rootFile, config, next>> /\ next \in [Dir -> Nat]
      /\ actor' = [actor EXCEPT ![d] = [actor[d] EXCEPT !.timer = "fired"]]
      /\ box' = [box EXCEPT ![d] = Append(@, m)]
  BY DEF Fire, ClientsOnly, Shapes
<1>3. RecordOK([actor[d] EXCEPT !.timer = "fired"], Known, Messages)
  BY <1>1 DEF RecordOK
<1>4. m \in Messages
  BY DEF Msg, Messages, Senders, PathOps
<1> HIDE DEF m
<1>5. box' \in [Dir -> Seq(Messages)]
  BY <1>2, <1>4, SendOK DEF Shapes
<1>6. ActorsOK(actor', Known, Messages)
  BY <1>2, <1>3, ReplaceOK DEF Shapes
<1> QED
  BY <1>2, <1>5, <1>6, ShapesStay

LEMMA ShapesAutosaveTick ==
    ASSUME Shapes, NEW d \in Dir, AutosaveTick(d)
    PROVE  Shapes'
<1> DEFINE r == [actor[d] EXCEPT !.timer = "off"]
           tell == ~IsRoot(d) /\ actor[r.up].life # "stopped"
           t == Telling("update_ref", d, r.state, "saved", None)
<1>1. /\ RecordOK(actor[d], Known, Messages) /\ actor[d].state # NoHash
      /\ Take(d) \in [Dir -> Seq(Messages)]
  BY Receiving DEF AutosaveTick
<1>2. /\ RecordOK(r, Known, Messages) /\ r.state = actor[d].state
  BY <1>1 DEF RecordOK
<1>3. PICK ok \in IF r.dirty THEN Outcome ELSE {TRUE} :
        /\ Persist(d, ok /\ r.dirty)
        /\ actor' = [actor EXCEPT ![d] =
             IF ~ok THEN Arm(r)
             ELSE IF r.dirty /\ tell
             THEN [r EXCEPT !.task = t]
             ELSE [r EXCEPT !.dirty = FALSE]]
  BY DEF AutosaveTick
<1>4. config' = config /\ next' = next /\ box' = Take(d)
  BY DEF AutosaveTick, ClientsOnly
<1>5. /\ StoredOK' /\ Known \subseteq Known' /\ Messages \subseteq Messages'
      /\ ok /\ r.dirty => actor[d].state \in stored'
  BY <1>1, <1>3, <1>4, PersistFacts
<1>6. RecordOK(r, Known', Messages')
  BY <1>2, <1>5, RecordGrows
<1>7. ActorsOK(actor, Known', Messages')
  BY <1>5, ActorsGrow DEF Shapes
<1>8. ok /\ r.dirty => t \in AllTasks(Messages')
  <2> SUFFICES ASSUME ok, r.dirty PROVE t \in AllTasks(Messages')
    OBVIOUS
  <2>1. Msg("update_ref", d, r.state, None) \in Messages'
    BY <1>2, <1>5 DEF Msg, Messages, Senders, PathOps
  <2> QED
    BY <2>1 DEF Telling, AllTasks, TellTasks, Senders
<1> HIDE DEF r, t, tell
<1>9. /\ RecordOK(Arm(r), Known', Messages')
      /\ RecordOK([r EXCEPT !.dirty = FALSE], Known', Messages')
      /\ ok /\ r.dirty => RecordOK([r EXCEPT !.task = t], Known', Messages')
  BY <1>1, <1>2, <1>6, <1>8, ArmFacts, DirtyOK, TaskOK
<1>10. ActorsOK(actor', Known', Messages')
  <2>1. CASE ~ok
    BY <1>3, <1>7, <1>9, <2>1, ReplaceOK
  <2>2. CASE ok /\ r.dirty /\ tell
    BY <1>3, <1>7, <1>9, <2>2, ReplaceOK
  <2>3. CASE ok /\ ~(r.dirty /\ tell)
    BY <1>3, <1>7, <1>9, <2>3, ReplaceOK
  <2> QED
    BY <2>1, <2>2, <2>3
<1>11. box' \in [Dir -> Seq(Messages')]
  BY <1>1, <1>4, <1>5, BoxGrows
<1> QED
  BY <1>4, <1>5, <1>10, <1>11, ShapesSaved

LEMMA ShapesSetAutosave ==
    ASSUME Shapes, NEW d \in Dir, SetAutosave(d)
    PROVE  Shapes'
<1> DEFINE r == [actor[d] EXCEPT !.auto = TRUE]
           live == {e \in Handles(d) : actor[e].life # "stopped"}
<1>1. /\ RecordOK(actor[d], Known, Messages) /\ Head(box[d]) \in Messages
      /\ Take(d) \in [Dir -> Seq(Messages)]
  BY Receiving DEF SetAutosave
<1>2. /\ UNCHANGED <<stored, rootFile, config, next>> /\ next \in [Dir -> Nat]
      /\ actor' = [actor EXCEPT ![d] = Arm(r)]
      /\ box' = [f \in Dir |-> IF f = d THEN Tail(box[f])
                               ELSE IF f \in live THEN Append(box[f], Head(box[d]))
                               ELSE box[f]]
  BY DEF SetAutosave, ClientsOnly, Shapes
<1> HIDE DEF live
<1>3. box' \in [Dir -> Seq(Messages)]
  <2>1. \A f \in Dir : Append(box[f], Head(box[d])) \in Seq(Messages) /\ box[f] \in Seq(Messages)
    BY <1>1 DEF Shapes
  <2>2. Tail(box[d]) \in Seq(Messages)
    BY DEF Shapes, SetAutosave, Receives
  <2> QED
    BY <1>2, <2>1, <2>2
<1>4. RecordOK(r, Known, Messages)
  BY <1>1, AutoOK
<1> HIDE DEF r
<1>5. ActorsOK(actor', Known, Messages)
  BY <1>2, <1>4, ArmFacts, ReplaceOK DEF Shapes
<1> QED
  BY <1>2, <1>3, <1>5, ShapesStay

\* A save and nothing else that changes what is stored.
LEMMA SaveBeforeEnd ==
    ASSUME Shapes, NEW d \in Dir, actor[d].state # NoHash, UNCHANGED <<config, next>>,
           \E ok \in IF actor[d].dirty THEN Outcome ELSE {TRUE} : Persist(d, ok /\ actor[d].dirty)
    PROVE  /\ StoredOK' /\ ActorsOK(actor, Known', Messages')
           /\ Known \subseteq Known' /\ Messages \subseteq Messages'
           /\ box \in [Dir -> Seq(Messages')]
<1>1. PICK ok : Persist(d, ok /\ actor[d].dirty)
  OBVIOUS
<1>2. StoredOK' /\ Known \subseteq Known' /\ Messages \subseteq Messages'
  BY <1>1, PersistFacts
<1> QED
  BY <1>2, ActorsGrow, BoxGrows DEF Shapes

LEMMA ShapesBeginShutdown ==
    ASSUME Shapes, NEW d \in Dir, BeginShutdown(d)
    PROVE  Shapes'
<1> DEFINE t == [op |-> "shutdown", from |-> Head(box[d]).from, todo |-> Handles(d), wait |-> {}]
<1>1. /\ Take(d) \in [Dir -> Seq(Messages)] /\ Head(box[d]) \in Messages
      /\ RecordOK(actor[d], Known, Messages) /\ actor[d].state # NoHash
  BY Receiving DEF BeginShutdown
<1>2. /\ UNCHANGED <<config, next>> /\ box' = Take(d)
      /\ actor' = [actor EXCEPT ![d].task = t]
      /\ \E ok \in IF actor[d].dirty THEN Outcome ELSE {TRUE} : Persist(d, ok /\ actor[d].dirty)
  BY DEF BeginShutdown, ClientsOnly
<1>3. /\ StoredOK' /\ ActorsOK(actor, Known', Messages')
      /\ Known \subseteq Known' /\ Messages \subseteq Messages'
  BY <1>1, <1>2, SaveBeforeEnd
<1>4. t \in AllTasks(Messages')
  BY <1>1 DEF AllTasks, WorkTasks, Messages, Handles
<1> HIDE DEF t
<1>5. actor' = [actor EXCEPT ![d] = [actor[d] EXCEPT !.task = t]]
  BY <1>2
<1>6. RecordOK([actor[d] EXCEPT !.task = t], Known', Messages')
  BY <1>1, <1>3, <1>4, RecordGrows, TaskOK
<1>7. ActorsOK(actor', Known', Messages')
  BY <1>3, <1>5, <1>6, ReplaceOK
<1>8. box' \in [Dir -> Seq(Messages')]
  BY <1>1, <1>2, <1>3, BoxGrows
<1> QED
  BY <1>2, <1>3, <1>7, <1>8, ShapesSaved

LEMMA ShapesStop ==
    ASSUME Shapes, NEW d \in Dir, Stop(d)
    PROVE  Shapes'
<1> DEFINE r == [actor[d] EXCEPT !.life = "stopped"]
           q == [r EXCEPT !.task = Idle]
           acts == [actor EXCEPT ![d].life = "stopped", ![d].task = Idle]
<1>1. RecordOK(actor[d], Known, Messages) /\ actor[d].state # NoHash
  BY Busy DEF Stop, ChildrenDone
<1>2. /\ UNCHANGED <<config, next>> /\ box' = [box EXCEPT ![d] = <<>>]
      /\ actor' = ToParent(acts, actor[d].task.from, d, NoHash)
      /\ \E ok \in IF actor[d].dirty THEN Outcome ELSE {TRUE} : Persist(d, ok /\ actor[d].dirty)
  BY DEF Stop, ClientsOnly
<1>3. /\ StoredOK' /\ ActorsOK(actor, Known', Messages')
      /\ Known \subseteq Known' /\ Messages \subseteq Messages'
      /\ box \in [Dir -> Seq(Messages')]
  BY <1>1, <1>2, SaveBeforeEnd
<1>4. acts = [actor EXCEPT ![d] = q]
  BY <1>1 DEF RecordOK, Shapes, ActorsOK
<1>5. RecordOK(r, Known', Messages')
  BY <1>1, <1>3, RecordGrows, LifeOK
<1> HIDE DEF r
<1>6. RecordOK(q, Known', Messages')
  BY <1>5, IdleOK
<1> HIDE DEF q
<1>7. ActorsOK(acts, Known', Messages')
  BY <1>3, <1>4, <1>6, ReplaceOK
<1> HIDE DEF acts
<1>8. ActorsOK(actor', Known', Messages')
  BY <1>2, <1>7, ToParentFacts
<1>9. box' \in [Dir -> Seq(Messages')]
  BY <1>2, <1>3
<1> QED
  BY <1>2, <1>3, <1>8, <1>9, ShapesSaved

LEMMA ShapesOrphan ==
    ASSUME Shapes, NEW d \in Dir, Orphan(d)
    PROVE  Shapes'
<1> DEFINE r == [actor[d] EXCEPT !.life = "stopped"]
<1>1. RecordOK(actor[d], Known, Messages) /\ actor[d].state # NoHash
  BY Busy DEF Orphan, Free
<1>2. /\ UNCHANGED <<config, next>> /\ box' = box
      /\ actor' = [actor EXCEPT ![d] = r]
      /\ \E ok \in IF actor[d].dirty THEN Outcome ELSE {TRUE} : Persist(d, ok /\ actor[d].dirty)
  BY DEF Orphan, ClientsOnly
<1>3. /\ StoredOK' /\ ActorsOK(actor, Known', Messages')
      /\ Known \subseteq Known' /\ Messages \subseteq Messages'
      /\ box \in [Dir -> Seq(Messages')]
  BY <1>1, <1>2, SaveBeforeEnd
<1>4. RecordOK(r, Known', Messages')
  BY <1>1, <1>3, RecordGrows, LifeOK
<1> HIDE DEF r
<1>5. ActorsOK(actor', Known', Messages')
  BY <1>2, <1>3, <1>4, ReplaceOK
<1> QED
  BY <1>2, <1>3, <1>5, ShapesSaved

LEMMA ShapesNext == Shapes /\ [Next]_vars => Shapes'
<1> SUFFICES ASSUME Shapes, [Next]_vars PROVE Shapes'
  OBVIOUS
<1>1. CASE ClientStep
  BY <1>1, ShapesClient
<1>2. ASSUME NEW d \in Dir, ActorStep(d) PROVE Shapes'
  BY <1>2, ShapesPublish, ShapesLoad, ShapesForward, ShapesFileOp, ShapesCreateDirAt,
     ShapesTell, ShapesChildIsDirty, ShapesUpdateDirRefHash, ShapesSaveIfDirty,
     ShapesAskChild, ShapesSaveDone, ShapesAutosaveTick, ShapesSetAutosave,
     ShapesBeginShutdown, ShapesStop, ShapesOrphan
  DEF ActorStep
<1>3. ASSUME NEW d \in Dir, Fire(d) PROVE Shapes'
  BY <1>3, ShapesFire
<1>4. CASE UNCHANGED vars
  BY <1>4, ShapesStay DEF vars, Shapes
<1> QED
  BY <1>1, <1>2, <1>3, <1>4 DEF Next

\* Mailboxes, snapshots and actors are well formed: a message that refers to a hash
\* refers to a stored one, an actor without a snapshot has no task, and every entry of
\* a directory, on disk or open, names a stored snapshot, or the zeroed hash where
\* create_dir is used (persistence.rs:205, sharding.rs:60).
THEOREM ShapesCorrect == Spec => []Shapes
BY ShapesInit, ShapesNext, PTL DEF Spec

\* Every hash in a stored snapshot, in the root file or in a running directory can
\* be read from the store or is the zeroed hash of a new directory, and without
\* create_dir there is no zeroed hash (save: import before the hash is told on).
THEOREM SavedTreeLoadsCorrect == Spec => []SavedTreeLoads
<1>1. ASSUME Shapes PROVE SavedTreeLoads
  <2>1. ASSUME NEW s \in stored \cup {rootFile}, NEW e \in DOMAIN s.dirs
        PROVE  s.dirs[e] \in Known
    BY <1>1 DEF Shapes, StoredOK, Snap
  <2>2. ASSUME NEW d \in Dir, actor[d].life = "running", NEW e \in DOMAIN actor[d].state.dirs
        PROVE  actor[d].state.dirs[e] \in Known
    BY <1>1, <2>2, Busy DEF Snap
  <2> QED
    BY <2>1, <2>2 DEF SavedTreeLoads, HashesAreStored, Known
<1> QED
  BY <1>1, ShapesCorrect, PTL

-----------------------------------------------------------------------------
(***************************************************************************)
(* The tree of actors, for a use in which a directory is created only      *)
(* below one that there was at first (ParentsExist).  The directories of a *)
(* snapshot are children of its path, and all children that there were at  *)
(* first are among them; so a path is routed through every directory above *)
(* it, and a new actor never takes the place of one that is open.          *)
(***************************************************************************)
Fits(d, s) ==
    /\ \A e \in DOMAIN s.dirs : e # Root /\ Parent[e] = d
    /\ ChildrenIn(config.exists, d) \subseteq DOMAIN s.dirs

EntriesFit(s) == \A e \in DOMAIN s.dirs : s.dirs[e] # NoHash => Fits(e, s.dirs[e])

\* What can be in the mailbox of f: a client asks only the root to save.
MessagesAt(f) ==
    {m \in Messages :
        /\ m.op = "update_ref" => Fits(m.dir, m.arg)
        /\ f # Root /\ m.op \in {"save", "shutdown"} => m.from \notin Client}

StoreTree ==
    /\ \A s \in stored \cup {rootFile} : EntriesFit(s)
    /\ Fits(Root, rootFile)

BoxTree(b) == \A f \in Dir : b[f] \in Seq(MessagesAt(f))

\* The message that directory f tells its parent.
TellFits(f, t) ==
    t.op = "tell" => /\ t.msg.dir = f /\ t.msg.op \in {"mark_as_dirty", "update_ref"}
                     /\ t.msg.op = "update_ref" => Fits(f, t.msg.arg)

\* What holds of one actor, and between an actor and its parent.
ActorFits(f, r) ==
    /\ r.life = "none" => r.state = NoHash
    /\ r.task # Idle => r.life = "running"
    /\ r.state # NoHash => Fits(f, r.state) /\ EntriesFit(r.state)
    /\ TellFits(f, r.task)
    /\ f = Root => r.life # "none" /\ r.up = None

UnderParent(acts, f) ==
    f # Root /\ acts[f].life # "none" =>
        /\ acts[f].up = Parent[f]
        /\ acts[Parent[f]].state # NoHash
        /\ f \in DOMAIN acts[Parent[f]].state.dirs

ActorTree(acts) == \A f \in Dir : ActorFits(f, acts[f]) /\ UnderParent(acts, f)

Tree == StoreTree /\ BoxTree(box) /\ ActorTree(actor)

\* Only the set of directories there were at first matters.
LEMMA FitsStays ==
    ASSUME config' = config
    PROVE  /\ \A d, s : Fits(d, s)' <=> Fits(d, s)
           /\ \A s : EntriesFit(s)' <=> EntriesFit(s)
BY DEF Fits, EntriesFit

\* An actor goes on with at least the directories it had.
LEMMA ReplaceTree ==
    ASSUME NEW acts, NEW S, NEW M, ActorsOK(acts, S, M), ActorTree(acts),
           NEW d \in Dir, NEW r, ActorFits(d, r), acts[d].life # "none",
           r.up = acts[d].up,
           acts[d].state # NoHash =>
               r.state # NoHash /\ DOMAIN acts[d].state.dirs \subseteq DOMAIN r.state.dirs
    PROVE  ActorTree([acts EXCEPT ![d] = r])
<1> DEFINE new == [acts EXCEPT ![d] = r]
<1>1. new[d] = r /\ \A f \in Dir : f # d => new[f] = acts[f]
  BY DEF ActorsOK
<1>2. \A f \in Dir : ActorFits(f, acts[f]) /\ UnderParent(acts, f)
  BY DEF ActorTree
<1> HIDE DEF new
<1>3. ASSUME NEW f \in Dir PROVE ActorFits(f, new[f])
  BY <1>1, <1>2
<1>4. ASSUME NEW f \in Dir PROVE UnderParent(new, f)
  <2> SUFFICES ASSUME f # Root, new[f].life # "none"
               PROVE  /\ new[f].up = Parent[f] /\ new[Parent[f]].state # NoHash
                      /\ f \in DOMAIN new[Parent[f]].state.dirs
    BY DEF UnderParent
  <2>1. Parent[f] \in Dir
    BY TreeAssumption
  <2>2. acts[f].life # "none" /\ new[f].up = acts[f].up
    BY <1>1
  <2>3. /\ acts[f].up = Parent[f] /\ acts[Parent[f]].state # NoHash
        /\ f \in DOMAIN acts[Parent[f]].state.dirs
    BY <1>2, <2>2 DEF UnderParent
  <2> QED
    BY <1>1, <2>1, <2>2, <2>3
<1> QED
  BY <1>3, <1>4 DEF ActorTree, new

\* A directory whose entry its parent has is opened.
LEMMA SpawnTree ==
    ASSUME NEW acts, NEW S, NEW M, ActorsOK(acts, S, M), ActorTree(acts),
           NEW e \in Dir, e # Root, acts[e].life = "none", NEW r, ActorFits(e, r),
           r.up = Parent[e], r.life # "none",
           acts[Parent[e]].state # NoHash, e \in DOMAIN acts[Parent[e]].state.dirs
    PROVE  ActorTree([acts EXCEPT ![e] = r])
<1> DEFINE new == [acts EXCEPT ![e] = r]
<1>1. new[e] = r /\ \A f \in Dir : f # e => new[f] = acts[f]
  BY DEF ActorsOK
<1>2. \A f \in Dir : ActorFits(f, acts[f]) /\ UnderParent(acts, f)
  BY DEF ActorTree
<1>3. acts[e].state = NoHash
  BY <1>2 DEF ActorFits
<1> HIDE DEF new
<1>4. ASSUME NEW f \in Dir PROVE ActorFits(f, new[f])
  BY <1>1, <1>2
<1>5. ASSUME NEW f \in Dir PROVE UnderParent(new, f)
  <2> SUFFICES ASSUME f # Root, new[f].life # "none"
               PROVE  /\ new[f].up = Parent[f] /\ new[Parent[f]].state # NoHash
                      /\ f \in DOMAIN new[Parent[f]].state.dirs
    BY DEF UnderParent
  <2>1. Parent[f] \in Dir
    BY TreeAssumption
  <2>2. CASE f = e
    BY <1>1, <1>3, <2>1, <2>2
  <2>3. CASE f # e
    <3>1. /\ acts[f].up = Parent[f] /\ acts[Parent[f]].state # NoHash
          /\ f \in DOMAIN acts[Parent[f]].state.dirs
      BY <1>1, <1>2, <2>3 DEF UnderParent
    <3> QED
      BY <1>1, <1>3, <2>1, <2>3, <3>1
  <2> QED
    BY <2>2, <2>3
<1> QED
  BY <1>4, <1>5 DEF ActorTree, new

LEMMA ToParentTree ==
    ASSUME NEW acts, NEW S, NEW M, ActorsOK(acts, S, M), ActorTree(acts),
           NEW p, NEW d, NEW hash, hash = NoHash \/ (hash \in S /\ Fits(d, hash))
    PROVE  ActorTree(ToParent(acts, p, d, hash))
<1> DEFINE new == ToParent(acts, p, d, hash)
<1>0. hash = NoHash \/ hash \in S
  OBVIOUS
<1>1. CASE p \notin Dir
  BY <1>1 DEF ToParent
<1>2. CASE p \in Dir
  <2>1. /\ ActorsOK(new, S, M)
        /\ \A f \in Dir : f # p => new[f] = acts[f]
        /\ new[p].life = acts[p].life /\ new[p].up = acts[p].up
        /\ new[p].task = [acts[p].task EXCEPT !.wait = @ \ {d}]
        /\ \/ new[p].state = acts[p].state
           \/ /\ acts[p].state # NoHash /\ d \in DOMAIN acts[p].state.dirs
              /\ hash # NoHash
              /\ new[p].state = [acts[p].state EXCEPT !.dirs[d] = hash]
    <3>1. ActorsOK(new, S, M) /\ AnswerTo(acts, new, p, d, hash)
      BY <1>0, ToParentFacts
    <3> HIDE DEF new
    <3> QED
      BY <1>2, <3>1 DEF AnswerTo
  <2> HIDE DEF new
  <2>2. \A f \in Dir : ActorFits(f, acts[f]) /\ UnderParent(acts, f)
    BY DEF ActorTree
  <2>3. RecordOK(acts[p], S, M)
    BY <1>2 DEF ActorsOK
  <2>4. /\ new[p].task.op = acts[p].task.op
        /\ acts[p].task = Idle => new[p].task = Idle
        /\ acts[p].task.op = "tell" => new[p].task = acts[p].task
    <3>1. acts[p].task \in AllTasks(M)
      BY <2>3 DEF RecordOK
    <3> DEFINE t == acts[p].task
               u == [t EXCEPT !.wait = @ \ {d}]
    <3>2. u.op = t.op /\ (t.op \notin {"save", "shutdown"} => u = t)
      BY <3>1, WaitOK
    <3>3. new[p].task = u
      BY <2>1
    <3> HIDE DEF u
    <3> QED
      BY <3>2, <3>3 DEF Idle
  <2>5. \/ new[p].state = acts[p].state
        \/ /\ acts[p].state # NoHash /\ new[p].state # NoHash
           /\ DOMAIN new[p].state.dirs = DOMAIN acts[p].state.dirs
           /\ \A e \in DOMAIN acts[p].state.dirs :
                 new[p].state.dirs[e] = IF e = d THEN hash ELSE acts[p].state.dirs[e]
    <3>1. CASE new[p].state = acts[p].state
      BY <3>1
    <3>2. CASE /\ acts[p].state # NoHash /\ d \in DOMAIN acts[p].state.dirs
               /\ hash # NoHash
               /\ new[p].state = [acts[p].state EXCEPT !.dirs[d] = hash]
      <4>1. Snap(acts[p].state, S) /\ hash \in S
        BY <2>3, <3>2 DEF RecordOK
      <4> QED
        BY <3>2, <4>1, EntryOK, SnapIsNoHash DEF Replaced
    <3> QED
      BY <2>1, <3>1, <3>2
  <2>6. new[p].state # NoHash => Fits(p, new[p].state) /\ EntriesFit(new[p].state)
    <3>1. acts[p].state # NoHash => Fits(p, acts[p].state) /\ EntriesFit(acts[p].state)
      BY <1>2, <2>2 DEF ActorFits
    <3> QED
      BY <2>1, <2>5, <3>1 DEF Fits, EntriesFit
  <2>7. ASSUME NEW f \in Dir PROVE ActorFits(f, new[f])
    <3>1. CASE f # p
      BY <2>1, <2>2, <3>1
    <3>2. CASE f = p
      <4>1. ActorFits(p, acts[p])
        BY <1>2, <2>2
      <4>2. TellFits(p, new[p].task)
        BY <2>4, <4>1 DEF ActorFits, TellFits
      <4>3. new[p].task # Idle => new[p].life = "running"
        BY <2>1, <2>4, <4>1 DEF ActorFits
      <4>4. new[p].life = "none" => new[p].state = NoHash
        BY <2>1, <2>5, <4>1 DEF ActorFits
      <4>5. p = Root => new[p].life # "none" /\ new[p].up = None
        BY <2>1, <4>1 DEF ActorFits
      <4> QED
        BY <2>6, <3>2, <4>2, <4>3, <4>4, <4>5 DEF ActorFits
    <3> QED
      BY <3>1, <3>2
  <2>8. ASSUME NEW f \in Dir PROVE UnderParent(new, f)
    <3> SUFFICES ASSUME f # Root, new[f].life # "none"
                 PROVE  /\ new[f].up = Parent[f] /\ new[Parent[f]].state # NoHash
                        /\ f \in DOMAIN new[Parent[f]].state.dirs
      BY DEF UnderParent
    <3>1. Parent[f] \in Dir /\ acts[f].life # "none" /\ new[f].up = acts[f].up
      BY <2>1, TreeAssumption
    <3>2. /\ acts[f].up = Parent[f] /\ acts[Parent[f]].state # NoHash
          /\ f \in DOMAIN acts[Parent[f]].state.dirs
      BY <2>2, <3>1 DEF UnderParent
    <3> QED
      BY <2>1, <2>5, <3>1, <3>2
  <2> QED
    BY <2>7, <2>8 DEF ActorTree, new
<1> QED
  BY <1>1, <1>2

LEMMA TakeTree ==
    ASSUME Shapes, Tree, NEW d \in Dir, box[d] # <<>>
    PROVE  BoxTree(Take(d)) /\ Head(box[d]) \in MessagesAt(d)
<1>1. box \in [Dir -> Seq(Messages)] /\ \A f \in Dir : box[f] \in Seq(MessagesAt(f))
  BY DEF Shapes, Tree, BoxTree
<1>2. \A f \in Dir : Take(d)[f] = IF f = d THEN Tail(box[d]) ELSE box[f]
  BY <1>1 DEF Take
<1>3. Tail(box[d]) \in Seq(MessagesAt(d)) /\ Head(box[d]) \in MessagesAt(d)
  BY <1>1
<1> QED
  BY <1>1, <1>2, <1>3 DEF BoxTree

LEMMA SendTree ==
    ASSUME NEW M, NEW b \in [Dir -> Seq(M)], BoxTree(b), NEW e, NEW m \in MessagesAt(e)
    PROVE  BoxTree([b EXCEPT ![e] = Append(@, m)])
<1> DEFINE new == [b EXCEPT ![e] = Append(@, m)]
<1>1. ASSUME NEW f \in Dir PROVE new[f] \in Seq(MessagesAt(f))
  <2>1. b[f] \in Seq(MessagesAt(f))
    BY DEF BoxTree
  <2>2. CASE f = e
    <3>1. new[f] = Append(b[f], m)
      BY <2>2
    <3>2. m \in MessagesAt(f)
      BY <2>2
    <3> HIDE DEF new
    <3> QED
      BY <2>1, <3>1, <3>2
  <2>3. CASE f # e
    BY <2>1, <2>3
  <2> QED
    BY <2>2, <2>3
<1> QED
  BY <1>1 DEF BoxTree

LEMMA DropTree ==
    ASSUME Shapes, Tree, NEW d
    PROVE  BoxTree([box EXCEPT ![d] = <<>>])
<1>1. box \in [Dir -> Seq(Messages)] /\ \A f \in Dir : box[f] \in Seq(MessagesAt(f))
  BY DEF Shapes, Tree, BoxTree
<1>2. \A f \in Dir : [box EXCEPT ![d] = <<>>][f] = IF f = d THEN <<>> ELSE box[f]
  BY <1>1
<1> QED
  BY <1>1, <1>2 DEF BoxTree

\* The tree is kept if its parts are, by an unchanged set of messages or a larger one.
LEMMA TreeStep ==
    ASSUME config' = config, StoreTree', Messages \subseteq Messages',
           BoxTree(box'), ActorTree(actor')
    PROVE  Tree'
<1>1. /\ \A d, s : Fits(d, s)' <=> Fits(d, s)
      /\ \A s : EntriesFit(s)' <=> EntriesFit(s)
  BY FitsStays
<1>2. ASSUME NEW f \in Dir PROVE box'[f] \in Seq(MessagesAt(f)')
  <2>1. MessagesAt(f) \subseteq MessagesAt(f)'
    BY <1>1 DEF MessagesAt
  <2>2. box'[f] \in Seq(MessagesAt(f))
    BY DEF BoxTree
  <2> QED
    BY <2>1, <2>2
<1>3. ASSUME NEW f \in Dir PROVE (ActorFits(f, actor[f]) /\ UnderParent(actor, f))'
  <2>1. ActorFits(f, actor'[f]) /\ UnderParent(actor', f)
    BY DEF ActorTree
  <2> QED
    BY <1>1, <2>1 DEF ActorFits, UnderParent, TellFits
<1> QED
  BY <1>2, <1>3 DEF Tree, BoxTree, ActorTree

LEMMA SameStoreTree ==
    ASSUME Tree, UNCHANGED <<stored, rootFile, config>>
    PROVE  StoreTree'
<1>1. /\ \A d, s : Fits(d, s)' <=> Fits(d, s)
      /\ \A s : EntriesFit(s)' <=> EntriesFit(s)
  BY FitsStays
<1> QED
  BY <1>1 DEF Tree, StoreTree

LEMMA OnlyRoot ==
    ASSUME Tree, NEW d \in Dir, actor[d].life # "none"
    PROVE  /\ IsRoot(d) <=> d = Root
           /\ d # Root => actor[d].up = Parent[d] /\ Parent[d] \in Dir
           /\ ActorFits(d, actor[d])
BY TreeAssumption DEF Tree, ActorTree, ActorFits, UnderParent, IsRoot

LEMMA PersistTree ==
    ASSUME Shapes, Tree, NEW d \in Dir, actor[d].state # NoHash, NEW ok, Persist(d, ok),
           config' = config
    PROVE  StoreTree' /\ Messages \subseteq Messages'
<1>1. /\ \A e, s : Fits(e, s)' <=> Fits(e, s)
      /\ \A s : EntriesFit(s)' <=> EntriesFit(s)
  BY FitsStays
<1>2. actor[d].life # "none" /\ Fits(d, actor[d].state) /\ EntriesFit(actor[d].state)
  BY DEF Tree, ActorTree, ActorFits
<1>3. IsRoot(d) => d = Root
  BY <1>2, OnlyRoot
<1>4. \A s \in stored' \cup {rootFile'} : s \in stored \cup {rootFile} \/ s = actor[d].state
  BY DEF Persist
<1>5. rootFile' = rootFile \/ (d = Root /\ rootFile' = actor[d].state)
  BY <1>3 DEF Persist
<1>6. Messages \subseteq Messages'
  BY PersistFacts
<1> QED
  BY <1>1, <1>2, <1>4, <1>5, <1>6 DEF Tree, StoreTree

\* A step that stores nothing.
LEMMA TreeStays ==
    ASSUME Shapes, Tree, UNCHANGED <<stored, rootFile, config>>, BoxTree(box'),
           ActorTree(actor')
    PROVE  Tree'
BY SameStore, SameStoreTree, TreeStep

\* One actor goes on with the same directories or more.
LEMMA OwnTree ==
    ASSUME Shapes, Tree, NEW d \in Dir, NEW r, actor[d].life # "none",
           r.life # "none", r.up = actor[d].up, r.task # Idle => r.life = "running",
           TellFits(d, r.task), actor[d].state # NoHash,
           r.state = actor[d].state
    PROVE  /\ ActorTree([actor EXCEPT ![d] = r])
           /\ ActorFits(d, r)
<1>1. ActorFits(d, actor[d]) /\ ActorTree(actor) /\ ActorsOK(actor, Known, Messages)
  BY DEF Tree, ActorTree, Shapes
<1>2. ActorFits(d, r)
  BY <1>1 DEF ActorFits
<1> QED
  BY <1>1, <1>2, ReplaceTree

LEMMA TellIdle == ASSUME NEW f PROVE TellFits(f, Idle)
BY DEF TellFits, Idle

LEMMA FreshTree ==
    ASSUME StoreTree
    PROVE  ActorTree(FreshActors(rootFile))
<1> DEFINE acts == FreshActors(rootFile)
<1>1. \A f \in Dir : acts[f] = IF f = Root THEN Spawn("loading", None, rootFile, FALSE)
                               ELSE NotOpen
  BY DEF FreshActors
<1>2. Fits(Root, rootFile) /\ EntriesFit(rootFile)
  BY DEF StoreTree
<1> HIDE DEF acts
<1>3. ASSUME NEW f \in Dir PROVE ActorFits(f, acts[f])
  BY <1>1, <1>2, TellIdle DEF ActorFits, Spawn, NotOpen
<1>4. ASSUME NEW f \in Dir PROVE UnderParent(acts, f)
  BY <1>1 DEF UnderParent, Spawn, NotOpen
<1> QED
  BY <1>3, <1>4 DEF ActorTree, acts

-----------------------------------------------------------------------------
LEMMA TreeInit == Init => Tree
<1> SUFFICES ASSUME Init PROVE Tree
  OBVIOUS
<1> DEFINE tree == Initial[config.exists]
<1>1. config \in Configs /\ Root \in config.exists /\ config.exists \subseteq Dir
  BY ConfigAssumption DEF Init, Config
<1>2. ASSUME NEW d \in config.exists
      PROVE  /\ DOMAIN tree[d].dirs = ChildrenIn(config.exists, d)
             /\ \A e \in ChildrenIn(config.exists, d) : tree[d].dirs[e] = tree[e]
  <2>1. tree[d] = Snapshot(NoFiles, [e \in ChildrenIn(config.exists, d) |-> tree[e]])
    BY <1>1, ConfigAssumption
  <2> HIDE DEF tree
  <2> QED
    BY <2>1 DEF Snapshot
<1> HIDE DEF tree
<1>3. ASSUME NEW d \in config.exists PROVE Fits(d, tree[d])
  BY <1>2 DEF Fits, ChildrenIn
<1>4. ASSUME NEW d \in config.exists PROVE EntriesFit(tree[d])
  BY <1>2, <1>3 DEF EntriesFit, ChildrenIn
<1>5. StoreTree
  BY <1>1, <1>3, <1>4 DEF StoreTree, Init, tree
<1>6. BoxTree(box)
  BY DEF BoxTree, Init
<1>7. ActorTree(FreshActors(rootFile))
  BY <1>5, FreshTree
<1> QED
  BY <1>5, <1>6, <1>7 DEF Tree, Init

LEMMA TreeClient == Shapes /\ Shapes' /\ Tree /\ ClientStep => Tree'
<1> SUFFICES ASSUME Shapes, Shapes', Tree, ClientStep PROVE Tree'
  OBVIOUS
<1>0. BoxTree(box) /\ ActorTree(actor) /\ box \in [Dir -> Seq(Messages)]
  BY DEF Tree, Shapes
<1>1. ASSUME NEW op \in Ops, NEW d, NEW arg, NEW from, Post(op, d, arg, from)
      PROVE  Tree'
  <2> DEFINE m == Msg(op, d, arg, from)
  <2>1. /\ box' = [box EXCEPT ![Root] = Append(@, m)]
        /\ UNCHANGED <<stored, rootFile, config, actor>>
    BY <1>1 DEF Post
  <2>2. m \in Messages
    <3>1. Messages' = Messages
      BY <2>1, SameStore
    <3>2. box'[Root] \in Seq(Messages) /\ box[Root] \in Seq(Messages)
      BY <1>0, <3>1, TreeAssumption DEF Shapes
    <3>3. box'[Root] = Append(box[Root], m)
      BY <1>0, <2>1, TreeAssumption
    <3> HIDE DEF m
    <3>4. box'[Root][Len(box[Root]) + 1] = m /\ Len(box'[Root]) = Len(box[Root]) + 1
      BY <3>2, <3>3
    <3> QED
      BY <3>2, <3>4
  <2>3. m \in MessagesAt(Root)
    BY <2>2 DEF MessagesAt, Msg, Ops
  <2> HIDE DEF m
  <2>4. BoxTree(box')
    BY <1>0, <2>1, <2>3, SendTree
  <2> QED
    BY <1>0, <2>1, <2>4, TreeStays
<1>2. CASE Crash
  <2>1. ActorTree(actor')
    BY <1>2, FreshTree DEF Crash, Tree
  <2>2. BoxTree(box')
    BY <1>2 DEF Crash, BoxTree
  <2> QED
    BY <1>2, <2>1, <2>2, TreeStays DEF Crash
<1>3. CASE Drop
  BY <1>0, <1>3, TreeStays DEF Drop
<1> QED
  BY <1>1, <1>2, <1>3
  DEF ClientStep, FilePutSync, FileGet, CreateDir, FilePut, Save, Shutdown, WithAutosave,
      Call, Ops

LEMMA TreePublish ==
    ASSUME Shapes, Tree, NEW d \in Dir, Publish(d)
    PROVE  Tree'
<1>1. RecordOK(actor[d], Known, Messages) /\ actor[d].state # NoHash /\ actor[d].life # "none"
  BY Busy DEF Publish
<1>2. PICK ok \in Outcome :
        /\ Persist(d, ok)
        /\ actor' = [actor EXCEPT ![d] =
             [@ EXCEPT !.life = "running",
                       !.task = IF ok /\ actor[actor[d].up].life # "stopped"
                                THEN Telling("update_ref", d, actor[d].state, "loop", None)
                                ELSE Idle]]
  BY DEF Publish
<1>3. config' = config /\ box' = box
  BY DEF Publish, ClientsOnly
<1>4. StoreTree' /\ Messages \subseteq Messages'
  BY <1>1, <1>2, <1>3, PersistTree
<1> DEFINE t == IF ok /\ actor[actor[d].up].life # "stopped"
                THEN Telling("update_ref", d, actor[d].state, "loop", None) ELSE Idle
           r == [actor[d] EXCEPT !.life = "running", !.task = t]
<1>5. TellFits(d, t)
  <2>1. Fits(d, actor[d].state)
    BY <1>1, OnlyRoot DEF ActorFits
  <2> QED
    BY <2>1, TellIdle DEF TellFits, Telling, Msg
<1>6. actor' = [actor EXCEPT ![d] = r]
  BY <1>2
<1> HIDE DEF t
<1>7. r.life = "running" /\ r.up = actor[d].up /\ r.state = actor[d].state /\ r.task = t
  BY <1>1 DEF RecordOK
<1> HIDE DEF r
<1>8. ActorTree(actor')
  BY <1>1, <1>5, <1>6, <1>7, OwnTree
<1> QED
  BY <1>3, <1>4, <1>8, TreeStep DEF Tree

LEMMA TreeLoad ==
    ASSUME Shapes, Tree, NEW d \in Dir, Load(d)
    PROVE  Tree'
<1>1. /\ RecordOK(actor[d], Known, Messages) /\ actor = [e \in Dir |-> actor[e]]
      /\ ActorsOK(actor, Known, Messages) /\ ActorTree(actor) /\ ActorFits(d, actor[d])
      /\ actor[d].life = "loading"
  BY DEF Shapes, ActorsOK, Tree, ActorTree, Load
<1>2. UNCHANGED <<stored, rootFile, config>>
  BY DEF Load, ClientsOnly
<1>3. ASSUME NEW life \in {"running", "stopped"}
      PROVE  /\ ActorTree([actor EXCEPT ![d].life = life])
             /\ life = "stopped" => ActorsOK([actor EXCEPT ![d].life = life], Known, Messages)
  <2> DEFINE r == [actor[d] EXCEPT !.life = life]
  <2>1. /\ r.life = life /\ r.up = actor[d].up /\ r.state = actor[d].state
        /\ r.task = actor[d].task
    BY <1>1 DEF RecordOK
  <2>2. [actor EXCEPT ![d].life = life] = [actor EXCEPT ![d] = r]
    OBVIOUS
  <2>3. life = "stopped" => RecordOK(r, Known, Messages)
    BY <1>1 DEF RecordOK
  <2> HIDE DEF r
  <2>4. actor[d].task = Idle
    BY <1>1 DEF ActorFits
  <2>5. ActorFits(d, r)
    BY <1>1, <1>3, <2>1, <2>4 DEF ActorFits
  <2>6. ActorTree([actor EXCEPT ![d] = r])
    BY <1>1, <2>1, <2>5, ReplaceTree
  <2> QED
    BY <1>1, <2>2, <2>3, <2>6, ReplaceOK
<1>4. CASE /\ actor' = [actor EXCEPT ![d].life = "running"]
           /\ UNCHANGED box
  BY <1>2, <1>3, <1>4, TreeStays DEF Tree
<1>5. CASE /\ actor' = ToParent([actor EXCEPT ![d].life = "stopped"],
                                IF actor[d].up \in Dropped(d) THEN actor[d].up ELSE None,
                                d, NoHash)
           /\ box' = [box EXCEPT ![d] = <<>>]
  <2>1. ActorTree(actor')
    BY <1>3, <1>5, ToParentTree
  <2> QED
    BY <1>2, <1>5, <2>1, DropTree, TreeStays
<1> QED
  BY <1>4, <1>5 DEF Load

LEMMA TreeForward ==
    ASSUME Shapes, Tree, NEW d \in Dir, Forward(d)
    PROVE  Tree'
<1> DEFINE m == Head(box[d])
           e == FirstOf(d, m)
           h == actor[d].state.dirs[e]
           new == Spawn("loading", d, h, actor[d].auto)
<1>1. /\ Take(d) \in [Dir -> Seq(Messages)] /\ m \in Messages /\ m.op \in PathOps
      /\ actor[d].life = "running" /\ actor[d].state # NoHash /\ Snap(actor[d].state, Known)
  BY Receiving DEF Forward
<1>2. BoxTree(Take(d)) /\ m \in MessagesAt(d)
  BY TakeTree DEF Forward, Receives
<1>3. UNCHANGED <<stored, rootFile, config>>
  BY DEF Forward, ClientsOnly
<1>4. e \in DOMAIN actor[d].state.dirs
  BY DEF Forward
<1>5. box' = Take(d) \/ box' = [Take(d) EXCEPT ![e] = Append(@, m)]
  BY DEF Forward
<1>6. \/ actor' = actor
      \/ actor[e].life = "none" /\ actor' = [actor EXCEPT ![e] = new]
  BY DEF Forward
<1> HIDE DEF e, m
<1>7. m \in MessagesAt(e)
  BY <1>1, <1>2 DEF MessagesAt, PathOps
<1>8. BoxTree(box')
  <2>1. BoxTree([Take(d) EXCEPT ![e] = Append(@, m)])
    BY <1>1, <1>2, <1>7, SendTree
  <2> QED
    BY <1>2, <1>5, <2>1
<1>9. /\ e \in Dir /\ e # Root /\ Parent[e] = d
      /\ h # NoHash => Fits(e, h) /\ EntriesFit(h)
  <2>1. Fits(d, actor[d].state) /\ EntriesFit(actor[d].state)
    BY <1>1, OnlyRoot DEF ActorFits
  <2>2. e \in Dir /\ h \in Known
    BY <1>1, <1>4 DEF Snap
  <2>3. h # NoHash => h \in stored
    BY <2>2 DEF Known
  <2> QED
    BY <1>4, <2>1, <2>2, <2>3 DEF Fits, EntriesFit, Tree, StoreTree
<1> HIDE DEF h
<1>10. ActorFits(e, new) /\ new.up = Parent[e] /\ new.life # "none"
  BY <1>9, TellIdle DEF ActorFits, Spawn
<1> HIDE DEF new
<1>11. ActorTree(actor')
  <2>1. ActorTree(actor) /\ ActorsOK(actor, Known, Messages)
    BY DEF Tree, Shapes
  <2>2. actor[e].life = "none" => ActorTree([actor EXCEPT ![e] = new])
    BY <1>1, <1>4, <1>9, <1>10, <2>1, SpawnTree
  <2> QED
    BY <1>6, <2>1, <2>2
<1> QED
  BY <1>3, <1>8, <1>11, TreeStays

LEMMA TreeFileOp ==
    ASSUME Shapes, Tree, NEW d \in Dir, FileOp(d)
    PROVE  Tree'
<1> DEFINE m == Head(box[d])
           r == IF m.op = "file_get" THEN actor[d]
                ELSE [actor[d] EXCEPT !.state.files[m.dir] = m.arg]
           q == MarkAsDirty(d, r, None)
<1>1. /\ actor[d].task = Idle /\ actor[d].life = "running"
      /\ RecordOK(actor[d], Known, Messages) /\ Snap(actor[d].state, Known)
      /\ actor[d].state # NoHash /\ Msg("mark_as_dirty", d, None, None) \in Messages
  BY Receiving DEF FileOp
<1>2. /\ UNCHANGED <<stored, rootFile, config>>
      /\ box' = Take(d) /\ actor' = [actor EXCEPT ![d] = q]
  BY DEF FileOp, ClientsOnly
<1>3. BoxTree(Take(d))
  BY TakeTree DEF FileOp, Receives
<1>4. /\ RecordOK(r, Known, Messages) /\ r.state # NoHash /\ r.task = Idle
      /\ r.life = "running" /\ r.up = actor[d].up
      /\ r.state.dirs = actor[d].state.dirs
  <2> DEFINE s == [actor[d].state EXCEPT !.files[m.dir] = m.arg]
  <2>1. Snap(s, Known) /\ s # NoHash /\ s.dirs = actor[d].state.dirs
    BY <1>1, FilesOK, SnapIsNoHash
  <2>2. [actor[d] EXCEPT !.state.files[m.dir] = m.arg] = [actor[d] EXCEPT !.state = s]
    BY <1>1 DEF RecordOK
  <2>3. CASE m.op = "file_get"
    BY <1>1, <2>3
  <2> HIDE DEF s
  <2>4. CASE m.op # "file_get"
    <3>1. r = [actor[d] EXCEPT !.state = s]
      BY <2>2, <2>4
    <3> HIDE DEF r
    <3> QED
      BY <1>1, <2>1, <3>1, StateOK
  <2> QED
    BY <2>3, <2>4
<1> HIDE DEF r
<1>5. /\ q.life = "running" /\ q.up = actor[d].up /\ q.state = r.state
      /\ q.task = Idle \/ q.task = Telling("mark_as_dirty", d, None, "arm", None)
  <2>1. Marked(d, r, q, None)
    BY <1>1, <1>4, MarkFacts DEF Senders
  <2> QED
    BY <1>4, <2>1 DEF Marked
<1>6. TellFits(d, q.task)
  BY <1>5, TellIdle DEF TellFits, Telling, Msg
<1> HIDE DEF q
<1>7. ActorFits(d, actor[d])
  BY <1>1, OnlyRoot
<1>8. ActorFits(d, q)
  BY <1>1, <1>4, <1>5, <1>6, <1>7 DEF ActorFits, Fits, EntriesFit
<1>9. ActorTree(actor')
  BY <1>1, <1>2, <1>4, <1>5, <1>8, ReplaceTree DEF Tree, Shapes
<1> QED
  BY <1>2, <1>3, <1>9, TreeStays

-----------------------------------------------------------------------------
(* Paths.                                                                   *)

LEMMA UpFacts ==
    ASSUME NEW x \in Dir
    PROVE  /\ Up[x] \subseteq Dir /\ x \in Up[x]
           /\ \A e \in Up[x] \ {Root} : Parent[e] \in Up[x]
           /\ \A S \in SUBSET Dir :
                 x \in S /\ (\A e \in S \ {Root} : Parent[e] \in S) => Up[x] \subseteq S
<1>1. Up[x] = {a \in Dir : \A S \in SUBSET Dir :
                 x \in S /\ (\A e \in S \ {Root} : Parent[e] \in S) => a \in S}
  BY DEF Up
<1>2. ASSUME NEW e \in Up[x] \ {Root} PROVE Parent[e] \in Up[x]
  <2>1. e \in Dir /\ Parent[e] \in Dir
    BY <1>1, TreeAssumption
  <2>2. ASSUME NEW S \in SUBSET Dir, x \in S, \A f \in S \ {Root} : Parent[f] \in S
        PROVE  Parent[e] \in S
    <3>1. e \in S
      BY <1>1, <2>2
    <3> QED
      BY <2>2, <3>1
  <2> QED
    BY <1>1, <2>1, <2>2
<1>3. Up[x] \subseteq Dir /\ x \in Up[x]
  BY <1>1
<1>4. ASSUME NEW S \in SUBSET Dir, x \in S, \A e \in S \ {Root} : Parent[e] \in S
      PROVE  Up[x] \subseteq S
  BY <1>1, <1>4
<1> QED
  BY <1>2, <1>3, <1>4

\* A path below d leads through a child of d.
LEMMA FirstFacts ==
    ASSUME NEW d \in Dir, NEW m, m.dir \in Dir, Above(d, m.dir)
    PROVE  LET e == FirstOf(d, m) IN e \in Up[m.dir] /\ e # Root /\ Parent[e] = d
<1> DEFINE x == m.dir
           S == Up[x] \ {d}
<1>1. \E e \in Up[x] : e # Root /\ Parent[e] = d
  <2> SUFFICES ASSUME \A e \in Up[x] : e # Root => Parent[e] # d PROVE FALSE
    OBVIOUS
  <2>1. d \in Up[x] /\ x # d
    BY DEF Above
  <2>2. S \in SUBSET Dir /\ x \in S
    BY <2>1, UpFacts
  <2>3. \A e \in S \ {Root} : Parent[e] \in S
    BY UpFacts
  <2>4. Up[x] \subseteq S
    BY <2>2, <2>3, UpFacts
  <2> QED
    BY <2>1, <2>4
<1>2. FirstOf(d, m) = CHOOSE e \in Up[m.dir] : e # Root /\ Parent[e] = d
  BY DEF FirstOf
<1> QED
  BY <1>1, <1>2

\* Every directory above a path that is used was there at first.
LEMMA AboveExists ==
    ASSUME config \in Configs, ParentsExist, NEW x \in config.dirs, NEW e \in Up[x], e # x
    PROVE  e \in config.exists
<1> DEFINE S == {x} \cup config.exists
<1>1. /\ config \in Config /\ Root \in config.exists /\ config.exists \subseteq config.dirs
      /\ \A d \in config.exists \ {Root} : Parent[d] \in config.exists
  BY ConfigAssumption
<1>2. S \in SUBSET Dir /\ x \in S /\ x \in Dir
  BY <1>1 DEF Config
<1>3. \A f \in S \ {Root} : Parent[f] \in S
  BY <1>1 DEF ParentsExist
<1> HIDE DEF S
<1>4. Up[x] \subseteq S
  BY <1>2, <1>3, UpFacts
<1> QED
  BY <1>4 DEF S

\* The directory that create_dir_at makes is a child of d that was not there.
LEMMA CreatedFacts ==
    ASSUME Shapes, Tree, ParentsExist, NEW d \in Dir, CreateDirAt(d),
           NEW e, e = IF Above(d, Head(box[d]).dir) THEN Head(box[d]).dir ELSE Blank[d],
           e \in Dir \ DOMAIN actor[d].state.dirs
    PROVE  e # Root /\ e # d /\ Parent[e] = d /\ actor[e].life = "none" /\ e \notin config.exists
<1> DEFINE m == Head(box[d])
<1>1. /\ m \in Messages /\ m.op = "create_dir" /\ actor[d].life = "running"
      /\ actor[d].state # NoHash
  BY Receiving DEF CreateDirAt
<1>2. m.dir \in config.dirs /\ m.dir \in Dir /\ m.dir # Root
  BY <1>1 DEF Messages, PathOps
<1>3. Fits(d, actor[d].state)
  BY <1>1, OnlyRoot DEF ActorFits
<1>4. FirstOf(d, m) \notin DOMAIN actor[d].state.dirs
  BY DEF CreateDirAt, IsLocal
<1>5. e # Root /\ e # d /\ Parent[e] = d
  <2>1. CASE Above(d, m.dir)
    <3>1. FirstOf(d, m) \in Up[m.dir] /\ FirstOf(d, m) # Root /\ Parent[FirstOf(d, m)] = d
      BY <1>2, <2>1, FirstFacts
    <3> HIDE DEF m
    <3>2. FirstOf(d, m) = m.dir
      <4> SUFFICES ASSUME FirstOf(d, m) # m.dir PROVE FALSE
        OBVIOUS
      <4>1. FirstOf(d, m) \in config.exists
        BY <1>2, <3>1, AboveExists DEF Shapes
      <4>2. FirstOf(d, m) \in ChildrenIn(config.exists, d)
        BY <3>1, <4>1 DEF ChildrenIn
      <4> QED
        BY <1>3, <1>4, <4>2 DEF Fits
    <3>3. e = m.dir
      BY <2>1 DEF m
    <3> QED
      BY <1>2, <2>1, <3>1, <3>2, <3>3 DEF Above
  <2>2. CASE ~Above(d, m.dir)
    BY <2>2, TreeAssumption
  <2> QED
    BY <2>1, <2>2
<1>6. actor[e].life = "none"
  BY <1>5 DEF Tree, ActorTree, UnderParent
<1>7. e \notin config.exists
  BY <1>3, <1>5 DEF Fits, ChildrenIn
<1> QED
  BY <1>5, <1>6, <1>7

LEMMA TreeCreateDirAt ==
    ASSUME Shapes, Tree, ParentsExist, NEW d \in Dir, CreateDirAt(d)
    PROVE  Tree'
<1> DEFINE m == Head(box[d])
           e == IF Above(d, m.dir) THEN m.dir ELSE Blank[d]
           old == actor[d].state
           moved == ExtractChild(old.files, e)
           stay == [f \in Dir |-> IF e \in Up[f] THEN 0 ELSE old.files[f]]
           none == e \notin Dir \ DOMAIN old.dirs
           s == Snapshot(stay, [f \in DOMAIN old.dirs \cup {e} |->
                                    IF f = e THEN NoHash ELSE old.dirs[f]])
           q == [actor[d] EXCEPT !.state = s]
           x == MarkAsDirty(d, q, m.from)
           a == Arm(actor[d])
           new == Spawn("creating", d, Snapshot(moved, <<>>), actor[d].auto)
<1>1. /\ actor[d].task = Idle /\ actor[d].life = "running"
      /\ m \in Messages /\ m.op = "create_dir"
      /\ RecordOK(actor[d], Known, Messages) /\ Snap(actor[d].state, Known)
      /\ actor[d].state # NoHash /\ Msg("mark_as_dirty", d, None, None) \in Messages
  BY Receiving DEF CreateDirAt
<1>2. /\ UNCHANGED <<stored, rootFile, config>>
      /\ box' = Take(d)
      /\ actor' = [actor EXCEPT ![d] = IF none THEN a ELSE x, ![e] = IF none THEN @ ELSE new]
  BY DEF CreateDirAt, ClientsOnly
<1>3. BoxTree(Take(d))
  BY TakeTree DEF CreateDirAt, Receives
<1>4. NoHash \in Known /\ m.from \in Senders
  BY <1>1 DEF Known, Messages, WithoutCreate, PathOps
<1>5. e # d
  BY <1>1, TreeAssumption DEF Above
<1>6. ActorTree(actor) /\ ActorsOK(actor, Known, Messages) /\ ActorFits(d, actor[d])
  BY DEF Tree, Shapes, ActorTree
<1>7. CASE none
  <2>1. a.life = "running" /\ a.up = actor[d].up /\ a.state = actor[d].state /\ a.task = Idle
    BY <1>1, ArmFacts
  <2> DEFINE n == none
  <2>2. n /\ actor' = [actor EXCEPT ![d] = IF n THEN a ELSE x, ![e] = IF n THEN @ ELSE new]
    BY <1>2, <1>7
  <2> HIDE DEF e, new, x, a, n
  <2>3. actor' = [actor EXCEPT ![d] = a]
    BY <1>5, <1>6, <2>2 DEF ActorsOK
  <2>4. ActorTree(actor')
    BY <1>1, <2>1, <2>3, OwnTree, TellIdle
  <2> QED
    BY <1>2, <1>3, <2>4, TreeStays
<1>8. CASE ~none
  <2>1. /\ e # Root /\ Parent[e] = d /\ actor[e].life = "none" /\ e \notin config.exists
        /\ e \in Dir /\ e \notin DOMAIN old.dirs
    BY <1>8, CreatedFacts
  <2> DEFINE n == none
  <2>2. ~n /\ actor' = [actor EXCEPT ![d] = IF n THEN a ELSE x, ![e] = IF n THEN @ ELSE new]
    BY <1>2, <1>8
  <2> HIDE DEF m, e, moved, stay, n
  <2>3. /\ Snap(s, Known) /\ DOMAIN s.dirs = DOMAIN old.dirs \cup {e}
        /\ \A f \in DOMAIN old.dirs : s.dirs[f] = old.dirs[f]
        /\ s.dirs[e] = NoHash
    BY <1>1, <1>4, <2>1 DEF Snap, Snapshot
  <2> HIDE DEF s
  <2>4. /\ RecordOK(q, Known, Messages) /\ q.state # NoHash /\ q.task = Idle
        /\ q.life = "running" /\ q.up = actor[d].up /\ q.state = s
    BY <1>1, <2>3, StateOK, SnapIsNoHash
  <2> HIDE DEF q
  <2>5. /\ RecordOK(x, Known, Messages) /\ Marked(d, q, x, m.from)
    BY <1>1, <1>4, <2>4, MarkFacts
  <2>6. /\ x.life = "running" /\ x.up = actor[d].up /\ x.state = s /\ s # NoHash
        /\ x.task = Idle \/ x.task = Telling("mark_as_dirty", d, None, "arm", m.from)
    BY <2>4, <2>5 DEF Marked
  <2>7. TellFits(d, x.task)
    BY <2>6, TellIdle DEF TellFits, Telling, Msg
  <2> HIDE DEF x
  <2>8. Fits(d, s) /\ EntriesFit(s)
    <3>1. Fits(d, old) /\ EntriesFit(old)
      BY <1>1, <1>6 DEF ActorFits
    <3> QED
      BY <2>1, <2>3, <3>1 DEF Fits, EntriesFit
  <2>9. ActorFits(d, x)
    BY <1>6, <2>6, <2>7, <2>8 DEF ActorFits
  <2> DEFINE acts == [actor EXCEPT ![d] = x]
  <2>10. ActorTree(acts) /\ ActorsOK(acts, Known, Messages)
    BY <1>1, <1>6, <2>3, <2>5, <2>6, <2>9, ReplaceTree, ReplaceOK
  <2>11. acts[d] = x /\ acts[e] = actor[e]
    BY <1>5, <1>6, <2>1 DEF ActorsOK
  <2>12. ActorFits(e, new) /\ new.up = d /\ new.life # "none"
    <3> DEFINE s2 == Snapshot(moved, <<>>)
    <3>1. DOMAIN s2.dirs = {}
      BY DEF Snapshot
    <3>2. ChildrenIn(config.exists, e) = {}
      <4>1. config \in Configs
        BY DEF Shapes
      <4> QED
        BY <2>1, <4>1, ConfigAssumption DEF ChildrenIn
    <3> HIDE DEF s2
    <3>3. Fits(e, s2) /\ EntriesFit(s2)
      BY <3>1, <3>2 DEF Fits, EntriesFit
    <3>4. new.state = s2 /\ new.task = Idle /\ new.up = d /\ new.life = "creating"
      BY DEF Spawn, s2
    <3> HIDE DEF new
    <3> QED
      BY <2>1, <3>3, <3>4, TellIdle DEF ActorFits
  <2> HIDE DEF new, acts
  <2>13. ActorTree([acts EXCEPT ![e] = new])
    BY <2>1, <2>3, <2>6, <2>10, <2>11, <2>12, SpawnTree
  <2>14. actor' = [acts EXCEPT ![e] = new]
    BY <2>2 DEF acts
  <2> QED
    BY <1>2, <1>3, <2>13, <2>14, TreeStays
<1> QED
  BY <1>7, <1>8

-----------------------------------------------------------------------------
LEMMA TreeTell ==
    ASSUME Shapes, Tree, NEW d \in Dir, Tell(d)
    PROVE  Tree'
<1> DEFINE t == actor[d].task
           r == [actor[d] EXCEPT !.task = Idle]
           q == CASE t.then = "loop"  -> r
                  [] t.then = "arm"   -> Arm(r)
                  [] t.then = "saved" -> [r EXCEPT !.dirty = FALSE]
<1>1. /\ UNCHANGED <<stored, rootFile, config>>
      /\ box' = [box EXCEPT ![actor[d].up] = Append(@, t.msg)]
      /\ actor' = [actor EXCEPT ![d] = q]
  BY DEF Tell, ClientsOnly
<1>2. /\ RecordOK(actor[d], Known, Messages) /\ t.op = "tell" /\ actor[d].life = "running"
      /\ actor[d].state # NoHash
  BY Busy DEF Tell
<1>3. t \in TellTasks(Messages)
  BY <1>2 DEF RecordOK, AllTasks, WorkTasks, Idle
<1>4. t.msg \in Messages /\ t.then \in {"loop", "arm", "saved"}
  BY <1>3 DEF TellTasks
<1>5. /\ RecordOK(r, Known, Messages) /\ r.life = "running" /\ r.up = actor[d].up
      /\ r.state = actor[d].state /\ r.task = Idle
  BY <1>2, IdleOK
<1> HIDE DEF t, r
<1>6. q.life = "running" /\ q.up = actor[d].up /\ q.state = actor[d].state /\ q.task = Idle
  <2>1. CASE t.then = "loop"
    BY <1>5, <2>1
  <2>2. CASE t.then = "arm"
    BY <1>5, <2>2, ArmFacts
  <2>3. CASE t.then = "saved"
    BY <1>5, <2>3, DirtyOK
  <2> QED
    BY <1>4, <2>1, <2>2, <2>3
<1> HIDE DEF q
<1>7. ActorTree(actor')
  BY <1>1, <1>2, <1>6, OwnTree, TellIdle
<1>8. t.msg \in MessagesAt(actor[d].up)
  <2>1. TellFits(d, t)
    BY <1>2, OnlyRoot DEF ActorFits, t
  <2> QED
    BY <1>2, <1>4, <2>1 DEF TellFits, MessagesAt
<1>9. BoxTree(box')
  BY <1>1, <1>8, SendTree DEF Shapes, Tree
<1> QED
  BY <1>1, <1>7, <1>9, TreeStays

LEMMA TreeChildIsDirty ==
    ASSUME Shapes, Tree, NEW d \in Dir, ChildIsDirty(d)
    PROVE  Tree'
<1> DEFINE q == MarkAsDirty(d, actor[d], None)
<1>1. /\ actor[d].task = Idle /\ actor[d].life = "running"
      /\ RecordOK(actor[d], Known, Messages)
      /\ actor[d].state # NoHash /\ Msg("mark_as_dirty", d, None, None) \in Messages
  BY Receiving DEF ChildIsDirty
<1>2. /\ UNCHANGED <<stored, rootFile, config>>
      /\ box' = Take(d) /\ actor' = [actor EXCEPT ![d] = q]
  BY DEF ChildIsDirty, ClientsOnly
<1>3. Marked(d, actor[d], q, None)
  BY <1>1, MarkFacts DEF Senders
<1> HIDE DEF q
<1>4. /\ q.life = "running" /\ q.up = actor[d].up /\ q.state = actor[d].state
      /\ q.task = Idle \/ q.task = Telling("mark_as_dirty", d, None, "arm", None)
  BY <1>1, <1>3 DEF Marked
<1>5. TellFits(d, q.task)
  BY <1>4, TellIdle DEF TellFits, Telling, Msg
<1>6. ActorTree(actor')
  BY <1>1, <1>2, <1>4, <1>5, OwnTree
<1>7. BoxTree(box')
  BY <1>2, TakeTree DEF ChildIsDirty, Receives
<1> QED
  BY <1>2, <1>6, <1>7, TreeStays

LEMMA TreeUpdateDirRefHash ==
    ASSUME Shapes, Tree, NEW d \in Dir, UpdateDirRefHash(d)
    PROVE  Tree'
<1> DEFINE m == Head(box[d])
           s == [actor[d].state EXCEPT !.dirs[m.dir] = m.arg]
           q == [actor[d] EXCEPT !.state.dirs[m.dir] = m.arg]
           x == MarkAsDirty(d, q, None)
<1>1. /\ actor[d].task = Idle /\ actor[d].life = "running"
      /\ m \in Messages /\ m.op = "update_ref"
      /\ RecordOK(actor[d], Known, Messages) /\ Snap(actor[d].state, Known)
      /\ actor[d].state # NoHash /\ Msg("mark_as_dirty", d, None, None) \in Messages
  BY Receiving DEF UpdateDirRefHash
<1>2. /\ UNCHANGED <<stored, rootFile, config>>
      /\ box' = Take(d)
      /\ \/ actor' = [actor EXCEPT ![d] = actor[d]]
         \/ actor' = [actor EXCEPT ![d] = x]
  BY DEF UpdateDirRefHash, ClientsOnly
<1>3. BoxTree(box') /\ m \in MessagesAt(d)
  BY <1>2, TakeTree DEF UpdateDirRefHash, Receives
<1>4. m.arg \in Known /\ Fits(m.dir, m.arg)
  BY <1>1, <1>3 DEF Messages, Known, MessagesAt
<1>5. q = [actor[d] EXCEPT !.state = s]
  BY <1>1 DEF RecordOK
<1> HIDE DEF m
<1>6. /\ Snap(s, Known) /\ DOMAIN s.dirs = DOMAIN actor[d].state.dirs
      /\ \A f \in DOMAIN actor[d].state.dirs :
            s.dirs[f] = IF f = m.dir THEN m.arg ELSE actor[d].state.dirs[f]
  <2>1. Snap(s, Known) /\ Replaced(actor[d].state, s, m.dir, m.arg)
    BY <1>1, <1>4, EntryOK
  <2> HIDE DEF s
  <2> QED
    BY <2>1 DEF Replaced
<1> HIDE DEF s, q
<1>7. /\ RecordOK(q, Known, Messages) /\ q.state # NoHash /\ q.task = Idle
      /\ q.life = "running" /\ q.up = actor[d].up /\ q.state = s
  BY <1>1, <1>5, <1>6, StateOK, SnapIsNoHash
<1>8. Marked(d, q, x, None)
  BY <1>1, <1>7, MarkFacts DEF Senders
<1> HIDE DEF x
<1>9. /\ x.life = "running" /\ x.up = actor[d].up /\ x.state = s /\ s # NoHash
      /\ x.task = Idle \/ x.task = Telling("mark_as_dirty", d, None, "arm", None)
  BY <1>7, <1>8 DEF Marked
<1>10. TellFits(d, x.task)
  BY <1>9, TellIdle DEF TellFits, Telling, Msg
<1>11. ActorFits(d, actor[d]) /\ ActorTree(actor) /\ ActorsOK(actor, Known, Messages)
  BY DEF Tree, ActorTree, Shapes
<1>12. Fits(d, s) /\ EntriesFit(s)
  <2>1. Fits(d, actor[d].state) /\ EntriesFit(actor[d].state)
    BY <1>1, <1>11 DEF ActorFits
  <2> QED
    BY <1>4, <1>6, <2>1 DEF Fits, EntriesFit
<1>13. ActorFits(d, x)
  BY <1>9, <1>10, <1>11, <1>12 DEF ActorFits
<1>14. ActorTree([actor EXCEPT ![d] = x])
  BY <1>1, <1>6, <1>9, <1>11, <1>13, ReplaceTree
<1>15. ActorTree([actor EXCEPT ![d] = actor[d]])
  BY <1>1, <1>11, ReplaceTree
<1> QED
  BY <1>2, <1>3, <1>14, <1>15, TreeStays

\* The first and the last part of a handler that asks the children.
LEMMA WorkTree ==
    ASSUME Shapes, Tree, NEW d \in Dir, actor[d].life = "running", actor[d].state # NoHash,
           NEW t \in WorkTasks
    PROVE  ActorTree([actor EXCEPT ![d] = [actor[d] EXCEPT !.task = t]])
<1> DEFINE r == [actor[d] EXCEPT !.task = t]
<1>1. RecordOK(actor[d], Known, Messages)
  BY DEF Shapes, ActorsOK
<1>2. r.life = "running" /\ r.up = actor[d].up /\ r.state = actor[d].state /\ r.task = t
  BY <1>1 DEF RecordOK
<1>3. TellFits(d, t)
  BY DEF TellFits, WorkTasks
<1> HIDE DEF r
<1>4. ActorTree([actor EXCEPT ![d] = r])
  BY <1>2, <1>3, OwnTree
<1> QED
  BY <1>4 DEF r

LEMMA TreeSaveIfDirty ==
    ASSUME Shapes, Tree, NEW d \in Dir, SaveIfDirty(d)
    PROVE  Tree'
<1> DEFINE from == Head(box[d]).from
           t == [op |-> "save", from |-> from, todo |-> Handles(d), wait |-> {}]
           a == Arm(actor[d])
<1>1. /\ Head(box[d]) \in Messages /\ actor[d].life = "running" /\ actor[d].task = Idle
      /\ RecordOK(actor[d], Known, Messages) /\ actor[d].state # NoHash
  BY Receiving DEF SaveIfDirty
<1>2. /\ UNCHANGED <<stored, rootFile, config>>
      /\ box' = Take(d)
      /\ \/ actor' = [actor EXCEPT ![d].task = t]
         \/ actor' = ToParent([actor EXCEPT ![d] = a], from, d, NoHash)
  BY DEF SaveIfDirty, ClientsOnly
<1>3. BoxTree(box')
  BY <1>2, TakeTree DEF SaveIfDirty, Receives
<1>4. CASE actor' = [actor EXCEPT ![d].task = t]
  <2>1. t \in WorkTasks
    BY <1>1 DEF WorkTasks, Messages, Handles
  <2> HIDE DEF t
  <2>2. actor' = [actor EXCEPT ![d] = [actor[d] EXCEPT !.task = t]]
    BY <1>4
  <2>3. ActorTree(actor')
    BY <1>1, <2>1, <2>2, WorkTree
  <2> QED
    BY <1>2, <1>3, <2>3, TreeStays
<1>5. CASE actor' = ToParent([actor EXCEPT ![d] = a], from, d, NoHash)
  <2>1. /\ a.life = "running" /\ a.up = actor[d].up /\ a.state = actor[d].state
        /\ a.task = Idle /\ RecordOK(a, Known, Messages)
    BY <1>1, ArmFacts
  <2> HIDE DEF a
  <2>2. ActorTree([actor EXCEPT ![d] = a])
    BY <1>1, <2>1, OwnTree, TellIdle
  <2>3. ActorsOK([actor EXCEPT ![d] = a], Known, Messages)
    BY <2>1, ReplaceOK DEF Shapes
  <2>4. ActorTree(actor')
    BY <1>5, <2>2, <2>3, ToParentTree
  <2> QED
    BY <1>2, <1>3, <2>4, TreeStays
<1> QED
  BY <1>2, <1>4, <1>5

LEMMA TreeAskChild ==
    ASSUME Shapes, Tree, NEW d \in Dir, NEW e \in Dir, AskChild(d, e)
    PROVE  Tree'
<1> DEFINE t == actor[d].task
           t1 == [t EXCEPT !.todo = @ \ {e}]
           t2 == [t EXCEPT !.todo = @ \ {e}, !.wait = @ \cup {e}]
           m == Msg(t.op, e, 0, d)
<1>1. /\ RecordOK(actor[d], Known, Messages) /\ actor[d].state # NoHash
      /\ t.op \in {"save", "shutdown"}
  BY Busy DEF AskChild
<1>2. /\ UNCHANGED <<stored, rootFile, config>>
      /\ \/ box' = box /\ actor' = [actor EXCEPT ![d].task.todo = @ \ {e}]
         \/ /\ actor' = [actor EXCEPT ![d].task.todo = @ \ {e}, ![d].task.wait = @ \cup {e}]
            /\ box' = [box EXCEPT ![e] = Append(@, m)]
  BY DEF AskChild, ClientsOnly
<1>3. t \in WorkTasks
  BY <1>1 DEF RecordOK, AllTasks, TellTasks, Idle
<1>4. t1 \in WorkTasks /\ t2 \in WorkTasks
  BY <1>3 DEF WorkTasks
<1>5. m \in MessagesAt(e)
  <2>1. m \in Messages
    BY <1>1 DEF Messages, Msg, Senders, PathOps, Ops, Answered
  <2> QED
    BY <1>1, <2>1, TreeAssumption DEF MessagesAt, Msg
<1>6. [actor EXCEPT ![d].task.todo = @ \ {e}] = [actor EXCEPT ![d] = [actor[d] EXCEPT !.task = t1]]
  BY <1>1 DEF RecordOK
<1>7. [actor EXCEPT ![d].task.todo = @ \ {e}, ![d].task.wait = @ \cup {e}]
        = [actor EXCEPT ![d] = [actor[d] EXCEPT !.task = t2]]
  BY <1>1, <1>3 DEF RecordOK, WorkTasks, Shapes, ActorsOK
<1> HIDE DEF t1, t2, m
<1>8. actor[d].life = "running"
  BY <1>1 DEF Tree, ActorTree, ActorFits, Idle
<1>9. ActorTree(actor')
  <2>1. \A u \in WorkTasks : ActorTree([actor EXCEPT ![d] = [actor[d] EXCEPT !.task = u]])
    BY <1>1, <1>8, WorkTree
  <2> QED
    BY <1>2, <1>4, <1>6, <1>7, <2>1
<1>10. BoxTree(box')
  <2>1. BoxTree([box EXCEPT ![e] = Append(@, m)])
    BY <1>5, SendTree DEF Shapes, Tree
  <2> QED
    BY <1>2, <2>1 DEF Tree
<1> QED
  BY <1>2, <1>9, <1>10, TreeStays

LEMMA TreeSaveDone ==
    ASSUME Shapes, Tree, NEW d \in Dir, SaveDone(d)
    PROVE  Tree'
<1> DEFINE from == actor[d].task.from
           r == [actor[d] EXCEPT !.task = Idle]
           hash(ok) == IF ok /\ r.dirty THEN r.state ELSE NoHash
<1>1. /\ RecordOK(actor[d], Known, Messages) /\ actor[d].state # NoHash
      /\ actor[d].task.op = "save"
  BY Busy DEF SaveDone, ChildrenDone
<1>2. /\ RecordOK(r, Known, Messages) /\ r.state = actor[d].state
      /\ r.dirty \in BOOLEAN /\ r.life = actor[d].life /\ r.up = actor[d].up
      /\ r.task = Idle
  BY <1>1, IdleOK DEF RecordOK
<1>3. PICK ok \in IF r.dirty THEN Outcome ELSE {TRUE} :
        /\ Persist(d, ok /\ r.dirty)
        /\ actor' = ToParent([actor EXCEPT ![d] = Arm([r EXCEPT !.dirty = @ /\ ~ok])],
                             from, d, hash(ok))
  BY DEF SaveDone
<1>4. config' = config /\ box' = box
  BY DEF SaveDone, ClientsOnly
<1>5. /\ ok /\ r.dirty => actor[d].state \in stored'
      /\ Known \subseteq Known' /\ Messages \subseteq Messages'
  BY <1>1, <1>3, <1>4, PersistFacts
<1>6. StoreTree'
  BY <1>1, <1>3, <1>4, PersistTree
<1> HIDE DEF r
<1> DEFINE b == r.dirty /\ ~ok
           q == [r EXCEPT !.dirty = b]
           x == Arm(q)
<1>7. /\ RecordOK(q, Known, Messages) /\ q.state = r.state /\ q.life = r.life /\ q.up = r.up
      /\ q.task = Idle
  <2>1. b \in BOOLEAN
    BY <1>2
  <2> HIDE DEF b
  <2> QED
    BY <1>2, <2>1, DirtyOK
<1> HIDE DEF q
<1>8. /\ RecordOK(x, Known, Messages) /\ x.state = actor[d].state
      /\ x.life = actor[d].life /\ x.up = actor[d].up /\ x.task = Idle
  BY <1>2, <1>7, ArmFacts
<1> HIDE DEF x
<1> DEFINE acts == [actor EXCEPT ![d] = x]
           h == hash(ok)
<1>9. actor[d].life = "running"
  BY <1>1 DEF Tree, ActorTree, ActorFits, Idle
<1>10. ActorTree(acts)
  BY <1>1, <1>8, <1>9, OwnTree, TellIdle
<1>11. ActorsOK(acts, Known', Messages')
  <2>1. ActorsOK(acts, Known, Messages)
    BY <1>8, ReplaceOK DEF Shapes
  <2> HIDE DEF acts
  <2> QED
    BY <1>5, <2>1, ActorsGrow
<1>12. h = NoHash \/ (h \in Known' /\ Fits(d, h))
  <2>1. Fits(d, actor[d].state)
    BY <1>1, <1>9, OnlyRoot DEF ActorFits
  <2> QED
    BY <1>2, <1>5, <2>1 DEF Known
<1>13. actor' = ToParent(acts, from, d, h)
  BY <1>3 DEF x, q
<1> HIDE DEF acts, h
<1>14. ActorTree(actor')
  BY <1>10, <1>11, <1>12, <1>13, ToParentTree
<1> QED
  BY <1>4, <1>5, <1>6, <1>14, TreeStep DEF Tree

LEMMA TreeFire ==
    ASSUME Shapes, Tree, NEW d \in Dir, Fire(d)
    PROVE  Tree'
<1> DEFINE m == Msg("autosave_tick", d, 0, None)
           r == [actor[d] EXCEPT !.timer = "fired"]
<1>1. /\ RecordOK(actor[d], Known, Messages) /\ actor[d].state # NoHash
      /\ actor[d].life = "running"
  BY Busy DEF Fire
<1>2. /\ UNCHANGED <<stored, rootFile, config>>
      /\ actor' = [actor EXCEPT ![d] = r]
      /\ box' = [box EXCEPT ![d] = Append(@, m)]
  BY DEF Fire, ClientsOnly
<1>3. /\ r.life = "running" /\ r.up = actor[d].up /\ r.state = actor[d].state
      /\ r.task = actor[d].task
  BY <1>1 DEF RecordOK
<1>4. m \in MessagesAt(d)
  BY DEF Msg, Messages, Senders, PathOps, MessagesAt
<1> HIDE DEF m, r
<1>5. BoxTree(box')
  BY <1>2, <1>4, SendTree DEF Shapes, Tree
<1>6. TellFits(d, r.task)
  BY <1>1, <1>3, OnlyRoot DEF ActorFits
<1>7. ActorTree(actor')
  BY <1>1, <1>2, <1>3, <1>6, OwnTree
<1> QED
  BY <1>2, <1>5, <1>7, TreeStays

LEMMA TreeAutosaveTick ==
    ASSUME Shapes, Tree, NEW d \in Dir, AutosaveTick(d)
    PROVE  Tree'
<1> DEFINE r == [actor[d] EXCEPT !.timer = "off"]
           tell == ~IsRoot(d) /\ actor[r.up].life # "stopped"
           t == Telling("update_ref", d, r.state, "saved", None)
<1>1. /\ RecordOK(actor[d], Known, Messages) /\ actor[d].state # NoHash
      /\ actor[d].life = "running" /\ actor[d].task = Idle
  BY Receiving DEF AutosaveTick
<1>2. /\ RecordOK(r, Known, Messages) /\ r.state = actor[d].state
      /\ r.life = "running" /\ r.up = actor[d].up /\ r.task = Idle
  BY <1>1 DEF RecordOK
<1>3. PICK ok \in IF r.dirty THEN Outcome ELSE {TRUE} :
        /\ Persist(d, ok /\ r.dirty)
        /\ actor' = [actor EXCEPT ![d] =
             IF ~ok THEN Arm(r)
             ELSE IF r.dirty /\ tell
             THEN [r EXCEPT !.task = t]
             ELSE [r EXCEPT !.dirty = FALSE]]
  BY DEF AutosaveTick
<1>4. config' = config /\ box' = Take(d)
  BY DEF AutosaveTick, ClientsOnly
<1>5. StoreTree' /\ Messages \subseteq Messages'
  BY <1>1, <1>3, <1>4, PersistTree
<1>6. TellFits(d, t)
  <2>1. Fits(d, actor[d].state)
    BY <1>1, OnlyRoot DEF ActorFits
  <2> QED
    BY <1>2, <2>1 DEF TellFits, Telling, Msg
<1> DEFINE r1 == Arm(r)
           r2 == [r EXCEPT !.task = t]
           r3 == [r EXCEPT !.dirty = FALSE]
<1>7. actor' = [actor EXCEPT ![d] = r1] \/ actor' = [actor EXCEPT ![d] = r2]
      \/ actor' = [actor EXCEPT ![d] = r3]
  BY <1>3
<1> HIDE DEF r, t, tell
<1>8. /\ r1.life = "running" /\ r1.up = actor[d].up /\ r1.state = actor[d].state
      /\ r1.task = Idle
  BY <1>2, ArmFacts
<1>9. /\ r2.life = "running" /\ r2.up = actor[d].up /\ r2.state = actor[d].state
      /\ r2.task = t
  BY <1>2 DEF RecordOK
<1>10. /\ r3.life = "running" /\ r3.up = actor[d].up /\ r3.state = actor[d].state
       /\ r3.task = Idle
  BY <1>2, DirtyOK
<1> HIDE DEF r1, r2, r3
<1>11. /\ ActorTree([actor EXCEPT ![d] = r1]) /\ ActorTree([actor EXCEPT ![d] = r2])
       /\ ActorTree([actor EXCEPT ![d] = r3])
  BY <1>1, <1>6, <1>8, <1>9, <1>10, OwnTree, TellIdle
<1>12. BoxTree(box')
  BY <1>4, TakeTree DEF AutosaveTick, Receives
<1> QED
  BY <1>4, <1>5, <1>7, <1>11, <1>12, TreeStep

LEMMA TreeSetAutosave ==
    ASSUME Shapes, Tree, NEW d \in Dir, SetAutosave(d)
    PROVE  Tree'
<1> DEFINE r == [actor[d] EXCEPT !.auto = TRUE]
           live == {e \in Handles(d) : actor[e].life # "stopped"}
           m == Head(box[d])
           a == Arm(r)
<1>1. /\ RecordOK(actor[d], Known, Messages) /\ m \in Messages /\ m.op = "with_autosave"
      /\ actor[d].state # NoHash /\ actor[d].life = "running" /\ actor[d].task = Idle
  BY Receiving DEF SetAutosave
<1>2. /\ UNCHANGED <<stored, rootFile, config>>
      /\ actor' = [actor EXCEPT ![d] = a]
      /\ box' = [f \in Dir |-> IF f = d THEN Tail(box[f])
                               ELSE IF f \in live THEN Append(box[f], m)
                               ELSE box[f]]
  BY DEF SetAutosave, ClientsOnly
<1>3. m \in MessagesAt(d) /\ box[d] # <<>>
  BY TakeTree DEF SetAutosave, Receives
<1> HIDE DEF live, m
<1>4. BoxTree(box')
  <2>1. ASSUME NEW f \in Dir PROVE box'[f] \in Seq(MessagesAt(f))
    <3>1. box[f] \in Seq(MessagesAt(f)) /\ m \in MessagesAt(f)
      BY <1>1, <1>3 DEF Tree, BoxTree, MessagesAt
    <3>2. CASE f = d
      BY <1>2, <1>3, <3>1, <3>2
    <3>3. CASE f # d /\ f \in live
      BY <1>2, <3>1, <3>3
    <3>4. CASE f # d /\ f \notin live
      BY <1>2, <3>1, <3>4
    <3> QED
      BY <3>2, <3>3, <3>4
  <2> QED
    BY <2>1 DEF BoxTree
<1>5. /\ RecordOK(r, Known, Messages) /\ r.life = "running" /\ r.up = actor[d].up
      /\ r.state = actor[d].state /\ r.task = Idle
  BY <1>1, AutoOK
<1> HIDE DEF r
<1>6. a.life = "running" /\ a.up = actor[d].up /\ a.state = actor[d].state /\ a.task = Idle
  BY <1>5, ArmFacts
<1> HIDE DEF a
<1>7. ActorTree(actor')
  BY <1>1, <1>2, <1>6, OwnTree, TellIdle
<1> QED
  BY <1>2, <1>4, <1>7, TreeStays

LEMMA TreeBeginShutdown ==
    ASSUME Shapes, Tree, NEW d \in Dir, BeginShutdown(d)
    PROVE  Tree'
<1> DEFINE t == [op |-> "shutdown", from |-> Head(box[d]).from, todo |-> Handles(d), wait |-> {}]
<1>1. /\ Head(box[d]) \in Messages /\ actor[d].life = "running" /\ actor[d].state # NoHash
  BY Receiving DEF BeginShutdown
<1>2. config' = config /\ box' = Take(d) /\ actor' = [actor EXCEPT ![d].task = t]
  BY DEF BeginShutdown, ClientsOnly
<1>3. PICK ok : Persist(d, ok /\ actor[d].dirty)
  BY DEF BeginShutdown
<1>4. StoreTree' /\ Messages \subseteq Messages'
  BY <1>1, <1>2, <1>3, PersistTree
<1>5. t \in WorkTasks
  BY <1>1 DEF WorkTasks, Messages, Handles
<1> HIDE DEF t
<1>6. actor' = [actor EXCEPT ![d] = [actor[d] EXCEPT !.task = t]]
  BY <1>2
<1>7. ActorTree(actor')
  BY <1>1, <1>5, <1>6, WorkTree
<1>8. BoxTree(box')
  BY <1>2, TakeTree DEF BeginShutdown, Receives
<1> QED
  BY <1>2, <1>4, <1>7, <1>8, TreeStep

LEMMA TreeStop ==
    ASSUME Shapes, Tree, NEW d \in Dir, Stop(d)
    PROVE  Tree'
<1> DEFINE q == [[actor[d] EXCEPT !.life = "stopped"] EXCEPT !.task = Idle]
           acts == [actor EXCEPT ![d].life = "stopped", ![d].task = Idle]
<1>1. /\ RecordOK(actor[d], Known, Messages) /\ actor[d].state # NoHash
      /\ actor[d].task.op = "shutdown"
  BY Busy DEF Stop, ChildrenDone
<1>2. /\ config' = config /\ box' = [box EXCEPT ![d] = <<>>]
      /\ actor' = ToParent(acts, actor[d].task.from, d, NoHash)
  BY DEF Stop, ClientsOnly
<1>3. PICK ok : Persist(d, ok /\ actor[d].dirty)
  BY DEF Stop
<1>4. StoreTree' /\ Messages \subseteq Messages'
  BY <1>1, <1>2, <1>3, PersistTree
<1>5. acts = [actor EXCEPT ![d] = q]
  BY <1>1 DEF RecordOK, Shapes, ActorsOK
<1>6. /\ q.life = "stopped" /\ q.up = actor[d].up /\ q.state = actor[d].state /\ q.task = Idle
      /\ RecordOK(q, Known, Messages)
  <2> DEFINE r == [actor[d] EXCEPT !.life = "stopped"]
  <2>1. /\ RecordOK(r, Known, Messages) /\ r.life = "stopped" /\ r.up = actor[d].up
        /\ r.state = actor[d].state
    BY <1>1, LifeOK
  <2>2. q = [r EXCEPT !.task = Idle]
    OBVIOUS
  <2> HIDE DEF r, q
  <2> QED
    BY <2>1, <2>2, IdleOK
<1> HIDE DEF q
<1>7. actor[d].life # "none"
  BY <1>1 DEF Tree, ActorTree, ActorFits, Idle
<1>8. ActorTree([actor EXCEPT ![d] = q])
  BY <1>1, <1>6, <1>7, OwnTree, TellIdle
<1>9. ActorsOK([actor EXCEPT ![d] = q], Known, Messages)
  BY <1>6, ReplaceOK DEF Shapes
<1>10. ActorTree(actor')
  BY <1>2, <1>5, <1>8, <1>9, ToParentTree
<1>11. BoxTree(box')
  BY <1>2, DropTree
<1> QED
  BY <1>2, <1>4, <1>10, <1>11, TreeStep

LEMMA TreeOrphan ==
    ASSUME Shapes, Tree, NEW d \in Dir, Orphan(d)
    PROVE  Tree'
<1> DEFINE r == [actor[d] EXCEPT !.life = "stopped"]
<1>1. /\ RecordOK(actor[d], Known, Messages) /\ actor[d].state # NoHash
      /\ actor[d].life = "running" /\ actor[d].task = Idle
  BY Busy DEF Orphan, Free
<1>2. config' = config /\ box' = box /\ actor' = [actor EXCEPT ![d] = r]
  BY DEF Orphan, ClientsOnly
<1>3. PICK ok : Persist(d, ok /\ actor[d].dirty)
  BY DEF Orphan
<1>4. StoreTree' /\ Messages \subseteq Messages'
  BY <1>1, <1>2, <1>3, PersistTree
<1>5. r.life = "stopped" /\ r.up = actor[d].up /\ r.state = actor[d].state /\ r.task = Idle
  BY <1>1, LifeOK
<1> HIDE DEF r
<1>6. ActorTree(actor')
  BY <1>1, <1>2, <1>5, OwnTree, TellIdle
<1> QED
  BY <1>2, <1>4, <1>6, TreeStep DEF Tree

LEMMA ConfigStays == [Next]_vars => config' = config
<1> SUFFICES ASSUME [Next]_vars PROVE config' = config
  OBVIOUS
<1>1. CASE ClientStep
  BY <1>1 DEF ClientStep, FilePutSync, FileGet, CreateDir, FilePut, Save, Shutdown,
              WithAutosave, Call, Post, Drop, Crash
<1>2. ASSUME NEW d \in Dir, ActorStep(d) PROVE config' = config
  BY <1>2 DEF ActorStep, ClientsOnly, Publish, Load, Forward, FileOp, CreateDirAt, Tell,
              ChildIsDirty, UpdateDirRefHash, SaveIfDirty, AskChild, SaveDone,
              AutosaveTick, SetAutosave, BeginShutdown, Stop, Orphan
<1>3. ASSUME NEW d \in Dir, Fire(d) PROVE config' = config
  BY <1>3 DEF Fire, ClientsOnly
<1> QED
  BY <1>1, <1>2, <1>3 DEF Next, vars

LEMMA TreeNext == Shapes /\ Shapes' /\ ParentsExist /\ Tree /\ [Next]_vars => Tree'
<1> SUFFICES ASSUME Shapes, Shapes', ParentsExist, Tree, [Next]_vars PROVE Tree'
  OBVIOUS
<1>1. CASE ClientStep
  BY <1>1, TreeClient
<1>2. ASSUME NEW d \in Dir, ActorStep(d) PROVE Tree'
  BY <1>2, TreePublish, TreeLoad, TreeForward, TreeFileOp, TreeCreateDirAt,
     TreeTell, TreeChildIsDirty, TreeUpdateDirRefHash, TreeSaveIfDirty,
     TreeAskChild, TreeSaveDone, TreeAutosaveTick, TreeSetAutosave,
     TreeBeginShutdown, TreeStop, TreeOrphan
  DEF ActorStep
<1>3. ASSUME NEW d \in Dir, Fire(d) PROVE Tree'
  BY <1>3, TreeFire
<1>4. CASE UNCHANGED vars
  BY <1>4, TreeStays DEF vars, Tree
<1> QED
  BY <1>1, <1>2, <1>3, <1>4 DEF Next

\* Where directories are created only below existing ones, the open actors are a
\* tree over the paths: each is registered with the actor of the path above it, and
\* every snapshot has the entries of its own path (open_child, create_dir_at).
THEOREM TreeCorrect == Spec => [](ParentsExist => Tree)
<1>1. Init => (ParentsExist => Tree)
  BY TreeInit
<1>2. Shapes /\ Shapes' /\ (ParentsExist => Tree) /\ [Next]_vars => (ParentsExist => Tree)'
  <2>1. [Next]_vars => (ParentsExist' <=> ParentsExist)
    BY ConfigStays DEF ParentsExist
  <2> QED
    BY <2>1, TreeNext
<1> QED
  BY <1>1, <1>2, ShapesCorrect, PTL DEF Spec

-----------------------------------------------------------------------------
(***************************************************************************)
(* Every call is owed an answer.                                           *)
(***************************************************************************)
Works(acts, f, k) == acts[f].task.op # "idle" /\ acts[f].task.from = k
DroppedIn(b, f) == {b[f][i].from : i \in DOMAIN b[f]}
Owed(acts, b, k) == \E f \in Dir : k \in DroppedIn(b, f) \/ Works(acts, f, k)

Owing ==
    /\ client = [c \in Client |-> client[c]]
    /\ \A k \in Client : client[k] # NoCall => Owed(actor, box, k)

LEMMA DroppedTake ==
    ASSUME NEW M, box \in [Dir -> Seq(M)], NEW d \in Dir, box[d] # <<>>, NEW f \in Dir,
           NEW k, k \in DroppedIn(box, f)
    PROVE  k \in DroppedIn(Take(d), f) \/ (f = d /\ k = Head(box[d]).from)
<1>1. PICK i \in DOMAIN box[f] : k = box[f][i].from
  BY DEF DroppedIn
<1>2. CASE f # d
  BY <1>1, <1>2 DEF DroppedIn, Take
<1>3. CASE f = d
  <2>1. Take(d)[d] = Tail(box[d]) /\ box[d] \in Seq(M)
    BY DEF Take
  <2>2. CASE i = 1
    BY <1>1, <1>3, <2>1, <2>2
  <2>3. CASE i # 1
    <3>1. i - 1 \in DOMAIN Tail(box[d]) /\ Tail(box[d])[i - 1] = box[d][i]
      BY <1>1, <1>3, <2>1, <2>3
    <3> QED
      BY <1>1, <1>3, <2>1, <3>1 DEF DroppedIn
  <2> QED
    BY <2>2, <2>3
<1> QED
  BY <1>2, <1>3

LEMMA DroppedSend ==
    ASSUME NEW M, NEW b \in [Dir -> Seq(M)], NEW e, NEW m
    PROVE  LET new == [b EXCEPT ![e] = Append(@, m)] IN
           /\ \A f \in Dir : DroppedIn(b, f) \subseteq DroppedIn(new, f)
           /\ e \in Dir => m.from \in DroppedIn(new, e)
<1> DEFINE new == [b EXCEPT ![e] = Append(@, m)]
<1>1. ASSUME NEW f \in Dir PROVE DroppedIn(b, f) \subseteq DroppedIn(new, f)
  <2>1. CASE f # e
    BY <2>1 DEF DroppedIn
  <2>2. CASE f = e
    <3>1. new[f] = Append(b[f], m) /\ b[f] \in Seq(M)
      BY <2>2
    <3>2. \A i \in DOMAIN b[f] : i \in DOMAIN new[f] /\ new[f][i] = b[f][i]
      BY <3>1
    <3> QED
      BY <3>2 DEF DroppedIn
  <2> QED
    BY <2>1, <2>2
<1>2. ASSUME e \in Dir PROVE m.from \in DroppedIn(new, e)
  <2>1. new[e] = Append(b[e], m) /\ b[e] \in Seq(M)
    BY <1>2
  <2>2. Len(b[e]) + 1 \in DOMAIN new[e] /\ new[e][Len(b[e]) + 1] = m
    BY <2>1
  <2> QED
    BY <2>2 DEF DroppedIn
<1> QED
  BY <1>1, <1>2

\* A step of directory d after which the callers in `out` wait no more.
LEMMA OwingStep ==
    ASSUME Owing, NEW d \in Dir, NEW out,
           client' = [k \in Client |-> client'[k]],
           \A k \in Client : client'[k] # NoCall => client[k] # NoCall /\ k \notin out,
           \A f \in Dir : \A k \in Client :
               k \in DroppedIn(box, f) => k \in out \/ Owed(actor', box', k),
           \A f \in Dir : f # d => \A k \in Client :
               Works(actor, f, k) => k \in out \/ Owed(actor', box', k),
           \A k \in Client : Works(actor, d, k) => k \in out \/ Owed(actor', box', k)
    PROVE  Owing'
<1>1. ASSUME NEW k \in Client, client'[k] # NoCall PROVE Owed(actor', box', k)
  <2>1. client[k] # NoCall /\ k \notin out
    BY <1>1
  <2>2. PICK f \in Dir : k \in DroppedIn(box, f) \/ Works(actor, f, k)
    BY <2>1 DEF Owing, Owed
  <2> QED
    BY <2>1, <2>2
<1>2. (\A k \in Client : client[k] # NoCall => Owed(actor, box, k))'
  BY <1>1 DEF Owed, Works, DroppedIn
<1> QED
  BY <1>2 DEF Owing

LEMMA AnswerFacts ==
    ASSUME Owing, NEW c, NEW failed, Answer(c, failed)
    PROVE  /\ client' = [k \in Client |-> client'[k]]
           /\ \A k \in Client : client'[k] # NoCall =>
                 client[k] # NoCall /\ k \notin {c} \cup failed
BY DEF Answer, Released

LEMMA NoAnswerFacts ==
    ASSUME Owing, NoAnswer
    PROVE  /\ client' = [k \in Client |-> client'[k]]
           /\ \A k \in Client : client'[k] # NoCall => client[k] # NoCall /\ k \notin {}
BY DEF Owing, NoAnswer

\* A task that is only waited for less is owed to the same caller.
LEMMA WorksToParent ==
    ASSUME NEW acts, NEW S, NEW M, ActorsOK(acts, S, M), NEW p, NEW d, NEW hash,
           hash = NoHash \/ hash \in S, NEW f \in Dir, NEW k, Works(acts, f, k)
    PROVE  Works(ToParent(acts, p, d, hash), f, k)
<1> DEFINE new == ToParent(acts, p, d, hash)
<1>1. ActorsOK(new, S, M) /\ AnswerTo(acts, new, p, d, hash)
  BY ToParentFacts
<1> HIDE DEF new
<1>2. CASE f # p
  BY <1>1, <1>2 DEF AnswerTo, Works, new
<1>3. CASE f = p
  <2> DEFINE t == acts[p].task
             u == [t EXCEPT !.wait = @ \ {d}]
  <2>1. t \in AllTasks(M)
    BY <1>3 DEF ActorsOK, RecordOK
  <2>2. new[p].task = u
    BY <1>1, <1>3 DEF AnswerTo
  <2>3. /\ t.op \notin {"save", "shutdown"} => u = t
        /\ t.op \in {"save", "shutdown"} =>
              u = [op |-> t.op, from |-> t.from, todo |-> t.todo, wait |-> t.wait \ {d}]
    BY <2>1, WaitOK
  <2> HIDE DEF u
  <2>4. u.op = t.op /\ (t.op # "idle" => u.from = t.from)
    <3>1. CASE t.op \in {"save", "shutdown"}
      BY <2>3, <3>1
    <3>2. CASE t.op \notin {"save", "shutdown"}
      BY <2>3, <3>2
    <3> QED
      BY <3>1, <3>2
  <2> QED
    BY <1>3, <2>2, <2>4 DEF Works, new
<1> QED
  BY <1>2, <1>3 DEF new

\* Only the task of directory d changes.
LEMMA OwingOwn ==
    ASSUME Shapes, Owing, NEW d \in Dir, NEW r, NEW out,
           actor' = [actor EXCEPT ![d] = r],
           client' = [k \in Client |-> client'[k]],
           \A k \in Client : client'[k] # NoCall => client[k] # NoCall /\ k \notin out,
           \A f \in Dir : \A k \in Client : k \in DroppedIn(box, f) =>
               k \in out \/ k \in DroppedIn(box', f) \/ (r.task.op # "idle" /\ r.task.from = k),
           \A k \in Client : Works(actor, d, k) =>
               k \in out \/ (r.task.op # "idle" /\ r.task.from = k)
    PROVE  Owing'
<1>1. actor'[d] = r /\ \A f \in Dir : f # d => actor'[f] = actor[f]
  BY DEF Shapes, ActorsOK
<1>2. \A k \in Client : r.task.op # "idle" /\ r.task.from = k => Owed(actor', box', k)
  BY <1>1 DEF Owed, Works
<1>3. \A f \in Dir : \A k \in Client : k \in DroppedIn(box', f) => Owed(actor', box', k)
  BY DEF Owed
<1>4. \A f \in Dir : f # d => \A k \in Client :
          Works(actor, f, k) => k \in out \/ Owed(actor', box', k)
  BY <1>1 DEF Owed, Works
<1>5. \A f \in Dir : \A k \in Client :
          k \in DroppedIn(box, f) => k \in out \/ Owed(actor', box', k)
  BY <1>2, <1>3
<1>6. \A k \in Client : Works(actor, d, k) => k \in out \/ Owed(actor', box', k)
  BY <1>2
<1> QED
  BY <1>4, <1>5, <1>6, OwingStep

\* The same, and the parent gets an answer.
LEMMA OwingToParent ==
    ASSUME Shapes, Owing, NEW d \in Dir, NEW r, NEW out, NEW S, NEW M,
           ActorsOK([actor EXCEPT ![d] = r], S, M),
           NEW p, NEW hash, hash = NoHash \/ hash \in S,
           actor' = ToParent([actor EXCEPT ![d] = r], p, d, hash),
           client' = [k \in Client |-> client'[k]],
           \A k \in Client : client'[k] # NoCall => client[k] # NoCall /\ k \notin out,
           \A f \in Dir : \A k \in Client : k \in DroppedIn(box, f) =>
               k \in out \/ k \in DroppedIn(box', f),
           \A k \in Client : Works(actor, d, k) => k \in out
    PROVE  Owing'
<1> DEFINE acts == [actor EXCEPT ![d] = r]
<1>1. \A f \in Dir : f # d => acts[f] = actor[f]
  BY DEF Shapes, ActorsOK
<1>2. ASSUME NEW f \in Dir, f # d, NEW k \in Client, Works(actor, f, k)
      PROVE  Owed(actor', box', k)
  <2>1. Works(acts, f, k)
    BY <1>1, <1>2 DEF Works
  <2> HIDE DEF acts
  <2>2. ActorsOK(acts, S, M) /\ actor' = ToParent(acts, p, d, hash)
    BY DEF acts
  <2>3. Works(actor', f, k)
    BY <2>1, <2>2, WorksToParent
  <2> QED
    BY <2>3 DEF Owed
<1>3. \A f \in Dir : \A k \in Client :
          k \in DroppedIn(box, f) => k \in out \/ Owed(actor', box', k)
  BY DEF Owed
<1>4. \A f \in Dir : f # d => \A k \in Client :
          Works(actor, f, k) => k \in out \/ Owed(actor', box', k)
  BY <1>2
<1>5. \A k \in Client : Works(actor, d, k) => k \in out \/ Owed(actor', box', k)
  OBVIOUS
<1> QED
  BY <1>3, <1>4, <1>5, OwingStep

-----------------------------------------------------------------------------
LEMMA OwingClient == Shapes /\ Owing /\ ClientStep => Owing'
<1> SUFFICES ASSUME Shapes, Owing, ClientStep PROVE Owing'
  OBVIOUS
<1>0. box \in [Dir -> Seq(Messages)] /\ Root \in Dir
  BY TreeAssumption DEF Shapes
<1>1. ASSUME NEW op, NEW d, NEW arg, NEW from, Post(op, d, arg, from)
      PROVE  /\ actor' = actor
             /\ \A k \in Client : Owed(actor, box, k) => Owed(actor', box', k)
             /\ Owed(actor', box', from)
  <2> DEFINE m == Msg(op, d, arg, from)
  <2>1. actor' = actor /\ box' = [box EXCEPT ![Root] = Append(@, m)]
    BY <1>1 DEF Post
  <2>2. m.from = from
    BY DEF Msg
  <2> HIDE DEF m
  <2>3. /\ \A f \in Dir : DroppedIn(box, f) \subseteq DroppedIn(box', f)
        /\ from \in DroppedIn(box', Root)
    BY <1>0, <2>1, <2>2, DroppedSend
  <2> QED
    BY <1>0, <2>1, <2>3 DEF Owed
<1>2. ASSUME NEW c \in Client, NEW op, NEW d, NEW arg, Call(c, op, d, arg) PROVE Owing'
  <2>1. Post(op, d, arg, c)
    BY <1>2 DEF Call
  <2>2. /\ client' = [k \in Client |-> client'[k]]
        /\ \A k \in Client : k # c => client'[k] = client[k]
    BY <1>2 DEF Call, Owing
  <2>3. \A k \in Client : client'[k] # NoCall => Owed(actor', box', k)
    BY <1>1, <2>1, <2>2 DEF Owing
  <2> QED
    BY <2>2, <2>3 DEF Owing, Owed, Works, DroppedIn
<1>3. ASSUME NEW op, NEW d, NEW arg, NEW from, Post(op, d, arg, from), client' = client
      PROVE  Owing'
  <2>1. \A k \in Client : client'[k] # NoCall => Owed(actor', box', k)
    BY <1>1, <1>3 DEF Owing
  <2> QED
    BY <1>3, <2>1 DEF Owing, Owed, Works, DroppedIn
<1>4. CASE Drop
  BY <1>4 DEF Drop, Owing, Owed, Works, DroppedIn
<1>5. CASE Crash
  BY <1>5 DEF Crash, Owing
<1> QED
  BY <1>2, <1>3, <1>4, <1>5
  DEF ClientStep, FilePutSync, FileGet, CreateDir, FilePut, Save, Shutdown, WithAutosave

\* Nobody is answered, and what was owed still is.
LEMMA OwingKept ==
    ASSUME Owing, client' = client,
           \A f \in Dir : \A k \in Client : k \in DroppedIn(box, f) => Owed(actor', box', k),
           \A f \in Dir : \A k \in Client : Works(actor, f, k) => Works(actor', f, k)
    PROVE  Owing'
<1>1. \A k \in Client : Owed(actor, box, k) => Owed(actor', box', k)
  BY DEF Owed
<1> QED
  BY <1>1 DEF Owing, Owed, Works, DroppedIn

\* Directory d has taken the first message of its mailbox.
LEMMA OwingTaken ==
    ASSUME Shapes, Owing, NEW d \in Dir, NEW out,
           actor[d].task.op = "idle", box[d] # <<>>, box' = Take(d),
           client' = [k \in Client |-> client'[k]],
           \A k \in Client : client'[k] # NoCall => client[k] # NoCall /\ k \notin out,
           \A f \in Dir : f # d => \A k \in Client :
               Works(actor, f, k) => Works(actor', f, k),
           Head(box[d]).from \in Client =>
               Head(box[d]).from \in out \/ Works(actor', d, Head(box[d]).from)
    PROVE  Owing'
<1>1. ASSUME NEW f \in Dir, NEW k \in Client, k \in DroppedIn(box, f)
      PROVE  k \in out \/ Owed(actor', box', k)
  <2>1. k \in DroppedIn(Take(d), f) \/ k = Head(box[d]).from
    BY <1>1, DroppedTake DEF Shapes
  <2> QED
    BY <2>1 DEF Owed
<1>2. \A f \in Dir : f # d => \A k \in Client :
          Works(actor, f, k) => k \in out \/ Owed(actor', box', k)
  BY DEF Owed
<1>3. \A k \in Client : Works(actor, d, k) => k \in out \/ Owed(actor', box', k)
  BY DEF Works
<1> QED
  BY <1>1, <1>2, <1>3, OwingStep

\* The same when only the actor of d changes.
LEMMA WorksOwn ==
    ASSUME Shapes, NEW d \in Dir, NEW r, actor' = [actor EXCEPT ![d] = r]
    PROVE  /\ actor'[d] = r
           /\ \A f \in Dir : f # d => \A k \in Client :
                 Works(actor, f, k) => Works(actor', f, k)
BY DEF Shapes, ActorsOK, Works

LEMMA OwingTakenOwn ==
    ASSUME Shapes, Owing, NEW d \in Dir, NEW out, NEW r,
           actor[d].task.op = "idle", box[d] # <<>>, box' = Take(d),
           actor' = [actor EXCEPT ![d] = r],
           client' = [k \in Client |-> client'[k]],
           \A k \in Client : client'[k] # NoCall => client[k] # NoCall /\ k \notin out,
           Head(box[d]).from \in Client => Head(box[d]).from \in out
    PROVE  Owing'
BY WorksOwn, OwingTaken

LEMMA NotRunning ==
    ASSUME Tree, NEW f \in Dir, actor[f].life # "running"
    PROVE  actor[f].task.op = "idle"
<1>1. ActorFits(f, actor[f])
  BY DEF Tree, ActorTree
<1>2. actor[f].task = Idle
  BY <1>1 DEF ActorFits
<1> QED
  BY <1>2 DEF Idle

LEMMA SameBox ==
    ASSUME box' = box
    PROVE  \A f \in Dir : \A k \in Client : k \in DroppedIn(box, f) => Owed(actor', box', k)
BY DEF Owed

LEMMA OwingPublish ==
    ASSUME Shapes, Tree, Owing, NEW d \in Dir, Publish(d)
    PROVE  Owing'
<1>1. PICK r : actor' = [actor EXCEPT ![d] = r]
  BY DEF Publish
<1>2. box' = box /\ client' = client
  BY DEF Publish, NoAnswer
<1>3. actor[d].task.op = "idle"
  BY NotRunning DEF Publish
<1>4. \A f \in Dir : \A k \in Client : Works(actor, f, k) => Works(actor', f, k)
  BY <1>1, <1>3, WorksOwn DEF Works
<1> QED
  BY <1>2, <1>4, OwingKept, SameBox

LEMMA OwingLoad ==
    ASSUME Shapes, Tree, Owing, NEW d \in Dir, Load(d)
    PROVE  Owing'
<1>1. actor[d].task.op = "idle" /\ RecordOK(actor[d], Known, Messages)
  BY NotRunning DEF Load, Shapes, ActorsOK
<1>2. CASE /\ actor' = [actor EXCEPT ![d].life = "running"]
           /\ NoAnswer /\ UNCHANGED box
  <2>1. PICK r : actor' = [actor EXCEPT ![d] = r]
    BY <1>2
  <2>2. box' = box /\ client' = client
    BY <1>2 DEF NoAnswer
  <2>3. \A f \in Dir : \A k \in Client : Works(actor, f, k) => Works(actor', f, k)
    BY <1>1, <2>1, WorksOwn DEF Works
  <2> QED
    BY <2>2, <2>3, OwingKept, SameBox
<1>3. CASE /\ actor' = ToParent([actor EXCEPT ![d].life = "stopped"],
                                IF actor[d].up \in Dropped(d) THEN actor[d].up ELSE None,
                                d, NoHash)
           /\ box' = [box EXCEPT ![d] = <<>>]
           /\ Answer(None, Dropped(d))
  <2> DEFINE r == [actor[d] EXCEPT !.life = "stopped"]
             p == IF actor[d].up \in Dropped(d) THEN actor[d].up ELSE None
             out == {None} \cup Dropped(d)
  <2>1. RecordOK(r, Known, Messages)
    BY <1>1 DEF RecordOK, Load
  <2>2. actor' = ToParent([actor EXCEPT ![d] = r], p, d, NoHash)
    BY <1>3
  <2> HIDE DEF r, p
  <2>3. ActorsOK([actor EXCEPT ![d] = r], Known, Messages)
    BY <2>1, ReplaceOK DEF Shapes
  <2>4. /\ client' = [k \in Client |-> client'[k]]
        /\ \A k \in Client : client'[k] # NoCall => client[k] # NoCall /\ k \notin out
    BY <1>3, AnswerFacts
  <2>5. \A f \in Dir : \A k \in Client : k \in DroppedIn(box, f) =>
               k \in out \/ k \in DroppedIn(box', f)
    BY <1>3 DEF DroppedIn, Dropped, Shapes
  <2> HIDE DEF out
  <2>6. \A k \in Client : Works(actor, d, k) => k \in out
    BY <1>1 DEF Works
  <2> QED
    BY <2>2, <2>3, <2>4, <2>5, <2>6, OwingToParent
<1> QED
  BY <1>2, <1>3 DEF Load

LEMMA OwingForward ==
    ASSUME Shapes, Tree, Owing, NEW d \in Dir, Forward(d)
    PROVE  Owing'
<1> DEFINE m == Head(box[d])
           e == FirstOf(d, m)
           new == Spawn("loading", d, actor[d].state.dirs[e], actor[d].auto)
<1>1. /\ box[d] # <<>> /\ box \in [Dir -> Seq(Messages)] /\ Take(d) \in [Dir -> Seq(Messages)]
      /\ actor[d].task.op = "idle" /\ Snap(actor[d].state, Known)
  BY Receiving DEF Forward, Receives, Shapes, Idle
<1>2. e \in Dir
  BY <1>1 DEF Forward, Snap
<1>3. CASE box' = Take(d) /\ Answer(None, {m.from}) /\ UNCHANGED actor
  <2> DEFINE out == {None} \cup {m.from}
  <2>1. actor' = [actor EXCEPT ![d] = actor[d]]
    BY <1>3 DEF Shapes, ActorsOK
  <2>2. /\ client' = [k \in Client |-> client'[k]]
        /\ \A k \in Client : client'[k] # NoCall => client[k] # NoCall /\ k \notin out
    BY <1>3, AnswerFacts
  <2>3. m.from \in out /\ box' = Take(d)
    BY <1>3
  <2> HIDE DEF out
  <2> QED
    BY <1>1, <2>1, <2>2, <2>3, OwingTakenOwn
<1>4. CASE /\ box' = [Take(d) EXCEPT ![e] = Append(@, m)]
           /\ actor' = IF actor[e].life # "none" THEN actor ELSE [actor EXCEPT ![e] = new]
           /\ NoAnswer
  <2>1. \A f \in Dir : \A k \in Client : k \in DroppedIn(box, f) =>
            \E g \in Dir : k \in DroppedIn(box', g)
    <3> HIDE DEF m, e
    <3>1. /\ \A f \in Dir : DroppedIn(Take(d), f) \subseteq DroppedIn(box', f)
          /\ m.from \in DroppedIn(box', e)
      BY <1>1, <1>2, <1>4, DroppedSend
    <3> QED
      BY <1>1, <1>2, <3>1, DroppedTake DEF m
  <2>2. \A f \in Dir : \A k \in Client : Works(actor, f, k) => Works(actor', f, k)
    <3>1. actor[e].life = "none" => actor[e].task.op = "idle"
      BY <1>2, NotRunning
    <3> HIDE DEF e, new
    <3> QED
      BY <1>2, <1>4, <3>1 DEF Works, Shapes, ActorsOK
  <2>3. \A f \in Dir : \A k \in Client : k \in DroppedIn(box, f) => Owed(actor', box', k)
    BY <2>1 DEF Owed
  <2>4. client' = client
    BY <1>4 DEF NoAnswer
  <2> QED
    BY <2>2, <2>3, <2>4, OwingKept
<1> QED
  BY <1>3, <1>4 DEF Forward

LEMMA OwingFileOp ==
    ASSUME Shapes, Tree, Owing, NEW d \in Dir, FileOp(d)
    PROVE  Owing'
<1>1. actor[d].task.op = "idle" /\ box[d] # <<>> /\ box' = Take(d)
  BY DEF FileOp, Receives, Free, Idle
<1>2. PICK r : actor' = [actor EXCEPT ![d] = r]
  BY DEF FileOp
<1> DEFINE out == {Head(box[d]).from} \cup {}
<1>3. /\ client' = [k \in Client |-> client'[k]]
      /\ \A k \in Client : client'[k] # NoCall => client[k] # NoCall /\ k \notin out
  BY AnswerFacts DEF FileOp
<1>4. Head(box[d]).from \in out
  OBVIOUS
<1> HIDE DEF out
<1> QED
  BY <1>1, <1>2, <1>3, <1>4, OwingTakenOwn

\* A message that no client waits for.
LEMMA OwingInternal ==
    ASSUME Shapes, Tree, Owing, NEW d \in Dir, NEW ops, Receives(d, ops), ops \cap Answered = {},
           NEW r, actor' = [actor EXCEPT ![d] = r], box' = Take(d), NoAnswer
    PROVE  Owing'
<1>1. actor[d].task.op = "idle" /\ box[d] # <<>>
  BY DEF Receives, Free, Idle
<1>2. Head(box[d]).from = None
  BY Receiving DEF Messages
<1>3. Head(box[d]).from \notin Client
  BY <1>2, TreeAssumption
<1> DEFINE out == {}
<1>4. /\ client' = [k \in Client |-> client'[k]]
      /\ \A k \in Client : client'[k] # NoCall => client[k] # NoCall /\ k \notin out
  BY NoAnswerFacts
<1> HIDE DEF out
<1> QED
  BY <1>1, <1>3, <1>4, OwingTakenOwn

LEMMA OwingChildIsDirty ==
    ASSUME Shapes, Tree, Owing, NEW d \in Dir, ChildIsDirty(d)
    PROVE  Owing'
<1>1. /\ Receives(d, {"mark_as_dirty"}) /\ {"mark_as_dirty"} \cap Answered = {}
      /\ actor' = [actor EXCEPT ![d] = MarkAsDirty(d, actor[d], None)]
      /\ box' = Take(d) /\ NoAnswer
  BY DEF ChildIsDirty, Answered
<1> QED
  BY <1>1, OwingInternal

LEMMA OwingUpdateDirRefHash ==
    ASSUME Shapes, Tree, Owing, NEW d \in Dir, UpdateDirRefHash(d)
    PROVE  Owing'
<1>1. /\ Receives(d, {"update_ref"}) /\ {"update_ref"} \cap Answered = {}
      /\ box' = Take(d) /\ NoAnswer
  BY DEF UpdateDirRefHash, Answered
<1>2. PICK r : actor' = [actor EXCEPT ![d] = r]
  BY DEF UpdateDirRefHash
<1> QED
  BY <1>1, <1>2, OwingInternal

LEMMA OwingAutosaveTick ==
    ASSUME Shapes, Tree, Owing, NEW d \in Dir, AutosaveTick(d)
    PROVE  Owing'
<1>1. /\ Receives(d, {"autosave_tick"}) /\ {"autosave_tick"} \cap Answered = {}
      /\ box' = Take(d) /\ NoAnswer
  BY DEF AutosaveTick, Answered
<1>2. PICK r : actor' = [actor EXCEPT ![d] = r]
  BY DEF AutosaveTick
<1> QED
  BY <1>1, <1>2, OwingInternal

LEMMA OwingBeginShutdown ==
    ASSUME Shapes, Tree, Owing, NEW d \in Dir, BeginShutdown(d)
    PROVE  Owing'
<1> DEFINE t == [op |-> "shutdown", from |-> Head(box[d]).from, todo |-> Handles(d), wait |-> {}]
           out == {}
<1>1. actor[d].task.op = "idle" /\ box[d] # <<>> /\ box' = Take(d)
  BY DEF BeginShutdown, Receives, Free, Idle
<1>2. /\ client' = [k \in Client |-> client'[k]]
      /\ \A k \in Client : client'[k] # NoCall => client[k] # NoCall /\ k \notin out
  BY NoAnswerFacts DEF BeginShutdown
<1>3. actor' = [actor EXCEPT ![d] = [actor[d] EXCEPT !.task = t]]
  BY DEF BeginShutdown
<1>4. t.op # "idle" /\ t.from = Head(box[d]).from
  OBVIOUS
<1>5. RecordOK(actor[d], Known, Messages)
  BY DEF Shapes, ActorsOK
<1> HIDE DEF t, out
<1> DEFINE r == [actor[d] EXCEPT !.task = t]
<1>6. r.task = t
  BY <1>5 DEF RecordOK
<1> HIDE DEF r
<1>7. /\ actor'[d] = r
      /\ \A f \in Dir : f # d => \A k \in Client : Works(actor, f, k) => Works(actor', f, k)
  BY <1>3, WorksOwn DEF r
<1>8. Works(actor', d, Head(box[d]).from)
  BY <1>4, <1>6, <1>7 DEF Works
<1> QED
  BY <1>1, <1>2, <1>7, <1>8, OwingTaken

LEMMA OwingSaveIfDirty ==
    ASSUME Shapes, Tree, Owing, NEW d \in Dir, SaveIfDirty(d)
    PROVE  Owing'
<1> DEFINE from == Head(box[d]).from
           t == [op |-> "save", from |-> from, todo |-> Handles(d), wait |-> {}]
           out == {}
<1>1. /\ actor[d].task.op = "idle" /\ box[d] # <<>> /\ box' = Take(d)
      /\ Head(box[d]).op = "save" /\ RecordOK(actor[d], Known, Messages)
  <2>1. Receives(d, {"save"}) /\ box' = Take(d)
    BY DEF SaveIfDirty
  <2>2. box[d] # <<>> /\ actor[d].task.op = "idle"
    BY <2>1 DEF Receives, Free, Idle
  <2> QED
    BY <2>1, <2>2, Receiving
<1>2. /\ client' = [k \in Client |-> client'[k]]
      /\ \A k \in Client : client'[k] # NoCall => client[k] # NoCall /\ k \notin out
  <2>1. NoAnswer
    BY DEF SaveIfDirty
  <2> QED
    BY <2>1, NoAnswerFacts
<1>3. CASE actor[d].dirty \/ IsRoot(d)
  <2>1. actor' = [actor EXCEPT ![d] = [actor[d] EXCEPT !.task = t]]
    BY <1>3 DEF SaveIfDirty
  <2>2. t.op # "idle" /\ t.from = from
    OBVIOUS
  <2> HIDE DEF t, out
  <2> DEFINE r == [actor[d] EXCEPT !.task = t]
  <2>3. r.task = t
    BY <1>1 DEF RecordOK
  <2> HIDE DEF r
  <2>4. /\ actor'[d] = r
        /\ \A f \in Dir : f # d => \A k \in Client : Works(actor, f, k) => Works(actor', f, k)
    BY <2>1, WorksOwn DEF r
  <2>5. Works(actor', d, Head(box[d]).from)
    BY <2>2, <2>3, <2>4 DEF Works
  <2> QED
    BY <1>1, <1>2, <2>4, <2>5, OwingTaken
<1>4. CASE ~(actor[d].dirty \/ IsRoot(d))
  <2> DEFINE r == Arm(actor[d])
  <2>1. actor' = ToParent([actor EXCEPT ![d] = r], from, d, NoHash)
    BY <1>4 DEF SaveIfDirty
  <2>2. RecordOK(r, Known, Messages)
    BY <1>1, ArmFacts
  <2>3. d # Root
    <3>1. ActorFits(d, actor[d])
      BY DEF Tree, ActorTree
    <3> QED
      BY <1>4, <3>1 DEF ActorFits, IsRoot
  <2>4. from \notin Client
    <3>1. box[d] \in Seq(MessagesAt(d))
      BY DEF Tree, BoxTree
    <3>2. Head(box[d]) \in MessagesAt(d)
      BY <1>1, <3>1
    <3> QED
      BY <1>1, <2>3, <3>2 DEF MessagesAt
  <2>5. ActorsOK([actor EXCEPT ![d] = r], Known, Messages)
    BY <2>2, ReplaceOK DEF Shapes
  <2>6. \A f \in Dir : \A k \in Client : k \in DroppedIn(box, f) =>
            k \in out \/ k \in DroppedIn(box', f)
    BY <1>1, <2>4, DroppedTake DEF Shapes
  <2>7. \A k \in Client : Works(actor, d, k) => k \in out
    BY <1>1 DEF Works
  <2> HIDE DEF r, out
  <2> QED
    BY <1>2, <2>1, <2>5, <2>6, <2>7, OwingToParent
<1> QED
  BY <1>3, <1>4

LEMMA OwingCreateDirAt ==
    ASSUME Shapes, ParentsExist, Tree, Owing, NEW d \in Dir, CreateDirAt(d)
    PROVE  Owing'
<1> DEFINE m == Head(box[d])
           e == IF Above(d, m.dir) THEN m.dir ELSE Blank[d]
           old == actor[d].state
           moved == ExtractChild(old.files, e)
           stay == [f \in Dir |-> IF e \in Up[f] THEN 0 ELSE old.files[f]]
           none == e \notin Dir \ DOMAIN old.dirs
           s == Snapshot(stay, [f \in DOMAIN old.dirs \cup {e} |->
                                    IF f = e THEN NoHash ELSE old.dirs[f]])
           q == [actor[d] EXCEPT !.state = s]
           x == MarkAsDirty(d, q, m.from)
           a == Arm(actor[d])
           r == IF none THEN a ELSE x
           new == Spawn("creating", d, Snapshot(moved, <<>>), actor[d].auto)
<1>1. /\ box[d] # <<>> /\ box' = Take(d) /\ actor[d].task = Idle /\ actor[d].task.op = "idle"
      /\ m \in Messages /\ m.op = "create_dir"
      /\ RecordOK(actor[d], Known, Messages) /\ Snap(actor[d].state, Known)
      /\ actor[d].state # NoHash /\ Msg("mark_as_dirty", d, None, None) \in Messages
  <2>1. Receives(d, {"create_dir"}) /\ box' = Take(d)
    BY DEF CreateDirAt
  <2>2. box[d] # <<>> /\ actor[d].task.op = "idle"
    BY <2>1 DEF Receives, Free, Idle
  <2> QED
    BY <2>1, <2>2, Receiving
<1>2. /\ actor' = [actor EXCEPT ![d] = r, ![e] = IF none THEN @ ELSE new]
      /\ IF r.task = Idle THEN Answer(m.from, {}) ELSE NoAnswer
  BY DEF CreateDirAt
<1>3. NoHash \in Known /\ m.from \in Senders
  BY <1>1 DEF Known, Messages, WithoutCreate, PathOps
<1>4. e # d
  BY <1>1, TreeAssumption DEF Above
<1>5. r.task = Idle \/ (r.task.op # "idle" /\ r.task.from = m.from)
  <2>1. CASE none
    <3>1. a.task = Idle
      BY <1>1, ArmFacts
    <3> QED
      BY <2>1, <3>1
  <2>2. CASE ~none
    <3> HIDE DEF m, e, moved, stay
    <3>1. Snap(s, Known)
      BY <1>1, <1>3, <2>2 DEF Snap, Snapshot
    <3> HIDE DEF s
    <3>2. RecordOK(q, Known, Messages) /\ q.state # NoHash /\ q.task = Idle
      BY <1>1, <3>1, StateOK, SnapIsNoHash
    <3> HIDE DEF q
    <3>3. RecordOK(x, Known, Messages) /\ Marked(d, q, x, m.from)
      BY <1>1, <1>3, <3>2, MarkFacts
    <3> HIDE DEF x
    <3>4. x.task = Idle \/ x.task = Telling("mark_as_dirty", d, None, "arm", m.from)
      BY <3>3 DEF Marked
    <3> QED
      BY <2>2, <3>4 DEF Telling
  <2> QED
    BY <2>1, <2>2
<1>6. actor'[d] = r
  <2> HIDE DEF r, e, none, new
  <2> QED
    BY <1>2, <1>4 DEF Shapes, ActorsOK
<1>7. ASSUME NEW f \in Dir, f # d, NEW k \in Client, Works(actor, f, k)
      PROVE  Works(actor', f, k)
  <2>1. CASE f # e \/ none
    <3> HIDE DEF r, e, none, new
    <3> QED
      BY <1>2, <1>7, <2>1 DEF Works, Shapes, ActorsOK
  <2>2. CASE f = e /\ ~none
    <3>1. actor[f].life = "none"
      <4>1. f \notin DOMAIN old.dirs
        BY <2>2
      <4>2. f # Root /\ Parent[f] = d
        BY <1>1, <2>2, CreatedFacts
      <4>3. UnderParent(actor, f)
        BY DEF Tree, ActorTree
      <4> QED
        BY <4>1, <4>2, <4>3 DEF UnderParent
    <3> QED
      BY <1>7, <3>1, NotRunning DEF Works
  <2> QED
    BY <2>1, <2>2
<1> HIDE DEF r, e, none, new
<1>8. CASE r.task = Idle
  <2> DEFINE out == {m.from} \cup {}
  <2>1. /\ client' = [k \in Client |-> client'[k]]
        /\ \A k \in Client : client'[k] # NoCall => client[k] # NoCall /\ k \notin out
    BY <1>2, <1>8, AnswerFacts
  <2>2. Head(box[d]).from \in out
    OBVIOUS
  <2> HIDE DEF out
  <2> QED
    BY <1>1, <1>7, <2>1, <2>2, OwingTaken
<1>9. CASE r.task # Idle
  <2> DEFINE out == {}
  <2>1. /\ client' = [k \in Client |-> client'[k]]
        /\ \A k \in Client : client'[k] # NoCall => client[k] # NoCall /\ k \notin out
    BY <1>2, <1>9, NoAnswerFacts
  <2>2. Works(actor', d, Head(box[d]).from)
    BY <1>5, <1>6, <1>9 DEF Works
  <2> HIDE DEF out
  <2> QED
    BY <1>1, <1>7, <2>1, <2>2, OwingTaken
<1> QED
  BY <1>8, <1>9

LEMMA OwingTell ==
    ASSUME Shapes, Tree, Owing, NEW d \in Dir, Tell(d)
    PROVE  Owing'
<1> DEFINE t == actor[d].task
           out == {t.from} \cup {}
<1>1. PICK r : actor' = [actor EXCEPT ![d] = r]
  BY DEF Tell
<1>2. box' = [box EXCEPT ![actor[d].up] = Append(@, t.msg)]
  BY DEF Tell
<1>3. /\ client' = [k \in Client |-> client'[k]]
      /\ \A k \in Client : client'[k] # NoCall => client[k] # NoCall /\ k \notin out
  <2>1. CASE t.from = None
    <3>1. NoAnswer
      BY <2>1 DEF Tell
    <3>2. \A k \in Client : k \notin out
      BY <2>1, TreeAssumption
    <3> QED
      BY <3>1, <3>2, NoAnswerFacts
  <2>2. CASE t.from # None
    <3>1. Answer(t.from, {})
      BY <2>2 DEF Tell
    <3> QED
      BY <3>1, AnswerFacts
  <2> QED
    BY <2>1, <2>2
<1>4. \A f \in Dir : \A k \in Client : k \in DroppedIn(box, f) => k \in DroppedIn(box', f)
  <2> HIDE DEF t
  <2> DEFINE u == actor[d].up
             x == t.msg
  <2>1. box' = [box EXCEPT ![u] = Append(@, x)]
    BY <1>2
  <2> HIDE DEF u, x
  <2> QED
    BY <2>1, DroppedSend DEF Shapes
<1>5. \A f \in Dir : f # d => \A k \in Client : Works(actor, f, k) => Works(actor', f, k)
  BY <1>1, WorksOwn
<1>6. \A k \in Client : Works(actor, d, k) => k \in out
  BY DEF Works
<1> HIDE DEF out
<1>7. \A f \in Dir : \A k \in Client :
          k \in DroppedIn(box, f) => k \in out \/ Owed(actor', box', k)
  BY <1>4 DEF Owed
<1>8. \A f \in Dir : f # d => \A k \in Client :
          Works(actor, f, k) => k \in out \/ Owed(actor', box', k)
  BY <1>5 DEF Owed
<1>9. \A k \in Client : Works(actor, d, k) => k \in out \/ Owed(actor', box', k)
  BY <1>6
<1> QED
  BY <1>3, <1>7, <1>8, <1>9, OwingStep

LEMMA OwingAskChild ==
    ASSUME Shapes, Tree, Owing, NEW d \in Dir, NEW e \in Dir, AskChild(d, e)
    PROVE  Owing'
<1> DEFINE t == actor[d].task
           t1 == [t EXCEPT !.todo = @ \ {e}]
           t2 == [t EXCEPT !.todo = @ \ {e}, !.wait = @ \cup {e}]
           m == Msg(t.op, e, 0, d)
<1>1. /\ RecordOK(actor[d], Known, Messages) /\ t.op \in {"save", "shutdown"}
  BY Busy DEF AskChild
<1>2. t \in WorkTasks
  BY <1>1 DEF RecordOK, AllTasks, TellTasks, Idle
<1>3. t1.op = t.op /\ t1.from = t.from /\ t2.op = t.op /\ t2.from = t.from
  BY <1>2 DEF WorkTasks
<1>4. client' = client
  BY DEF AskChild, NoAnswer
<1>5. ASSUME NEW u, u.op = t.op, u.from = t.from,
             actor' = [actor EXCEPT ![d] = [actor[d] EXCEPT !.task = u]]
      PROVE  \A f \in Dir : \A k \in Client : Works(actor, f, k) => Works(actor', f, k)
  <2> DEFINE r == [actor[d] EXCEPT !.task = u]
  <2>1. r.task = u
    BY <1>1 DEF RecordOK
  <2> HIDE DEF r
  <2>2. /\ actor'[d] = r
        /\ \A f \in Dir : f # d => \A k \in Client : Works(actor, f, k) => Works(actor', f, k)
    BY <1>5, WorksOwn DEF r
  <2> QED
    BY <1>5, <2>1, <2>2 DEF Works
<1>6. CASE actor' = [actor EXCEPT ![d].task.todo = @ \ {e}] /\ box' = box
  <2>1. actor' = [actor EXCEPT ![d] = [actor[d] EXCEPT !.task = t1]]
    BY <1>1, <1>6 DEF RecordOK
  <2> HIDE DEF t1
  <2>2. \A f \in Dir : \A k \in Client : Works(actor, f, k) => Works(actor', f, k)
    BY <1>3, <1>5, <2>1
  <2> QED
    BY <1>4, <1>6, <2>2, SameBox, OwingKept
<1>7. CASE /\ actor' = [actor EXCEPT ![d].task.todo = @ \ {e}, ![d].task.wait = @ \cup {e}]
           /\ box' = [box EXCEPT ![e] = Append(@, m)]
  <2>1. actor' = [actor EXCEPT ![d] = [actor[d] EXCEPT !.task = t2]]
    BY <1>1, <1>2, <1>7 DEF RecordOK, WorkTasks, Shapes, ActorsOK
  <2> HIDE DEF t2
  <2>2. \A f \in Dir : \A k \in Client : Works(actor, f, k) => Works(actor', f, k)
    BY <1>3, <1>5, <2>1
  <2> HIDE DEF m
  <2>3. \A f \in Dir : DroppedIn(box, f) \subseteq DroppedIn(box', f)
    BY <1>7, DroppedSend DEF Shapes
  <2>4. \A f \in Dir : \A k \in Client : k \in DroppedIn(box, f) => Owed(actor', box', k)
    BY <2>3 DEF Owed
  <2> QED
    BY <1>4, <2>2, <2>4, OwingKept
<1> QED
  BY <1>6, <1>7 DEF AskChild

LEMMA OwingSaveDone ==
    ASSUME Shapes, Shapes', Tree, Owing, NEW d \in Dir, SaveDone(d)
    PROVE  Owing'
<1> DEFINE from == actor[d].task.from
           r == [actor[d] EXCEPT !.task = Idle]
           hash(ok) == IF ok /\ r.dirty THEN r.state ELSE NoHash
<1>1. RecordOK(actor[d], Known, Messages) /\ actor[d].state # NoHash
  BY Busy DEF SaveDone, ChildrenDone
<1>2. /\ RecordOK(r, Known, Messages) /\ r.state = actor[d].state
      /\ r.dirty \in BOOLEAN
  BY <1>1, IdleOK DEF RecordOK
<1>3. PICK ok \in IF r.dirty THEN Outcome ELSE {TRUE} :
        /\ Persist(d, ok /\ r.dirty)
        /\ actor' = ToParent([actor EXCEPT ![d] = Arm([r EXCEPT !.dirty = @ /\ ~ok])],
                             from, d, hash(ok))
        /\ Answer(IF ok THEN from ELSE None, {from})
  BY DEF SaveDone
<1>4. config' = config /\ next' = next /\ box' = box
  BY DEF SaveDone, ClientsOnly
<1>5. /\ StoredOK' /\ Known \subseteq Known' /\ Messages \subseteq Messages'
      /\ ok /\ r.dirty => actor[d].state \in stored'
  BY <1>1, <1>3, <1>4, PersistFacts
<1> HIDE DEF r
<1> DEFINE b == r.dirty /\ ~ok
           q == [r EXCEPT !.dirty = b]
<1>6. RecordOK(q, Known', Messages')
  <2>1. RecordOK(r, Known', Messages') /\ b \in BOOLEAN
    BY <1>2, <1>5, RecordGrows
  <2> HIDE DEF b
  <2> QED
    BY <2>1, DirtyOK
<1>7. ActorsOK(actor, Known', Messages')
  BY <1>5, ActorsGrow DEF Shapes
<1> DEFINE a == Arm(q)
           h == hash(ok)
           c == IF ok THEN from ELSE None
           out == {c} \cup {from}
<1>8. h = NoHash \/ h \in Known'
  BY <1>2, <1>5 DEF Known
<1>9. actor' = ToParent([actor EXCEPT ![d] = a], from, d, h)
  BY <1>3
<1> HIDE DEF q, h
<1>10. RecordOK(a, Known', Messages')
  BY <1>6, ArmFacts
<1> HIDE DEF a, c
<1>11. ActorsOK([actor EXCEPT ![d] = a], Known', Messages')
  BY <1>7, <1>10, ReplaceOK
<1>12. /\ client' = [k \in Client |-> client'[k]]
       /\ \A k \in Client : client'[k] # NoCall => client[k] # NoCall /\ k \notin out
  <2>1. Answer(c, {from})
    BY <1>3 DEF c
  <2> QED
    BY <2>1, AnswerFacts
<1>13. \A f \in Dir : \A k \in Client : k \in DroppedIn(box, f) =>
           k \in out \/ k \in DroppedIn(box', f)
  BY <1>4
<1>14. \A k \in Client : Works(actor, d, k) => k \in out
  BY DEF Works
<1> HIDE DEF out, from
<1> QED
  BY <1>8, <1>9, <1>11, <1>12, <1>13, <1>14, OwingToParent

LEMMA OwingFire ==
    ASSUME Shapes, Tree, Owing, NEW d \in Dir, Fire(d)
    PROVE  Owing'
<1> DEFINE m == Msg("autosave_tick", d, 0, None)
           r == [actor[d] EXCEPT !.timer = "fired"]
<1>1. /\ client' = client /\ box' = [box EXCEPT ![d] = Append(@, m)]
      /\ actor' = [actor EXCEPT ![d] = r]
  BY DEF Fire, NoAnswer
<1>2. r.task = actor[d].task
  <2>1. RecordOK(actor[d], Known, Messages)
    BY DEF Shapes, ActorsOK
  <2> QED
    BY <2>1 DEF RecordOK
<1> HIDE DEF r, m
<1>3. \A f \in Dir : \A k \in Client : Works(actor, f, k) => Works(actor', f, k)
  BY <1>1, <1>2, WorksOwn DEF Works
<1>4. \A f \in Dir : DroppedIn(box, f) \subseteq DroppedIn(box', f)
  BY <1>1, DroppedSend DEF Shapes
<1>5. \A f \in Dir : \A k \in Client : k \in DroppedIn(box, f) => Owed(actor', box', k)
  BY <1>4 DEF Owed
<1> QED
  BY <1>1, <1>3, <1>5, OwingKept

LEMMA OwingOrphan ==
    ASSUME Shapes, Tree, Owing, NEW d \in Dir, Orphan(d)
    PROVE  Owing'
<1> DEFINE r == [actor[d] EXCEPT !.life = "stopped"]
<1>1. client' = client /\ box' = box /\ actor' = [actor EXCEPT ![d] = r]
  BY DEF Orphan, NoAnswer
<1>2. r.task = actor[d].task
  <2>1. RecordOK(actor[d], Known, Messages)
    BY DEF Shapes, ActorsOK
  <2> QED
    BY <2>1 DEF RecordOK
<1> HIDE DEF r
<1>3. \A f \in Dir : \A k \in Client : Works(actor, f, k) => Works(actor', f, k)
  BY <1>1, <1>2, WorksOwn DEF Works
<1> QED
  BY <1>1, <1>3, OwingKept, SameBox

LEMMA OwingSetAutosave ==
    ASSUME Shapes, Tree, Owing, NEW d \in Dir, SetAutosave(d)
    PROVE  Owing'
<1> DEFINE live == {e \in Handles(d) : actor[e].life # "stopped"}
           m == Head(box[d])
           r == Arm([actor[d] EXCEPT !.auto = TRUE])
<1>1. /\ RecordOK(actor[d], Known, Messages) /\ actor[d].task.op = "idle"
      /\ m \in Messages /\ m.op = "with_autosave" /\ box[d] # <<>>
      /\ client' = client
  <2>1. Receives(d, {"with_autosave"}) /\ client' = client
    BY DEF SetAutosave, NoAnswer
  <2>2. box[d] # <<>> /\ actor[d].task.op = "idle"
    BY <2>1 DEF Receives, Free, Idle
  <2> QED
    BY <2>1, <2>2, Receiving
<1>2. /\ actor' = [actor EXCEPT ![d] = r]
      /\ box' = [f \in Dir |-> IF f = d THEN Tail(box[f])
                                ELSE IF f \in live THEN Append(box[f], m)
                                ELSE box[f]]
  BY DEF SetAutosave
<1>3. m.from \notin Client
  BY <1>1, TreeAssumption DEF Messages, Answered
<1> HIDE DEF r, live
<1>4. \A f \in Dir : \A k \in Client : Works(actor, f, k) => Works(actor', f, k)
  BY <1>1, <1>2, WorksOwn DEF Works
<1>5. ASSUME NEW f \in Dir, NEW k \in Client, k \in DroppedIn(box, f)
      PROVE  k \in DroppedIn(box', f)
  <2>1. CASE f = d
    <3>1. k \in DroppedIn(Take(d), f)
      BY <1>1, <1>3, <1>5, DroppedTake DEF Shapes
    <3>2. box'[f] = Take(d)[f]
      BY <1>2, <2>1 DEF Take, Shapes
    <3> QED
      BY <3>1, <3>2 DEF DroppedIn
  <2>2. CASE f # d /\ f \in live
    <3> DEFINE b == [box EXCEPT ![f] = Append(@, m)]
    <3>1. DroppedIn(box, f) \subseteq DroppedIn(b, f)
      <4> HIDE DEF m
      <4> QED
        BY DroppedSend DEF Shapes
    <3>2. b[f] = box'[f]
      BY <1>2, <2>2 DEF Shapes
    <3> QED
      BY <1>5, <3>1, <3>2 DEF DroppedIn
  <2>3. CASE f # d /\ f \notin live
    BY <1>2, <1>5, <2>3 DEF DroppedIn
  <2> QED
    BY <2>1, <2>2, <2>3
<1>6. \A f \in Dir : \A k \in Client : k \in DroppedIn(box, f) => Owed(actor', box', k)
  BY <1>5 DEF Owed
<1> QED
  BY <1>1, <1>4, <1>6, OwingKept

LEMMA OwingStop ==
    ASSUME Shapes, Tree, Owing, NEW d \in Dir, Stop(d)
    PROVE  Owing'
<1> DEFINE from == actor[d].task.from
           q == [actor[d] EXCEPT !.life = "stopped", !.task = Idle]
           out == {from} \cup Dropped(d)
<1>1. RecordOK(actor[d], Known, Messages) /\ actor[d].state # NoHash
  BY Busy DEF Stop, ChildrenDone
<1>2. /\ box' = [box EXCEPT ![d] = <<>>] /\ Answer(from, Dropped(d))
      /\ actor' = ToParent([actor EXCEPT ![d].life = "stopped", ![d].task = Idle], from, d, NoHash)
  BY DEF Stop
<1>3. [actor EXCEPT ![d].life = "stopped", ![d].task = Idle] = [actor EXCEPT ![d] = q]
  BY DEF Shapes, ActorsOK
<1>4. RecordOK(q, Known, Messages)
  <2> DEFINE r == [actor[d] EXCEPT !.life = "stopped"]
  <2>1. RecordOK(r, Known, Messages)
    BY <1>1, LifeOK
  <2>2. q = [r EXCEPT !.task = Idle]
    OBVIOUS
  <2> HIDE DEF r, q
  <2> QED
    BY <2>1, <2>2, IdleOK
<1> HIDE DEF q
<1>5. ActorsOK([actor EXCEPT ![d] = q], Known, Messages)
  BY <1>4, ReplaceOK DEF Shapes
<1>6. /\ client' = [k \in Client |-> client'[k]]
      /\ \A k \in Client : client'[k] # NoCall => client[k] # NoCall /\ k \notin out
  BY <1>2, AnswerFacts
<1>7. \A f \in Dir : \A k \in Client : k \in DroppedIn(box, f) =>
           k \in out \/ k \in DroppedIn(box', f)
  BY <1>2 DEF DroppedIn, Dropped, Shapes
<1>8. \A k \in Client : Works(actor, d, k) => k \in out
  BY DEF Works
<1>9. actor' = ToParent([actor EXCEPT ![d] = q], from, d, NoHash)
  BY <1>2, <1>3
<1> HIDE DEF out, from
<1> QED
  BY <1>5, <1>6, <1>7, <1>8, <1>9, OwingToParent

LEMMA OwingNext ==
    Shapes /\ Shapes' /\ ParentsExist /\ Tree /\ Owing /\ [Next]_vars => Owing'
<1> SUFFICES ASSUME Shapes, Shapes', ParentsExist, Tree, Owing, [Next]_vars PROVE Owing'
  OBVIOUS
<1>1. CASE ClientStep
  BY <1>1, OwingClient
<1>2. ASSUME NEW d \in Dir, ActorStep(d) PROVE Owing'
  BY <1>2, OwingPublish, OwingLoad, OwingForward, OwingFileOp, OwingCreateDirAt,
     OwingTell, OwingChildIsDirty, OwingUpdateDirRefHash, OwingSaveIfDirty,
     OwingAskChild, OwingSaveDone, OwingAutosaveTick, OwingSetAutosave,
     OwingBeginShutdown, OwingStop, OwingOrphan
  DEF ActorStep
<1>3. ASSUME NEW d \in Dir, Fire(d) PROVE Owing'
  BY <1>3, OwingFire
<1>4. CASE UNCHANGED vars
  BY <1>4 DEF vars, Owing, Owed, Works, DroppedIn
<1> QED
  BY <1>1, <1>2, <1>3, <1>4 DEF Next

\* No call is forgotten: as long as directories are created only below existing
\* ones, every client that waits has its message in a mailbox or its answer owed by
\* an actor, also when actors stop, fail to load or the process restarts (actor.rs,
\* process_msg and the end of run).
THEOREM CallsAreOwedCorrect == Spec => [](ParentsExist => CallsAreOwed)
<1>1. Init => Owing
  BY DEF Init, Owing
<1>2. Shapes /\ Shapes' /\ (ParentsExist => Tree) /\ (ParentsExist => Owing)
      /\ [Next]_vars => (ParentsExist => Owing)'
  <2>1. [Next]_vars => (ParentsExist' <=> ParentsExist)
    BY ConfigStays DEF ParentsExist
  <2> QED
    BY <2>1, OwingNext
<1>3. Owing => CallsAreOwed
  BY DEF Owing, Owed, Works, DroppedIn, Dropped, CallsAreOwed
<1> QED
  BY <1>1, <1>2, <1>3, ShapesCorrect, TreeCorrect, PTL DEF Spec

-----------------------------------------------------------------------------
(***************************************************************************)
(* A parent that has asked a child to save waits for it: there is at most  *)
(* one such request, in the child's mailbox or in its task, and the parent *)
(* is in its own save until the child has answered.                        *)
(***************************************************************************)
Request(m) == m.op = "save" /\ m.from \in Dir
Requested(q) == \E i \in DOMAIN q : Request(q[i])
OneRequest(q) == \A i, j \in DOMAIN q : Request(q[i]) /\ Request(q[j]) => i = j
FromParent(d, q) == \A i \in DOMAIN q : Request(q[i]) => d # Root /\ q[i].from = Parent[d]
Saves(r) == r.task.op = "save" /\ r.task.from \in Dir

\* The parent of d has asked it to save.
InSave(acts, d) ==
    /\ d # Root
    /\ acts[Parent[d]].task.op = "save"
    /\ d \in acts[Parent[d]].task.wait /\ d \notin acts[Parent[d]].task.todo

\* A directory asks its own children.
OwnTodo(r, d) == r.task.op = "save" => \A e \in r.task.todo : e # Root /\ Parent[e] = d

AskedAt(acts, q, d) ==
    /\ OwnTodo(acts[d], d)
    /\ OneRequest(q) /\ FromParent(d, q)
    /\ Saves(acts[d]) => d # Root /\ acts[d].task.from = Parent[d]
    /\ Requested(q) \/ Saves(acts[d]) => InSave(acts, d)
    /\ ~(Requested(q) /\ Saves(acts[d]))

Asked == \A d \in Dir : AskedAt(actor, box[d], d)

\* The mailbox of d has no more requests than before; the task of an actor goes on.
Less(d, q, p) ==
    /\ OneRequest(q) /\ FromParent(d, q) => OneRequest(p) /\ FromParent(d, p)
    /\ Requested(p) => Requested(q)

KeepsTask(r, q) ==
    /\ q.task.op = "save" => r.task.op = "save"
    /\ Saves(q) => Saves(r) /\ q.task.from = r.task.from
    /\ r.task.op = "save" => /\ q.task.op = "save"
                             /\ r.task.wait \subseteq q.task.wait
                             /\ q.task.todo \subseteq r.task.todo

LEMMA LessTail ==
    ASSUME NEW M, NEW q \in Seq(M), q # <<>>, NEW d
    PROVE  /\ Less(d, q, Tail(q))
           /\ OneRequest(q) /\ Request(Head(q)) => ~Requested(Tail(q))
<1>1. \A i \in DOMAIN Tail(q) : /\ i \in Nat /\ i + 1 \in DOMAIN q /\ i + 1 # 1
                                /\ Tail(q)[i] = q[i + 1]
  OBVIOUS
<1>2. 1 \in DOMAIN q /\ Head(q) = q[1]
  OBVIOUS
<1>3. Requested(Tail(q)) => Requested(q)
  BY <1>1 DEF Requested
<1>4. OneRequest(q) => OneRequest(Tail(q))
  <2> SUFFICES ASSUME OneRequest(q), NEW i \in DOMAIN Tail(q), NEW j \in DOMAIN Tail(q),
                      Request(Tail(q)[i]), Request(Tail(q)[j])
               PROVE  i = j
    BY DEF OneRequest
  <2>1. i + 1 = j + 1
    BY <1>1 DEF OneRequest
  <2> QED
    BY <1>1, <2>1
<1>5. FromParent(d, q) => FromParent(d, Tail(q))
  BY <1>1 DEF FromParent
<1>6. OneRequest(q) /\ Request(Head(q)) => ~Requested(Tail(q))
  BY <1>1, <1>2 DEF OneRequest, Requested
<1> QED
  BY <1>3, <1>4, <1>5, <1>6 DEF Less

LEMMA LessAppend ==
    ASSUME NEW M, NEW q \in Seq(M), NEW m, NEW d
    PROVE  /\ ~Request(m) => Less(d, q, Append(q, m))
           /\ ~Requested(q) => OneRequest(Append(q, m))
           /\ FromParent(d, q) /\ (Request(m) => d # Root /\ m.from = Parent[d])
                 => FromParent(d, Append(q, m))
<1>1. /\ \A i \in DOMAIN q : Append(q, m)[i] = q[i]
      /\ Append(q, m)[Len(q) + 1] = m
      /\ \A i \in DOMAIN Append(q, m) : i \in DOMAIN q \/ i = Len(q) + 1
  OBVIOUS
<1> QED
  BY <1>1 DEF Less, OneRequest, Requested, FromParent

LEMMA LessEmpty ==
    ASSUME NEW q, NEW d
    PROVE  Less(d, q, <<>>) /\ ~Requested(<<>>)
BY DEF Less, OneRequest, Requested, FromParent

LEMMA LessSame == ASSUME NEW q, NEW d PROVE Less(d, q, q)
BY DEF Less

LEMMA AskedStep ==
    ASSUME Asked, \A f \in Dir : Less(f, box[f], box'[f]),
           \A f \in Dir : KeepsTask(actor[f], actor'[f])
    PROVE  Asked'
<1>1. ASSUME NEW f \in Dir PROVE AskedAt(actor', box'[f], f)
  <2>1. AskedAt(actor, box[f], f) /\ Less(f, box[f], box'[f])
    BY DEF Asked
  <2>2. Saves(actor'[f]) => Saves(actor[f]) /\ actor'[f].task.from = actor[f].task.from
    BY DEF KeepsTask
  <2>4. OwnTodo(actor[f], f) => OwnTodo(actor'[f], f)
    BY DEF KeepsTask, OwnTodo
  <2>3. InSave(actor, f) => InSave(actor', f)
    <3> SUFFICES ASSUME InSave(actor, f) PROVE InSave(actor', f)
      OBVIOUS
    <3>1. Parent[f] \in Dir
      BY TreeAssumption DEF InSave
    <3>2. KeepsTask(actor[Parent[f]], actor'[Parent[f]])
      BY <3>1
    <3> QED
      BY <3>2 DEF InSave, KeepsTask
  <2> QED
    BY <2>1, <2>2, <2>3, <2>4 DEF AskedAt, Less
<1>2. (\A d \in Dir : AskedAt(actor, box[d], d))'
  BY <1>1 DEF AskedAt, OwnTodo, OneRequest, FromParent, Saves, Requested, InSave, Request
<1> QED
  BY <1>2 DEF Asked

LEMMA KeepsSame == ASSUME NEW r, NEW q, r.task = q.task PROVE KeepsTask(r, q)
BY DEF KeepsTask, Saves

LEMMA KeepsOther ==
    ASSUME NEW r, NEW q, r.task.op # "save", q.task.op # "save" PROVE KeepsTask(r, q)
BY DEF KeepsTask, Saves

\* The actor of d changes, and is in no save before and after.
LEMMA AskedOwn ==
    ASSUME Shapes, Asked, NEW d \in Dir, NEW r, actor' = [actor EXCEPT ![d] = r],
           KeepsTask(actor[d], r), \A f \in Dir : Less(f, box[f], box'[f])
    PROVE  Asked'
<1>1. actor'[d] = r /\ \A f \in Dir : f # d => actor'[f] = actor[f]
  BY DEF Shapes, ActorsOK
<1>2. \A f \in Dir : KeepsTask(actor[f], actor'[f])
  BY <1>1, KeepsSame
<1> QED
  BY <1>2, AskedStep

LEMMA LessTake ==
    ASSUME Shapes, NEW d \in Dir, box[d] # <<>>
    PROVE  /\ \A f \in Dir : Less(f, box[f], Take(d)[f])
           /\ OneRequest(box[d]) /\ Request(Head(box[d])) => ~Requested(Take(d)[d])
<1>1. box[d] \in Seq(Messages) /\ Take(d)[d] = Tail(box[d])
  BY DEF Shapes, Take
<1>2. \A f \in Dir : f # d => Take(d)[f] = box[f]
  BY DEF Shapes, Take
<1>3. Less(d, box[d], Tail(box[d]))
  BY <1>1, LessTail
<1>4. OneRequest(box[d]) /\ Request(Head(box[d])) => ~Requested(Tail(box[d]))
  BY <1>1, LessTail
<1> QED
  BY <1>1, <1>2, <1>3, <1>4, LessSame

LEMMA LessSend ==
    ASSUME NEW M, NEW b \in [Dir -> Seq(M)], NEW e, NEW m, ~Request(m), NEW f \in Dir
    PROVE  Less(f, b[f], [b EXCEPT ![e] = Append(@, m)][f])
<1>1. CASE f = e
  <2>1. [b EXCEPT ![e] = Append(@, m)][f] = Append(b[f], m) /\ b[f] \in Seq(M)
    BY <1>1
  <2> QED
    BY <2>1, LessAppend
<1>2. CASE f # e
  <2>1. [b EXCEPT ![e] = Append(@, m)][f] = b[f]
    BY <1>2
  <2> QED
    BY <2>1, LessSame
<1> QED
  BY <1>1, <1>2

LEMMA LessTrans ==
    ASSUME NEW d, NEW q, NEW p, NEW o, Less(d, q, p), Less(d, p, o)
    PROVE  Less(d, q, o)
BY DEF Less

\* What an answer of child d leaves of a task.
LessWait(t, u, d) ==
    /\ u.op = t.op
    /\ t.op = "save" => /\ u.from = t.from /\ u.todo = t.todo
                        /\ t.wait \ {d} \subseteq u.wait /\ u.wait \subseteq t.wait

LEMMA TasksToParent ==
    ASSUME NEW acts, NEW S, NEW M, ActorsOK(acts, S, M), NEW p, NEW d, NEW hash,
           hash = NoHash \/ hash \in S, NEW f \in Dir
    PROVE  /\ LessWait(acts[f].task, ToParent(acts, p, d, hash)[f].task, d)
           /\ f # p => ToParent(acts, p, d, hash)[f] = acts[f]
<1> DEFINE new == ToParent(acts, p, d, hash)
<1>1. ActorsOK(new, S, M) /\ AnswerTo(acts, new, p, d, hash)
  BY ToParentFacts
<1> HIDE DEF new
<1>2. CASE f # p
  <2>1. new[f] = acts[f]
    BY <1>1, <1>2 DEF AnswerTo
  <2> QED
    BY <2>1 DEF LessWait, new
<1>3. CASE f = p
  <2> DEFINE t == acts[p].task
             u == [t EXCEPT !.wait = @ \ {d}]
  <2>1. t \in AllTasks(M)
    BY <1>3 DEF ActorsOK, RecordOK
  <2>2. new[p].task = u
    BY <1>1, <1>3 DEF AnswerTo
  <2>3. /\ t.op = "save" =>
              u = [op |-> t.op, from |-> t.from, todo |-> t.todo, wait |-> t.wait \ {d}]
        /\ u.op = t.op
    BY <2>1, WaitOK
  <2> HIDE DEF u
  <2>4. LessWait(t, u, d)
    BY <2>3 DEF LessWait
  <2> QED
    BY <1>3, <2>2, <2>4 DEF new
<1> QED
  BY <1>2, <1>3 DEF new

\* Child d has answered whoever asked it, and has no request left.
LEMMA AskedToParent ==
    ASSUME Shapes, Asked, NEW d \in Dir, NEW r, NEW S, NEW M,
           ActorsOK([actor EXCEPT ![d] = r], S, M),
           NEW p, NEW hash, hash = NoHash \/ hash \in S,
           actor' = ToParent([actor EXCEPT ![d] = r], p, d, hash),
           r.task.op # "save",
           actor[d].task.op = "save" => actor[d].task.wait = {},
           \A f \in Dir : Less(f, box[f], box'[f]),
           p \in Dir => ~Requested(box'[d])
    PROVE  Asked'
<1> DEFINE acts == [actor EXCEPT ![d] = r]
<1>1. acts[d] = r /\ \A f \in Dir : f # d => acts[f] = actor[f]
  BY DEF Shapes, ActorsOK
<1>2. ActorsOK(acts, S, M) /\ actor' = ToParent(acts, p, d, hash)
  OBVIOUS
<1> HIDE DEF acts
<1>3. \A f \in Dir : LessWait(acts[f].task, actor'[f].task, d)
  BY <1>2, TasksToParent
<1>4. \A f \in Dir : f # p => actor'[f] = acts[f]
  BY <1>2, TasksToParent
<1>5. ASSUME NEW f \in Dir PROVE AskedAt(actor', box'[f], f)
  <2>1. AskedAt(actor, box[f], f) /\ Less(f, box[f], box'[f])
    BY DEF Asked
  <2>2. Saves(actor'[f]) => f # d /\ Saves(actor[f]) /\ actor'[f].task.from = actor[f].task.from
    BY <1>1, <1>3 DEF Saves, LessWait
  <2>3. ASSUME InSave(actor, f), f # d \/ p \notin Dir PROVE InSave(actor', f)
    <3>1. Parent[f] \in Dir
      BY <2>3, TreeAssumption DEF InSave
    <3>2. Parent[f] # d
      BY <2>3 DEF InSave
    <3>3. LessWait(acts[Parent[f]].task, actor'[Parent[f]].task, d)
      BY <1>3, <3>1
    <3>4. p \notin Dir => actor'[Parent[f]] = acts[Parent[f]]
      BY <1>4, <3>1
    <3> QED
      BY <1>1, <2>3, <3>1, <3>2, <3>3, <3>4 DEF InSave, LessWait
  <2>6. OwnTodo(actor[f], f) => OwnTodo(actor'[f], f)
    BY <1>1, <1>3 DEF OwnTodo, LessWait
  <2>4. CASE f # d \/ p \notin Dir
    BY <2>1, <2>2, <2>3, <2>4, <2>6 DEF AskedAt, Less
  <2>5. CASE f = d /\ p \in Dir
    BY <2>1, <2>2, <2>5, <2>6 DEF AskedAt, Less
  <2> QED
    BY <2>4, <2>5
<1>6. (\A f \in Dir : AskedAt(actor, box[f], f))'
  BY <1>5 DEF AskedAt, OwnTodo, OneRequest, FromParent, Saves, Requested, InSave, Request
<1> QED
  BY <1>6 DEF Asked

LEMMA AskedFresh ==
    ASSUME \E file : actor = FreshActors(file), box = [d \in Dir |-> <<>>]
    PROVE  Asked
<1>1. PICK file : actor = FreshActors(file)
  OBVIOUS
<1>2. ASSUME NEW d \in Dir PROVE AskedAt(actor, box[d], d)
  <2>1. actor[d].task.op = "idle"
    BY <1>1 DEF FreshActors, NotOpen, Spawn, Idle
  <2> QED
    BY <2>1 DEF AskedAt, OwnTodo, OneRequest, FromParent, Requested, Saves
<1> QED
  BY <1>2 DEF Asked

LEMMA AskedInit == Init => Asked
BY AskedFresh DEF Init

LEMMA AskedClient == Shapes /\ Asked /\ ClientStep => Asked'
<1> SUFFICES ASSUME Shapes, Asked, ClientStep PROVE Asked'
  OBVIOUS
<1>1. ASSUME NEW op, NEW d, NEW arg, NEW from \in Client \cup {None}, Post(op, d, arg, from)
      PROVE  Asked'
  <2> DEFINE m == Msg(op, d, arg, from)
  <2>1. actor' = actor /\ box' = [box EXCEPT ![Root] = Append(@, m)]
    BY <1>1 DEF Post
  <2>2. ~Request(m)
    BY TreeAssumption DEF Msg, Request
  <2> HIDE DEF m
  <2>3. \A f \in Dir : Less(f, box[f], box'[f])
    BY <2>1, <2>2, LessSend DEF Shapes
  <2> QED
    BY <2>1, <2>3, KeepsSame, AskedStep
<1>2. CASE Drop
  BY <1>2, KeepsSame, LessSame, AskedStep DEF Drop
<1>3. CASE Crash
  <2>1. (\E file : actor = FreshActors(file))' /\ (box = [d \in Dir |-> <<>>])'
    BY <1>3 DEF Crash
  <2> QED
    BY <2>1, AskedFresh, PTL
<1> QED
  BY <1>1, <1>2, <1>3
  DEF ClientStep, FilePutSync, FileGet, CreateDir, FilePut, Save, Shutdown, WithAutosave, Call

LEMMA AskedPublish ==
    ASSUME Shapes, Tree, Asked, NEW d \in Dir, Publish(d)
    PROVE  Asked'
<1>1. PICK ok \in Outcome : actor' = [actor EXCEPT ![d] =
             [@ EXCEPT !.life = "running",
                       !.task = IF ok /\ actor[actor[d].up].life # "stopped"
                                THEN Telling("update_ref", d, actor[d].state, "loop", None)
                                ELSE Idle]]
  BY DEF Publish
<1> DEFINE t == IF ok /\ actor[actor[d].up].life # "stopped"
                THEN Telling("update_ref", d, actor[d].state, "loop", None) ELSE Idle
           r == [actor[d] EXCEPT !.life = "running", !.task = t]
<1>2. actor' = [actor EXCEPT ![d] = r] /\ box' = box
  BY <1>1 DEF Publish
<1>3. t.op # "save"
  BY DEF Telling, Idle
<1> HIDE DEF t
<1>4. r.task = t
  <2>1. RecordOK(actor[d], Known, Messages)
    BY DEF Shapes, ActorsOK
  <2> QED
    BY <2>1 DEF RecordOK
<1>5. actor[d].task.op = "idle"
  BY NotRunning DEF Publish
<1> HIDE DEF r
<1>6. KeepsTask(actor[d], r)
  BY <1>3, <1>4, <1>5, KeepsOther
<1> QED
  BY <1>2, <1>6, LessSame, AskedOwn

LEMMA AskedLoad ==
    ASSUME Shapes, Tree, Asked, NEW d \in Dir, Load(d)
    PROVE  Asked'
<1>1. actor[d].task.op = "idle" /\ RecordOK(actor[d], Known, Messages)
  BY NotRunning DEF Load, Shapes, ActorsOK
<1>2. CASE /\ actor' = [actor EXCEPT ![d].life = "running"]
           /\ UNCHANGED box
  <2> DEFINE r == [actor[d] EXCEPT !.life = "running"]
  <2>1. actor' = [actor EXCEPT ![d] = r] /\ r.task = actor[d].task
    BY <1>1, <1>2 DEF RecordOK
  <2> HIDE DEF r
  <2>2. KeepsTask(actor[d], r)
    BY <2>1, KeepsSame
  <2> QED
    BY <1>2, <2>1, <2>2, LessSame, AskedOwn
<1>3. CASE /\ actor' = ToParent([actor EXCEPT ![d].life = "stopped"],
                                IF actor[d].up \in Dropped(d) THEN actor[d].up ELSE None,
                                d, NoHash)
           /\ box' = [box EXCEPT ![d] = <<>>]
  <2> DEFINE r == [actor[d] EXCEPT !.life = "stopped"]
             p == IF actor[d].up \in Dropped(d) THEN actor[d].up ELSE None
  <2>1. RecordOK(r, Known, Messages) /\ r.task = actor[d].task
    BY <1>1 DEF RecordOK, Load
  <2>2. actor' = ToParent([actor EXCEPT ![d] = r], p, d, NoHash)
    BY <1>3
  <2> HIDE DEF r, p
  <2>3. ActorsOK([actor EXCEPT ![d] = r], Known, Messages)
    BY <2>1, ReplaceOK DEF Shapes
  <2>4. box'[d] = <<>> /\ \A f \in Dir : f # d => box'[f] = box[f]
    BY <1>3 DEF Shapes
  <2>5. /\ \A f \in Dir : Less(f, box[f], box'[f])
        /\ ~Requested(box'[d])
    BY <2>4, LessEmpty, LessSame
  <2> QED
    BY <1>1, <2>1, <2>2, <2>3, <2>5, AskedToParent
<1> QED
  BY <1>2, <1>3 DEF Load

LEMMA AskedForward ==
    ASSUME Shapes, Tree, Asked, NEW d \in Dir, Forward(d)
    PROVE  Asked'
<1> DEFINE m == Head(box[d])
           e == FirstOf(d, m)
           new == Spawn("loading", d, actor[d].state.dirs[e], actor[d].auto)
<1>0. Receives(d, PathOps)
  BY DEF Forward
<1>1. /\ Take(d) \in [Dir -> Seq(Messages)] /\ m.op \in PathOps /\ Snap(actor[d].state, Known)
  BY <1>0, Receiving
<1>2. e \in Dir
  BY <1>1 DEF Forward, Snap
<1>3. \A f \in Dir : Less(f, box[f], Take(d)[f])
  BY <1>0, LessTake DEF Receives
<1>4. CASE box' = Take(d) /\ UNCHANGED actor
  BY <1>3, <1>4, KeepsSame, AskedStep
<1>5. CASE /\ box' = [Take(d) EXCEPT ![e] = Append(@, m)]
           /\ actor' = IF actor[e].life # "none" THEN actor ELSE [actor EXCEPT ![e] = new]
  <2>1. ~Request(m)
    BY <1>1 DEF Request, PathOps
  <2>2. new.task.op = "idle"
    BY DEF Spawn, Idle
  <2> HIDE DEF m, e, new
  <2>3. \A f \in Dir : Less(f, Take(d)[f], box'[f])
    BY <1>1, <1>5, <2>1, LessSend
  <2>4. \A f \in Dir : Less(f, box[f], box'[f])
    BY <1>3, <2>3, LessTrans
  <2>5. CASE actor[e].life # "none"
    BY <1>5, <2>4, <2>5, KeepsSame, AskedStep
  <2>6. CASE actor[e].life = "none"
    <3>1. actor[e].task.op = "idle"
      BY <1>2, <2>6, NotRunning
    <3>2. KeepsTask(actor[e], new)
      BY <2>2, <3>1, KeepsOther
    <3> QED
      BY <1>2, <1>5, <2>4, <2>6, <3>2, AskedOwn
  <2> QED
    BY <2>5, <2>6
<1> QED
  BY <1>4, <1>5 DEF Forward

\* A message is taken by an actor that is in no save afterwards.
LEMMA AskedTaken ==
    ASSUME Shapes, Asked, NEW d \in Dir, NEW ops, Receives(d, ops), box' = Take(d),
           NEW r, actor' = [actor EXCEPT ![d] = r], r.task.op # "save"
    PROVE  Asked'
<1>1. actor[d].task.op = "idle" /\ box[d] # <<>>
  BY DEF Receives, Free, Idle
<1>2. KeepsTask(actor[d], r)
  BY <1>1, KeepsOther
<1>3. \A f \in Dir : Less(f, box[f], Take(d)[f])
  BY <1>1, LessTake
<1> QED
  BY <1>2, <1>3, AskedOwn

LEMMA MarkedTask ==
    ASSUME NEW d, NEW r, NEW q, NEW from, Marked(d, r, q, from)
    PROVE  q.task.op # "save"
<1>1. q.task = Idle \/ q.task = Telling("mark_as_dirty", d, None, "arm", from)
  BY DEF Marked
<1> QED
  BY <1>1 DEF Idle, Telling

\* Only the snapshot of an actor differs.
OnlyState(r, q) ==
    /\ q.life = r.life /\ q.up = r.up /\ q.dirty = r.dirty /\ q.auto = r.auto
    /\ q.timer = r.timer /\ q.task = r.task

\* The actor of d with its new snapshot, before mark_as_dirty.
Changed(d, q) ==
    /\ RecordOK(q, Known, Messages) /\ q.state # NoHash
    /\ OnlyState(actor[d], q)

LEMMA StateChanged ==
    ASSUME Shapes, NEW d \in Dir, NEW s, Snap(s, Known)
    PROVE  Changed(d, [actor[d] EXCEPT !.state = s])
<1> DEFINE q == [actor[d] EXCEPT !.state = s]
<1>1. RecordOK(actor[d], Known, Messages)
  BY DEF Shapes, ActorsOK
<1>2. RecordOK(q, Known, Messages) /\ q.state = s
  BY <1>1, StateOK
<1>3. q.state # NoHash
  BY <1>2, SnapIsNoHash
<1>4. OnlyState(actor[d], q)
  BY <1>1 DEF RecordOK, OnlyState
<1> QED
  BY <1>2, <1>3, <1>4 DEF Changed

LEMMA FileOpMarks ==
    ASSUME Shapes, NEW d \in Dir, FileOp(d)
    PROVE  \E q : Changed(d, q) /\ actor' = [actor EXCEPT ![d] = MarkAsDirty(d, q, None)]
<1> DEFINE m == Head(box[d])
           r == IF m.op = "file_get" THEN actor[d]
                ELSE [actor[d] EXCEPT !.state.files[m.dir] = m.arg]
           s == [actor[d].state EXCEPT !.files[m.dir] = m.arg]
<1>1. RecordOK(actor[d], Known, Messages) /\ Snap(actor[d].state, Known)
  BY Receiving DEF FileOp
<1>2. actor' = [actor EXCEPT ![d] = MarkAsDirty(d, r, None)]
  BY DEF FileOp
<1>3. [actor[d] EXCEPT !.state.files[m.dir] = m.arg] = [actor[d] EXCEPT !.state = s]
  BY <1>1 DEF RecordOK
<1>4. actor[d] = [actor[d] EXCEPT !.state = actor[d].state]
  BY <1>1 DEF RecordOK
<1>5. Snap(s, Known)
  BY <1>1, FilesOK
<1> HIDE DEF s
<1>6. Changed(d, actor[d])
  <2>1. Changed(d, [actor[d] EXCEPT !.state = actor[d].state])
    BY <1>1, StateChanged
  <2> QED
    BY <1>4, <2>1
<1>7. Changed(d, [actor[d] EXCEPT !.state = s])
  BY <1>5, StateChanged
<1>8. Changed(d, r)
  BY <1>3, <1>6, <1>7
<1> HIDE DEF r
<1> QED
  BY <1>2, <1>8

LEMMA ChildIsDirtyMarks ==
    ASSUME Shapes, NEW d \in Dir, ChildIsDirty(d)
    PROVE  \E q : Changed(d, q) /\ actor' = [actor EXCEPT ![d] = MarkAsDirty(d, q, None)]
<1>1. /\ RecordOK(actor[d], Known, Messages) /\ actor[d].state # NoHash
  BY Receiving DEF ChildIsDirty
<1>2. actor' = [actor EXCEPT ![d] = MarkAsDirty(d, actor[d], None)]
  BY DEF ChildIsDirty
<1>3. Changed(d, actor[d])
  BY <1>1 DEF Changed, OnlyState
<1> QED
  BY <1>2, <1>3

LEMMA UpdateMarks ==
    ASSUME Shapes, NEW d \in Dir, UpdateDirRefHash(d)
    PROVE  \/ actor' = actor
           \/ \E q : Changed(d, q) /\ actor' = [actor EXCEPT ![d] = MarkAsDirty(d, q, None)]
<1> DEFINE m == Head(box[d])
           s == [actor[d].state EXCEPT !.dirs[m.dir] = m.arg]
           q == [actor[d] EXCEPT !.state.dirs[m.dir] = m.arg]
<1>1. /\ m \in Messages /\ m.op = "update_ref"
      /\ RecordOK(actor[d], Known, Messages) /\ Snap(actor[d].state, Known)
  BY Receiving DEF UpdateDirRefHash
<1>2. \/ actor' = [actor EXCEPT ![d] = actor[d]]
      \/ actor' = [actor EXCEPT ![d] = MarkAsDirty(d, q, None)]
  BY DEF UpdateDirRefHash
<1>3. m.arg \in Known
  BY <1>1 DEF Messages, Known
<1>4. q = [actor[d] EXCEPT !.state = s]
  BY <1>1 DEF RecordOK
<1>5. Snap(s, Known)
  BY <1>1, <1>3, EntryOK
<1> HIDE DEF s, q
<1>6. Changed(d, q)
  BY <1>4, <1>5, StateChanged
<1>7. [actor EXCEPT ![d] = actor[d]] = actor
  BY DEF Shapes, ActorsOK
<1> QED
  BY <1>2, <1>6, <1>7

\* A new directory e has an actor of its own, which is clean.
Newborn(d, e, new) ==
    /\ e \in Dir /\ e # d /\ e # Root /\ Parent[e] = d /\ actor[e].life = "none"
    /\ new.life = "creating" /\ ~new.dirty /\ new.timer = "off" /\ new.auto = actor[d].auto
    /\ new.task = Idle

LEMMA CreateDirMarks ==
    ASSUME Shapes, Tree, ParentsExist, NEW d \in Dir, CreateDirAt(d)
    PROVE  \/ actor' = [actor EXCEPT ![d] = Arm(actor[d])]
           \/ \E q, e, new :
                /\ Changed(d, q) /\ Newborn(d, e, new) /\ Head(box[d]).from \in Senders
                /\ actor' = [[actor EXCEPT ![d] = MarkAsDirty(d, q, Head(box[d]).from)]
                                EXCEPT ![e] = new]
<1> DEFINE m == Head(box[d])
           e == IF Above(d, m.dir) THEN m.dir ELSE Blank[d]
           old == actor[d].state
           moved == ExtractChild(old.files, e)
           stay == [f \in Dir |-> IF e \in Up[f] THEN 0 ELSE old.files[f]]
           none == e \notin Dir \ DOMAIN old.dirs
           s == Snapshot(stay, [f \in DOMAIN old.dirs \cup {e} |->
                                    IF f = e THEN NoHash ELSE old.dirs[f]])
           q == [actor[d] EXCEPT !.state = s]
           new == Spawn("creating", d, Snapshot(moved, <<>>), actor[d].auto)
           x == MarkAsDirty(d, q, m.from)
           a == Arm(actor[d])
<1>1. /\ m \in Messages /\ m.op = "create_dir"
      /\ RecordOK(actor[d], Known, Messages) /\ Snap(actor[d].state, Known)
  BY Receiving DEF CreateDirAt
<1>2. actor' = [actor EXCEPT ![d] = IF none THEN a ELSE x, ![e] = IF none THEN @ ELSE new]
  BY DEF CreateDirAt
<1>3. NoHash \in Known /\ m.from \in Senders
  BY <1>1 DEF Known, Messages, WithoutCreate, PathOps
<1>4. e # d
  BY <1>1, TreeAssumption DEF Above
<1>5. CASE none
  <2> DEFINE n == none
  <2>1. actor' = [actor EXCEPT ![d] = IF n THEN a ELSE x, ![e] = IF n THEN @ ELSE new]
    BY <1>2
  <2>2. n
    BY <1>5
  <2> HIDE DEF e, new, x, a, n
  <2>3. actor' = [actor EXCEPT ![d] = a]
    BY <1>4, <2>1, <2>2 DEF Shapes, ActorsOK
  <2> QED
    BY <2>3 DEF a
<1>6. CASE ~none
  <2>1. Newborn(d, e, new)
    <3>1. e # Root /\ Parent[e] = d /\ actor[e].life = "none"
      BY <1>6, CreatedFacts
    <3>2. /\ new.life = "creating" /\ ~new.dirty /\ new.timer = "off"
          /\ new.auto = actor[d].auto /\ new.task = Idle
      BY DEF Spawn
    <3> QED
      BY <1>4, <1>6, <3>1, <3>2 DEF Newborn
  <2> HIDE DEF m, e, moved, stay
  <2>2. Snap(s, Known)
    BY <1>1, <1>3, <1>6 DEF Snap, Snapshot
  <2> HIDE DEF s
  <2>3. Changed(d, q)
    BY <2>2, StateChanged
  <2>4. actor' = [[actor EXCEPT ![d] = x] EXCEPT ![e] = new]
    BY <1>2, <1>6
  <2> HIDE DEF q, new
  <2> QED
    BY <1>3, <2>1, <2>3, <2>4 DEF x, m
<1> QED
  BY <1>5, <1>6

LEMMA ChangedMarks ==
    ASSUME Shapes, NEW d \in Dir, NEW q, Changed(d, q), actor[d].task = Idle,
           NEW from \in Senders
    PROVE  /\ RecordOK(MarkAsDirty(d, q, from), Known, Messages)
           /\ Marked(d, q, MarkAsDirty(d, q, from), from)
<1>1. Msg("mark_as_dirty", d, None, None) \in Messages
  BY DEF Msg, Messages, Senders, PathOps
<1>2. RecordOK(q, Known, Messages) /\ q.state # NoHash /\ q.task = Idle
  BY DEF Changed, OnlyState
<1> QED
  BY <1>1, <1>2, MarkFacts

LEMMA AskedMark ==
    ASSUME Shapes, Asked, NEW d \in Dir, NEW ops, Receives(d, ops), box' = Take(d),
           NEW q, Changed(d, q), NEW from \in Senders,
           actor' = [actor EXCEPT ![d] = MarkAsDirty(d, q, from)]
    PROVE  Asked'
<1>1. Marked(d, q, MarkAsDirty(d, q, from), from)
  BY ChangedMarks DEF Receives, Free
<1> DEFINE r == MarkAsDirty(d, q, from)
<1> HIDE DEF r
<1>2. r.task.op # "save"
  BY <1>1, MarkedTask DEF r
<1>3. actor' = [actor EXCEPT ![d] = r]
  BY DEF r
<1> QED
  BY <1>2, <1>3, AskedTaken

LEMMA AskedFileOp ==
    ASSUME Shapes, Asked, NEW d \in Dir, FileOp(d)
    PROVE  Asked'
<1>1. PICK q : Changed(d, q) /\ actor' = [actor EXCEPT ![d] = MarkAsDirty(d, q, None)]
  BY FileOpMarks
<1>2. Receives(d, {"file_put", "file_put_sync", "file_get"}) /\ box' = Take(d)
  BY DEF FileOp
<1> QED
  BY <1>1, <1>2, AskedMark DEF Senders

LEMMA AskedChildIsDirty ==
    ASSUME Shapes, Asked, NEW d \in Dir, ChildIsDirty(d)
    PROVE  Asked'
<1>1. PICK q : Changed(d, q) /\ actor' = [actor EXCEPT ![d] = MarkAsDirty(d, q, None)]
  BY ChildIsDirtyMarks
<1>2. Receives(d, {"mark_as_dirty"}) /\ box' = Take(d)
  BY DEF ChildIsDirty
<1> QED
  BY <1>1, <1>2, AskedMark DEF Senders

LEMMA AskedUpdateDirRefHash ==
    ASSUME Shapes, Asked, NEW d \in Dir, UpdateDirRefHash(d)
    PROVE  Asked'
<1>1. Receives(d, {"update_ref"}) /\ box' = Take(d)
  BY DEF UpdateDirRefHash
<1>2. CASE actor' = actor
  <2>1. \A f \in Dir : Less(f, box[f], Take(d)[f])
    BY <1>1, LessTake DEF Receives
  <2> QED
    BY <1>1, <1>2, <2>1, KeepsSame, AskedStep
<1>3. CASE \E q : Changed(d, q) /\ actor' = [actor EXCEPT ![d] = MarkAsDirty(d, q, None)]
  BY <1>1, <1>3, AskedMark DEF Senders
<1> QED
  BY <1>2, <1>3, UpdateMarks

LEMMA AskedCreateDirAt ==
    ASSUME Shapes, Tree, ParentsExist, Asked, NEW d \in Dir, CreateDirAt(d)
    PROVE  Asked'
<1>1. /\ Receives(d, {"create_dir"}) /\ box' = Take(d)
      /\ actor[d].task = Idle /\ actor[d].task.op = "idle"
  BY DEF CreateDirAt, Receives, Free, Idle
<1>2. CASE actor' = [actor EXCEPT ![d] = Arm(actor[d])]
  <2> DEFINE r == Arm(actor[d])
  <2>1. r.task = actor[d].task
    <3>1. RecordOK(actor[d], Known, Messages)
      BY DEF Shapes, ActorsOK
    <3> QED
      BY <3>1, ArmFacts
  <2> HIDE DEF r
  <2> QED
    BY <1>1, <1>2, <2>1, AskedTaken DEF r
<1>3. ASSUME NEW q, NEW e, NEW new,
             Changed(d, q), Newborn(d, e, new), Head(box[d]).from \in Senders,
             actor' = [[actor EXCEPT ![d] = MarkAsDirty(d, q, Head(box[d]).from)]
                                EXCEPT ![e] = new]
      PROVE  Asked'
  <2> DEFINE from == Head(box[d]).from
             r == MarkAsDirty(d, q, from)
  <2>1. r.task.op # "save"
    <3>1. Marked(d, q, r, from)
      BY <1>1, <1>3, ChangedMarks
    <3> HIDE DEF r
    <3> QED
      BY <3>1, MarkedTask
  <2>2. \A f \in Dir : Less(f, box[f], Take(d)[f])
    BY <1>1, LessTake DEF Receives
  <2>3. actor' = [[actor EXCEPT ![d] = r] EXCEPT ![e] = new]
    BY <1>3
  <2> HIDE DEF r
  <2>4. /\ actor'[d] = r /\ actor'[e] = new
        /\ \A f \in Dir : f # d /\ f # e => actor'[f] = actor[f]
    BY <1>3, <2>3 DEF Newborn, Shapes, ActorsOK
  <2>5. actor[e].task.op = "idle" /\ new.task.op = "idle"
    BY <1>3, NotRunning DEF Newborn, Idle
  <2>6. KeepsTask(actor[d], r) /\ KeepsTask(actor[e], new)
    BY <1>1, <2>1, <2>5, KeepsOther
  <2>7. \A f \in Dir : KeepsTask(actor[f], actor'[f])
    BY <2>4, <2>6, KeepsSame
  <2> QED
    BY <1>1, <2>2, <2>7, AskedStep
<1> QED
  BY <1>2, <1>3, CreateDirMarks

\* What Tell leaves: the task is done.
LEMMA TellDone ==
    ASSUME Shapes, NEW d \in Dir, Tell(d)
    PROVE  \E r : /\ actor' = [actor EXCEPT ![d] = r] /\ RecordOK(r, Known, Messages)
                  /\ r.task = Idle /\ r.life = actor[d].life
                  /\ r.up = actor[d].up /\ r.auto = actor[d].auto
                  /\ actor[d].task.then # "saved" => r.dirty = actor[d].dirty
                  /\ ~actor[d].auto => r.timer = actor[d].timer
<1> DEFINE t == actor[d].task
           r == [actor[d] EXCEPT !.task = Idle]
           q == CASE t.then = "loop"  -> r
                  [] t.then = "arm"   -> Arm(r)
                  [] t.then = "saved" -> [r EXCEPT !.dirty = FALSE]
<1>1. actor' = [actor EXCEPT ![d] = q]
  BY DEF Tell
<1>2. RecordOK(actor[d], Known, Messages) /\ t.op = "tell"
  BY Busy DEF Tell
<1>3. t \in TellTasks(Messages)
  BY <1>2 DEF RecordOK, AllTasks, WorkTasks, Idle
<1>4. t.then \in {"loop", "arm", "saved"}
  BY <1>3 DEF TellTasks
<1>5. /\ RecordOK(r, Known, Messages) /\ r.task = Idle /\ r.life = actor[d].life
      /\ r.up = actor[d].up /\ r.auto = actor[d].auto /\ r.dirty = actor[d].dirty
      /\ r.timer = actor[d].timer
  <2>1. r.timer = actor[d].timer
    BY <1>2 DEF RecordOK
  <2> QED
    BY <1>2, <2>1, IdleOK
<1> HIDE DEF t, r
<1>6. /\ RecordOK(q, Known, Messages) /\ q.task = r.task /\ q.life = r.life
      /\ q.up = r.up /\ q.auto = r.auto
      /\ t.then # "saved" => q.dirty = r.dirty
      /\ ~r.auto => q.timer = r.timer
  <2>1. CASE t.then = "loop"
    BY <1>5, <2>1
  <2>2. CASE t.then = "arm"
    <3>1. q = Arm(r)
      BY <2>2
    <3>2. ~r.auto => Arm(r) = r
      BY DEF Arm
    <3> QED
      BY <1>5, <2>2, <3>1, <3>2, ArmFacts
  <2>3. CASE t.then = "saved"
    <3>1. q = [r EXCEPT !.dirty = FALSE]
      BY <2>3
    <3>2. [r EXCEPT !.dirty = FALSE].timer = r.timer
      BY <1>5 DEF RecordOK
    <3> QED
      BY <1>5, <2>3, <3>1, <3>2, DirtyOK
  <2> QED
    BY <1>4, <2>1, <2>2, <2>3
<1>7. /\ q.task = Idle /\ q.life = actor[d].life /\ q.up = actor[d].up /\ q.auto = actor[d].auto
      /\ actor[d].task.then # "saved" => q.dirty = actor[d].dirty
      /\ ~actor[d].auto => q.timer = actor[d].timer
  BY <1>5, <1>6, Zenon DEF t
<1> HIDE DEF q
<1> QED
  BY <1>1, <1>6, <1>7

LEMMA AskedTell ==
    ASSUME Shapes, Tree, Asked, NEW d \in Dir, Tell(d)
    PROVE  Asked'
<1>1. PICK r : actor' = [actor EXCEPT ![d] = r] /\ r.task = Idle
  BY TellDone
<1> DEFINE x == actor[d].task.msg
           u == actor[d].up
<1>2. box' = [box EXCEPT ![u] = Append(@, x)]
  BY DEF Tell
<1>3. ~Request(x)
  <2>1. TellFits(d, actor[d].task)
    BY DEF Tree, ActorTree, ActorFits
  <2> QED
    BY <2>1 DEF TellFits, Tell, Request
<1> HIDE DEF x, u
<1>4. \A f \in Dir : Less(f, box[f], box'[f])
  BY <1>2, <1>3, LessSend DEF Shapes
<1>5. KeepsTask(actor[d], r)
  BY <1>1, KeepsOther DEF Tell, Idle
<1> QED
  BY <1>1, <1>4, <1>5, AskedOwn

\* The children of a directory that are open.
LEMMA HandlesFacts ==
    ASSUME Tree, NEW d \in Dir
    PROVE  Handles(d) = {e \in Dir \ {Root} : actor[e].life # "none" /\ Parent[e] = d}
<1>1. ASSUME NEW e \in Dir
      PROVE  /\ e = Root => actor[e].up = None
             /\ e # Root /\ actor[e].life # "none" => actor[e].up = Parent[e]
  BY DEF Tree, ActorTree, ActorFits, UnderParent
<1>2. None # d
  BY TreeAssumption
<1> QED
  BY <1>1, <1>2 DEF Handles

LEMMA AskedSaveIfDirty ==
    ASSUME Shapes, Tree, Asked, NEW d \in Dir, SaveIfDirty(d)
    PROVE  Asked'
<1> DEFINE from == Head(box[d]).from
           t == [op |-> "save", from |-> from, todo |-> Handles(d), wait |-> {}]
<1>1. /\ actor[d].task.op = "idle" /\ box[d] # <<>> /\ box' = Take(d)
      /\ Head(box[d]).op = "save" /\ RecordOK(actor[d], Known, Messages)
  <2>1. Receives(d, {"save"}) /\ box' = Take(d)
    BY DEF SaveIfDirty
  <2>2. box[d] # <<>> /\ actor[d].task.op = "idle"
    BY <2>1 DEF Receives, Free, Idle
  <2> QED
    BY <2>1, <2>2, Receiving
<1>2. /\ \A f \in Dir : Less(f, box[f], box'[f])
      /\ Request(Head(box[d])) => ~Requested(box'[d])
  <2>1. OneRequest(box[d])
    BY DEF Asked, AskedAt
  <2> QED
    BY <1>1, <2>1, LessTake
<1>3. from \in Dir <=> Request(Head(box[d]))
  BY <1>1 DEF Request
<1>4. CASE actor[d].dirty \/ IsRoot(d)
  <2> DEFINE r == [actor[d] EXCEPT !.task = t]
  <2>1. actor' = [actor EXCEPT ![d] = r]
    BY <1>4 DEF SaveIfDirty
  <2>2. /\ t.op = "save" /\ t.from = from
        /\ \A e \in t.todo : e # Root /\ Parent[e] = d
    BY HandlesFacts
  <2> HIDE DEF t
  <2>3. r.task = t
    BY <1>1 DEF RecordOK
  <2> HIDE DEF r
  <2>4. actor'[d] = r /\ \A f \in Dir : f # d => actor'[f] = actor[f]
    BY <2>1 DEF Shapes, ActorsOK
  <2>5. from \in Dir => d # Root /\ from = Parent[d] /\ InSave(actor, d)
    <3>1. 1 \in DOMAIN box[d] /\ box[d][1] = Head(box[d])
      <4>1. box[d] \in Seq(Messages)
        BY DEF Shapes
      <4> QED
        BY <1>1, <4>1
    <3>2. AskedAt(actor, box[d], d)
      BY DEF Asked
    <3> QED
      BY <1>3, <3>1, <3>2 DEF AskedAt, FromParent, Requested
  <2>6. ASSUME NEW f \in Dir PROVE AskedAt(actor', box'[f], f)
    <3>1. AskedAt(actor, box[f], f) /\ Less(f, box[f], box'[f])
      BY <1>2 DEF Asked
    <3>2. InSave(actor, f) => InSave(actor', f)
      <4> SUFFICES ASSUME InSave(actor, f) PROVE InSave(actor', f)
        OBVIOUS
      <4>1. Parent[f] \in Dir /\ Parent[f] # d
        BY <1>1, TreeAssumption DEF InSave
      <4> QED
        BY <2>4, <4>1 DEF InSave
    <3>3. CASE f # d
      <4>1. actor'[f] = actor[f]
        BY <2>4, <3>3
      <4> QED
        BY <3>1, <3>2, <4>1 DEF AskedAt, Less, Saves, OwnTodo
    <3>4. CASE f = d
      <4>1. Saves(actor'[f]) <=> from \in Dir
        BY <2>2, <2>3, <2>4, <3>4 DEF Saves
      <4>2. OwnTodo(actor'[f], f) /\ actor'[f].task.from = from
        BY <2>2, <2>3, <2>4, <3>4 DEF OwnTodo
      <4> QED
        BY <1>2, <1>3, <2>5, <3>1, <3>2, <3>4, <4>1, <4>2 DEF AskedAt, Less
    <3> QED
      BY <3>3, <3>4
  <2>7. (\A f \in Dir : AskedAt(actor, box[f], f))'
    BY <2>6 DEF AskedAt, OwnTodo, OneRequest, FromParent, Saves, Requested, InSave, Request
  <2> QED
    BY <2>7 DEF Asked
<1>5. CASE ~(actor[d].dirty \/ IsRoot(d))
  <2> DEFINE r == Arm(actor[d])
  <2>1. actor' = ToParent([actor EXCEPT ![d] = r], from, d, NoHash)
    BY <1>5 DEF SaveIfDirty
  <2>2. RecordOK(r, Known, Messages) /\ r.task = actor[d].task
    BY <1>1, ArmFacts
  <2>3. ActorsOK([actor EXCEPT ![d] = r], Known, Messages)
    BY <2>2, ReplaceOK DEF Shapes
  <2> HIDE DEF r, from
  <2> QED
    BY <1>1, <1>2, <1>3, <2>1, <2>2, <2>3, AskedToParent
<1> QED
  BY <1>4, <1>5

LEMMA AskChildFacts ==
    ASSUME Shapes, NEW d \in Dir, NEW e \in Dir, AskChild(d, e)
    PROVE  LET t == actor[d].task IN
           /\ t.op \in {"save", "shutdown"} /\ e \in t.todo
           /\ \E r : /\ actor' = [actor EXCEPT ![d] = r]
                     /\ r.life = actor[d].life /\ r.up = actor[d].up /\ r.dirty = actor[d].dirty
                     /\ r.auto = actor[d].auto /\ r.timer = actor[d].timer
                     /\ r.task.op = t.op /\ r.task.from = t.from /\ r.task.todo = t.todo \ {e}
                     /\ \/ box' = box /\ actor[e].life = "stopped" /\ r.task.wait = t.wait
                        \/ /\ box' = [box EXCEPT ![e] = Append(@, Msg(t.op, e, 0, d))]
                           /\ r.task.wait = t.wait \cup {e}
<1> DEFINE t == actor[d].task
           t1 == [t EXCEPT !.todo = @ \ {e}]
           t2 == [t EXCEPT !.todo = @ \ {e}, !.wait = @ \cup {e}]
           m == Msg(t.op, e, 0, d)
<1>1. /\ RecordOK(actor[d], Known, Messages) /\ t.op \in {"save", "shutdown"} /\ e \in t.todo
  BY Busy DEF AskChild
<1>2. t \in WorkTasks
  BY <1>1 DEF RecordOK, AllTasks, TellTasks, Idle
<1>3. /\ t1.op = t.op /\ t1.from = t.from /\ t1.todo = t.todo \ {e} /\ t1.wait = t.wait
      /\ t2.op = t.op /\ t2.from = t.from /\ t2.todo = t.todo \ {e} /\ t2.wait = t.wait \cup {e}
  BY <1>2 DEF WorkTasks
<1>4. \A u : LET r == [actor[d] EXCEPT !.task = u] IN
          /\ r.life = actor[d].life /\ r.up = actor[d].up /\ r.dirty = actor[d].dirty
          /\ r.auto = actor[d].auto /\ r.timer = actor[d].timer /\ r.task = u
  BY <1>1 DEF RecordOK
<1>5. CASE /\ actor' = [actor EXCEPT ![d].task.todo = @ \ {e}] /\ box' = box
           /\ actor[e].life = "stopped"
  <2>1. actor' = [actor EXCEPT ![d] = [actor[d] EXCEPT !.task = t1]]
    BY <1>1, <1>5 DEF RecordOK
  <2> HIDE DEF t1
  <2>2. \E r : /\ actor' = [actor EXCEPT ![d] = r]
               /\ r.life = actor[d].life /\ r.up = actor[d].up /\ r.dirty = actor[d].dirty
               /\ r.auto = actor[d].auto /\ r.timer = actor[d].timer
               /\ r.task.op = t.op /\ r.task.from = t.from /\ r.task.todo = t.todo \ {e}
               /\ r.task.wait = t.wait
    <3> WITNESS [actor[d] EXCEPT !.task = t1]
    <3> QED
      BY <1>3, <1>4, <2>1
  <2> QED
    BY <1>1, <1>5, <2>2
<1>6. CASE /\ actor' = [actor EXCEPT ![d].task.todo = @ \ {e}, ![d].task.wait = @ \cup {e}]
           /\ box' = [box EXCEPT ![e] = Append(@, m)]
  <2>1. actor' = [actor EXCEPT ![d] = [actor[d] EXCEPT !.task = t2]]
    BY <1>1, <1>2, <1>6 DEF RecordOK, WorkTasks, Shapes, ActorsOK
  <2> HIDE DEF t2, m
  <2>2. \E r : /\ actor' = [actor EXCEPT ![d] = r]
               /\ r.life = actor[d].life /\ r.up = actor[d].up /\ r.dirty = actor[d].dirty
               /\ r.auto = actor[d].auto /\ r.timer = actor[d].timer
               /\ r.task.op = t.op /\ r.task.from = t.from /\ r.task.todo = t.todo \ {e}
               /\ r.task.wait = t.wait \cup {e}
    <3> WITNESS [actor[d] EXCEPT !.task = t2]
    <3> QED
      BY <1>3, <1>4, <2>1
  <2> QED
    BY <1>1, <1>6, <2>2 DEF m
<1> QED
  BY <1>5, <1>6 DEF AskChild

LEMMA AskedAskChild ==
    ASSUME Shapes, Tree, Asked, NEW d \in Dir, NEW e \in Dir, AskChild(d, e)
    PROVE  Asked'
<1> DEFINE t == actor[d].task
           m == Msg(t.op, e, 0, d)
<1>1. t.op \in {"save", "shutdown"} /\ e \in t.todo
  BY AskChildFacts
<1>2. PICK r : /\ actor' = [actor EXCEPT ![d] = r]
               /\ r.task.op = t.op /\ r.task.from = t.from /\ r.task.todo = t.todo \ {e}
               /\ \/ box' = box /\ r.task.wait = t.wait
                  \/ box' = [box EXCEPT ![e] = Append(@, m)] /\ r.task.wait = t.wait \cup {e}
  BY AskChildFacts
<1>3. KeepsTask(actor[d], r)
  BY <1>2 DEF KeepsTask, Saves
<1>4. m.op = t.op /\ m.from = d
  BY DEF Msg
<1> HIDE DEF m
<1>5. CASE box' = box
  BY <1>2, <1>3, <1>5, LessSame, AskedOwn
<1>6. CASE box' = [box EXCEPT ![e] = Append(@, m)] /\ t.op # "save"
  <2>1. ~Request(m)
    BY <1>4, <1>6 DEF Request
  <2>2. \A f \in Dir : Less(f, box[f], box'[f])
    BY <1>6, <2>1, LessSend DEF Shapes
  <2> QED
    BY <1>2, <1>3, <2>2, AskedOwn
<1>7. CASE /\ box' = [box EXCEPT ![e] = Append(@, m)] /\ t.op = "save"
           /\ r.task.wait = t.wait \cup {e}
  <2>1. e # Root /\ Parent[e] = d
    BY <1>1, <1>7 DEF Asked, AskedAt, OwnTodo
  <2>2. ~InSave(actor, e)
    BY <1>1, <2>1 DEF InSave
  <2>3. ~Requested(box[e]) /\ ~Saves(actor[e])
    BY <2>2 DEF Asked, AskedAt
  <2>4. actor'[d] = r /\ \A f \in Dir : f # d => actor'[f] = actor[f]
    BY <1>2 DEF Shapes, ActorsOK
  <2>5. InSave(actor', e)
    BY <1>2, <1>7, <2>1, <2>4 DEF InSave
  <2>6. \A f \in Dir : KeepsTask(actor[f], actor'[f])
    BY <1>3, <2>4, KeepsSame
  <2>7. /\ box'[e] = Append(box[e], m) /\ box[e] \in Seq(Messages)
        /\ \A f \in Dir : f # e => box'[f] = box[f]
    BY <1>7 DEF Shapes
  <2>8. ASSUME NEW f \in Dir PROVE AskedAt(actor', box'[f], f)
    <3>1. AskedAt(actor, box[f], f)
      BY DEF Asked
    <3>2. Saves(actor'[f]) => Saves(actor[f]) /\ actor'[f].task.from = actor[f].task.from
      BY <2>6 DEF KeepsTask
    <3>3. OwnTodo(actor'[f], f)
      BY <2>6, <3>1 DEF KeepsTask, OwnTodo, AskedAt
    <3>4. CASE f # e
      <4>1. InSave(actor, f) => InSave(actor', f)
        <5> SUFFICES ASSUME InSave(actor, f) PROVE InSave(actor', f)
          OBVIOUS
        <5>1. Parent[f] \in Dir
          BY TreeAssumption DEF InSave
        <5>2. KeepsTask(actor[Parent[f]], actor'[Parent[f]])
          BY <2>6, <5>1
        <5> QED
          BY <5>2 DEF InSave, KeepsTask
      <4>2. box'[f] = box[f]
        BY <2>7, <3>4
      <4> QED
        BY <3>1, <3>2, <3>3, <4>1, <4>2 DEF AskedAt
    <3>5. CASE f = e
      <4>1. OneRequest(box'[e])
        BY <2>3, <2>7, LessAppend
      <4>2. FromParent(e, box'[e])
        <5>1. FromParent(e, box[e]) /\ (Request(m) => e # Root /\ m.from = Parent[e])
          BY <1>4, <2>1, <3>1, <3>5 DEF AskedAt
        <5> QED
          BY <2>7, <5>1, LessAppend
      <4> QED
        BY <2>3, <2>5, <3>2, <3>3, <3>5, <4>1, <4>2 DEF AskedAt
    <3> QED
      BY <3>4, <3>5
  <2>9. (\A f \in Dir : AskedAt(actor, box[f], f))'
    BY <2>8 DEF AskedAt, OwnTodo, OneRequest, FromParent, Saves, Requested, InSave, Request
  <2> QED
    BY <2>9 DEF Asked
<1> QED
  BY <1>2, <1>5, <1>6, <1>7

\* What the rest of a save leaves, before the parent hears of it.
SavedAs(d, a, h, ok) ==
    /\ actor' = ToParent([actor EXCEPT ![d] = a], actor[d].task.from, d, h)
    /\ ok \in IF actor[d].dirty THEN Outcome ELSE {TRUE}
    /\ RecordOK(a, Known', Messages')
    /\ h = NoHash \/ h \in Known'
    /\ a.task = Idle /\ a.life = actor[d].life /\ a.up = actor[d].up /\ a.auto = actor[d].auto
    /\ a.dirty = (actor[d].dirty /\ ~ok)
    /\ ~actor[d].auto => a.timer = actor[d].timer

LEMMA SaveDoneFacts ==
    ASSUME Shapes, NEW d \in Dir, SaveDone(d)
    PROVE  /\ \E a, h, ok : SavedAs(d, a, h, ok)
           /\ box' = box /\ ActorsOK(actor, Known', Messages')
<1> DEFINE from == actor[d].task.from
           r == [actor[d] EXCEPT !.task = Idle]
           hash(ok) == IF ok /\ r.dirty THEN r.state ELSE NoHash
<1>1. RecordOK(actor[d], Known, Messages) /\ actor[d].state # NoHash
  BY Busy DEF SaveDone, ChildrenDone
<1>2. /\ RecordOK(r, Known, Messages) /\ r.state = actor[d].state
      /\ r.dirty \in BOOLEAN
  BY <1>1, IdleOK DEF RecordOK
<1>21. /\ r.life = actor[d].life /\ r.up = actor[d].up /\ r.auto = actor[d].auto
       /\ r.task = Idle /\ r.timer = actor[d].timer /\ r.dirty = actor[d].dirty
  BY <1>1 DEF RecordOK
<1>3. PICK ok \in IF r.dirty THEN Outcome ELSE {TRUE} :
        /\ Persist(d, ok /\ r.dirty)
        /\ actor' = ToParent([actor EXCEPT ![d] = Arm([r EXCEPT !.dirty = @ /\ ~ok])],
                             from, d, hash(ok))
  BY DEF SaveDone
<1>4. config' = config /\ box' = box
  BY DEF SaveDone, ClientsOnly
<1>5. /\ Known \subseteq Known' /\ Messages \subseteq Messages'
      /\ ok /\ r.dirty => actor[d].state \in stored'
  BY <1>1, <1>3, <1>4, PersistFacts
<1> HIDE DEF r
<1> DEFINE b == r.dirty /\ ~ok
           q == [r EXCEPT !.dirty = b]
<1>6. /\ RecordOK(q, Known', Messages') /\ q.life = r.life /\ q.up = r.up /\ q.auto = r.auto
      /\ q.task = r.task /\ q.dirty = b /\ q.timer = r.timer
  <2>1. RecordOK(r, Known', Messages') /\ b \in BOOLEAN
    BY <1>2, <1>5, RecordGrows
  <2> HIDE DEF b
  <2>2. q.timer = r.timer
    BY <2>1 DEF RecordOK
  <2> QED
    BY <2>1, <2>2, DirtyOK
<1>7. ActorsOK(actor, Known', Messages')
  BY <1>5, ActorsGrow DEF Shapes
<1> DEFINE a == Arm(q)
           h == hash(ok)
<1>8. h = NoHash \/ h \in Known'
  BY <1>2, <1>5 DEF Known
<1>9. actor' = ToParent([actor EXCEPT ![d] = a], from, d, h)
  BY <1>3
<1>91. b = (actor[d].dirty /\ ~ok)
  BY <1>21
<1> HIDE DEF q, h, b
<1>10. /\ RecordOK(a, Known', Messages') /\ a.life = q.life /\ a.up = q.up /\ a.auto = q.auto
       /\ a.task = q.task /\ a.dirty = q.dirty
  BY <1>6, ArmFacts
<1>101. ~q.auto => a.timer = q.timer
  BY DEF Arm
<1> HIDE DEF a
<1>11. SavedAs(d, a, h, ok)
  <2>1. ok \in IF actor[d].dirty THEN Outcome ELSE {TRUE}
    BY <1>3, <1>21
  <2>2. /\ a.task = Idle /\ a.life = actor[d].life /\ a.up = actor[d].up
        /\ a.auto = actor[d].auto
    BY <1>21, <1>6, <1>10, Zenon
  <2>3. a.dirty = (actor[d].dirty /\ ~ok)
    BY <1>6, <1>10, <1>91, Zenon
  <2>4. ~actor[d].auto => a.timer = actor[d].timer
    BY <1>21, <1>6, <1>101, Zenon
  <2> QED
    BY <1>8, <1>9, <1>10, <2>1, <2>2, <2>3, <2>4 DEF SavedAs
<1> QED
  BY <1>4, <1>7, <1>11

LEMMA AskedSaveDone ==
    ASSUME Shapes, Asked, NEW d \in Dir, SaveDone(d)
    PROVE  Asked'
<1>1. PICK a, h, ok : SavedAs(d, a, h, ok)
  BY SaveDoneFacts
<1>2. box' = box /\ ActorsOK(actor, Known', Messages')
  BY SaveDoneFacts
<1> DEFINE from == actor[d].task.from
<1>3. /\ actor' = ToParent([actor EXCEPT ![d] = a], from, d, h) /\ RecordOK(a, Known', Messages')
      /\ h = NoHash \/ h \in Known'
  BY <1>1 DEF SavedAs
<1>4. a.task.op # "save" /\ actor[d].task.op = "save" /\ actor[d].task.wait = {}
  BY <1>1 DEF SavedAs, Idle, SaveDone, ChildrenDone
<1>5. ActorsOK([actor EXCEPT ![d] = a], Known', Messages')
  BY <1>2, <1>3, ReplaceOK
<1>6. from \in Dir => ~Requested(box'[d])
  BY <1>2, <1>4 DEF Asked, AskedAt, Saves
<1>7. \A f \in Dir : Less(f, box[f], box'[f])
  BY <1>2, LessSame
<1> HIDE DEF from
<1> QED
  BY <1>3, <1>4, <1>5, <1>6, <1>7, AskedToParent

LEMMA AskedFire ==
    ASSUME Shapes, Asked, NEW d \in Dir, Fire(d)
    PROVE  Asked'
<1> DEFINE m == Msg("autosave_tick", d, 0, None)
           r == [actor[d] EXCEPT !.timer = "fired"]
<1>1. /\ box' = [box EXCEPT ![d] = Append(@, m)]
      /\ actor' = [actor EXCEPT ![d] = r]
  BY DEF Fire
<1>2. r.task = actor[d].task /\ ~Request(m)
  <2>1. RecordOK(actor[d], Known, Messages)
    BY DEF Shapes, ActorsOK
  <2> QED
    BY <2>1 DEF RecordOK, Msg, Request
<1> HIDE DEF r, m
<1>3. \A f \in Dir : Less(f, box[f], box'[f])
  BY <1>1, <1>2, LessSend DEF Shapes
<1>4. KeepsTask(actor[d], r)
  BY <1>2, KeepsSame
<1> QED
  BY <1>1, <1>3, <1>4, AskedOwn

LEMMA AskedAutosaveTick ==
    ASSUME Shapes, Asked, NEW d \in Dir, AutosaveTick(d)
    PROVE  Asked'
<1> DEFINE r == [actor[d] EXCEPT !.timer = "off"]
           tell == ~IsRoot(d) /\ actor[r.up].life # "stopped"
           t == Telling("update_ref", d, r.state, "saved", None)
<1>1. PICK ok : actor' = [actor EXCEPT ![d] =
               IF ~ok THEN Arm(r)
               ELSE IF r.dirty /\ tell THEN [r EXCEPT !.task = t]
               ELSE [r EXCEPT !.dirty = FALSE]]
  BY DEF AutosaveTick
<1>2. Receives(d, {"autosave_tick"}) /\ box' = Take(d) /\ actor[d].task = Idle
  BY DEF AutosaveTick, Receives, Free
<1>3. RecordOK(r, Known, Messages) /\ r.task = Idle
  <2>1. RecordOK(actor[d], Known, Messages)
    BY DEF Shapes, ActorsOK
  <2> QED
    BY <1>2, <2>1 DEF RecordOK
<1>4. t.op # "save" /\ Idle.op # "save"
  BY DEF Telling, Idle
<1> HIDE DEF r, t, tell
<1>5. /\ Arm(r).task = Idle /\ [r EXCEPT !.task = t].task = t
      /\ [r EXCEPT !.dirty = FALSE].task = Idle
  BY <1>3, ArmFacts DEF RecordOK
<1> DEFINE q == IF ~ok THEN Arm(r)
               ELSE IF r.dirty /\ tell THEN [r EXCEPT !.task = t]
               ELSE [r EXCEPT !.dirty = FALSE]
<1>6. q.task.op # "save"
  BY <1>4, <1>5
<1>7. actor' = [actor EXCEPT ![d] = q]
  BY <1>1
<1> HIDE DEF q
<1> QED
  BY <1>2, <1>6, <1>7, AskedTaken

LEMMA AskedSetAutosave ==
    ASSUME Shapes, Asked, NEW d \in Dir, SetAutosave(d)
    PROVE  Asked'
<1> DEFINE live == {e \in Handles(d) : actor[e].life # "stopped"}
           m == Head(box[d])
           r == Arm([actor[d] EXCEPT !.auto = TRUE])
<1>1. /\ RecordOK(actor[d], Known, Messages) /\ m.op = "with_autosave"
  BY Receiving DEF SetAutosave
<1>2. /\ box[d] # <<>> /\ actor' = [actor EXCEPT ![d] = r]
      /\ box' = [f \in Dir |-> IF f = d THEN Tail(box[f])
                                ELSE IF f \in live THEN Append(box[f], m)
                                ELSE box[f]]
  BY DEF SetAutosave, Receives
<1>3. r.task = actor[d].task
  <2> DEFINE q == [actor[d] EXCEPT !.auto = TRUE]
  <2>1. RecordOK(q, Known, Messages) /\ q.task = actor[d].task
    BY <1>1, AutoOK
  <2> HIDE DEF q
  <2>2. Arm(q).task = q.task
    BY <2>1, ArmFacts
  <2> QED
    BY <2>1, <2>2 DEF q
<1>4. ~Request(m)
  BY <1>1 DEF Request
<1> HIDE DEF live, m, r
<1>5. ASSUME NEW f \in Dir PROVE Less(f, box[f], box'[f])
  <2>1. box[f] \in Seq(Messages)
    BY DEF Shapes
  <2>2. CASE f = d
    <3>1. box'[f] = Tail(box[f])
      BY <1>2, <2>2
    <3> QED
      BY <1>2, <2>1, <2>2, <3>1, LessTail
  <2>3. CASE f # d /\ f \in live
    <3>1. box'[f] = Append(box[f], m)
      BY <1>2, <2>3
    <3> QED
      BY <1>4, <2>1, <3>1, LessAppend
  <2>4. CASE f # d /\ f \notin live
    <3>1. box'[f] = box[f]
      BY <1>2, <2>4
    <3> QED
      BY <3>1, LessSame
  <2> QED
    BY <2>2, <2>3, <2>4
<1>6. KeepsTask(actor[d], r)
  BY <1>3, KeepsSame
<1> QED
  BY <1>2, <1>5, <1>6, AskedOwn

LEMMA AskedBeginShutdown ==
    ASSUME Shapes, Asked, NEW d \in Dir, BeginShutdown(d)
    PROVE  Asked'
<1> DEFINE t == [op |-> "shutdown", from |-> Head(box[d]).from, todo |-> Handles(d), wait |-> {}]
           r == [actor[d] EXCEPT !.task = t]
<1>1. Receives(d, {"shutdown"}) /\ box' = Take(d) /\ actor' = [actor EXCEPT ![d] = r]
  BY DEF BeginShutdown
<1>2. t.op # "save"
  OBVIOUS
<1> HIDE DEF t
<1>3. r.task = t
  <2>1. RecordOK(actor[d], Known, Messages)
    BY DEF Shapes, ActorsOK
  <2> QED
    BY <2>1 DEF RecordOK
<1> HIDE DEF r
<1> QED
  BY <1>1, <1>2, <1>3, AskedTaken

\* What an actor that ends leaves, before the parent hears of it.
LEMMA StopFacts ==
    ASSUME Shapes, NEW d \in Dir, Stop(d)
    PROVE  \E q : /\ actor' = ToParent([actor EXCEPT ![d] = q], actor[d].task.from, d, NoHash)
                  /\ RecordOK(q, Known, Messages) /\ q.task = Idle /\ q.life = "stopped"
                  /\ q.auto = actor[d].auto /\ q.timer = actor[d].timer
<1> DEFINE from == actor[d].task.from
           q == [actor[d] EXCEPT !.life = "stopped", !.task = Idle]
<1>1. RecordOK(actor[d], Known, Messages) /\ actor[d].state # NoHash
  BY Busy DEF Stop, ChildrenDone
<1>2. actor' = ToParent([actor EXCEPT ![d].life = "stopped", ![d].task = Idle], from, d, NoHash)
  BY DEF Stop
<1>3. [actor EXCEPT ![d].life = "stopped", ![d].task = Idle] = [actor EXCEPT ![d] = q]
  BY DEF Shapes, ActorsOK
<1>4. RecordOK(q, Known, Messages)
  <2> DEFINE r == [actor[d] EXCEPT !.life = "stopped"]
  <2>1. RecordOK(r, Known, Messages)
    BY <1>1, LifeOK
  <2>2. q = [r EXCEPT !.task = Idle]
    OBVIOUS
  <2> HIDE DEF r, q
  <2> QED
    BY <2>1, <2>2, IdleOK
<1>5. /\ q.task = Idle /\ q.life = "stopped" /\ q.auto = actor[d].auto
      /\ q.timer = actor[d].timer
  BY <1>1 DEF RecordOK
<1> HIDE DEF q
<1> QED
  BY <1>2, <1>3, <1>4, <1>5

LEMMA AskedStop ==
    ASSUME Shapes, Asked, NEW d \in Dir, Stop(d)
    PROVE  Asked'
<1> DEFINE from == actor[d].task.from
<1>1. PICK q : /\ actor' = ToParent([actor EXCEPT ![d] = q], from, d, NoHash)
               /\ RecordOK(q, Known, Messages) /\ q.task = Idle
  BY StopFacts
<1>2. ActorsOK([actor EXCEPT ![d] = q], Known, Messages)
  BY <1>1, ReplaceOK DEF Shapes
<1>3. actor[d].task.op # "save" /\ q.task.op # "save"
  BY <1>1 DEF Stop, ChildrenDone, Idle
<1>4. box'[d] = <<>> /\ \A f \in Dir : f # d => box'[f] = box[f]
  BY DEF Shapes, Stop
<1>5. /\ \A f \in Dir : Less(f, box[f], box'[f])
      /\ ~Requested(box'[d])
  BY <1>4, LessEmpty, LessSame
<1> HIDE DEF from
<1> QED
  BY <1>1, <1>2, <1>3, <1>5, AskedToParent

LEMMA AskedOrphan ==
    ASSUME Shapes, Asked, NEW d \in Dir, Orphan(d)
    PROVE  Asked'
<1> DEFINE r == [actor[d] EXCEPT !.life = "stopped"]
<1>1. box' = box /\ actor' = [actor EXCEPT ![d] = r]
  BY DEF Orphan
<1>2. r.task = actor[d].task
  <2>1. RecordOK(actor[d], Known, Messages)
    BY DEF Shapes, ActorsOK
  <2> QED
    BY <2>1 DEF RecordOK
<1> HIDE DEF r
<1>3. KeepsTask(actor[d], r)
  BY <1>2, KeepsSame
<1> QED
  BY <1>1, <1>3, LessSame, AskedOwn

LEMMA AskedNext ==
    Shapes /\ ParentsExist /\ Tree /\ Asked /\ [Next]_vars => Asked'
<1> SUFFICES ASSUME Shapes, ParentsExist, Tree, Asked, [Next]_vars PROVE Asked'
  OBVIOUS
<1>1. CASE ClientStep
  BY <1>1, AskedClient
<1>2. ASSUME NEW d \in Dir, ActorStep(d) PROVE Asked'
  BY <1>2, AskedPublish, AskedLoad, AskedForward, AskedFileOp, AskedCreateDirAt,
     AskedTell, AskedChildIsDirty, AskedUpdateDirRefHash, AskedSaveIfDirty,
     AskedAskChild, AskedSaveDone, AskedAutosaveTick, AskedSetAutosave,
     AskedBeginShutdown, AskedStop, AskedOrphan
  DEF ActorStep
<1>3. ASSUME NEW d \in Dir, Fire(d) PROVE Asked'
  BY <1>3, AskedFire
<1>4. CASE UNCHANGED vars
  BY <1>4, KeepsSame, LessSame, AskedStep DEF vars
<1> QED
  BY <1>1, <1>2, <1>3, <1>4 DEF Next

\* A save is asked of a child at most once at a time, by its own parent, which stays
\* in its save until the child has answered (persistence.rs, save_if_dirty).
THEOREM AskedCorrect == Spec => [](ParentsExist => Asked)
<1>1. Init => Asked
  BY AskedInit
<1>2. Shapes /\ (ParentsExist => Tree) /\ (ParentsExist => Asked) /\ [Next]_vars
        => (ParentsExist => Asked)'
  <2>1. [Next]_vars => (ParentsExist' <=> ParentsExist)
    BY ConfigStays DEF ParentsExist
  <2> QED
    BY <2>1, AskedNext
<1> QED
  BY <1>1, <1>2, ShapesCorrect, TreeCorrect, PTL DEF Spec

-----------------------------------------------------------------------------
(***************************************************************************)
(* Unsaved changes are known above, without autosave and without failures  *)
(* of the store.  What makes this inductive is what a save of the parent   *)
(* does: as long as it runs, each dirty child is still to be asked, or has *)
(* been asked and not answered, or has reported after its answer; and only *)
(* the root saves without being dirty, so a hash that comes in does not    *)
(* make a directory dirty behind the back of the one above it.             *)
(***************************************************************************)
Calm == WithoutAutosave /\ ~config.errors

\* Nothing of autosave happens; what is not running has no changes.
OwnQuiet(f, r) ==
    /\ r.auto = FALSE /\ r.timer = "off"
    /\ r.life \in {"none", "loading", "creating"} => ~r.dirty
    /\ r.task.op = "tell" => r.task.then # "saved"
    /\ r.task.op = "save" /\ f # Root => r.dirty

MarkIn(q, d) == \E i \in DOMAIN q : q[i].op = "mark_as_dirty" /\ q[i].dir = d
NoTicks(q) == \A i \in DOMAIN q : q[i].op # "autosave_tick"
Tells(r) == r.task.op = "tell" /\ r.task.msg.op = "mark_as_dirty"

\* Actor r of the parent will reach child d with a save.
Covers(r, d) ==
    /\ r.life # "stopped" => r.dirty
    /\ r.task.op = "save" => d \in r.task.todo \cup r.task.wait

DirtAt(acts, b, d) ==
    d # Root /\ acts[d].life = "running" /\ acts[d].dirty =>
        Tells(acts[d]) \/ MarkIn(b[Parent[d]], d) \/ Covers(acts[Parent[d]], d)

Dirt(acts, b) ==
    \A d \in Dir : OwnQuiet(d, acts[d]) /\ DirtAt(acts, b, d) /\ NoTicks(b[d])

LEMMA MarkTail ==
    ASSUME NEW M, NEW q \in Seq(M), q # <<>>
    PROVE  /\ NoTicks(q) => NoTicks(Tail(q))
           /\ Head(q).op # "mark_as_dirty" => \A f : MarkIn(q, f) => MarkIn(Tail(q), f)
<1>1. /\ \A i \in DOMAIN Tail(q) : i + 1 \in DOMAIN q /\ Tail(q)[i] = q[i + 1]
      /\ \A i \in DOMAIN q : i # 1 => i - 1 \in DOMAIN Tail(q) /\ Tail(q)[i - 1] = q[i]
      /\ q[1] = Head(q)
  OBVIOUS
<1> QED
  BY <1>1 DEF NoTicks, MarkIn

LEMMA MarkAppend ==
    ASSUME NEW M, NEW q \in Seq(M), NEW m
    PROVE  /\ NoTicks(q) /\ m.op # "autosave_tick" => NoTicks(Append(q, m))
           /\ \A f : MarkIn(q, f) => MarkIn(Append(q, m), f)
           /\ m.op = "mark_as_dirty" => MarkIn(Append(q, m), m.dir)
<1>1. /\ \A i \in DOMAIN q : i \in DOMAIN Append(q, m) /\ Append(q, m)[i] = q[i]
      /\ Len(q) + 1 \in DOMAIN Append(q, m) /\ Append(q, m)[Len(q) + 1] = m
      /\ \A i \in DOMAIN Append(q, m) : i \in DOMAIN q \/ i = Len(q) + 1
  OBVIOUS
<1> QED
  BY <1>1 DEF NoTicks, MarkIn

\* The mailboxes keep the reports that are in them.
KeepsMarks(b, c) ==
    \A g \in Dir : /\ NoTicks(b[g]) => NoTicks(c[g])
                   /\ \A f : MarkIn(b[g], f) => MarkIn(c[g], f)

LEMMA KeepsSend ==
    ASSUME NEW M, NEW b \in [Dir -> Seq(M)], NEW e, NEW m, m.op # "autosave_tick"
    PROVE  KeepsMarks(b, [b EXCEPT ![e] = Append(@, m)])
<1> DEFINE c == [b EXCEPT ![e] = Append(@, m)]
<1>1. ASSUME NEW g \in Dir
      PROVE  /\ NoTicks(b[g]) => NoTicks(c[g])
             /\ \A f : MarkIn(b[g], f) => MarkIn(c[g], f)
  <2>1. CASE g = e
    <3>1. c[g] = Append(b[g], m) /\ b[g] \in Seq(M)
      BY <2>1
    <3> HIDE DEF c
    <3> QED
      BY <3>1, MarkAppend
  <2>2. CASE g # e
    BY <2>2
  <2> QED
    BY <2>1, <2>2
<1> HIDE DEF c
<1>2. KeepsMarks(b, c)
  BY <1>1 DEF KeepsMarks
<1> QED
  BY <1>2 DEF c

LEMMA KeepsTake ==
    ASSUME Shapes, NEW d \in Dir, box[d] # <<>>, Head(box[d]).op # "mark_as_dirty"
    PROVE  KeepsMarks(box, Take(d))
<1>1. box[d] \in Seq(Messages) /\ Take(d)[d] = Tail(box[d])
  BY DEF Shapes, Take
<1>2. \A g \in Dir : g # d => Take(d)[g] = box[g]
  BY DEF Shapes, Take
<1>3. /\ NoTicks(box[d]) => NoTicks(Take(d)[d])
      /\ \A f : MarkIn(box[d], f) => MarkIn(Take(d)[d], f)
  BY <1>1, MarkTail
<1> QED
  BY <1>2, <1>3 DEF KeepsMarks

LEMMA KeepsSameBox == ASSUME NEW b PROVE KeepsMarks(b, b)
BY DEF KeepsMarks

\* One actor is replaced.
LEMMA DirtOwn ==
    ASSUME NEW acts, NEW b, NEW c, Dirt(acts, b), acts = [f \in Dir |-> acts[f]],
           NEW d \in Dir, NEW r, OwnQuiet(d, r), \A f \in Dir : NoTicks(c[f]),
           \A f \in Dir \ {Root} : Parent[f] # d =>
               (MarkIn(b[Parent[f]], f) => MarkIn(c[Parent[f]], f)),
           \A f \in Dir \ {Root} : Parent[f] = d /\ acts[f].life = "running" /\ acts[f].dirty =>
               (MarkIn(b[d], f) \/ Covers(acts[d], f) => MarkIn(c[d], f) \/ Covers(r, f)),
           d # Root /\ r.life = "running" /\ r.dirty =>
               Tells(r) \/ MarkIn(c[Parent[d]], d) \/ Covers(acts[Parent[d]], d)
    PROVE  Dirt([acts EXCEPT ![d] = r], c)
<1> DEFINE new == [acts EXCEPT ![d] = r]
<1>1. new[d] = r /\ \A f \in Dir : f # d => new[f] = acts[f]
  OBVIOUS
<1> HIDE DEF new
<1>2. ASSUME NEW f \in Dir PROVE OwnQuiet(f, new[f]) /\ NoTicks(c[f])
  <2>1. CASE f = d
    BY <1>1, <2>1
  <2>2. CASE f # d
    BY <1>1, <2>2 DEF Dirt
  <2> QED
    BY <2>1, <2>2
<1>3. ASSUME NEW f \in Dir, f # Root, new[f].life = "running", new[f].dirty
      PROVE  Tells(new[f]) \/ MarkIn(c[Parent[f]], f) \/ Covers(new[Parent[f]], f)
  <2>1. Parent[f] \in Dir /\ Parent[f] # f
    BY <1>3, TreeAssumption
  <2>2. CASE f = d
    BY <1>1, <1>3, <2>1, <2>2
  <2>3. CASE f # d
    <3>1. new[f] = acts[f]
      BY <1>1, <2>3
    <3>2. Tells(acts[f]) \/ MarkIn(b[Parent[f]], f) \/ Covers(acts[Parent[f]], f)
      BY <1>3, <3>1 DEF Dirt, DirtAt
    <3>3. CASE Parent[f] = d
      BY <1>1, <1>3, <3>1, <3>2, <3>3
    <3>4. CASE Parent[f] # d
      BY <1>1, <1>3, <2>1, <3>1, <3>2, <3>4
    <3> QED
      BY <3>3, <3>4
  <2> QED
    BY <2>2, <2>3
<1>4. Dirt(new, c)
  BY <1>2, <1>3 DEF Dirt, DirtAt
<1> QED
  BY <1>4 DEF new

\* The same, when the mailboxes keep their reports.
LEMMA DirtKept ==
    ASSUME NEW acts, NEW b, NEW c, Dirt(acts, b), acts = [f \in Dir |-> acts[f]],
           KeepsMarks(b, c), NEW d \in Dir, NEW r, OwnQuiet(d, r),
           \A f \in Dir \ {Root} : Parent[f] = d /\ acts[f].life = "running" /\ acts[f].dirty =>
               (Covers(acts[d], f) => Covers(r, f)),
           d # Root /\ r.life = "running" /\ r.dirty =>
               Tells(r) \/ MarkIn(c[Parent[d]], d) \/ Covers(acts[Parent[d]], d)
    PROVE  Dirt([acts EXCEPT ![d] = r], c)
<1>1. \A f \in Dir : NoTicks(c[f])
  BY DEF Dirt, KeepsMarks
<1>2. \A f \in Dir \ {Root} : Parent[f] \in Dir /\
               (MarkIn(b[Parent[f]], f) => MarkIn(c[Parent[f]], f))
  BY TreeAssumption DEF KeepsMarks
<1>3. \A f \in Dir \ {Root} : Parent[f] = d /\ acts[f].life = "running" /\ acts[f].dirty =>
               (MarkIn(b[d], f) \/ Covers(acts[d], f) => MarkIn(c[d], f) \/ Covers(r, f))
  BY DEF KeepsMarks
<1> QED
  BY <1>1, <1>2, <1>3, DirtOwn

\* Only the mailboxes change.
LEMMA DirtBox ==
    ASSUME NEW acts, NEW b, NEW c, Dirt(acts, b), KeepsMarks(b, c)
    PROVE  Dirt(acts, c)
<1>1. \A f \in Dir : NoTicks(c[f])
  BY DEF Dirt, KeepsMarks
<1>2. \A f \in Dir \ {Root} : Parent[f] \in Dir /\
               (MarkIn(b[Parent[f]], f) => MarkIn(c[Parent[f]], f))
  BY TreeAssumption DEF KeepsMarks
<1> QED
  BY <1>1, <1>2 DEF Dirt, DirtAt

\* Child d, which is clean or has ended, answers the parent.  A hash is only for a
\* parent whose changes are known.
LEMMA DirtToParent ==
    ASSUME NEW acts, NEW S, NEW M, ActorsOK(acts, S, M), NEW b, Dirt(acts, b),
           NEW p, NEW d \in Dir, NEW hash, hash = NoHash \/ hash \in S,
           acts[d].life # "running" \/ ~acts[d].dirty,
           p \in Dir /\ hash # NoHash =>
               acts[p].life = "running" /\ (p = Root \/ acts[p].dirty)
    PROVE  Dirt(ToParent(acts, p, d, hash), b)
<1> DEFINE new == ToParent(acts, p, d, hash)
<1>1. AnswerTo(acts, new, p, d, hash)
  BY ToParentFacts
<1>2. \A f \in Dir : /\ LessWait(acts[f].task, new[f].task, d)
                     /\ f # p => new[f] = acts[f]
  BY TasksToParent
<1> HIDE DEF new
<1>3. CASE p \notin Dir
  BY <1>3 DEF ToParent, new
<1>4. CASE p \in Dir
  <2> DEFINE t == acts[p].task
             u == [t EXCEPT !.wait = @ \ {d}]
  <2>2. acts[p].dirty => new[p].dirty
    BY <1>1, <1>4 DEF AnswerTo
  <2>3. t.op \notin {"save", "shutdown"} => u = t
    <3>1. t \in AllTasks(M)
      BY <1>4 DEF ActorsOK, RecordOK
    <3> QED
      BY <3>1, WaitOK
  <2> HIDE DEF u
  <2>4. /\ new[p].life = acts[p].life /\ new[p].auto = acts[p].auto
        /\ new[p].timer = acts[p].timer
    BY <1>1, <1>4 DEF AnswerTo
  <2>5. /\ hash = NoHash => new[p].dirty = acts[p].dirty
        /\ new[p].task = u
    BY <1>1, <1>4 DEF AnswerTo, u
  <2>6. LessWait(t, new[p].task, d)
    BY <1>2, <1>4
  <2>7. t.op = "tell" => new[p].task = t
    BY <2>3, <2>5
  <2>8. OwnQuiet(p, new[p])
    <3>1. OwnQuiet(p, acts[p])
      BY <1>4 DEF Dirt
    <3>2. acts[p].life \in {"none", "loading", "creating"} => new[p].dirty = acts[p].dirty
      BY <1>4, <2>5
    <3> QED
      BY <2>2, <2>4, <2>6, <2>7, <3>1, <3>2 DEF OwnQuiet, LessWait
  <2>9. ASSUME NEW f \in Dir, f # Root, new[f].life = "running", new[f].dirty
        PROVE  Tells(new[f]) \/ MarkIn(b[Parent[f]], f) \/ Covers(new[Parent[f]], f)
    <3>1. Parent[f] \in Dir
      BY <2>9, TreeAssumption
    <3>2. acts[f].life = "running" /\ acts[f].dirty
      <4>1. CASE f # p
        BY <1>2, <2>9, <4>1
      <4>2. CASE f = p
        BY <1>4, <2>4, <2>5, <2>9, <4>2
      <4> QED
        BY <4>1, <4>2
    <3>3. Tells(acts[f]) \/ MarkIn(b[Parent[f]], f) \/ Covers(acts[Parent[f]], f)
      BY <2>9, <3>2 DEF Dirt, DirtAt
    <3>4. Tells(acts[f]) => Tells(new[f])
      <4>1. CASE f # p
        BY <1>2, <4>1
      <4>2. CASE f = p
        BY <2>7, <4>2 DEF Tells
      <4> QED
        BY <4>1, <4>2
    <3>5. f # d
      BY <3>2
    <3>6. Covers(acts[Parent[f]], f) => Covers(new[Parent[f]], f)
      <4>1. CASE Parent[f] # p
        BY <1>2, <3>1, <4>1
      <4>2. CASE Parent[f] = p
        BY <2>2, <2>4, <2>6, <3>5, <4>2 DEF Covers, LessWait
      <4> QED
        BY <4>1, <4>2
    <3> QED
      BY <3>3, <3>4, <3>6
  <2>10. \A f \in Dir : OwnQuiet(f, new[f]) /\ NoTicks(b[f])
    BY <1>2, <2>8 DEF Dirt
  <2>11. Dirt(new, b)
    BY <2>9, <2>10 DEF Dirt, DirtAt
  <2> QED
    BY <2>11 DEF new
<1> QED
  BY <1>3, <1>4

LEMMA DirtFresh ==
    ASSUME NEW file, NEW acts, acts = FreshActors(file), NEW b, b = [d \in Dir |-> <<>>]
    PROVE  Dirt(acts, b)
<1>1. ASSUME NEW d \in Dir
      PROVE  /\ acts[d].life \in {"none", "loading"} /\ acts[d].auto = FALSE
             /\ acts[d].timer = "off" /\ acts[d].dirty = FALSE /\ acts[d].task.op = "idle"
             /\ b[d] = <<>>
  BY DEF FreshActors, NotOpen, Spawn, Idle
<1>2. ASSUME NEW d \in Dir PROVE OwnQuiet(d, acts[d]) /\ DirtAt(acts, b, d) /\ NoTicks(b[d])
  <2>1. OwnQuiet(d, acts[d])
    BY <1>1 DEF OwnQuiet
  <2>2. DirtAt(acts, b, d)
    BY <1>1 DEF DirtAt
  <2>3. NoTicks(b[d])
    BY <1>1 DEF NoTicks
  <2> QED
    BY <2>1, <2>2, <2>3
<1> QED
  BY <1>2 DEF Dirt

LEMMA DirtInit == Init => Dirt(actor, box)
<1> SUFFICES ASSUME Init PROVE Dirt(actor, box)
  OBVIOUS
<1>1. actor = FreshActors(rootFile) /\ box = [d \in Dir |-> <<>>]
  BY DEF Init
<1> QED
  BY <1>1, DirtFresh

LEMMA DirtClient == Shapes /\ Dirt(actor, box) /\ ClientStep => Dirt(actor', box')
<1> SUFFICES ASSUME Shapes, Dirt(actor, box), ClientStep PROVE Dirt(actor', box')
  OBVIOUS
<1>1. ASSUME NEW op, NEW d, NEW arg, NEW from, Post(op, d, arg, from)
      PROVE  Dirt(actor', box')
  <2> DEFINE m == Msg(op, d, arg, from)
  <2>1. actor' = actor /\ box' = [box EXCEPT ![Root] = Append(@, m)]
    BY <1>1 DEF Post
  <2>2. m.op # "autosave_tick"
    <3>1. op \in config.ops /\ config \in Config
      BY <1>1, ConfigAssumption DEF Post, Shapes
    <3>2. op \in Ops
      BY <3>1 DEF Config
    <3> QED
      BY <3>2 DEF Ops, Msg
  <2> HIDE DEF m
  <2>3. KeepsMarks(box, box')
    BY <2>1, <2>2, KeepsSend DEF Shapes
  <2> QED
    BY <2>1, <2>3, DirtBox
<1>2. CASE Drop
  BY <1>2 DEF Drop
<1>3. CASE Crash
  <2>1. actor' = FreshActors(rootFile) /\ box' = [d \in Dir |-> <<>>]
    BY <1>3 DEF Crash
  <2> QED
    BY <2>1, DirtFresh
<1> QED
  BY <1>1, <1>2, <1>3
  DEF ClientStep, FilePutSync, FileGet, CreateDir, FilePut, Save, Shutdown, WithAutosave, Call

LEMMA DirtPublish ==
    ASSUME Shapes, Tree, Dirt(actor, box), NEW d \in Dir, Publish(d)
    PROVE  Dirt(actor', box')
<1>1. PICK ok \in Outcome : actor' = [actor EXCEPT ![d] =
             [@ EXCEPT !.life = "running",
                       !.task = IF ok /\ actor[actor[d].up].life # "stopped"
                                THEN Telling("update_ref", d, actor[d].state, "loop", None)
                                ELSE Idle]]
  BY DEF Publish
<1> DEFINE t == IF ok /\ actor[actor[d].up].life # "stopped"
                THEN Telling("update_ref", d, actor[d].state, "loop", None) ELSE Idle
           r == [actor[d] EXCEPT !.life = "running", !.task = t]
<1>2. actor' = [actor EXCEPT ![d] = r] /\ box' = box
  BY <1>1 DEF Publish
<1>3. t.op # "save" /\ (t.op = "tell" => t.then # "saved")
  BY DEF Telling, Idle
<1> HIDE DEF t
<1>4. /\ r.task = t /\ r.life = "running" /\ r.auto = actor[d].auto /\ r.timer = actor[d].timer
      /\ r.dirty = actor[d].dirty
  <2>1. RecordOK(actor[d], Known, Messages)
    BY DEF Shapes, ActorsOK
  <2> QED
    BY <2>1 DEF RecordOK
<1> HIDE DEF r
<1>5. OwnQuiet(d, actor[d]) /\ actor[d].life = "creating"
  BY DEF Dirt, Publish
<1>6. ~actor[d].dirty /\ ~r.dirty
  BY <1>4, <1>5 DEF OwnQuiet
<1>7. OwnQuiet(d, r)
  BY <1>3, <1>4, <1>5 DEF OwnQuiet
<1>8. \A f : ~Covers(actor[d], f)
  BY <1>5, <1>6 DEF Covers
<1>9. actor = [f \in Dir |-> actor[f]]
  BY DEF Shapes, ActorsOK
<1>10. Dirt([actor EXCEPT ![d] = r], box')
  BY <1>2, <1>6, <1>7, <1>8, <1>9, KeepsSameBox, DirtKept
<1> QED
  BY <1>2, <1>10

LEMMA DirtLoad ==
    ASSUME Shapes, Tree, Dirt(actor, box), NEW d \in Dir, Load(d)
    PROVE  Dirt(actor', box')
<1>1. /\ actor[d].task.op = "idle" /\ RecordOK(actor[d], Known, Messages)
      /\ actor[d].life = "loading" /\ OwnQuiet(d, actor[d])
  BY NotRunning DEF Load, Shapes, ActorsOK, Dirt
<1>2. actor = [f \in Dir |-> actor[f]]
  BY DEF Shapes, ActorsOK
<1>3. ~actor[d].dirty
  BY <1>1 DEF OwnQuiet
<1>4. CASE actor' = [actor EXCEPT ![d].life = "running"] /\ UNCHANGED box
  <2> DEFINE r == [actor[d] EXCEPT !.life = "running"]
  <2>1. actor' = [actor EXCEPT ![d] = r]
    BY <1>4
  <2>2. /\ r.task = actor[d].task /\ r.life = "running" /\ r.auto = actor[d].auto
        /\ r.timer = actor[d].timer /\ r.dirty = actor[d].dirty
    BY <1>1 DEF RecordOK
  <2> HIDE DEF r
  <2>3. OwnQuiet(d, r) /\ ~r.dirty
    BY <1>1, <1>3, <2>2 DEF OwnQuiet
  <2>4. \A f : ~Covers(actor[d], f)
    BY <1>1, <1>3 DEF Covers
  <2>5. Dirt([actor EXCEPT ![d] = r], box)
    BY <1>2, <2>3, <2>4, KeepsSameBox, DirtKept
  <2> QED
    BY <1>4, <2>1, <2>5
<1>5. CASE /\ actor' = ToParent([actor EXCEPT ![d].life = "stopped"],
                                IF actor[d].up \in Dropped(d) THEN actor[d].up ELSE None,
                                d, NoHash)
           /\ box' = [box EXCEPT ![d] = <<>>]
  <2> DEFINE r == [actor[d] EXCEPT !.life = "stopped"]
             p == IF actor[d].up \in Dropped(d) THEN actor[d].up ELSE None
             acts == [actor EXCEPT ![d] = r]
  <2>1. RecordOK(r, Known, Messages)
    BY <1>1 DEF RecordOK
  <2>2. /\ r.task = actor[d].task /\ r.life = "stopped" /\ r.auto = actor[d].auto
        /\ r.timer = actor[d].timer
    BY <1>1 DEF RecordOK
  <2>3. actor' = ToParent(acts, p, d, NoHash)
    BY <1>5
  <2> HIDE DEF r, p
  <2>4. ActorsOK(acts, Known, Messages)
    BY <2>1, ReplaceOK DEF Shapes
  <2>5. OwnQuiet(d, r) /\ \A f : Covers(r, f)
    BY <1>1, <2>2 DEF OwnQuiet, Covers
  <2>6. box'[d] = <<>> /\ \A f \in Dir : f # d => box'[f] = box[f]
    BY <1>5 DEF Shapes
  <2>7. \A f \in Dir : NoTicks(box'[f])
    BY <2>6 DEF Dirt, NoTicks
  <2>8. \A f \in Dir \ {Root} : Parent[f] \in Dir
    BY TreeAssumption
  <2>9. Dirt(acts, box')
    BY <1>2, <2>2, <2>5, <2>6, <2>7, <2>8, DirtOwn
  <2>10. acts[d].life # "running"
    BY <1>2, <2>2
  <2> HIDE DEF acts
  <2> QED
    BY <2>3, <2>4, <2>9, <2>10, DirtToParent
<1> QED
  BY <1>4, <1>5 DEF Load

LEMMA DirtForward ==
    ASSUME Shapes, Tree, Dirt(actor, box), NEW d \in Dir, Forward(d)
    PROVE  Dirt(actor', box')
<1> DEFINE m == Head(box[d])
           e == FirstOf(d, m)
           new == Spawn("loading", d, actor[d].state.dirs[e], actor[d].auto)
<1>0. Receives(d, PathOps)
  BY DEF Forward
<1>1. /\ Take(d) \in [Dir -> Seq(Messages)] /\ m.op \in PathOps /\ Snap(actor[d].state, Known)
  BY <1>0, Receiving
<1>2. e \in Dir
  BY <1>1 DEF Forward, Snap
<1>3. KeepsMarks(box, Take(d))
  BY <1>0, <1>1, KeepsTake DEF Receives, PathOps
<1>4. CASE box' = Take(d) /\ UNCHANGED actor
  BY <1>3, <1>4, DirtBox
<1>5. CASE /\ box' = [Take(d) EXCEPT ![e] = Append(@, m)]
           /\ actor' = IF actor[e].life # "none" THEN actor ELSE [actor EXCEPT ![e] = new]
  <2>1. m.op # "autosave_tick"
    BY <1>1 DEF PathOps
  <2>2. /\ new.task.op = "idle" /\ new.life = "loading" /\ new.auto = actor[d].auto
        /\ new.timer = "off" /\ new.dirty = FALSE
    BY DEF Spawn, Idle
  <2> HIDE DEF m, e, new
  <2>3. KeepsMarks(Take(d), box')
    BY <1>1, <1>5, <2>1, KeepsSend
  <2>4. KeepsMarks(box, box')
    BY <1>3, <2>3 DEF KeepsMarks
  <2>5. CASE actor[e].life # "none"
    BY <1>5, <2>4, <2>5, DirtBox
  <2>6. CASE actor[e].life = "none"
    <3>1. OwnQuiet(e, new)
      <4>1. OwnQuiet(d, actor[d])
        BY DEF Dirt
      <4> QED
        BY <2>2, <4>1 DEF OwnQuiet
    <3>2. ~actor[e].dirty
      <4>1. OwnQuiet(e, actor[e])
        BY <1>2 DEF Dirt
      <4> QED
        BY <2>6, <4>1 DEF OwnQuiet
    <3>3. \A f : ~Covers(actor[e], f)
      BY <2>6, <3>2 DEF Covers
    <3>4. actor = [f \in Dir |-> actor[f]]
      BY DEF Shapes, ActorsOK
    <3>5. Dirt([actor EXCEPT ![e] = new], box')
      BY <1>2, <2>2, <2>4, <3>1, <3>3, <3>4, DirtKept
    <3> QED
      BY <1>5, <2>6, <3>5
  <2> QED
    BY <2>5, <2>6
<1> QED
  BY <1>4, <1>5 DEF Forward

LEMMA ArmQuiet == ASSUME NEW r, r.auto = FALSE PROVE Arm(r) = r
BY DEF Arm

LEMMA MarkTimer ==
    ASSUME NEW d, NEW r, NEW S, NEW M, RecordOK(r, S, M), r.auto = FALSE, NEW from
    PROVE  MarkAsDirty(d, r, from).timer = r.timer
<1> DEFINE q == [r EXCEPT !.dirty = TRUE]
           t == Telling("mark_as_dirty", d, None, "arm", from)
<1>1. q.auto = FALSE /\ q.timer = r.timer /\ [q EXCEPT !.task = t].timer = r.timer
  BY DEF RecordOK
<1>2. Arm(q) = q
  BY <1>1, ArmQuiet
<1>3. MarkAsDirty(d, r, from) = Arm(q) \/ MarkAsDirty(d, r, from) = [q EXCEPT !.task = t]
  BY DEF MarkAsDirty
<1> HIDE DEF q, t
<1> QED
  BY <1>1, <1>2, <1>3

\* mark_as_dirty after a message was taken.
LEMMA DirtMark ==
    ASSUME Shapes, Tree, Dirt(actor, box), NEW d \in Dir, NEW ops, Receives(d, ops),
           NEW q, Changed(d, q), NEW from \in Senders
    PROVE  Dirt([actor EXCEPT ![d] = MarkAsDirty(d, q, from)], Take(d))
<1> DEFINE r == MarkAsDirty(d, q, from)
<1>1. /\ actor[d].life = "running" /\ actor[d].task = Idle /\ box[d] # <<>>
      /\ OwnQuiet(d, actor[d])
  BY DEF Receives, Free, Dirt
<1>2. Marked(d, q, r, from)
  BY <1>1, ChangedMarks
<1>3. r.timer = q.timer
  <2>1. RecordOK(q, Known, Messages) /\ q.auto = FALSE
    BY <1>1 DEF Changed, OnlyState, OwnQuiet
  <2> QED
    BY <2>1, MarkTimer
<1> HIDE DEF r
<1>4. /\ r.life = "running" /\ r.auto = FALSE /\ r.timer = "off" /\ r.dirty
      /\ q.dirty = actor[d].dirty /\ q.up = actor[d].up
  BY <1>1, <1>2, <1>3 DEF Marked, Changed, OnlyState, OwnQuiet
<1>5. /\ r.task = Idle \/ r.task = Telling("mark_as_dirty", d, None, "arm", from)
      /\ ~(q.dirty \/ q.up = None \/ actor[q.up].life = "stopped") =>
            r.task = Telling("mark_as_dirty", d, None, "arm", from)
  BY <1>2 DEF Marked
<1>6. r.task.op # "save" /\ (r.task.op = "tell" => r.task.then # "saved")
  BY <1>5 DEF Idle, Telling
<1>7. OwnQuiet(d, r) /\ \A f : Covers(r, f)
  BY <1>4, <1>6 DEF OwnQuiet, Covers
<1>8. \A g \in Dir : g # d => Take(d)[g] = box[g]
  BY DEF Shapes, Take
<1>9. \A f \in Dir \ {Root} : Parent[f] \in Dir /\ Parent[f] # f
  BY TreeAssumption
<1>10. \A f \in Dir : NoTicks(Take(d)[f])
  <2>1. box[d] \in Seq(Messages) /\ Take(d)[d] = Tail(box[d])
    BY DEF Shapes, Take
  <2>2. NoTicks(Take(d)[d])
    BY <1>1, <2>1, MarkTail DEF Dirt
  <2> QED
    BY <1>8, <2>2 DEF Dirt
<1>11. d # Root => Tells(r) \/ MarkIn(Take(d)[Parent[d]], d) \/ Covers(actor[Parent[d]], d)
  <2> SUFFICES ASSUME d # Root
               PROVE  Tells(r) \/ MarkIn(Take(d)[Parent[d]], d) \/ Covers(actor[Parent[d]], d)
    OBVIOUS
  <2>1. q.up = Parent[d] /\ q.up # None /\ Parent[d] \in Dir /\ Parent[d] # d
    <3>1. UnderParent(actor, d)
      BY DEF Tree, ActorTree
    <3>2. actor[d].up = Parent[d]
      BY <1>1, <3>1 DEF UnderParent
    <3> QED
      BY <1>4, <1>9, <3>2, TreeAssumption
  <2>2. CASE q.dirty
    <3>1. Tells(actor[d]) \/ MarkIn(box[Parent[d]], d) \/ Covers(actor[Parent[d]], d)
      BY <1>1, <1>4, <2>2 DEF Dirt, DirtAt
    <3>2. ~Tells(actor[d])
      BY <1>1 DEF Tells, Idle
    <3> QED
      BY <1>8, <2>1, <3>1, <3>2
  <2>3. CASE actor[q.up].life = "stopped"
    <3>1. actor[Parent[d]].task.op = "idle"
      BY <2>1, <2>3, NotRunning
    <3> QED
      BY <2>1, <2>3, <3>1 DEF Covers
  <2>4. CASE ~(q.dirty \/ q.up = None \/ actor[q.up].life = "stopped")
    BY <1>5, <2>4 DEF Tells, Telling, Msg
  <2> QED
    BY <2>1, <2>2, <2>3, <2>4
<1>12. actor = [f \in Dir |-> actor[f]]
  BY DEF Shapes, ActorsOK
<1>13. Dirt([actor EXCEPT ![d] = r], Take(d))
  BY <1>7, <1>8, <1>9, <1>10, <1>11, <1>12, DirtOwn
<1> QED
  BY <1>13 DEF r

LEMMA DirtFileOp ==
    ASSUME Shapes, Tree, Dirt(actor, box), NEW d \in Dir, FileOp(d)
    PROVE  Dirt(actor', box')
<1>1. PICK q : Changed(d, q) /\ actor' = [actor EXCEPT ![d] = MarkAsDirty(d, q, None)]
  BY FileOpMarks
<1>2. /\ Receives(d, {"file_put", "file_put_sync", "file_get"}) /\ box' = Take(d)
      /\ None \in Senders
  BY DEF FileOp, Senders
<1> QED
  BY <1>1, <1>2, DirtMark

LEMMA DirtChildIsDirty ==
    ASSUME Shapes, Tree, Dirt(actor, box), NEW d \in Dir, ChildIsDirty(d)
    PROVE  Dirt(actor', box')
<1>1. PICK q : Changed(d, q) /\ actor' = [actor EXCEPT ![d] = MarkAsDirty(d, q, None)]
  BY ChildIsDirtyMarks
<1>2. Receives(d, {"mark_as_dirty"}) /\ box' = Take(d) /\ None \in Senders
  BY DEF ChildIsDirty, Senders
<1> QED
  BY <1>1, <1>2, DirtMark

LEMMA DirtUpdateDirRefHash ==
    ASSUME Shapes, Tree, Dirt(actor, box), NEW d \in Dir, UpdateDirRefHash(d)
    PROVE  Dirt(actor', box')
<1>1. Receives(d, {"update_ref"}) /\ box' = Take(d) /\ None \in Senders
  BY DEF UpdateDirRefHash, Senders
<1>2. CASE actor' = actor
  <2>1. KeepsMarks(box, Take(d))
    BY <1>1, KeepsTake DEF Receives
  <2> QED
    BY <1>1, <1>2, <2>1, DirtBox
<1>3. CASE \E q : Changed(d, q) /\ actor' = [actor EXCEPT ![d] = MarkAsDirty(d, q, None)]
  <2>1. PICK q : Changed(d, q) /\ actor' = [actor EXCEPT ![d] = MarkAsDirty(d, q, None)]
    BY <1>3
  <2> QED
    BY <1>1, <2>1, DirtMark
<1> QED
  BY <1>2, <1>3, UpdateMarks

LEMMA DirtCreateDirAt ==
    ASSUME Shapes, Tree, ParentsExist, Dirt(actor, box), NEW d \in Dir, CreateDirAt(d)
    PROVE  Dirt(actor', box')
<1>1. Receives(d, {"create_dir"}) /\ box' = Take(d) /\ OwnQuiet(d, actor[d])
  BY DEF CreateDirAt, Dirt
<1>2. actor = [f \in Dir |-> actor[f]]
  BY DEF Shapes, ActorsOK
<1>3. CASE actor' = [actor EXCEPT ![d] = Arm(actor[d])]
  <2>1. Arm(actor[d]) = actor[d]
    BY <1>1, ArmQuiet DEF OwnQuiet
  <2>2. actor' = actor
    BY <1>2, <1>3, <2>1
  <2>3. KeepsMarks(box, Take(d))
    BY <1>1, KeepsTake DEF Receives
  <2> QED
    BY <1>1, <2>2, <2>3, DirtBox
<1>4. ASSUME NEW q, NEW e, NEW new,
             Changed(d, q), Newborn(d, e, new), Head(box[d]).from \in Senders,
             actor' = [[actor EXCEPT ![d] = MarkAsDirty(d, q, Head(box[d]).from)]
                                EXCEPT ![e] = new]
      PROVE  Dirt(actor', box')
  <2> DEFINE from == Head(box[d]).from
             acts == [actor EXCEPT ![d] = MarkAsDirty(d, q, from)]
  <2>1. Dirt(acts, box')
    BY <1>1, <1>4, DirtMark
  <2>2. actor' = [acts EXCEPT ![e] = new]
    BY <1>4
  <2>3. acts = [f \in Dir |-> acts[f]] /\ acts[e] = actor[e]
    BY <1>2, <1>4 DEF Newborn
  <2> HIDE DEF acts
  <2>4. /\ e \in Dir /\ acts[e].life = "none" /\ new.life = "creating"
    BY <1>4, <2>3 DEF Newborn
  <2>5. OwnQuiet(e, new) /\ ~new.dirty
    BY <1>1, <1>4 DEF Newborn, OwnQuiet, Idle
  <2>6. ~acts[e].dirty
    BY <2>1, <2>4 DEF Dirt, OwnQuiet
  <2>7. \A f : ~Covers(acts[e], f)
    BY <2>4, <2>6 DEF Covers
  <2>8. Dirt([acts EXCEPT ![e] = new], box')
    BY <2>1, <2>3, <2>4, <2>5, <2>7, KeepsSameBox, DirtKept
  <2> QED
    BY <2>2, <2>8
<1> QED
  BY <1>3, <1>4, CreateDirMarks

LEMMA DirtTell ==
    ASSUME Shapes, Tree, Dirt(actor, box), NEW d \in Dir, Tell(d)
    PROVE  Dirt(actor', box')
<1> DEFINE t == actor[d].task
           x == t.msg
           u == actor[d].up
<1>1. /\ OwnQuiet(d, actor[d]) /\ t.op = "tell" /\ actor[d].life = "running"
      /\ box' = [box EXCEPT ![u] = Append(@, x)]
  BY DEF Tell, Dirt
<1>2. t.then # "saved" /\ ~actor[d].auto
  BY <1>1 DEF OwnQuiet
<1>3. PICK r : /\ actor' = [actor EXCEPT ![d] = r]
               /\ r.task = Idle /\ r.life = actor[d].life /\ r.auto = actor[d].auto
               /\ actor[d].task.then # "saved" => r.dirty = actor[d].dirty
               /\ ~actor[d].auto => r.timer = actor[d].timer
  BY TellDone
<1>4. r.dirty = actor[d].dirty /\ r.timer = actor[d].timer
  BY <1>2, <1>3
<1>5. x.dir = d /\ x.op \in {"mark_as_dirty", "update_ref"}
  <2>1. TellFits(d, t)
    BY DEF Tree, ActorTree, ActorFits
  <2> QED
    BY <1>1, <2>1 DEF TellFits
<1>6. OwnQuiet(d, r)
  BY <1>1, <1>3, <1>4 DEF OwnQuiet, Idle
<1>7. \A f : Covers(actor[d], f) => Covers(r, f)
  BY <1>3, <1>4 DEF Covers, Idle
<1> HIDE DEF t
<1>8. KeepsMarks(box, box')
  <2> HIDE DEF x, u
  <2> QED
    BY <1>1, <1>5, KeepsSend DEF Shapes
<1>9. ASSUME d # Root, r.dirty
      PROVE  MarkIn(box'[Parent[d]], d) \/ Covers(actor[Parent[d]], d)
  <2>1. u = Parent[d] /\ Parent[d] \in Dir
    <3>1. UnderParent(actor, d)
      BY DEF Tree, ActorTree
    <3> QED
      BY <1>1, <1>9, <3>1, TreeAssumption DEF UnderParent
  <2>2. Tells(actor[d]) \/ MarkIn(box[Parent[d]], d) \/ Covers(actor[Parent[d]], d)
    BY <1>1, <1>4, <1>9 DEF Dirt, DirtAt
  <2>3. MarkIn(box[Parent[d]], d) => MarkIn(box'[Parent[d]], d)
    BY <1>8, <2>1 DEF KeepsMarks
  <2>4. CASE Tells(actor[d])
    <3>1. x.op = "mark_as_dirty"
      BY <2>4 DEF Tells, t
    <3>2. box'[Parent[d]] = Append(box[Parent[d]], x) /\ box[Parent[d]] \in Seq(Messages)
      BY <1>1, <2>1 DEF Shapes
    <3> HIDE DEF x
    <3> QED
      BY <1>5, <3>1, <3>2, MarkAppend
  <2> QED
    BY <2>2, <2>3, <2>4
<1>10. actor = [f \in Dir |-> actor[f]]
  BY DEF Shapes, ActorsOK
<1>11. Dirt([actor EXCEPT ![d] = r], box')
  BY <1>6, <1>7, <1>8, <1>9, <1>10, DirtKept
<1> QED
  BY <1>3, <1>11

\* What is known of d itself stays known when no report is taken out of a mailbox.
LEMMA StillKnown ==
    ASSUME Shapes, Tree, Dirt(actor, box), NEW d \in Dir, d # Root,
           actor[d].life = "running", actor[d].dirty, actor[d].task.op # "tell",
           NEW c, KeepsMarks(box, c)
    PROVE  MarkIn(c[Parent[d]], d) \/ Covers(actor[Parent[d]], d)
<1>1. Parent[d] \in Dir
  BY TreeAssumption
<1>2. MarkIn(box[Parent[d]], d) \/ Covers(actor[Parent[d]], d)
  BY DEF Dirt, DirtAt, Tells
<1> QED
  BY <1>1, <1>2 DEF KeepsMarks

LEMMA DirtSaveIfDirty ==
    ASSUME Shapes, Tree, Dirt(actor, box), NEW d \in Dir, SaveIfDirty(d)
    PROVE  Dirt(actor', box')
<1> DEFINE from == Head(box[d]).from
           t == [op |-> "save", from |-> from, todo |-> Handles(d), wait |-> {}]
<1>1. /\ actor[d].task.op = "idle" /\ box[d] # <<>> /\ box' = Take(d)
      /\ actor[d].life = "running" /\ OwnQuiet(d, actor[d])
      /\ Head(box[d]).op = "save" /\ RecordOK(actor[d], Known, Messages)
  <2>1. Receives(d, {"save"}) /\ box' = Take(d) /\ OwnQuiet(d, actor[d])
    BY DEF SaveIfDirty, Dirt
  <2>2. box[d] # <<>> /\ actor[d].task.op = "idle"
    BY <2>1 DEF Receives, Free, Idle
  <2> QED
    BY <2>1, <2>2, Receiving
<1>2. KeepsMarks(box, box')
  BY <1>1, KeepsTake
<1>3. actor = [f \in Dir |-> actor[f]]
  BY DEF Shapes, ActorsOK
<1>4. CASE actor[d].dirty \/ IsRoot(d)
  <2> DEFINE r == [actor[d] EXCEPT !.task = t]
  <2>1. actor' = [actor EXCEPT ![d] = r]
    BY <1>4 DEF SaveIfDirty
  <2>2. t.op = "save" /\ t.todo = Handles(d)
    OBVIOUS
  <2> HIDE DEF t
  <2>3. /\ r.task = t /\ r.life = actor[d].life /\ r.auto = actor[d].auto
        /\ r.timer = actor[d].timer /\ r.dirty = actor[d].dirty
    BY <1>1 DEF RecordOK
  <2> HIDE DEF r
  <2>4. d = Root \/ actor[d].dirty
    <3>1. UnderParent(actor, d)
      BY DEF Tree, ActorTree
    <3> QED
      BY <1>1, <1>4, <3>1, TreeAssumption DEF UnderParent, IsRoot
  <2>5. OwnQuiet(d, r)
    BY <1>1, <2>2, <2>3, <2>4 DEF OwnQuiet
  <2>6. \A f \in Dir \ {Root} : Parent[f] = d /\ actor[f].life = "running" /\ actor[f].dirty =>
            (Covers(actor[d], f) => Covers(r, f))
    BY <2>2, <2>3, HandlesFacts DEF Covers
  <2>7. d # Root /\ r.life = "running" /\ r.dirty =>
            MarkIn(box'[Parent[d]], d) \/ Covers(actor[Parent[d]], d)
    BY <1>1, <1>2, <2>3, StillKnown
  <2>8. Dirt([actor EXCEPT ![d] = r], box')
    BY <1>2, <1>3, <2>5, <2>6, <2>7, DirtKept
  <2> QED
    BY <2>1, <2>8
<1>5. CASE ~(actor[d].dirty \/ IsRoot(d))
  <2>1. actor' = ToParent([actor EXCEPT ![d] = Arm(actor[d])], from, d, NoHash)
    BY <1>5 DEF SaveIfDirty
  <2>2. Arm(actor[d]) = actor[d]
    BY <1>1, ArmQuiet DEF OwnQuiet
  <2>3. actor' = ToParent(actor, from, d, NoHash)
    BY <1>3, <2>1, <2>2
  <2>4. Dirt(actor, box')
    BY <1>2, DirtBox
  <2>5. ActorsOK(actor, Known, Messages) /\ ~actor[d].dirty
    BY <1>5 DEF Shapes
  <2> HIDE DEF from
  <2>6. Dirt(ToParent(actor, from, d, NoHash), box')
    BY <2>4, <2>5, DirtToParent
  <2> QED
    BY <2>3, <2>6
<1> QED
  BY <1>4, <1>5

LEMMA DirtAskChild ==
    ASSUME Shapes, Tree, Dirt(actor, box), NEW d \in Dir, NEW e \in Dir, AskChild(d, e)
    PROVE  Dirt(actor', box')
<1> DEFINE t == actor[d].task
           m == Msg(t.op, e, 0, d)
<1>1. t.op \in {"save", "shutdown"} /\ e \in t.todo /\ OwnQuiet(d, actor[d])
  BY AskChildFacts DEF Dirt
<1>2. PICK r : /\ actor' = [actor EXCEPT ![d] = r]
               /\ r.life = actor[d].life /\ r.dirty = actor[d].dirty
               /\ r.auto = actor[d].auto /\ r.timer = actor[d].timer
               /\ r.task.op = t.op /\ r.task.todo = t.todo \ {e}
               /\ \/ box' = box /\ actor[e].life = "stopped" /\ r.task.wait = t.wait
                  \/ box' = [box EXCEPT ![e] = Append(@, m)] /\ r.task.wait = t.wait \cup {e}
  BY AskChildFacts
<1>3. m.op # "autosave_tick"
  BY <1>1 DEF Msg
<1> HIDE DEF m
<1>4. KeepsMarks(box, box')
  <2>1. KeepsMarks(box, [box EXCEPT ![e] = Append(@, m)])
    BY <1>3, KeepsSend DEF Shapes
  <2> QED
    BY <1>2, <2>1, KeepsSameBox
<1>5. OwnQuiet(d, r)
  BY <1>1, <1>2 DEF OwnQuiet
<1>6. \A f \in Dir \ {Root} : Parent[f] = d /\ actor[f].life = "running" /\ actor[f].dirty =>
            (Covers(actor[d], f) => Covers(r, f))
  BY <1>2 DEF Covers
<1>7. d # Root /\ r.life = "running" /\ r.dirty =>
            MarkIn(box'[Parent[d]], d) \/ Covers(actor[Parent[d]], d)
  BY <1>1, <1>2, <1>4, StillKnown
<1>8. actor = [f \in Dir |-> actor[f]]
  BY DEF Shapes, ActorsOK
<1>9. Dirt([actor EXCEPT ![d] = r], box')
  BY <1>4, <1>5, <1>6, <1>7, <1>8, DirtKept
<1> QED
  BY <1>2, <1>9

LEMMA DirtSaveDone ==
    ASSUME Shapes, Tree, Asked, Calm, Dirt(actor, box), NEW d \in Dir, SaveDone(d)
    PROVE  Dirt(actor', box')
<1>1. PICK a, h, ok : SavedAs(d, a, h, ok)
  BY SaveDoneFacts
<1>2. box' = box /\ ActorsOK(actor, Known', Messages')
  BY SaveDoneFacts
<1> DEFINE from == actor[d].task.from
           acts == [actor EXCEPT ![d] = a]
<1>3. /\ actor' = ToParent(acts, from, d, h) /\ RecordOK(a, Known', Messages')
      /\ h = NoHash \/ h \in Known'
  BY <1>1 DEF SavedAs
<1>4. /\ OwnQuiet(d, actor[d]) /\ actor[d].task.op = "save"
      /\ actor[d].task.todo = {} /\ actor[d].task.wait = {}
  BY DEF Dirt, SaveDone, ChildrenDone
<1>5. ~a.dirty
  <2>1. ok
    BY <1>1 DEF SavedAs, Calm, Outcome
  <2>2. a.dirty = (actor[d].dirty /\ ~ok)
    BY <1>1 DEF SavedAs
  <2> QED
    BY <2>1, <2>2
<1>6. OwnQuiet(d, a)
  <2>1. /\ a.task = Idle /\ a.life = actor[d].life /\ a.auto = actor[d].auto
        /\ ~actor[d].auto => a.timer = actor[d].timer
    BY <1>1 DEF SavedAs
  <2> QED
    BY <1>4, <1>5, <2>1 DEF OwnQuiet, Idle
<1>7. \A f : ~Covers(actor[d], f)
  BY <1>4 DEF Covers
<1>8. actor = [f \in Dir |-> actor[f]]
  BY DEF Shapes, ActorsOK
<1>9. Dirt(acts, box)
  BY <1>5, <1>6, <1>7, <1>8, KeepsSameBox, DirtKept
<1>10. ActorsOK(acts, Known', Messages')
  BY <1>2, <1>3, ReplaceOK
<1>11. ~acts[d].dirty
  BY <1>5, <1>8
<1>12. from \in Dir => acts[from].life = "running" /\ (from = Root \/ acts[from].dirty)
  <2> SUFFICES ASSUME from \in Dir
               PROVE  acts[from].life = "running" /\ (from = Root \/ acts[from].dirty)
    OBVIOUS
  <2>1. d # Root /\ from = Parent[d] /\ InSave(actor, d)
    BY <1>4 DEF Asked, AskedAt, Saves
  <2>2. from # d /\ acts[from] = actor[from]
    BY <1>8, <2>1, TreeAssumption
  <2>3. actor[from].task.op = "save"
    BY <2>1 DEF InSave
  <2>4. actor[from].life = "running"
    BY <2>3, NotRunning
  <2>5. from = Root \/ actor[from].dirty
    BY <2>3 DEF Dirt, OwnQuiet
  <2> QED
    BY <2>2, <2>4, <2>5
<1> HIDE DEF acts, from
<1>13. Dirt(ToParent(acts, from, d, h), box)
  BY <1>3, <1>9, <1>10, <1>11, <1>12, DirtToParent
<1> QED
  BY <1>2, <1>3, <1>13

LEMMA DirtBeginShutdown ==
    ASSUME Shapes, Tree, Dirt(actor, box), NEW d \in Dir, BeginShutdown(d)
    PROVE  Dirt(actor', box')
<1> DEFINE t == [op |-> "shutdown", from |-> Head(box[d]).from, todo |-> Handles(d), wait |-> {}]
           r == [actor[d] EXCEPT !.task = t]
<1>1. /\ box[d] # <<>> /\ Head(box[d]).op = "shutdown" /\ actor[d].life = "running"
      /\ actor[d].task.op = "idle"
      /\ box' = Take(d) /\ actor' = [actor EXCEPT ![d] = r] /\ OwnQuiet(d, actor[d])
  BY DEF BeginShutdown, Receives, Free, Idle, Dirt
<1>2. t.op = "shutdown"
  OBVIOUS
<1> HIDE DEF t
<1>3. /\ r.task = t /\ r.life = actor[d].life /\ r.auto = actor[d].auto
      /\ r.timer = actor[d].timer /\ r.dirty = actor[d].dirty
  <2>1. RecordOK(actor[d], Known, Messages)
    BY DEF Shapes, ActorsOK
  <2> QED
    BY <2>1 DEF RecordOK
<1> HIDE DEF r
<1>4. KeepsMarks(box, box')
  BY <1>1, KeepsTake
<1>5. OwnQuiet(d, r) /\ \A f : Covers(actor[d], f) => Covers(r, f)
  BY <1>1, <1>2, <1>3 DEF OwnQuiet, Covers
<1>6. d # Root /\ r.life = "running" /\ r.dirty =>
            MarkIn(box'[Parent[d]], d) \/ Covers(actor[Parent[d]], d)
  BY <1>1, <1>3, <1>4, StillKnown
<1>7. actor = [f \in Dir |-> actor[f]]
  BY DEF Shapes, ActorsOK
<1>8. Dirt([actor EXCEPT ![d] = r], box')
  BY <1>4, <1>5, <1>6, <1>7, DirtKept
<1> QED
  BY <1>1, <1>8

LEMMA DirtStop ==
    ASSUME Shapes, Tree, Dirt(actor, box), NEW d \in Dir, Stop(d)
    PROVE  Dirt(actor', box')
<1> DEFINE from == actor[d].task.from
<1>1. PICK q : /\ actor' = ToParent([actor EXCEPT ![d] = q], from, d, NoHash)
               /\ RecordOK(q, Known, Messages) /\ q.task = Idle /\ q.life = "stopped"
               /\ q.auto = actor[d].auto /\ q.timer = actor[d].timer
  BY StopFacts
<1> DEFINE acts == [actor EXCEPT ![d] = q]
<1>2. ActorsOK(acts, Known, Messages)
  BY <1>1, ReplaceOK DEF Shapes
<1>3. actor = [f \in Dir |-> actor[f]] /\ OwnQuiet(d, actor[d])
  BY DEF Shapes, ActorsOK, Dirt
<1>4. OwnQuiet(d, q) /\ \A f : Covers(q, f)
  BY <1>1, <1>3 DEF OwnQuiet, Covers, Idle
<1>5. box'[d] = <<>> /\ \A f \in Dir : f # d => box'[f] = box[f]
  BY DEF Shapes, Stop
<1>6. \A f \in Dir : NoTicks(box'[f])
  BY <1>5 DEF Dirt, NoTicks
<1>7. \A f \in Dir \ {Root} : Parent[f] \in Dir
  BY TreeAssumption
<1>8. Dirt(acts, box')
  BY <1>1, <1>3, <1>4, <1>5, <1>6, <1>7, DirtOwn
<1>9. acts[d].life # "running"
  BY <1>1, <1>3
<1> HIDE DEF acts, from
<1>10. actor' = ToParent(acts, from, d, NoHash)
  BY <1>1 DEF acts
<1> QED
  BY <1>2, <1>8, <1>9, <1>10, DirtToParent

LEMMA DirtOrphan ==
    ASSUME Shapes, Tree, Dirt(actor, box), NEW d \in Dir, Orphan(d)
    PROVE  Dirt(actor', box')
<1> DEFINE r == [actor[d] EXCEPT !.life = "stopped"]
<1>1. /\ box' = box /\ actor' = [actor EXCEPT ![d] = r] /\ OwnQuiet(d, actor[d])
      /\ actor[d].task = Idle
  BY DEF Orphan, Dirt, Free
<1>2. /\ r.task = actor[d].task /\ r.life = "stopped" /\ r.auto = actor[d].auto
      /\ r.timer = actor[d].timer /\ r.dirty = actor[d].dirty
  <2>1. RecordOK(actor[d], Known, Messages)
    BY DEF Shapes, ActorsOK
  <2> QED
    BY <2>1 DEF RecordOK
<1> HIDE DEF r
<1>3. OwnQuiet(d, r) /\ \A f : Covers(r, f)
  BY <1>1, <1>2 DEF OwnQuiet, Covers, Idle
<1>4. actor = [f \in Dir |-> actor[f]]
  BY DEF Shapes, ActorsOK
<1>5. Dirt([actor EXCEPT ![d] = r], box)
  BY <1>2, <1>3, <1>4, KeepsSameBox, DirtKept
<1> QED
  BY <1>1, <1>5

\* Without autosave its handlers do not run.
LEMMA NoAutosave ==
    ASSUME Shapes, Calm, Dirt(actor, box), NEW d \in Dir
    PROVE  ~Fire(d) /\ ~AutosaveTick(d) /\ ~SetAutosave(d)
<1>1. OwnQuiet(d, actor[d]) /\ NoTicks(box[d]) /\ box[d] \in Seq(Messages)
  BY DEF Dirt, Shapes
<1>2. ~Fire(d)
  BY <1>1 DEF Fire, OwnQuiet
<1>3. box[d] # <<>> => 1 \in DOMAIN box[d] /\ Head(box[d]) = box[d][1] /\ Head(box[d]) \in Messages
  BY <1>1
<1>4. ~AutosaveTick(d)
  BY <1>1, <1>3 DEF AutosaveTick, Receives, NoTicks
<1>5. ~SetAutosave(d)
  BY <1>3 DEF SetAutosave, Receives, Messages, Calm, WithoutAutosave
<1> QED
  BY <1>2, <1>4, <1>5

LEMMA DirtNext ==
    Shapes /\ ParentsExist /\ Tree /\ Asked /\ Calm /\ Dirt(actor, box) /\ [Next]_vars
    => Dirt(actor', box')
<1> SUFFICES ASSUME Shapes, ParentsExist, Tree, Asked, Calm, Dirt(actor, box), [Next]_vars
             PROVE  Dirt(actor', box')
  OBVIOUS
<1>1. CASE ClientStep
  BY <1>1, DirtClient
<1>2. ASSUME NEW d \in Dir, ActorStep(d) PROVE Dirt(actor', box')
  BY <1>2, DirtPublish, DirtLoad, DirtForward, DirtFileOp, DirtCreateDirAt,
     DirtTell, DirtChildIsDirty, DirtUpdateDirRefHash, DirtSaveIfDirty,
     DirtAskChild, DirtSaveDone, NoAutosave,
     DirtBeginShutdown, DirtStop, DirtOrphan
  DEF ActorStep
<1>3. ASSUME NEW d \in Dir, Fire(d) PROVE Dirt(actor', box')
  BY <1>3, NoAutosave
<1>4. CASE UNCHANGED vars
  BY <1>4 DEF vars
<1> QED
  BY <1>1, <1>2, <1>3, <1>4 DEF Next

\* A directory with unsaved changes has a dirty parent, or its report is on the way,
\* unless the parent has ended: a save that starts at the root reaches every
\* directory that has something to save (persistence.rs, mark_as_dirty).
THEOREM DirtyIsKnownAboveCorrect == Spec => [](ParentsExist => DirtyIsKnownAbove)
<1> DEFINE I == ParentsExist /\ Calm => Dirt(actor, box)
<1>1. Init => I
  BY DirtInit
<1>2. Shapes /\ (ParentsExist => Tree) /\ (ParentsExist => Asked) /\ I /\ [Next]_vars => I'
  <2>1. [Next]_vars => (ParentsExist' <=> ParentsExist) /\ (Calm' <=> Calm)
    BY ConfigStays DEF ParentsExist, Calm, WithoutAutosave
  <2>2. Dirt(actor, box)' <=> Dirt(actor', box')
    BY DEF Dirt, OwnQuiet, DirtAt, NoTicks, Tells, MarkIn, Covers
  <2> QED
    BY <2>1, <2>2, DirtNext
<1>3. Shapes /\ (ParentsExist => Tree) /\ I => (ParentsExist => DirtyIsKnownAbove)
  <2> SUFFICES ASSUME Shapes, ParentsExist, Tree, I, Calm, NEW d \in Dir,
                      actor[d].life = "running", actor[d].dirty, ~IsRoot(d),
                      actor[actor[d].up].life # "stopped"
               PROVE  LET r == actor[d] IN
                      \/ actor[r.up].dirty
                      \/ r.task.op = "tell" /\ r.task.msg.op = "mark_as_dirty"
                      \/ \E i \in DOMAIN box[r.up] :
                            box[r.up][i].op = "mark_as_dirty" /\ box[r.up][i].dir = d
    BY DEF DirtyIsKnownAbove, Calm
  <2>1. ActorFits(d, actor[d]) /\ UnderParent(actor, d)
    BY DEF Tree, ActorTree
  <2>2. d # Root /\ actor[d].up = Parent[d]
    BY <2>1 DEF ActorFits, UnderParent, IsRoot
  <2>3. Tells(actor[d]) \/ MarkIn(box[Parent[d]], d) \/ Covers(actor[Parent[d]], d)
    BY <2>2 DEF Dirt, DirtAt
  <2> QED
    BY <2>2, <2>3 DEF Tells, MarkIn, Covers
<1> HIDE DEF I
<1> QED
  BY <1>1, <1>2, <1>3, ShapesCorrect, TreeCorrect, AskedCorrect, PTL DEF Spec

-----------------------------------------------------------------------------
(***************************************************************************)
(* Paths: no path is above itself, and the paths above one are a chain.    *)
(***************************************************************************)
LEMMA UpStep ==
    ASSUME NEW x \in Dir \ {Root}
    PROVE  Parent[x] \in Dir /\ Up[x] = {x} \cup Up[Parent[x]]
<1>1. Parent[x] \in Dir /\ Parent[x] \in Up[x]
  BY UpFacts, TreeAssumption
<1> DEFINE S == {x} \cup Up[Parent[x]]
<1>2. S \in SUBSET Dir /\ x \in S
  BY <1>1, UpFacts
<1>3. \A e \in S \ {Root} : Parent[e] \in S
  BY <1>1, UpFacts
<1>4. Up[x] \subseteq S
  BY <1>2, <1>3, UpFacts
<1>5. Up[Parent[x]] \subseteq Up[x]
  BY <1>1, UpFacts
<1> QED
  BY <1>1, <1>4, <1>5, UpFacts

LEMMA UpRoot == Up[Root] = {Root}
<1>1. Root \in Dir
  BY TreeAssumption
<1>2. {Root} \in SUBSET Dir /\ \A e \in {Root} \ {Root} : Parent[e] \in {Root}
  BY <1>1
<1>3. Up[Root] \subseteq {Root}
  BY <1>1, <1>2, UpFacts
<1> QED
  BY <1>1, <1>3, UpFacts

LEMMA UpTrans ==
    ASSUME NEW x \in Dir, NEW y \in Up[x]
    PROVE  y \in Dir /\ Up[y] \subseteq Up[x]
<1>1. y \in Dir /\ Up[x] \in SUBSET Dir
  BY UpFacts
<1> QED
  BY <1>1, UpFacts

LEMMA NoLoops ==
    ASSUME NEW x \in Dir \ {Root}
    PROVE  x \notin Up[Parent[x]]
<1> DEFINE S == {z \in Dir : z = Root \/ z \notin Up[Parent[z]]}
<1>1. Root \in S
  BY TreeAssumption
<1>2. ASSUME NEW z \in Dir \ {Root}, Parent[z] \in S PROVE z \in S
  <2> SUFFICES ASSUME z \in Up[Parent[z]] PROVE FALSE
    OBVIOUS
  <2> DEFINE p == Parent[z]
  <2>1. p \in Dir /\ p # z
    BY TreeAssumption
  <2>2. p # Root
    BY UpRoot
  <2>3. z \in Up[Parent[p]] /\ Parent[p] \in Dir
    BY <2>1, <2>2, UpStep
  <2>4. p \in Up[z]
    BY UpFacts
  <2>5. p \in Up[Parent[p]]
    BY <2>3, <2>4, UpTrans
  <2> QED
    BY <1>2, <2>2, <2>5
<1>3. S = Dir
  BY <1>1, <1>2, PathAssumption
<1> QED
  BY <1>3

LEMMA UpAnti ==
    ASSUME NEW x \in Dir, NEW y \in Dir, x \in Up[y], y \in Up[x]
    PROVE  x = y
<1> SUFFICES ASSUME x # y PROVE FALSE
  OBVIOUS
<1>1. x # Root
  BY UpRoot
<1>2. y \in Up[Parent[x]] /\ Parent[x] \in Dir
  BY <1>1, UpStep
<1>3. x \in Up[Parent[x]]
  BY <1>2, UpTrans
<1> QED
  BY <1>1, <1>3, NoLoops

LEMMA UpChain ==
    ASSUME NEW d \in Dir, NEW g \in Up[d], NEW h \in Up[d]
    PROVE  h \in Up[g] \/ g \in Up[h]
<1> DEFINE S == {x \in Up[d] : \A y \in Up[d] : y \in Up[x] \/ x \in Up[y]}
<1>1. S \in SUBSET Dir /\ d \in S
  BY UpFacts
<1>2. ASSUME NEW x \in S \ {Root} PROVE Parent[x] \in S
  <2>1. x \in Dir \ {Root} /\ Parent[x] \in Up[d]
    BY UpFacts
  <2>2. ASSUME NEW y \in Up[d] PROVE y \in Up[Parent[x]] \/ Parent[x] \in Up[y]
    <3>1. y \in Dir /\ Up[x] = {x} \cup Up[Parent[x]]
      BY <2>1, UpStep, UpFacts
    <3>2. CASE x \in Up[y]
      BY <2>1, <3>1, <3>2, UpFacts
    <3>3. CASE y \in Up[x]
      <4>1. CASE y = x
        BY <2>1, <4>1, UpFacts
      <4> QED
        BY <3>1, <3>3, <4>1
    <3> QED
      BY <3>2, <3>3
  <2> QED
    BY <2>1, <2>2
<1>3. Up[d] \subseteq S
  BY <1>1, <1>2, UpFacts
<1> QED
  BY <1>3

\* There is one way down from d to x.
LEMMA OneWayDown ==
    ASSUME NEW x \in Dir, NEW c \in Up[x], NEW e \in Up[x], c # Root, e # Root,
           Parent[c] = Parent[e]
    PROVE  c = e
<1>1. c \in Dir \ {Root} /\ e \in Dir \ {Root}
  BY UpFacts
<1>2. c \in Up[e] \/ e \in Up[c]
  BY UpChain
<1> QED
  BY <1>1, <1>2, UpStep, NoLoops

\* A way from x up to another path above it ends with a child of that.
LEMMA LastStep ==
    ASSUME NEW x \in Dir, NEW d \in Up[x], d # x
    PROVE  \E e \in Up[x] : e # Root /\ Parent[e] = d
<1> SUFFICES ASSUME \A e \in Up[x] : e # Root => Parent[e] # d PROVE FALSE
  OBVIOUS
<1> DEFINE S == Up[x] \ {d}
<1>1. S \in SUBSET Dir /\ x \in S
  BY UpFacts
<1>2. \A e \in S \ {Root} : Parent[e] \in S
  BY UpFacts
<1>3. Up[x] \subseteq S
  BY <1>1, <1>2, UpFacts
<1> QED
  BY <1>3

\* The directories above one that is open are open.
LEMMA OpenAbove ==
    ASSUME Tree, Shapes, NEW x \in Dir, actor[x].life # "none", NEW y \in Up[x]
    PROVE  actor[y].life # "none"
<1> DEFINE S == {z \in Dir : actor[z].life # "none"}
<1>1. ASSUME NEW z \in S \ {Root} PROVE Parent[z] \in S
  <2>1. Parent[z] \in Dir /\ actor[Parent[z]].state # NoHash
    BY TreeAssumption DEF Tree, ActorTree, UnderParent
  <2> QED
    BY <2>1 DEF Tree, ActorTree, ActorFits
<1>2. S \in SUBSET Dir /\ x \in S
  OBVIOUS
<1>3. Up[x] \subseteq S
  BY <1>1, <1>2, UpFacts
<1> QED
  BY <1>3

\* Where a path leads on from a directory with an open directory below it on the way.
LEMMA WayIsOpen ==
    ASSUME Tree, Shapes, NEW m, m.dir \in Dir, NEW g \in Up[m.dir], NEW d \in Up[g], d # g,
           actor[g].life # "none"
    PROVE  FirstOf(d, m) \in DOMAIN actor[d].state.dirs
<1>1. d \in Dir /\ g \in Dir /\ d \in Up[m.dir]
  BY UpFacts, UpTrans
<1>2. d # m.dir
  BY <1>1, UpAnti
<1>3. FirstOf(d, m) \in Up[m.dir] /\ FirstOf(d, m) # Root /\ Parent[FirstOf(d, m)] = d
  BY <1>1, <1>2, FirstFacts DEF Above
<1>4. PICK c \in Up[g] : c # Root /\ Parent[c] = d
  BY <1>1, LastStep
<1>5. c = FirstOf(d, m)
  <2>1. c \in Up[m.dir]
    BY <1>4, UpTrans
  <2> QED
    BY <1>3, <1>4, <2>1, OneWayDown
<1>6. c \in Dir /\ actor[c].life # "none"
  BY <1>1, <1>4, OpenAbove, UpFacts
<1> QED
  BY <1>4, <1>5, <1>6 DEF Tree, ActorTree, UnderParent

-----------------------------------------------------------------------------
(***************************************************************************)
(* The steps that change no directory and send no put.                     *)
(***************************************************************************)
Put(m) == m.op \in {"file_put", "file_put_sync"}

\* Put n to path x is in a mailbox; the puts to a path are in order in it.
InPuts(q, x, n) == \E i \in DOMAIN q : Put(q[i]) /\ q[i].dir = x /\ q[i].arg = n
Ordered(q) ==
    \A i, j \in DOMAIN q :
        i < j /\ Put(q[i]) /\ Put(q[j]) /\ q[i].dir = q[j].dir => q[i].arg <= q[j].arg

\* A mailbox has no new puts.
Fewer(q, p) ==
    /\ Ordered(q) => Ordered(p)
    /\ \A x, n : InPuts(p, x, n) => InPuts(q, x, n)
Boxes == \A f \in Dir : Fewer(box[f], box'[f])

\* What is saved is the snapshot of a directory, and what replaces the root file
\* that of the root.
SavesOnly ==
    /\ stored \subseteq stored'
    /\ \A s \in stored' \ stored : \E f \in Dir : s = actor[f].state /\ s # NoHash
    /\ rootFile' = rootFile \/ (rootFile' = actor[Root].state /\ rootFile' # NoHash)

Steady ==
    \A f \in Dir : /\ actor'[f].state = actor[f].state
                   /\ actor'[f].life = "none" <=> actor[f].life = "none"

Quiet == Steady /\ Boxes /\ SavesOnly /\ next' = next

LEMMA FewerTail ==
    ASSUME NEW M, NEW q \in Seq(M), q # <<>>
    PROVE  Fewer(q, Tail(q))
<1>1. \A i \in DOMAIN Tail(q) : /\ i \in Int /\ i + 1 \in DOMAIN q
                                /\ Tail(q)[i] = q[i + 1]
  OBVIOUS
<1>2. ASSUME NEW x, NEW n, InPuts(Tail(q), x, n) PROVE InPuts(q, x, n)
  BY <1>1, <1>2 DEF InPuts
<1>3. ASSUME Ordered(q) PROVE Ordered(Tail(q))
  <2> SUFFICES ASSUME NEW i \in DOMAIN Tail(q), NEW j \in DOMAIN Tail(q), i < j,
                      Put(Tail(q)[i]), Put(Tail(q)[j]), Tail(q)[i].dir = Tail(q)[j].dir
               PROVE  Tail(q)[i].arg <= Tail(q)[j].arg
    BY DEF Ordered
  <2>1. i + 1 < j + 1
    BY <1>1
  <2> QED
    BY <1>1, <1>3, <2>1 DEF Ordered
<1> QED
  BY <1>2, <1>3 DEF Fewer

LEMMA AppendFacts ==
    ASSUME NEW M, NEW q \in Seq(M), NEW m
    PROVE  /\ \A i \in DOMAIN q : Append(q, m)[i] = q[i] /\ i \in DOMAIN Append(q, m)
           /\ Append(q, m)[Len(q) + 1] = m /\ Len(q) + 1 \in DOMAIN Append(q, m)
           /\ \A i \in DOMAIN Append(q, m) : i \in DOMAIN q \/ i = Len(q) + 1
           /\ \A i \in DOMAIN q : i \in Int /\ i < Len(q) + 1
           /\ Len(q) \in Nat
OBVIOUS

LEMMA FewerAppend ==
    ASSUME NEW M, NEW q \in Seq(M), NEW m, ~Put(m)
    PROVE  Fewer(q, Append(q, m))
<1>1. /\ \A i \in DOMAIN q : Append(q, m)[i] = q[i] /\ i \in DOMAIN Append(q, m)
      /\ Append(q, m)[Len(q) + 1] = m
      /\ \A i \in DOMAIN Append(q, m) : i \in DOMAIN q \/ i = Len(q) + 1
  BY AppendFacts
<1>2. \A i \in DOMAIN Append(q, m) : Put(Append(q, m)[i]) => i \in DOMAIN q
  BY <1>1
<1> QED
  BY <1>1, <1>2 DEF Fewer, InPuts, Ordered

LEMMA FewerEmpty == ASSUME NEW q PROVE Fewer(q, <<>>)
BY DEF Fewer, InPuts, Ordered

LEMMA FewerSame == ASSUME NEW q PROVE Fewer(q, q)
BY DEF Fewer

LEMMA FewerTrans ==
    ASSUME NEW q, NEW p, NEW o, Fewer(q, p), Fewer(p, o)
    PROVE  Fewer(q, o)
BY DEF Fewer

LEMMA FewerTake ==
    ASSUME Shapes, NEW d \in Dir, box[d] # <<>>
    PROVE  \A f \in Dir : Fewer(box[f], Take(d)[f])
<1>1. box[d] \in Seq(Messages) /\ Take(d)[d] = Tail(box[d])
  BY DEF Shapes, Take
<1>2. \A f \in Dir : f # d => Take(d)[f] = box[f]
  BY DEF Shapes, Take
<1>3. Fewer(box[d], Tail(box[d]))
  BY <1>1, FewerTail
<1> QED
  BY <1>1, <1>2, <1>3, FewerSame

LEMMA FewerSend ==
    ASSUME NEW M, NEW b \in [Dir -> Seq(M)], NEW e, NEW m, ~Put(m), NEW f \in Dir
    PROVE  Fewer(b[f], [b EXCEPT ![e] = Append(@, m)][f])
<1>1. CASE f = e
  <2>1. [b EXCEPT ![e] = Append(@, m)][f] = Append(b[f], m) /\ b[f] \in Seq(M)
    BY <1>1
  <2> QED
    BY <2>1, FewerAppend
<1>2. CASE f # e
  <2>1. [b EXCEPT ![e] = Append(@, m)][f] = b[f]
    BY <1>2
  <2> QED
    BY <2>1, FewerSame
<1> QED
  BY <1>1, <1>2

LEMMA TakenBoxes ==
    ASSUME Shapes, NEW d \in Dir, NEW ops, Receives(d, ops), box' = Take(d)
    PROVE  Boxes
BY FewerTake DEF Boxes, Receives

LEMMA SentBoxes ==
    ASSUME Shapes, NEW e, NEW m, ~Put(m), box' = [box EXCEPT ![e] = Append(@, m)]
    PROVE  Boxes
BY FewerSend DEF Boxes, Shapes

LEMMA DroppedBoxes ==
    ASSUME Shapes, NEW d \in Dir, box' = [box EXCEPT ![d] = <<>>]
    PROVE  Boxes
<1>1. box'[d] = <<>> /\ \A f \in Dir : f # d => box'[f] = box[f]
  BY DEF Shapes
<1> QED
  BY <1>1, FewerEmpty, FewerSame DEF Boxes

LEMMA SameBoxes == ASSUME box' = box PROVE Boxes
BY FewerSame DEF Boxes

LEMMA SameSaves == ASSUME UNCHANGED <<stored, rootFile>> PROVE SavesOnly
BY DEF SavesOnly

LEMMA PersistSaves ==
    ASSUME Shapes, Tree, NEW d \in Dir, actor[d].state # NoHash, NEW ok, Persist(d, ok)
    PROVE  SavesOnly
<1>1. actor[d].life # "none"
  BY DEF Tree, ActorTree, ActorFits
<1>2. IsRoot(d) => d = Root
  BY <1>1, OnlyRoot
<1> QED
  BY <1>2 DEF Persist, SavesOnly

LEMMA QuietOwn ==
    ASSUME Shapes, NEW d \in Dir, NEW r, actor' = [actor EXCEPT ![d] = r],
           r.state = actor[d].state, r.life # "none", actor[d].life # "none",
           Boxes, SavesOnly, next' = next
    PROVE  Quiet
<1>1. actor'[d] = r /\ \A f \in Dir : f # d => actor'[f] = actor[f]
  BY DEF Shapes, ActorsOK
<1>2. Steady
  BY <1>1 DEF Steady
<1> QED
  BY <1>2 DEF Quiet

LEMMA QuietSame ==
    ASSUME actor' = actor, Boxes, SavesOnly, next' = next
    PROVE  Quiet
BY DEF Quiet, Steady

LEMMA QuietToParent ==
    ASSUME Shapes, NEW S, NEW M, NEW d \in Dir, NEW r, NEW p,
           ActorsOK([actor EXCEPT ![d] = r], S, M),
           actor' = ToParent([actor EXCEPT ![d] = r], p, d, NoHash),
           r.state = actor[d].state, r.life # "none", actor[d].life # "none",
           Boxes, SavesOnly, next' = next
    PROVE  Quiet
<1> DEFINE mid == [actor EXCEPT ![d] = r]
<1>1. mid[d] = r /\ \A f \in Dir : f # d => mid[f] = actor[f]
  BY DEF Shapes, ActorsOK
<1>2. ActorsOK(mid, S, M) /\ actor' = ToParent(mid, p, d, NoHash)
  OBVIOUS
<1> HIDE DEF mid
<1>3. AnswerTo(mid, ToParent(mid, p, d, NoHash), p, d, NoHash)
  BY <1>2, ToParentFacts
<1>4. \A f \in Dir : actor'[f].state = mid[f].state /\ actor'[f].life = mid[f].life
  BY <1>2, <1>3 DEF AnswerTo
<1>5. Steady
  BY <1>1, <1>4 DEF Steady
<1> QED
  BY <1>5 DEF Quiet

-----------------------------------------------------------------------------
LEMMA QuietPublish ==
    ASSUME Shapes, Tree, NEW d \in Dir, Publish(d)
    PROVE  Quiet
<1>1. RecordOK(actor[d], Known, Messages) /\ actor[d].state # NoHash /\ actor[d].life = "creating"
  BY Busy DEF Publish
<1>2. PICK ok, t : /\ Persist(d, ok)
                   /\ actor' = [actor EXCEPT ![d] = [@ EXCEPT !.life = "running", !.task = t]]
  BY DEF Publish
<1> DEFINE r == [actor[d] EXCEPT !.life = "running", !.task = t]
<1>3. r.state = actor[d].state /\ r.life = "running"
  BY <1>1 DEF RecordOK
<1>4. actor' = [actor EXCEPT ![d] = r] /\ box' = box /\ next' = next
  BY <1>2 DEF Publish, ClientsOnly
<1> HIDE DEF r
<1> QED
  BY <1>1, <1>2, <1>3, <1>4, PersistSaves, SameBoxes, QuietOwn

LEMMA QuietLoad ==
    ASSUME Shapes, Tree, NEW d \in Dir, Load(d)
    PROVE  Quiet
<1>1. RecordOK(actor[d], Known, Messages) /\ actor[d].life = "loading"
  BY DEF Load, Shapes, ActorsOK
<1>2. SavesOnly /\ next' = next
  BY SameSaves DEF Load, ClientsOnly
<1>3. CASE actor' = [actor EXCEPT ![d].life = "running"] /\ UNCHANGED box
  <2> DEFINE r == [actor[d] EXCEPT !.life = "running"]
  <2>1. actor' = [actor EXCEPT ![d] = r] /\ r.state = actor[d].state /\ r.life = "running"
    BY <1>1, <1>3 DEF RecordOK
  <2> HIDE DEF r
  <2> QED
    BY <1>1, <1>2, <1>3, <2>1, SameBoxes, QuietOwn
<1>4. CASE /\ actor' = ToParent([actor EXCEPT ![d].life = "stopped"],
                                IF actor[d].up \in Dropped(d) THEN actor[d].up ELSE None,
                                d, NoHash)
           /\ box' = [box EXCEPT ![d] = <<>>]
  <2> DEFINE r == [actor[d] EXCEPT !.life = "stopped"]
             p == IF actor[d].up \in Dropped(d) THEN actor[d].up ELSE None
  <2>1. RecordOK(r, Known, Messages) /\ r.state = actor[d].state /\ r.life = "stopped"
    BY <1>1 DEF RecordOK, Load
  <2>2. actor' = ToParent([actor EXCEPT ![d] = r], p, d, NoHash)
    BY <1>4
  <2> HIDE DEF r, p
  <2>3. ActorsOK([actor EXCEPT ![d] = r], Known, Messages)
    BY <2>1, ReplaceOK DEF Shapes
  <2>4. Boxes
    BY <1>4, DroppedBoxes
  <2> QED
    BY <1>1, <1>2, <2>1, <2>2, <2>3, <2>4, QuietToParent
<1> QED
  BY <1>3, <1>4 DEF Load

LEMMA QuietTell ==
    ASSUME Shapes, Tree, NEW d \in Dir, Tell(d)
    PROVE  Quiet
<1> DEFINE t == actor[d].task
           r == [actor[d] EXCEPT !.task = Idle]
           q == CASE t.then = "loop"  -> r
                  [] t.then = "arm"   -> Arm(r)
                  [] t.then = "saved" -> [r EXCEPT !.dirty = FALSE]
           x == t.msg
           u == actor[d].up
<1>1. /\ actor' = [actor EXCEPT ![d] = q] /\ box' = [box EXCEPT ![u] = Append(@, x)]
      /\ next' = next /\ UNCHANGED <<stored, rootFile>>
  BY DEF Tell, ClientsOnly
<1>2. RecordOK(actor[d], Known, Messages) /\ t.op = "tell" /\ actor[d].life = "running"
  BY Busy DEF Tell
<1>3. t \in TellTasks(Messages)
  BY <1>2 DEF RecordOK, AllTasks, WorkTasks, Idle
<1>4. t.then \in {"loop", "arm", "saved"}
  BY <1>3 DEF TellTasks
<1>5. RecordOK(r, Known, Messages) /\ r.life = actor[d].life /\ r.state = actor[d].state
  BY <1>2, IdleOK
<1>6. ~Put(x)
  <2>1. TellFits(d, actor[d].task)
    BY DEF Tree, ActorTree, ActorFits
  <2> QED
    BY <1>2, <2>1 DEF TellFits, Put
<1> HIDE DEF t, r, x, u
<1>7. q.life = r.life /\ q.state = r.state
  <2>1. CASE t.then = "loop"
    BY <1>5, <2>1
  <2>2. CASE t.then = "arm"
    <3>1. q = Arm(r)
      BY <2>2
    <3> QED
      BY <1>5, <2>2, <3>1, ArmFacts
  <2>3. CASE t.then = "saved"
    <3>1. q = [r EXCEPT !.dirty = FALSE]
      BY <2>3
    <3> QED
      BY <1>5, <3>1 DEF RecordOK
  <2> QED
    BY <1>4, <2>1, <2>2, <2>3
<1> HIDE DEF q
<1>8. Boxes /\ SavesOnly
  BY <1>1, <1>6, SentBoxes, SameSaves
<1> QED
  BY <1>1, <1>2, <1>5, <1>7, <1>8, QuietOwn

LEMMA QuietChildIsDirty ==
    ASSUME Shapes, Tree, NEW d \in Dir, ChildIsDirty(d)
    PROVE  Quiet
<1> DEFINE r == MarkAsDirty(d, actor[d], None)
<1>1. /\ RecordOK(actor[d], Known, Messages) /\ actor[d].state # NoHash
      /\ actor[d].life = "running" /\ actor[d].task = Idle
      /\ Msg("mark_as_dirty", d, None, None) \in Messages
  BY Receiving DEF ChildIsDirty
<1>2. Marked(d, actor[d], r, None)
  BY <1>1, MarkFacts DEF Senders
<1>3. r.state = actor[d].state /\ r.life = "running"
  BY <1>1, <1>2 DEF Marked
<1>4. actor' = [actor EXCEPT ![d] = r] /\ next' = next
  BY DEF ChildIsDirty, ClientsOnly
<1>5. Boxes /\ SavesOnly
  BY TakenBoxes, SameSaves DEF ChildIsDirty
<1> HIDE DEF r
<1> QED
  BY <1>1, <1>3, <1>4, <1>5, QuietOwn

LEMMA QuietSaveIfDirty ==
    ASSUME Shapes, Tree, NEW d \in Dir, SaveIfDirty(d)
    PROVE  Quiet
<1> DEFINE from == Head(box[d]).from
           t == [op |-> "save", from |-> from, todo |-> Handles(d), wait |-> {}]
<1>1. RecordOK(actor[d], Known, Messages) /\ actor[d].life = "running"
  BY Receiving DEF SaveIfDirty
<1>2. Boxes /\ SavesOnly /\ next' = next
  BY TakenBoxes, SameSaves DEF SaveIfDirty, ClientsOnly
<1>3. CASE actor[d].dirty \/ IsRoot(d)
  <2> DEFINE r == [actor[d] EXCEPT !.task = t]
  <2>1. actor' = [actor EXCEPT ![d] = r]
    BY <1>3 DEF SaveIfDirty
  <2> HIDE DEF t
  <2>2. r.state = actor[d].state /\ r.life = "running"
    BY <1>1 DEF RecordOK
  <2> HIDE DEF r
  <2> QED
    BY <1>1, <1>2, <2>1, <2>2, QuietOwn
<1>4. CASE ~(actor[d].dirty \/ IsRoot(d))
  <2> DEFINE r == Arm(actor[d])
  <2>1. actor' = ToParent([actor EXCEPT ![d] = r], from, d, NoHash)
    BY <1>4 DEF SaveIfDirty
  <2>2. RecordOK(r, Known, Messages) /\ r.state = actor[d].state /\ r.life = "running"
    BY <1>1, ArmFacts
  <2>3. ActorsOK([actor EXCEPT ![d] = r], Known, Messages)
    BY <2>2, ReplaceOK DEF Shapes
  <2> HIDE DEF r, from
  <2> QED
    BY <1>1, <1>2, <2>1, <2>2, <2>3, QuietToParent
<1> QED
  BY <1>3, <1>4

LEMMA QuietAskChild ==
    ASSUME Shapes, Tree, NEW d \in Dir, NEW e \in Dir, AskChild(d, e)
    PROVE  Quiet
<1> DEFINE t == actor[d].task
           t1 == [t EXCEPT !.todo = @ \ {e}]
           t2 == [t EXCEPT !.todo = @ \ {e}, !.wait = @ \cup {e}]
           m == Msg(t.op, e, 0, d)
<1>1. RecordOK(actor[d], Known, Messages) /\ actor[d].state # NoHash
      /\ t.op \in {"save", "shutdown"}
  BY Busy DEF AskChild
<1>2. t \in WorkTasks /\ actor[d].life # "none"
  BY <1>1 DEF RecordOK, AllTasks, TellTasks, Idle, Tree, ActorTree, ActorFits
<1>3. \A u : LET r == [actor[d] EXCEPT !.task = u] IN
          r.life = actor[d].life /\ r.state = actor[d].state
  BY <1>1 DEF RecordOK
<1>4. SavesOnly /\ next' = next
  BY SameSaves DEF AskChild, ClientsOnly
<1>5. CASE actor' = [actor EXCEPT ![d].task.todo = @ \ {e}] /\ box' = box
  <2>1. actor' = [actor EXCEPT ![d] = [actor[d] EXCEPT !.task = t1]]
    BY <1>1, <1>5 DEF RecordOK
  <2> DEFINE r == [actor[d] EXCEPT !.task = t1]
  <2>2. actor' = [actor EXCEPT ![d] = r] /\ r.life = actor[d].life /\ r.state = actor[d].state
    BY <1>3, <2>1
  <2> HIDE DEF r
  <2> QED
    BY <1>2, <1>4, <1>5, <2>2, SameBoxes, QuietOwn
<1>6. CASE /\ actor' = [actor EXCEPT ![d].task.todo = @ \ {e}, ![d].task.wait = @ \cup {e}]
           /\ box' = [box EXCEPT ![e] = Append(@, m)]
  <2>1. actor' = [actor EXCEPT ![d] = [actor[d] EXCEPT !.task = t2]]
    BY <1>1, <1>2, <1>6 DEF RecordOK, WorkTasks, Shapes, ActorsOK
  <2>2. ~Put(m)
    BY <1>1 DEF Put, Msg
  <2> HIDE DEF m
  <2>3. Boxes
    BY <1>6, <2>2, SentBoxes
  <2> DEFINE r == [actor[d] EXCEPT !.task = t2]
  <2>4. actor' = [actor EXCEPT ![d] = r] /\ r.life = actor[d].life /\ r.state = actor[d].state
    BY <1>3, <2>1
  <2> HIDE DEF r
  <2> QED
    BY <1>2, <1>4, <2>3, <2>4, QuietOwn
<1> QED
  BY <1>5, <1>6 DEF AskChild

LEMMA QuietFire ==
    ASSUME Shapes, Tree, NEW d \in Dir, Fire(d)
    PROVE  Quiet
<1> DEFINE m == Msg("autosave_tick", d, 0, None)
           r == [actor[d] EXCEPT !.timer = "fired"]
<1>1. /\ box' = [box EXCEPT ![d] = Append(@, m)] /\ next' = next
      /\ actor' = [actor EXCEPT ![d] = r] /\ actor[d].life = "running"
      /\ UNCHANGED <<stored, rootFile>>
  BY DEF Fire, ClientsOnly
<1>2. r.state = actor[d].state /\ r.life = actor[d].life /\ ~Put(m)
  <2>1. RecordOK(actor[d], Known, Messages)
    BY DEF Shapes, ActorsOK
  <2> QED
    BY <2>1 DEF RecordOK, Msg, Put
<1> HIDE DEF r, m
<1> QED
  BY <1>1, <1>2, SentBoxes, SameSaves, QuietOwn

LEMMA QuietAutosaveTick ==
    ASSUME Shapes, Tree, NEW d \in Dir, AutosaveTick(d)
    PROVE  Quiet
<1> DEFINE r == [actor[d] EXCEPT !.timer = "off"]
           tell == ~IsRoot(d) /\ actor[r.up].life # "stopped"
           t == Telling("update_ref", d, r.state, "saved", None)
<1>1. PICK ok : /\ Persist(d, ok /\ r.dirty)
                /\ actor' = [actor EXCEPT ![d] =
                     IF ~ok THEN Arm(r)
                     ELSE IF r.dirty /\ tell THEN [r EXCEPT !.task = t]
                     ELSE [r EXCEPT !.dirty = FALSE]]
  BY DEF AutosaveTick
<1>2. /\ actor[d].life = "running" /\ RecordOK(actor[d], Known, Messages)
      /\ actor[d].state # NoHash
  BY Receiving DEF AutosaveTick
<1>3. RecordOK(r, Known, Messages) /\ r.state = actor[d].state /\ r.life = "running"
  BY <1>2 DEF RecordOK
<1>4. Boxes /\ SavesOnly /\ next' = next
  <2>1. SavesOnly
    BY <1>1, <1>2, PersistSaves
  <2> QED
    BY <2>1, TakenBoxes DEF AutosaveTick, ClientsOnly
<1> HIDE DEF r, t, tell
<1> DEFINE q == IF ~ok THEN Arm(r)
               ELSE IF r.dirty /\ tell THEN [r EXCEPT !.task = t]
               ELSE [r EXCEPT !.dirty = FALSE]
<1>5. q.state = actor[d].state /\ q.life = "running"
  <2>1. \A u : [r EXCEPT !.task = u].state = r.state /\ [r EXCEPT !.task = u].life = r.life
    BY <1>3 DEF RecordOK
  <2>2. [r EXCEPT !.dirty = FALSE].state = r.state /\ [r EXCEPT !.dirty = FALSE].life = r.life
    BY <1>3 DEF RecordOK
  <2>3. Arm(r).state = r.state /\ Arm(r).life = r.life
    BY <1>3, ArmFacts
  <2> QED
    BY <1>3, <2>1, <2>2, <2>3
<1>6. actor' = [actor EXCEPT ![d] = q]
  BY <1>1
<1> HIDE DEF q
<1> QED
  BY <1>2, <1>4, <1>5, <1>6, QuietOwn

LEMMA QuietSetAutosave ==
    ASSUME Shapes, Tree, NEW d \in Dir, SetAutosave(d)
    PROVE  Quiet
<1> DEFINE live == {e \in Handles(d) : actor[e].life # "stopped"}
           m == Head(box[d])
           r == Arm([actor[d] EXCEPT !.auto = TRUE])
<1>1. /\ RecordOK(actor[d], Known, Messages) /\ m.op = "with_autosave"
      /\ actor[d].life = "running"
  BY Receiving DEF SetAutosave
<1>2. /\ box[d] # <<>> /\ actor' = [actor EXCEPT ![d] = r] /\ next' = next
      /\ box' = [f \in Dir |-> IF f = d THEN Tail(box[f])
                                ELSE IF f \in live THEN Append(box[f], m)
                                ELSE box[f]]
      /\ UNCHANGED <<stored, rootFile>>
  BY DEF SetAutosave, Receives, ClientsOnly
<1>3. r.state = actor[d].state /\ r.life = actor[d].life
  <2> DEFINE q == [actor[d] EXCEPT !.auto = TRUE]
  <2>1. RecordOK(q, Known, Messages) /\ q.state = actor[d].state /\ q.life = actor[d].life
    BY <1>1, AutoOK
  <2> HIDE DEF q
  <2>2. Arm(q).state = q.state /\ Arm(q).life = q.life
    BY <2>1, ArmFacts
  <2> QED
    BY <2>1, <2>2 DEF q
<1>4. ~Put(m)
  BY <1>1 DEF Put
<1> HIDE DEF live, m, r
<1>5. ASSUME NEW f \in Dir PROVE Fewer(box[f], box'[f])
  <2>1. box[f] \in Seq(Messages)
    BY DEF Shapes
  <2>2. CASE f = d
    <3>1. box'[f] = Tail(box[f])
      BY <1>2, <2>2
    <3> QED
      BY <1>2, <2>1, <2>2, <3>1, FewerTail
  <2>3. CASE f # d /\ f \in live
    <3>1. box'[f] = Append(box[f], m)
      BY <1>2, <2>3
    <3> QED
      BY <1>4, <2>1, <3>1, FewerAppend
  <2>4. CASE f # d /\ f \notin live
    <3>1. box'[f] = box[f]
      BY <1>2, <2>4
    <3> QED
      BY <3>1, FewerSame
  <2> QED
    BY <2>2, <2>3, <2>4
<1>6. Boxes /\ SavesOnly
  BY <1>2, <1>5, SameSaves DEF Boxes
<1> QED
  BY <1>1, <1>2, <1>3, <1>6, QuietOwn

LEMMA QuietBeginShutdown ==
    ASSUME Shapes, Tree, NEW d \in Dir, BeginShutdown(d)
    PROVE  Quiet
<1> DEFINE t == [op |-> "shutdown", from |-> Head(box[d]).from, todo |-> Handles(d), wait |-> {}]
           r == [actor[d] EXCEPT !.task = t]
<1>1. /\ RecordOK(actor[d], Known, Messages) /\ actor[d].life = "running"
      /\ actor[d].state # NoHash
  BY Receiving DEF BeginShutdown
<1>2. actor' = [actor EXCEPT ![d] = r] /\ next' = next
  BY DEF BeginShutdown, ClientsOnly
<1> HIDE DEF t
<1>3. r.state = actor[d].state /\ r.life = actor[d].life
  BY <1>1 DEF RecordOK
<1> HIDE DEF r
<1>4. PICK ok : Persist(d, ok)
  BY DEF BeginShutdown
<1>5. Boxes /\ SavesOnly
  BY <1>1, <1>4, PersistSaves, TakenBoxes DEF BeginShutdown
<1> QED
  BY <1>1, <1>2, <1>3, <1>5, QuietOwn

LEMMA QuietStop ==
    ASSUME Shapes, Tree, NEW d \in Dir, Stop(d)
    PROVE  Quiet
<1> DEFINE from == actor[d].task.from
           q == [actor[d] EXCEPT !.life = "stopped", !.task = Idle]
<1>1. RecordOK(actor[d], Known, Messages) /\ actor[d].state # NoHash
  BY Busy DEF Stop, ChildrenDone
<1>2. actor' = ToParent([actor EXCEPT ![d].life = "stopped", ![d].task = Idle], from, d, NoHash)
  BY DEF Stop
<1>3. [actor EXCEPT ![d].life = "stopped", ![d].task = Idle] = [actor EXCEPT ![d] = q]
  BY DEF Shapes, ActorsOK
<1>4. RecordOK(q, Known, Messages)
  <2> DEFINE r == [actor[d] EXCEPT !.life = "stopped"]
  <2>1. RecordOK(r, Known, Messages)
    BY <1>1, LifeOK
  <2>2. q = [r EXCEPT !.task = Idle]
    OBVIOUS
  <2> HIDE DEF r, q
  <2> QED
    BY <2>1, <2>2, IdleOK
<1>5. q.state = actor[d].state /\ q.life = "stopped"
  BY <1>1 DEF RecordOK
<1>6. actor[d].life # "none"
  BY <1>1 DEF Tree, ActorTree, ActorFits
<1>7. PICK ok : Persist(d, ok)
  BY DEF Stop
<1>8. Boxes /\ SavesOnly /\ next' = next
  BY <1>1, <1>7, PersistSaves, DroppedBoxes DEF Stop, ClientsOnly
<1> HIDE DEF q, from
<1>9. ActorsOK([actor EXCEPT ![d] = q], Known, Messages)
  BY <1>4, ReplaceOK DEF Shapes
<1> QED
  BY <1>2, <1>3, <1>5, <1>6, <1>8, <1>9, QuietToParent

LEMMA QuietOrphan ==
    ASSUME Shapes, Tree, NEW d \in Dir, Orphan(d)
    PROVE  Quiet
<1> DEFINE r == [actor[d] EXCEPT !.life = "stopped"]
<1>1. /\ box' = box /\ actor' = [actor EXCEPT ![d] = r] /\ next' = next
      /\ actor[d].life = "running"
  BY DEF Orphan, ClientsOnly, Free
<1>2. RecordOK(actor[d], Known, Messages) /\ actor[d].state # NoHash
  BY <1>1, Busy
<1>3. r.state = actor[d].state /\ r.life = "stopped"
  BY <1>2 DEF RecordOK
<1> HIDE DEF r
<1>4. PICK ok : Persist(d, ok)
  BY DEF Orphan
<1> QED
  BY <1>1, <1>2, <1>3, <1>4, SameBoxes, PersistSaves, QuietOwn

-----------------------------------------------------------------------------
(***************************************************************************)
(* The order of puts: the puts to a path are in order in every mailbox and *)
(* from each mailbox to the one above it, and no snapshot is ahead of a    *)
(* put that is on its way.                                                 *)
(***************************************************************************)
Sound == ParentsExist \/ WithoutCreate

Pool == stored \cup {rootFile} \cup {actor[f].state : f \in Dir}

Behind(s, b, nx) ==
    s # NoHash =>
        /\ s.files \in [Dir -> Nat]
        /\ \A x \in Dir : s.files[x] <= nx[x]
        /\ \A f \in Dir : \A x, n : InPuts(b[f], x, n) => s.files[x] <= n

RoutedAt(acts, q, f, nx) ==
    \A x, n : InPuts(q, x, n) => /\ x \in Dir /\ f \in Up[x] /\ acts[f].life # "none"
                                 /\ n \in Nat /\ n <= nx[x]

Stacked(b) ==
    \A f, g \in Dir : f # g /\ f \in Up[g] =>
        \A x, n, k : InPuts(b[f], x, n) /\ InPuts(b[g], x, k) => k <= n

OrderIn(acts, b, P, nx) ==
    /\ \A f \in Dir : Ordered(b[f]) /\ RoutedAt(acts, b[f], f, nx)
    /\ Stacked(b)
    /\ \A s \in P : Behind(s, b, nx)

Order == OrderIn(actor, box, Pool, next)

\* The files of a snapshot were in snapshots before.
FilesFrom(s, P) ==
    \/ s = NoHash
    \/ /\ s.files = [x \in Dir |-> s.files[x]]
       /\ \A x \in Dir : s.files[x] = 0 \/ \E t \in P : t # NoHash /\ s.files[x] = t.files[x]

LEMMA FilesSame ==
    ASSUME NEW P, NEW t \in P, NEW b, NEW nx, Behind(t, b, nx), NEW s, t # NoHash,
           s.files = t.files
    PROVE  FilesFrom(s, P)
BY DEF FilesFrom, Behind

LEMMA FilesOld ==
    ASSUME NEW P, NEW s \in P, NEW b, NEW nx, Behind(s, b, nx)
    PROVE  FilesFrom(s, P)
BY DEF FilesFrom, Behind

LEMMA BehindKept ==
    ASSUME NEW acts, NEW b, NEW P, NEW nx \in [Dir -> Nat], OrderIn(acts, b, P, nx), NEW b1,
           \A f \in Dir : \A x, n : InPuts(b1[f], x, n) => \E g \in Dir : InPuts(b[g], x, n),
           NEW s, FilesFrom(s, P)
    PROVE  Behind(s, b1, nx)
<1> SUFFICES ASSUME s # NoHash PROVE Behind(s, b1, nx)
  BY DEF Behind
<1>1. /\ s.files = [x \in Dir |-> s.files[x]]
      /\ \A x \in Dir : s.files[x] = 0 \/ \E t \in P : t # NoHash /\ s.files[x] = t.files[x]
  BY DEF FilesFrom
<1>2. ASSUME NEW x \in Dir
      PROVE  /\ s.files[x] \in Nat /\ s.files[x] <= nx[x]
             /\ \A f \in Dir : \A n : InPuts(b[f], x, n) => s.files[x] <= n
  <2>1. CASE s.files[x] = 0
    <3>1. \A f \in Dir : \A n : InPuts(b[f], x, n) => n \in Nat
      BY DEF OrderIn, RoutedAt
    <3> QED
      BY <2>1, <3>1
  <2>2. CASE \E t \in P : t # NoHash /\ s.files[x] = t.files[x]
    <3>1. PICK t \in P : t # NoHash /\ s.files[x] = t.files[x]
      BY <2>2
    <3>2. Behind(t, b, nx)
      BY DEF OrderIn
    <3> QED
      BY <3>1, <3>2 DEF Behind
  <2> QED
    BY <1>1, <2>1, <2>2
<1>3. s.files \in [Dir -> Nat]
  BY <1>1, <1>2
<1>4. \A f \in Dir : \A x, n : InPuts(b[f], x, n) => x \in Dir
  BY DEF OrderIn, RoutedAt
<1>5. ASSUME NEW f \in Dir, NEW x, NEW n, InPuts(b1[f], x, n) PROVE s.files[x] <= n
  <2>1. PICK g \in Dir : InPuts(b[g], x, n)
    BY <1>5
  <2> QED
    BY <1>2, <1>4, <2>1
<1> QED
  BY <1>2, <1>3, <1>5 DEF Behind

\* Fewer puts, and no new content of a file.
LEMMA OrderLess ==
    ASSUME NEW acts, NEW b, NEW P, NEW nx \in [Dir -> Nat], OrderIn(acts, b, P, nx),
           NEW acts1, NEW b1, NEW P1,
           \A f \in Dir : Fewer(b[f], b1[f]),
           \A f \in Dir : acts[f].life # "none" => acts1[f].life # "none" \/ b1[f] = <<>>,
           \A s \in P1 : FilesFrom(s, P)
    PROVE  OrderIn(acts1, b1, P1, nx)
<1>1. \A f \in Dir : \A x, n : InPuts(b1[f], x, n) => InPuts(b[f], x, n)
  BY DEF Fewer
<1>2. ASSUME NEW f \in Dir PROVE Ordered(b1[f]) /\ RoutedAt(acts1, b1[f], f, nx)
  <2>1. Ordered(b1[f])
    BY DEF Fewer, OrderIn
  <2>2. b1[f] = <<>> => RoutedAt(acts1, b1[f], f, nx)
    BY DEF RoutedAt, InPuts
  <2>3. b1[f] # <<>> => RoutedAt(acts1, b1[f], f, nx)
    BY <1>1 DEF RoutedAt, OrderIn
  <2> QED
    BY <2>1, <2>2, <2>3
<1>3. Stacked(b1)
  BY <1>1 DEF Stacked, OrderIn
<1>4. \A s \in P1 : Behind(s, b1, nx)
  <2>1. \A f \in Dir : \A x, n : InPuts(b1[f], x, n) => \E g \in Dir : InPuts(b[g], x, n)
    BY <1>1
  <2> QED
    BY <2>1, BehindKept
<1> QED
  BY <1>2, <1>3, <1>4 DEF OrderIn

LEMMA HeadFirst ==
    ASSUME NEW M, NEW q \in Seq(M), q # <<>>, Put(Head(q))
    PROVE  /\ InPuts(q, Head(q).dir, Head(q).arg)
           /\ Ordered(q) => \A k : InPuts(Tail(q), Head(q).dir, k) => Head(q).arg <= k
<1>1. \A i \in DOMAIN Tail(q) : i \in Int /\ i + 1 \in DOMAIN q /\ 1 < i + 1
                                /\ Tail(q)[i] = q[i + 1]
  OBVIOUS
<1>2. 1 \in DOMAIN q /\ Head(q) = q[1]
  OBVIOUS
<1>3. InPuts(q, Head(q).dir, Head(q).arg)
  BY <1>2 DEF InPuts
<1>4. ASSUME Ordered(q), NEW k, InPuts(Tail(q), Head(q).dir, k) PROVE Head(q).arg <= k
  <2>1. PICK i \in DOMAIN Tail(q) : Put(Tail(q)[i]) /\ Tail(q)[i].dir = Head(q).dir /\ Tail(q)[i].arg = k
    BY <1>4 DEF InPuts
  <2>2. i + 1 \in DOMAIN q /\ 1 < i + 1 /\ Put(q[i + 1]) /\ q[i + 1].dir = q[1].dir /\ q[i + 1].arg = k
    BY <1>1, <1>2, <2>1
  <2> QED
    BY <1>2, <1>4, <2>2 DEF Ordered
<1> QED
  BY <1>3, <1>4

LEMMA AppendPut ==
    ASSUME NEW M, NEW q \in Seq(M), NEW m
    PROVE  /\ \A x, n : InPuts(Append(q, m), x, n) => InPuts(q, x, n) \/ (x = m.dir /\ n = m.arg)
           /\ Ordered(q) /\ (\A k : InPuts(q, m.dir, k) => k <= m.arg) => Ordered(Append(q, m))
<1>1. /\ \A i \in DOMAIN q : Append(q, m)[i] = q[i] /\ i \in DOMAIN Append(q, m)
      /\ Append(q, m)[Len(q) + 1] = m
      /\ \A i \in DOMAIN Append(q, m) : i \in DOMAIN q \/ i = Len(q) + 1
      /\ \A i \in DOMAIN q : i \in Int /\ i < Len(q) + 1
      /\ Len(q) \in Nat
  BY AppendFacts
<1> DEFINE p == Append(q, m)
           z == Len(q) + 1
<1>2. ASSUME NEW x, NEW n, InPuts(p, x, n) PROVE InPuts(q, x, n) \/ (x = m.dir /\ n = m.arg)
  <2>1. PICK i \in DOMAIN p : Put(p[i]) /\ p[i].dir = x /\ p[i].arg = n
    BY <1>2 DEF InPuts
  <2> QED
    BY <1>1, <2>1 DEF InPuts
<1>3. ASSUME Ordered(q), \A k : InPuts(q, m.dir, k) => k <= m.arg PROVE Ordered(p)
  <2> SUFFICES ASSUME NEW i \in DOMAIN p, NEW j \in DOMAIN p, i < j, Put(p[i]), Put(p[j]),
                      p[i].dir = p[j].dir
               PROVE  p[i].arg <= p[j].arg
    BY DEF Ordered
  <2>1. CASE j = z
    <3>1. i \in DOMAIN q
      BY <1>1, <2>1
    <3>2. InPuts(q, m.dir, p[i].arg)
      BY <1>1, <2>1, <3>1 DEF InPuts
    <3> QED
      BY <1>1, <1>3, <2>1, <3>2
  <2>2. CASE j \in DOMAIN q
    <3>1. i \in DOMAIN q
      BY <1>1, <2>2
    <3> QED
      BY <1>1, <1>3, <2>2, <3>1 DEF Ordered
  <2> QED
    BY <1>1, <2>1, <2>2
<1> QED
  BY <1>2, <1>3

\* The first message of d, a put, goes on to its child e, which is open then.
PassedOn(b, b1, M, d, e, m) ==
    /\ b \in [Dir -> Seq(M)] /\ b[d] # <<>> /\ m = Head(b[d]) /\ Put(m)
    /\ e # Root /\ Parent[e] = d /\ e \in Up[m.dir]
    /\ b1[d] = Tail(b[d]) /\ b1[e] = Append(b[e], m)
    /\ \A f \in Dir : f \notin {d, e} => b1[f] = b[f]
StayOpen(acts, acts1, e) ==
    /\ acts1[e].life # "none"
    /\ \A f \in Dir : acts[f].life # "none" => acts1[f].life # "none"

LEMMA OrderForwarded ==
    ASSUME NEW acts, NEW b, NEW P, NEW nx \in [Dir -> Nat], OrderIn(acts, b, P, nx),
           NEW M, NEW d \in Dir, NEW e \in Dir, NEW m, NEW b1, PassedOn(b, b1, M, d, e, m),
           NEW acts1, StayOpen(acts, acts1, e), NEW P1, \A s \in P1 : FilesFrom(s, P)
    PROVE  OrderIn(acts1, b1, P1, nx)
<1> USE DEF PassedOn, StayOpen
<1>1. d # e /\ d \in Up[e] /\ Up[e] = {e} \cup Up[d] /\ e \notin Up[d]
  BY TreeAssumption, UpFacts, UpStep, NoLoops
<1>2. InPuts(b[d], m.dir, m.arg) /\ \A k : InPuts(b1[d], m.dir, k) => m.arg <= k
  BY HeadFirst DEF OrderIn
<1>21. b[d] \in Seq(M) /\ b[e] \in Seq(M) /\ Fewer(b[d], b1[d])
  BY FewerTail
<1>22. /\ \A x, n : InPuts(b1[e], x, n) => InPuts(b[e], x, n) \/ (x = m.dir /\ n = m.arg)
       /\ Ordered(b[e]) /\ (\A k : InPuts(b[e], m.dir, k) => k <= m.arg) => Ordered(b1[e])
  BY <1>21, AppendPut
<1>3. ASSUME NEW f \in Dir, NEW x, NEW n, InPuts(b1[f], x, n)
      PROVE  InPuts(b[f], x, n) \/ (f = e /\ x = m.dir /\ n = m.arg)
  <2>1. CASE f = d
    BY <1>3, <1>21, <2>1 DEF Fewer
  <2>2. CASE f = e
    BY <1>3, <1>22, <2>2
  <2> QED
    BY <1>3, <2>1, <2>2
<1>4. m.dir \in Dir /\ m.arg \in Nat /\ m.arg <= nx[m.dir]
  BY <1>2 DEF OrderIn, RoutedAt
<1>5. \A k : InPuts(b[e], m.dir, k) => k <= m.arg
  BY <1>1, <1>2 DEF OrderIn, Stacked
<1>6. ASSUME NEW f \in Dir PROVE Ordered(b1[f])
  <2>1. Ordered(b[f])
    BY DEF OrderIn
  <2>2. CASE f = d
    BY <1>21, <2>1, <2>2 DEF Fewer
  <2>3. CASE f = e
    BY <1>5, <1>22, <2>1, <2>3
  <2> QED
    BY <2>1, <2>2, <2>3
<1>7. ASSUME NEW f \in Dir PROVE RoutedAt(acts1, b1[f], f, nx)
  <2> SUFFICES ASSUME NEW x, NEW n, InPuts(b1[f], x, n)
               PROVE  /\ x \in Dir /\ f \in Up[x] /\ acts1[f].life # "none"
                      /\ n \in Nat /\ n <= nx[x]
    BY DEF RoutedAt
  <2>1. CASE InPuts(b[f], x, n)
    BY <2>1 DEF OrderIn, RoutedAt
  <2>2. CASE f = e /\ x = m.dir /\ n = m.arg
    BY <1>4, <2>2
  <2> QED
    BY <1>3, <2>1, <2>2
<1>8. Stacked(b1)
  <2> SUFFICES ASSUME NEW f \in Dir, NEW g \in Dir, f # g, f \in Up[g], NEW x, NEW n, NEW k,
                      InPuts(b1[f], x, n), InPuts(b1[g], x, k)
               PROVE  k <= n
    BY DEF Stacked
  <2>0. \A f1, g1 \in Dir : f1 # g1 /\ f1 \in Up[g1] =>
          \A x1, n1, k1 : InPuts(b[f1], x1, n1) /\ InPuts(b[g1], x1, k1) => k1 <= n1
    BY DEF OrderIn, Stacked
  <2>1. CASE InPuts(b[f], x, n) /\ InPuts(b[g], x, k)
    BY <2>0, <2>1
  <2>2. CASE f = e /\ x = m.dir /\ n = m.arg
    <3>1. InPuts(b[g], x, k)
      BY <1>3, <2>2
    <3>2. d \in Up[g] /\ d # g
      BY <1>1, <2>2, UpTrans
    <3> QED
      BY <1>2, <2>0, <2>2, <3>1, <3>2
  <2>3. CASE g = e /\ x = m.dir /\ k = m.arg
    <3>1. f \in Up[d] /\ InPuts(b[f], x, n)
      BY <1>1, <1>3, <2>3
    <3>2. CASE f = d
      BY <1>2, <2>3, <3>2
    <3>3. CASE f # d
      BY <1>2, <2>0, <2>3, <3>1, <3>3
    <3> QED
      BY <3>2, <3>3
  <2> QED
    BY <1>3, <2>1, <2>2, <2>3
<1>9. \A s \in P1 : Behind(s, b1, nx)
  <2>1. \A f \in Dir : \A x, n : InPuts(b1[f], x, n) => \E g \in Dir : InPuts(b[g], x, n)
    BY <1>2, <1>3
  <2> QED
    BY <2>1, BehindKept
<1> QED
  BY <1>6, <1>7, <1>8, <1>9 DEF OrderIn

LEMMA RootAbove == ASSUME NEW x \in Dir PROVE Root \in Up[x]
<1> DEFINE S == {z \in Dir : Root \in Up[z]}
<1>1. Root \in S
  BY TreeAssumption, UpFacts
<1>2. \A z \in Dir \ {Root} : Parent[z] \in S => z \in S
  BY UpStep
<1>3. S = Dir
  BY <1>1, <1>2, PathAssumption
<1> QED
  BY <1>3

\* A client puts the next content of path d.
LEMMA OrderPosted ==
    ASSUME NEW acts, NEW b, NEW P, NEW nx \in [Dir -> Nat], OrderIn(acts, b, P, nx),
           NEW M, b \in [Dir -> Seq(M)], NEW m, m.dir \in Dir, m.arg = nx[m.dir] + 1,
           acts[Root].life # "none",
           NEW b1, b1 = [b EXCEPT ![Root] = Append(@, m)],
           NEW nx1, nx1 = [nx EXCEPT ![m.dir] = @ + 1]
    PROVE  OrderIn(acts, b1, P, nx1)
<1>1. /\ Root \in Dir /\ b1[Root] = Append(b[Root], m) /\ b[Root] \in Seq(M)
      /\ \A f \in Dir : f # Root => b1[f] = b[f]
  BY TreeAssumption
<1>2. nx1 \in [Dir -> Nat] /\ nx1[m.dir] = m.arg /\ \A x \in Dir : nx[x] <= nx1[x]
  OBVIOUS
<1>3. ASSUME NEW f \in Dir, NEW x, NEW n, InPuts(b1[f], x, n)
      PROVE  InPuts(b[f], x, n) \/ (f = Root /\ x = m.dir /\ n = m.arg)
  BY <1>1, <1>3, AppendPut
<1>4. ASSUME NEW f \in Dir, NEW x, NEW n, InPuts(b[f], x, n)
      PROVE  /\ x \in Dir /\ f \in Up[x] /\ acts[f].life # "none" /\ n \in Nat
             /\ n <= nx[x] /\ n <= nx1[x] /\ (x = m.dir => n <= m.arg)
  <2>1. /\ x \in Dir /\ f \in Up[x] /\ acts[f].life # "none" /\ n \in Nat
        /\ n <= nx[x]
    BY <1>4 DEF OrderIn, RoutedAt
  <2> QED
    BY <1>2, <2>1
<1>5. ASSUME NEW f \in Dir PROVE Ordered(b1[f]) /\ RoutedAt(acts, b1[f], f, nx1)
  <2>1. Ordered(b[f])
    BY DEF OrderIn
  <2>2. Ordered(b1[f])
    BY <1>1, <1>4, <2>1, AppendPut
  <2>3. RoutedAt(acts, b1[f], f, nx1)
    <3> SUFFICES ASSUME NEW x, NEW n, InPuts(b1[f], x, n)
                 PROVE  /\ x \in Dir /\ f \in Up[x] /\ acts[f].life # "none"
                        /\ n \in Nat /\ n <= nx1[x]
      BY DEF RoutedAt
    <3>1. CASE InPuts(b[f], x, n)
      BY <1>4, <3>1
    <3>2. CASE f = Root /\ x = m.dir /\ n = m.arg
      BY <1>2, <3>2, RootAbove
    <3> QED
      BY <1>3, <3>1, <3>2
  <2> QED
    BY <2>2, <2>3
<1>6. Stacked(b1)
  <2> SUFFICES ASSUME NEW f \in Dir, NEW g \in Dir, f # g, f \in Up[g], NEW x, NEW n, NEW k,
                      InPuts(b1[f], x, n), InPuts(b1[g], x, k)
               PROVE  k <= n
    BY DEF Stacked
  <2>1. g # Root
    BY UpRoot
  <2>2. InPuts(b[g], x, k)
    BY <1>1, <2>1
  <2>3. CASE InPuts(b[f], x, n)
    BY <2>2, <2>3 DEF OrderIn, Stacked
  <2>4. CASE x = m.dir /\ n = m.arg
    BY <1>4, <2>2, <2>4
  <2> QED
    BY <1>3, <2>3, <2>4
<1>7. ASSUME NEW s \in P PROVE Behind(s, b1, nx1)
  <2> SUFFICES ASSUME s # NoHash PROVE Behind(s, b1, nx1)
    BY DEF Behind
  <2>1. /\ s.files \in [Dir -> Nat]
        /\ \A x \in Dir : s.files[x] <= nx[x]
        /\ \A f \in Dir : \A x, n : InPuts(b[f], x, n) => s.files[x] <= n
    BY DEF OrderIn, Behind
  <2>2. \A x \in Dir : s.files[x] <= nx1[x]
    BY <1>2, <2>1
  <2>3. \A f \in Dir : \A x, n : InPuts(b1[f], x, n) => s.files[x] <= n
    BY <1>2, <1>3, <2>1, <2>2
  <2> QED
    BY <2>1, <2>2, <2>3 DEF Behind
<1> QED
  BY <1>5, <1>6, <1>7 DEF OrderIn

-----------------------------------------------------------------------------
(* What the steps that are not quiet do to the snapshots.                   *)

\* At most an entry of directory p is replaced.
Entered(p, e, h) ==
    /\ \A f \in Dir : actor'[f].life = "none" <=> actor[f].life = "none"
    /\ \A f \in Dir : f # p => actor'[f].state = actor[f].state
    /\ \/ actor'[p].state = actor[p].state
       \/ /\ actor[p].state # NoHash /\ e \in DOMAIN actor[p].state.dirs
          /\ actor'[p].state = [actor[p].state EXCEPT !.dirs[e] = h]
    /\ Boxes /\ SavesOnly /\ next' = next

LEMMA EntryFiles ==
    ASSUME NEW s, NEW S, Snap(s, S), NEW e, NEW h
    PROVE  /\ [s EXCEPT !.dirs[e] = h].files = s.files
           /\ [s EXCEPT !.dirs[e] = h].dirs = [s.dirs EXCEPT ![e] = h]
           /\ [s EXCEPT !.dirs[e] = h] # NoHash
<1> DEFINE q == [s EXCEPT !.dirs[e] = h]
<1>1. s = [files |-> s.files, dirs |-> s.dirs]
  BY DEF Snap, Snapshot
<1>2. q = [files |-> s.files, dirs |-> [s.dirs EXCEPT ![e] = h]]
  BY <1>1
<1>3. "files" \in DOMAIN q /\ "files" \notin DOMAIN NoHash
  BY <1>2 DEF NoHash
<1> QED
  BY <1>2, <1>3

LEMMA SaveDoneEnters ==
    ASSUME Shapes, Tree, NEW d \in Dir, SaveDone(d)
    PROVE  \/ Quiet
           \/ \E p \in Dir : Entered(p, d, actor[d].state) /\ actor[d].state \in stored'
<1> DEFINE from == actor[d].task.from
           r == [actor[d] EXCEPT !.task = Idle]
           hash(ok) == IF ok /\ r.dirty THEN r.state ELSE NoHash
<1>1. RecordOK(actor[d], Known, Messages) /\ actor[d].state # NoHash
  BY Busy DEF SaveDone, ChildrenDone
<1>2. /\ RecordOK(r, Known, Messages) /\ r.state = actor[d].state /\ r.life = actor[d].life
      /\ r.dirty \in BOOLEAN
  BY <1>1, IdleOK DEF RecordOK
<1>3. PICK ok \in IF r.dirty THEN Outcome ELSE {TRUE} :
        /\ Persist(d, ok /\ r.dirty)
        /\ actor' = ToParent([actor EXCEPT ![d] = Arm([r EXCEPT !.dirty = @ /\ ~ok])],
                             from, d, hash(ok))
  BY DEF SaveDone
<1>4. config' = config /\ box' = box /\ next' = next
  BY DEF SaveDone, ClientsOnly
<1>5. /\ Known \subseteq Known' /\ Messages \subseteq Messages'
      /\ ok /\ r.dirty => actor[d].state \in stored'
  BY <1>1, <1>3, <1>4, PersistFacts
<1>6. Boxes /\ SavesOnly
  BY <1>1, <1>3, <1>4, PersistSaves, SameBoxes
<1> HIDE DEF r
<1> DEFINE b == r.dirty /\ ~ok
           q == [r EXCEPT !.dirty = b]
           a == Arm(q)
           h == hash(ok)
<1>7. RecordOK(q, Known', Messages') /\ q.life = r.life /\ q.state = r.state
  <2>1. RecordOK(r, Known', Messages') /\ b \in BOOLEAN
    BY <1>2, <1>5, RecordGrows
  <2> HIDE DEF b
  <2> QED
    BY <2>1, DirtyOK
<1>8. h = NoHash \/ (h = actor[d].state /\ h \in stored' /\ h \in Known')
  BY <1>2, <1>5 DEF Known
<1>9. actor' = ToParent([actor EXCEPT ![d] = a], from, d, h)
  BY <1>3
<1> HIDE DEF q, h
<1>10. RecordOK(a, Known', Messages') /\ a.life = actor[d].life /\ a.state = actor[d].state
  BY <1>2, <1>7, ArmFacts
<1> HIDE DEF a
<1> DEFINE mid == [actor EXCEPT ![d] = a]
<1>11. ActorsOK(mid, Known', Messages')
  <2>1. ActorsOK(actor, Known', Messages')
    BY <1>5, ActorsGrow DEF Shapes
  <2> QED
    BY <1>10, <2>1, ReplaceOK
<1>12. \A f \in Dir : mid[f].state = actor[f].state /\ mid[f].life = actor[f].life
  BY <1>10 DEF Shapes, ActorsOK
<1>13. actor' = ToParent(mid, from, d, h)
  BY <1>9
<1> HIDE DEF mid, from
<1>14. AnswerTo(mid, actor', from, d, h)
  BY <1>8, <1>11, <1>13, ToParentFacts
<1>15. \A f \in Dir : actor'[f].life = actor[f].life
  BY <1>12, <1>14 DEF AnswerTo
<1>16. CASE h = NoHash \/ from \notin Dir
  <2>1. \A f \in Dir : actor'[f].state = mid[f].state
    BY <1>14, <1>16 DEF AnswerTo
  <2>2. Steady
    BY <1>12, <1>15, <2>1 DEF Steady
  <2> QED
    BY <1>4, <1>6, <2>2 DEF Quiet
<1>17. CASE h = actor[d].state /\ h \in stored' /\ from \in Dir
  <2>1. \A f \in Dir : f # from => actor'[f].state = actor[f].state
    BY <1>12, <1>14 DEF AnswerTo
  <2>2. \/ actor'[from].state = mid[from].state
        \/ /\ mid[from].state # NoHash /\ d \in DOMAIN mid[from].state.dirs
           /\ actor'[from].state = [mid[from].state EXCEPT !.dirs[d] = h]
    BY <1>14, <1>17 DEF AnswerTo
  <2>3. mid[from].state = actor[from].state
    BY <1>12, <1>17
  <2>4. \/ actor'[from].state = actor[from].state
        \/ /\ actor[from].state # NoHash /\ d \in DOMAIN actor[from].state.dirs
           /\ actor'[from].state = [actor[from].state EXCEPT !.dirs[d] = actor[d].state]
    BY <1>17, <2>2, <2>3
  <2>5. Entered(from, d, actor[d].state)
    BY <1>4, <1>6, <1>15, <2>1, <2>4 DEF Entered
  <2> QED
    BY <1>17, <2>5
<1> QED
  BY <1>8, <1>16, <1>17

LEMMA UpdateEnters ==
    ASSUME Shapes, Tree, NEW d \in Dir, UpdateDirRefHash(d)
    PROVE  Entered(d, Head(box[d]).dir, Head(box[d]).arg)
<1> DEFINE m == Head(box[d])
           q == [actor[d] EXCEPT !.state.dirs[m.dir] = m.arg]
           s == [actor[d].state EXCEPT !.dirs[m.dir] = m.arg]
           x == MarkAsDirty(d, q, None)
<1>1. /\ m \in Messages /\ m.op = "update_ref" /\ actor[d].life = "running"
      /\ RecordOK(actor[d], Known, Messages) /\ Snap(actor[d].state, Known)
      /\ actor[d].state # NoHash /\ actor[d].task = Idle
  BY Receiving DEF UpdateDirRefHash
<1>2. Boxes /\ SavesOnly /\ next' = next
  BY TakenBoxes, SameSaves DEF UpdateDirRefHash, ClientsOnly
<1>3. \/ actor' = [actor EXCEPT ![d] = actor[d]]
      \/ m.dir \in DOMAIN actor[d].state.dirs /\ actor' = [actor EXCEPT ![d] = x]
  BY DEF UpdateDirRefHash
<1>4. m.arg \in Known
  BY <1>1 DEF Messages, Known
<1>5. q = [actor[d] EXCEPT !.state = s]
  BY <1>1 DEF RecordOK
<1>6. Snap(s, Known)
  BY <1>1, <1>4, EntryOK
<1> HIDE DEF q
<1>7. Changed(d, q) /\ q.state = s
  <2> HIDE DEF s
  <2>1. Changed(d, q)
    BY <1>5, <1>6, StateChanged
  <2> QED
    BY <1>1, <1>5, <2>1 DEF RecordOK
<1>8. x.state = s /\ x.life = "running"
  <2>1. Marked(d, q, x, None)
    BY <1>1, <1>7, ChangedMarks DEF Senders
  <2> HIDE DEF x, s
  <2> QED
    BY <1>1, <1>7, <2>1 DEF Marked, Changed, OnlyState
<1> HIDE DEF x, m
<1>9. CASE actor' = [actor EXCEPT ![d] = actor[d]]
  <2>1. actor' = actor
    BY <1>9 DEF Shapes, ActorsOK
  <2> QED
    BY <1>2, <2>1 DEF Entered
<1>10. CASE m.dir \in DOMAIN actor[d].state.dirs /\ actor' = [actor EXCEPT ![d] = x]
  <2>1. actor'[d] = x /\ \A f \in Dir : f # d => actor'[f] = actor[f]
    BY <1>10 DEF Shapes, ActorsOK
  <2> QED
    BY <1>1, <1>2, <1>8, <1>10, <2>1 DEF Entered, m
<1> QED
  BY <1>3, <1>9, <1>10

\* A read changes no directory; a put one file of it.
Filed(d, x, n) ==
    /\ actor'[d].state = [actor[d].state EXCEPT !.files[x] = n]
    /\ actor'[d].life # "none"
    /\ \A f \in Dir : f # d => actor'[f] = actor[f]

LEMMA FileOpFiles ==
    ASSUME Shapes, Tree, NEW d \in Dir, FileOp(d)
    PROVE  /\ Head(box[d]).op = "file_get" => Quiet
           /\ Head(box[d]).op # "file_get" =>
                 Put(Head(box[d])) /\ Filed(d, Head(box[d]).dir, Head(box[d]).arg)
<1> DEFINE m == Head(box[d])
           s == [actor[d].state EXCEPT !.files[m.dir] = m.arg]
           r == IF m.op = "file_get" THEN actor[d]
                ELSE [actor[d] EXCEPT !.state.files[m.dir] = m.arg]
           x == MarkAsDirty(d, r, None)
<1>1. /\ m \in Messages /\ m.op \in {"file_put", "file_put_sync", "file_get"}
      /\ actor[d].life = "running"
      /\ RecordOK(actor[d], Known, Messages) /\ Snap(actor[d].state, Known)
      /\ actor[d].state # NoHash /\ actor[d].task = Idle
  BY Receiving DEF FileOp
<1>2. Boxes /\ SavesOnly /\ next' = next
  BY TakenBoxes, SameSaves DEF FileOp, ClientsOnly
<1>3. actor' = [actor EXCEPT ![d] = x]
  BY DEF FileOp
<1>4. [actor[d] EXCEPT !.state.files[m.dir] = m.arg] = [actor[d] EXCEPT !.state = s]
  BY <1>1 DEF RecordOK
<1>5. Snap(s, Known)
  BY <1>1, FilesOK
<1>6. CASE m.op = "file_get"
  <2>1. r = actor[d] /\ Changed(d, actor[d])
    BY <1>1, <1>6 DEF Changed, OnlyState
  <2> HIDE DEF r
  <2>2. Marked(d, r, x, None)
    BY <1>1, <2>1, ChangedMarks DEF Senders
  <2> HIDE DEF x
  <2>3. x.state = actor[d].state /\ x.life = "running"
    BY <1>1, <2>1, <2>2 DEF Marked
  <2>4. Quiet
    BY <1>1, <1>2, <1>3, <2>3, QuietOwn
  <2> QED
    BY <1>6, <2>4
<1>7. CASE m.op # "file_get"
  <2>1. r = [actor[d] EXCEPT !.state = s]
    BY <1>4, <1>7
  <2> HIDE DEF r
  <2>2. Changed(d, r) /\ r.state = s
    <3> HIDE DEF s
    <3>1. Changed(d, r)
      BY <1>5, <2>1, StateChanged
    <3> QED
      BY <1>1, <2>1, <3>1 DEF RecordOK
  <2>3. Marked(d, r, x, None)
    BY <1>1, <2>2, ChangedMarks DEF Senders
  <2> HIDE DEF x
  <2>4. x.state = s /\ x.life = "running"
    <3> HIDE DEF s
    <3> QED
      BY <1>1, <2>2, <2>3 DEF Marked, Changed, OnlyState
  <2>5. actor'[d] = x /\ \A f \in Dir : f # d => actor'[f] = actor[f]
    BY <1>3 DEF Shapes, ActorsOK
  <2>6. Filed(d, m.dir, m.arg)
    BY <2>4, <2>5 DEF Filed
  <2>7. Put(m)
    BY <1>1, <1>7 DEF Put
  <2> QED
    BY <1>7, <2>6, <2>7
<1> QED
  BY <1>6, <1>7

\* A child e is opened with its entry of directory d, if it was not open.
Opened(d, e) ==
    \/ actor' = actor /\ actor[e].life # "none"
    \/ /\ actor[e].life = "none"
       /\ actor'[e].state = actor[d].state.dirs[e] /\ actor'[e].life = "loading"
       /\ \A f \in Dir : f # e => actor'[f] = actor[f]

LEMMA ForwardOpens ==
    ASSUME Shapes, Tree, NEW d \in Dir, Forward(d)
    PROVE  \/ Quiet /\ box' = Take(d) /\ acked' = acked /\ \E f \in Dir : actor'[f].life = "stopped"
           \/ \E e \in Dir :
                /\ e = FirstOf(d, Head(box[d])) /\ e # Root /\ Parent[e] = d /\ e # d
                /\ e \in DOMAIN actor[d].state.dirs
                /\ box'[d] = Tail(box[d]) /\ box'[e] = Append(box[e], Head(box[d]))
                /\ \A f \in Dir : f \notin {d, e} => box'[f] = box[f]
                /\ Opened(d, e) /\ UNCHANGED <<stored, rootFile, next, acked>>
<1> DEFINE m == Head(box[d])
           e == FirstOf(d, m)
           new == Spawn("loading", d, actor[d].state.dirs[e], actor[d].auto)
<1>0. Receives(d, PathOps) /\ UNCHANGED <<stored, rootFile, next>>
  BY DEF Forward, ClientsOnly
<1>1. /\ Take(d) \in [Dir -> Seq(Messages)] /\ m.op \in PathOps /\ Snap(actor[d].state, Known)
      /\ actor[d].life = "running" /\ actor[d].state # NoHash
  BY <1>0, Receiving
<1>2. e \in DOMAIN actor[d].state.dirs /\ e \in Dir
  BY <1>1 DEF Forward, Snap
<1>3. e # Root /\ Parent[e] = d
  BY <1>1, <1>2, OnlyRoot DEF ActorFits, Fits
<1>4. e # d
  BY <1>2, <1>3, TreeAssumption
<1>5. CASE /\ box' = Take(d) /\ UNCHANGED actor /\ actor[e].life = "stopped"
           /\ Answer(None, {m.from})
  <2>1. Quiet
    BY <1>0, <1>5, TakenBoxes, SameSaves, QuietSame
  <2>2. acked' = acked
    BY <1>5, TreeAssumption DEF Answer, NoCall
  <2> QED
    BY <1>2, <1>5, <2>1, <2>2
<1>6. CASE /\ box' = [Take(d) EXCEPT ![e] = Append(@, m)] /\ NoAnswer
           /\ actor' = IF actor[e].life # "none" THEN actor ELSE [actor EXCEPT ![e] = new]
  <2>1. new.life = "loading" /\ new.state = actor[d].state.dirs[e]
    BY DEF Spawn
  <2> HIDE DEF e, m, new
  <2>2. /\ Take(d)[d] = Tail(box[d]) /\ \A f \in Dir : f # d => Take(d)[f] = box[f]
    BY DEF Take, Shapes
  <2>3. /\ box'[e] = Append(Take(d)[e], m) /\ \A f \in Dir : f # e => box'[f] = Take(d)[f]
    BY <1>1, <1>2, <1>6
  <2>4. Opened(d, e)
    <3>1. CASE actor[e].life # "none"
      BY <1>6, <3>1 DEF Opened
    <3>2. CASE actor[e].life = "none"
      <4>1. actor'[e] = new /\ \A f \in Dir : f # e => actor'[f] = actor[f]
        BY <1>2, <1>6, <3>2 DEF Shapes, ActorsOK
      <4> QED
        BY <2>1, <3>2, <4>1 DEF Opened
    <3> QED
      BY <3>1, <3>2
  <2>5. /\ box'[d] = Tail(box[d]) /\ box'[e] = Append(box[e], m)
        /\ \A f \in Dir : f \notin {d, e} => box'[f] = box[f]
    BY <1>2, <1>4, <2>2, <2>3
  <2>6. e = FirstOf(d, Head(box[d])) /\ m = Head(box[d]) /\ acked' = acked
    BY <1>6 DEF e, m, NoAnswer
  <2> QED
    BY <1>0, <1>2, <1>3, <1>4, <2>4, <2>5, <2>6
<1> QED
  BY <1>5, <1>6 DEF Forward

-----------------------------------------------------------------------------
LEMMA OrderPrimed == OrderIn(actor', box', Pool', next') => Order'
BY DEF Order, OrderIn, RoutedAt, Stacked, Behind, InPuts, Ordered, Put

LEMMA PoolFiles == ASSUME Order, NEW s \in Pool PROVE FilesFrom(s, Pool)
<1>1. Behind(s, box, next)
  BY DEF Order, OrderIn
<1> QED
  BY <1>1, FilesOld

LEMMA PoolSaved ==
    ASSUME SavesOnly
    PROVE  \A s \in Pool' : s \in Pool \/ \E f \in Dir : s = actor'[f].state
<1>1. Root \in Dir
  BY TreeAssumption
<1> QED
  BY <1>1 DEF Pool, SavesOnly

LEMMA OrderStep ==
    ASSUME Shapes, Order, Boxes, SavesOnly, next' = next,
           \A f \in Dir : actor[f].life # "none" => actor'[f].life # "none" \/ box'[f] = <<>>,
           \A f \in Dir : FilesFrom(actor'[f].state, Pool)
    PROVE  Order'
<1>1. \A s \in Pool' : FilesFrom(s, Pool)
  BY PoolSaved, PoolFiles
<1>2. OrderIn(actor, box, Pool, next) /\ next \in [Dir -> Nat]
  BY DEF Order, Shapes
<1>3. \A f \in Dir : Fewer(box[f], box'[f])
  BY DEF Boxes
<1>4. OrderIn(actor', box', Pool', next)
  BY <1>1, <1>2, <1>3, OrderLess
<1> QED
  BY <1>4, OrderPrimed

LEMMA OrderQuiet == ASSUME Shapes, Order, Quiet PROVE Order'
<1>1. \A f \in Dir : FilesFrom(actor'[f].state, Pool)
  BY PoolFiles DEF Quiet, Steady, Pool
<1> QED
  BY <1>1, OrderStep DEF Quiet, Steady

LEMMA OrderEntered ==
    ASSUME Shapes, Order, NEW p \in Dir, NEW e, NEW h, Entered(p, e, h)
    PROVE  Order'
<1>1. \A f \in Dir : FilesFrom(actor[f].state, Pool)
  BY PoolFiles DEF Pool
<1>2. ASSUME NEW f \in Dir PROVE FilesFrom(actor'[f].state, Pool)
  <2>1. CASE actor'[f].state = actor[f].state
    BY <1>1, <2>1
  <2>2. CASE /\ f = p /\ actor[p].state # NoHash
             /\ actor'[p].state = [actor[p].state EXCEPT !.dirs[e] = h]
    <3>1. Snap(actor[p].state, Known)
      BY <2>2 DEF Shapes, ActorsOK, RecordOK
    <3>2. actor'[p].state.files = actor[p].state.files
      BY <2>2, <3>1, EntryFiles
    <3>3. actor[p].state \in Pool
      BY DEF Pool
    <3>4. Behind(actor[p].state, box, next)
      BY <3>3 DEF Order, OrderIn
    <3> QED
      BY <2>2, <3>2, <3>3, <3>4, FilesSame
  <2> QED
    BY <2>1, <2>2 DEF Entered
<1> QED
  BY <1>2, OrderStep DEF Entered

LEMMA OrderForward ==
    ASSUME Shapes, Tree, Order, NEW d \in Dir, Forward(d)
    PROVE  Order'
<1>1. CASE Quiet
  BY <1>1, OrderQuiet
<1>2. ASSUME NEW e \in Dir,
             e = FirstOf(d, Head(box[d])), e # Root, Parent[e] = d, e # d,
             e \in DOMAIN actor[d].state.dirs,
             box'[d] = Tail(box[d]), box'[e] = Append(box[e], Head(box[d])),
             \A f \in Dir : f \notin {d, e} => box'[f] = box[f],
             Opened(d, e), UNCHANGED <<stored, rootFile, next>>
      PROVE  Order'
  <2> DEFINE m == Head(box[d])
  <2>1. /\ box \in [Dir -> Seq(Messages)] /\ box[d] # <<>> /\ m \in Messages /\ m.dir \in Dir
        /\ m.op \in PathOps /\ Snap(actor[d].state, Known)
    <3>1. Receives(d, PathOps)
      BY DEF Forward
    <3>2. m \in Messages /\ m.op \in PathOps /\ Snap(actor[d].state, Known)
      BY <3>1, Receiving
    <3> QED
      BY <3>1, <3>2 DEF Shapes, Receives, Messages
  <2>2. actor'[e].life # "none" /\ \A f \in Dir : actor[f].life # "none" => actor'[f].life # "none"
    BY <1>2 DEF Opened
  <2>3. ASSUME NEW f \in Dir PROVE FilesFrom(actor'[f].state, Pool)
    <3>1. \A s \in Pool : FilesFrom(s, Pool)
      BY PoolFiles
    <3>2. actor[d].state.dirs[e] \in stored \cup {NoHash}
      BY <1>2, <2>1 DEF Snap, Known
    <3>3. FilesFrom(actor[d].state.dirs[e], Pool)
      BY <3>1, <3>2 DEF Pool, FilesFrom
    <3>4. FilesFrom(actor[f].state, Pool)
      BY <3>1 DEF Pool
    <3> QED
      BY <1>2, <3>3, <3>4 DEF Opened
  <2>4. SavesOnly
    BY <1>2, SameSaves
  <2>5. CASE ~Put(m)
    <3>1. ASSUME NEW f \in Dir PROVE Fewer(box[f], box'[f])
      <4>1. box[f] \in Seq(Messages)
        BY <2>1
      <4>2. CASE f = d
        BY <1>2, <2>1, <4>1, <4>2, FewerTail
      <4>3. CASE f = e
        BY <1>2, <2>5, <4>1, <4>3, FewerAppend
      <4> QED
        BY <1>2, <4>2, <4>3, FewerSame
    <3> QED
      BY <1>2, <2>2, <2>3, <2>4, <3>1, OrderStep DEF Boxes
  <2>6. CASE Put(m)
    <3>1. OrderIn(actor, box, Pool, next) /\ next \in [Dir -> Nat]
      BY DEF Order, Shapes
    <3>2. e \in Up[m.dir]
      <4>1. InPuts(box[d], m.dir, m.arg)
        <5>1. box[d] \in Seq(Messages)
          BY <2>1
        <5> QED
          BY <2>1, <2>6, <5>1, HeadFirst
      <4>2. d \in Up[m.dir]
        BY <3>1, <4>1 DEF OrderIn, RoutedAt
      <4>3. Above(d, m.dir)
        <5> SUFFICES ASSUME ~Above(d, m.dir) PROVE FALSE
          OBVIOUS
        <5>1. e = None
          BY <1>2, <2>6 DEF FirstOf, Put
        <5> QED
          BY <5>1, TreeAssumption
      <4> QED
        BY <1>2, <2>1, <4>3, FirstFacts
    <3>3. \A s \in Pool' : FilesFrom(s, Pool)
      BY <2>3, <2>4, PoolSaved, PoolFiles
    <3> HIDE DEF m
    <3>4. m = Head(box[d])
      BY DEF m
    <3>41. /\ box'[d] = Tail(box[d]) /\ box'[e] = Append(box[e], m)
           /\ \A f \in Dir : f \notin {d, e} => box'[f] = box[f]
      BY <1>2, <3>4
    <3>42. box \in [Dir -> Seq(Messages)] /\ box[d] # <<>> /\ e # Root /\ Parent[e] = d
      BY <1>2, <2>1
    <3>5. OrderIn(actor', box', Pool', next)
      <4>1. PassedOn(box, box', Messages, d, e, m)
        BY <2>6, <3>2, <3>4, <3>41, <3>42 DEF PassedOn
      <4>2. StayOpen(actor, actor', e)
        BY <2>2 DEF StayOpen
      <4> QED
        BY <3>1, <3>3, <4>1, <4>2, OrderForwarded
    <3> QED
      BY <1>2, <3>5, OrderPrimed
  <2> QED
    BY <2>5, <2>6
<1> QED
  BY <1>1, <1>2, ForwardOpens

\* When a put is carried out, the puts to its path that are on their way are later.
LEMMA LaterPuts ==
    ASSUME Shapes, Tree, Order, NEW d \in Dir, FileOp(d), Put(Head(box[d])),
           NEW f \in Dir, NEW k, InPuts(box'[f], Head(box[d]).dir, k)
    PROVE  Head(box[d]).arg <= k
<1> DEFINE m == Head(box[d])
<1>1. /\ Receives(d, {"file_put", "file_put_sync", "file_get"}) /\ box' = Take(d)
      /\ FirstOf(d, m) \notin DOMAIN actor[d].state.dirs
  BY DEF FileOp, IsLocal
<1>2. box[d] # <<>> /\ box[d] \in Seq(Messages) /\ m \in Messages /\ m.dir \in Dir
  <2>1. m \in Messages
    BY <1>1, Receiving
  <2> QED
    BY <1>1, <2>1 DEF Receives, Shapes, Messages
<1>3. InPuts(box[d], m.dir, m.arg) /\ \A n : InPuts(Tail(box[d]), m.dir, n) => m.arg <= n
  BY <1>2, HeadFirst DEF Order, OrderIn
<1>4. CASE f = d
  <2>1. box'[f] = Tail(box[d])
    BY <1>1, <1>4 DEF Take, Shapes
  <2> QED
    BY <1>3, <2>1
<1>5. CASE f # d
  <2>1. InPuts(box[f], m.dir, k)
    BY <1>1, <1>5 DEF Take, Shapes
  <2>2. d \in Up[m.dir] /\ f \in Up[m.dir] /\ actor[f].life # "none"
    BY <1>3, <2>1 DEF Order, OrderIn, RoutedAt
  <2>3. f \in Up[d] \/ d \in Up[f]
    BY <1>2, <2>2, UpChain
  <2>4. d \notin Up[f]
    BY <1>1, <1>2, <1>5, <2>2, WayIsOpen
  <2> QED
    BY <1>3, <1>5, <2>1, <2>3, <2>4 DEF Order, OrderIn, Stacked
<1> QED
  BY <1>4, <1>5

LEMMA FiledState ==
    ASSUME NEW s, NEW S, Snap(s, S), NEW x \in Dir, NEW n, s.files \in [Dir -> Nat]
    PROVE  /\ [s EXCEPT !.files[x] = n].files = [s.files EXCEPT ![x] = n]
           /\ [s EXCEPT !.files[x] = n].dirs = s.dirs
BY DEF Snap, Snapshot

LEMMA OrderFileOp ==
    ASSUME Shapes, Tree, Order, NEW d \in Dir, FileOp(d)
    PROVE  Order'
<1> DEFINE m == Head(box[d])
<1>1. CASE m.op = "file_get"
  BY <1>1, FileOpFiles, OrderQuiet
<1>2. CASE m.op # "file_get"
  <2>1. Put(m) /\ Filed(d, m.dir, m.arg)
    BY <1>2, FileOpFiles
  <2>2. /\ m \in Messages /\ m.dir \in Dir /\ Snap(actor[d].state, Known)
        /\ actor[d].state # NoHash /\ actor[d].life = "running"
        /\ box[d] \in Seq(Messages) /\ box[d] # <<>>
    <3>1. Receives(d, {"file_put", "file_put_sync", "file_get"})
      BY DEF FileOp
    <3>2. /\ m \in Messages /\ Snap(actor[d].state, Known)
          /\ actor[d].state # NoHash /\ actor[d].life = "running"
      BY <3>1, Receiving
    <3> QED
      BY <3>1, <3>2 DEF Receives, Shapes, Messages
  <2>3. Boxes /\ SavesOnly /\ next' = next /\ UNCHANGED <<stored, rootFile>>
    BY TakenBoxes, SameSaves DEF FileOp, ClientsOnly
  <2>4. OrderIn(actor, box, Pool, next) /\ next \in [Dir -> Nat]
    BY DEF Order, Shapes
  <2>5. m.arg \in Nat /\ m.arg <= next[m.dir]
    <3>1. InPuts(box[d], m.dir, m.arg)
      BY <2>1, <2>2, HeadFirst
    <3> QED
      BY <2>4, <3>1 DEF OrderIn, RoutedAt
  <2>6. \A f \in Dir : \A k : InPuts(box'[f], m.dir, k) => m.arg <= k
    BY <2>1, LaterPuts
  <2> DEFINE new == actor'[d].state
  <2>7. Behind(actor[d].state, box, next)
    BY <2>4 DEF OrderIn, Pool
  <2>8. actor[d].state.files \in [Dir -> Nat]
    BY <2>2, <2>7 DEF Behind
  <2>9. new.files = [actor[d].state.files EXCEPT ![m.dir] = m.arg]
    BY <2>1, <2>2, <2>8, FiledState DEF Filed
  <2>10. \A f \in Dir : actor[f].life # "none" => actor'[f].life # "none"
    BY <2>1 DEF Filed
  <2>11. OrderIn(actor', box', Pool, next)
    <3>1. \A s \in Pool : FilesFrom(s, Pool)
      BY PoolFiles
    <3> QED
      BY <2>3, <2>4, <2>10, <3>1, OrderLess DEF Boxes
  <2>12. Behind(new, box', next)
    <3>1. Behind(actor[d].state, box', next)
      BY <2>11 DEF OrderIn, Pool
    <3>2. new.files \in [Dir -> Nat]
      BY <2>2, <2>5, <2>8, <2>9
    <3>3. \A x \in Dir : new.files[x] <= next[x]
      BY <2>2, <2>5, <2>8, <2>9, <3>1 DEF Behind
    <3>4. ASSUME NEW f \in Dir, NEW x, NEW n, InPuts(box'[f], x, n)
          PROVE  new.files[x] <= n
      <4>1. x \in Dir
        BY <2>11, <3>4 DEF OrderIn, RoutedAt
      <4>2. CASE x = m.dir
        BY <2>6, <2>8, <2>9, <3>4, <4>1, <4>2
      <4>3. CASE x # m.dir
        <5>1. new.files[x] = actor[d].state.files[x]
          BY <2>8, <2>9, <4>1, <4>3
        <5> QED
          BY <2>2, <3>1, <3>4, <5>1 DEF Behind
      <4> QED
        BY <4>2, <4>3
    <3> QED
      BY <3>2, <3>3, <3>4 DEF Behind
  <2>13. \A s \in Pool' : s \in Pool \/ s = new
    BY <2>1, <2>3 DEF Pool, Filed
  <2>14. OrderIn(actor', box', Pool', next)
    BY <2>11, <2>12, <2>13 DEF OrderIn
  <2> QED
    BY <2>3, <2>14, OrderPrimed
<1> QED
  BY <1>1, <1>2

LEMMA OrderCreateDirAt ==
    ASSUME Shapes, Tree, ParentsExist, Order, NEW d \in Dir, CreateDirAt(d)
    PROVE  Order'
<1> DEFINE m == Head(box[d])
           e == IF Above(d, m.dir) THEN m.dir ELSE Blank[d]
           old == actor[d].state
           moved == ExtractChild(old.files, e)
           stay == [f \in Dir |-> IF e \in Up[f] THEN 0 ELSE old.files[f]]
           none == e \notin Dir \ DOMAIN old.dirs
           s == Snapshot(stay, [f \in DOMAIN old.dirs \cup {e} |->
                                    IF f = e THEN NoHash ELSE old.dirs[f]])
           q == [actor[d] EXCEPT !.state = s]
           born == Snapshot(moved, <<>>)
           new == Spawn("creating", d, born, actor[d].auto)
           x == MarkAsDirty(d, q, m.from)
           a == Arm(actor[d])
<1>1. /\ m \in Messages /\ m.op = "create_dir" /\ actor[d].life = "running"
      /\ actor[d].task = Idle /\ old # NoHash
      /\ RecordOK(actor[d], Known, Messages) /\ Snap(actor[d].state, Known)
  BY Receiving DEF CreateDirAt
<1>2. actor' = [actor EXCEPT ![d] = IF none THEN a ELSE x, ![e] = IF none THEN @ ELSE new]
  BY DEF CreateDirAt
<1>3. NoHash \in Known /\ m.from \in Senders
  BY <1>1 DEF Known, Messages, WithoutCreate, PathOps
<1>4. e # d
  BY <1>1, TreeAssumption DEF Above
<1>5. Boxes /\ SavesOnly /\ next' = next
  BY TakenBoxes, SameSaves DEF CreateDirAt, ClientsOnly
<1>6. CASE none
  <2> DEFINE n == none
  <2>1. actor' = [actor EXCEPT ![d] = IF n THEN a ELSE x, ![e] = IF n THEN @ ELSE new]
    BY <1>2
  <2>2. n
    BY <1>6
  <2>3. a.state = actor[d].state /\ a.life = "running"
    BY <1>1, ArmFacts
  <2> HIDE DEF e, new, x, a, n
  <2>4. actor' = [actor EXCEPT ![d] = a]
    BY <1>4, <2>1, <2>2 DEF Shapes, ActorsOK
  <2>5. Quiet
    BY <1>1, <1>5, <2>3, <2>4, QuietOwn
  <2> QED
    BY <2>5, OrderQuiet
<1>7. CASE ~none
  <2>1. e \in Dir
    BY <1>7
  <2>2. old \in Pool /\ FilesFrom(old, Pool)
    BY PoolFiles DEF Pool
  <2>3. FilesFrom(born, Pool)
    <3>1. born.files = [f \in Dir |-> IF e \in Up[f] THEN old.files[f] ELSE 0]
      BY DEF Snapshot, ExtractChild
    <3> HIDE DEF born, e
    <3> QED
      BY <1>1, <2>2, <3>1 DEF FilesFrom
  <2>4. FilesFrom(s, Pool)
    <3>1. s.files = stay
      BY DEF Snapshot
    <3> HIDE DEF s, e
    <3> QED
      BY <1>1, <2>2, <3>1 DEF FilesFrom
  <2>5. new.state = born /\ new.life = "creating"
    BY DEF Spawn
  <2> HIDE DEF m, e, moved, stay, born
  <2>6. Snap(s, Known)
    BY <1>1, <1>3, <1>7 DEF Snap, Snapshot
  <2> HIDE DEF s
  <2>7. Changed(d, q) /\ q.state = s
    BY <1>1, <2>6, StateChanged DEF RecordOK
  <2>8. actor' = [[actor EXCEPT ![d] = x] EXCEPT ![e] = new]
    BY <1>2, <1>7
  <2> HIDE DEF q, new
  <2>9. x.state = s /\ x.life = "running"
    <3>1. Marked(d, q, x, m.from)
      BY <1>1, <1>3, <2>7, ChangedMarks
    <3> HIDE DEF x
    <3> QED
      BY <1>1, <2>7, <3>1 DEF Marked, Changed, OnlyState
  <2> HIDE DEF x
  <2>10. /\ actor'[d] = x /\ actor'[e] = new
         /\ \A f \in Dir : f # d /\ f # e => actor'[f] = actor[f]
    BY <1>4, <2>1, <2>8 DEF Shapes, ActorsOK
  <2>11. ASSUME NEW f \in Dir PROVE FilesFrom(actor'[f].state, Pool)
    <3>1. FilesFrom(actor[f].state, Pool)
      BY PoolFiles DEF Pool
    <3> QED
      BY <2>3, <2>4, <2>5, <2>9, <2>10, <3>1
  <2>12. \A f \in Dir : actor[f].life # "none" => actor'[f].life # "none"
    BY <2>5, <2>9, <2>10
  <2> QED
    BY <1>5, <2>11, <2>12, OrderStep
<1> QED
  BY <1>6, <1>7

-----------------------------------------------------------------------------
LEMMA OrderInit == Init => Order
<1> SUFFICES ASSUME Init PROVE Order
  OBVIOUS
<1> DEFINE tree == Initial[config.exists]
<1>1. config \in Configs /\ Root \in config.exists /\ config.exists \subseteq Dir
  BY ConfigAssumption DEF Init, Config
<1>2. ASSUME NEW d \in config.exists PROVE tree[d].files = NoFiles
  <2>1. tree[d] = Snapshot(NoFiles, [e \in ChildrenIn(config.exists, d) |-> tree[e]])
    BY <1>1, ConfigAssumption
  <2> HIDE DEF tree
  <2> QED
    BY <2>1 DEF Snapshot
<1>3. /\ rootFile = tree[Root] /\ stored = {tree[d] : d \in config.exists}
      /\ actor = FreshActors(rootFile) /\ box = [d \in Dir |-> <<>>] /\ next = NoFiles
  BY DEF Init
<1> HIDE DEF tree
<1>4. \A f \in Dir : actor[f].state = rootFile \/ actor[f].state = NoHash
  BY <1>3 DEF FreshActors, Spawn, NotOpen
<1>5. \A s \in Pool : s = NoHash \/ s.files = NoFiles
  BY <1>1, <1>2, <1>3, <1>4 DEF Pool
<1>6. \A f \in Dir : Ordered(box[f]) /\ \A x, n : ~InPuts(box[f], x, n)
  BY <1>3 DEF Ordered, InPuts
<1>7. ASSUME NEW s \in Pool PROVE Behind(s, box, next)
  <2>1. NoFiles \in [Dir -> Nat] /\ \A x \in Dir : NoFiles[x] <= NoFiles[x]
    BY DEF NoFiles
  <2> QED
    BY <1>3, <1>5, <1>6, <2>1 DEF Behind
<1> QED
  BY <1>6, <1>7 DEF Order, OrderIn, RoutedAt, Stacked

LEMMA OrderClient == Shapes /\ Tree /\ Order /\ ClientStep => Order'
<1> SUFFICES ASSUME Shapes, Tree, Order, ClientStep PROVE Order'
  OBVIOUS
<1>1. ASSUME NEW op, NEW d, NEW arg, NEW from, Post(op, d, arg, from), next' = next,
             op \notin {"file_put", "file_put_sync"}
      PROVE  Order'
  <2> DEFINE m == Msg(op, d, arg, from)
  <2>1. /\ actor' = actor /\ box' = [box EXCEPT ![Root] = Append(@, m)]
        /\ UNCHANGED <<stored, rootFile>>
    BY <1>1 DEF Post
  <2>2. ~Put(m)
    BY <1>1 DEF Msg, Put
  <2> HIDE DEF m
  <2> QED
    BY <1>1, <2>1, <2>2, SentBoxes, SameSaves, QuietSame, OrderQuiet
<1>2. ASSUME NEW op, NEW d \in Dir, NEW from, Post(op, d, next'[d], from),
             next' = [next EXCEPT ![d] = @ + 1]
      PROVE  Order'
  <2>1. PICK m : m = Msg(op, d, next'[d], from)
    OBVIOUS
  <2>2. /\ actor' = actor /\ box' = [box EXCEPT ![Root] = Append(@, m)]
        /\ UNCHANGED <<stored, rootFile>>
    BY <1>2, <2>1 DEF Post
  <2>3. m.dir = d /\ m.arg = next[m.dir] + 1 /\ next' = [next EXCEPT ![m.dir] = @ + 1]
    BY <1>2, <2>1 DEF Msg, Shapes
  <2>4. /\ OrderIn(actor, box, Pool, next) /\ next \in [Dir -> Nat]
        /\ box \in [Dir -> Seq(Messages)] /\ actor[Root].life # "none"
    BY TreeAssumption DEF Order, Shapes, Tree, ActorTree, ActorFits
  <2>5. OrderIn(actor, box', Pool, next')
    BY <2>2, <2>3, <2>4, OrderPosted
  <2>6. Pool' = Pool
    BY <2>2 DEF Pool
  <2> QED
    BY <2>2, <2>5, <2>6, OrderPrimed
<1>3. CASE Drop
  BY <1>3, SameBoxes, SameSaves, QuietSame, OrderQuiet DEF Drop
<1>4. CASE Crash
  <2>1. /\ actor' = FreshActors(rootFile) /\ box' = [d \in Dir |-> <<>>]
        /\ UNCHANGED <<stored, rootFile, next>>
    BY <1>4 DEF Crash
  <2>2. \A f \in Dir : box'[f] = <<>>
    BY <2>1
  <2>3. Boxes /\ SavesOnly
    BY <2>1, <2>2, FewerEmpty, SameSaves DEF Boxes
  <2>4. \A f \in Dir : actor'[f].state = rootFile \/ actor'[f].state = NoHash
    BY <2>1 DEF FreshActors, Spawn, NotOpen
  <2>5. FilesFrom(rootFile, Pool) /\ FilesFrom(NoHash, Pool)
    BY PoolFiles DEF Pool, FilesFrom
  <2>6. \A f \in Dir : FilesFrom(actor'[f].state, Pool)
    BY <2>4, <2>5
  <2> QED
    BY <2>1, <2>2, <2>3, <2>6, OrderStep
<1>5. ASSUME NEW d \in config.dirs PROVE d \in Dir
  BY ConfigAssumption DEF Shapes, Config
<1>6. ASSUME NEW c \in Client, NEW d \in config.dirs, FilePutSync(c, d) PROVE Order'
  BY <1>2, <1>5, <1>6 DEF FilePutSync, Call
<1>7. ASSUME NEW d \in config.dirs, FilePut(d) PROVE Order'
  BY <1>2, <1>5, <1>7 DEF FilePut
<1>8. ASSUME NEW c \in Client, NEW d \in config.dirs, FileGet(c, d) \/ CreateDir(c, d) PROVE Order'
  BY <1>1, <1>8 DEF FileGet, CreateDir, Call
<1>9. ASSUME NEW c \in Client, Save(c) \/ Shutdown(c) PROVE Order'
  BY <1>1, <1>9 DEF Save, Shutdown, Call
<1>10. CASE WithAutosave
  BY <1>1, <1>10 DEF WithAutosave
<1> QED
  BY <1>3, <1>4, <1>6, <1>7, <1>8, <1>9, <1>10 DEF ClientStep

LEMMA NoCreateDir ==
    ASSUME Shapes, WithoutCreate, NEW d \in Dir
    PROVE  ~CreateDirAt(d)
<1> SUFFICES ASSUME CreateDirAt(d) PROVE FALSE
  OBVIOUS
<1>1. Head(box[d]) \in Messages /\ Head(box[d]).op = "create_dir"
  BY Receiving DEF CreateDirAt
<1> QED
  BY <1>1 DEF Messages, PathOps, WithoutCreate

LEMMA OrderNext ==
    Shapes /\ Tree /\ Sound /\ Order /\ [Next]_vars => Order'
<1> SUFFICES ASSUME Shapes, Tree, Sound, Order, [Next]_vars PROVE Order'
  OBVIOUS
<1>1. CASE ClientStep
  BY <1>1, OrderClient
<1>2. ASSUME NEW d \in Dir, ActorStep(d) PROVE Order'
  <2>1. ASSUME CreateDirAt(d) PROVE Order'
    BY <2>1, NoCreateDir, OrderCreateDirAt DEF Sound
  <2>2. ASSUME SaveDone(d) PROVE Order'
    BY <2>2, SaveDoneEnters, OrderQuiet, OrderEntered
  <2>3. ASSUME UpdateDirRefHash(d) PROVE Order'
    BY <2>3, UpdateEnters, OrderEntered
  <2>4. ASSUME \/ Publish(d) \/ Load(d) \/ Tell(d) \/ ChildIsDirty(d) \/ SaveIfDirty(d)
               \/ (\E e \in Dir : AskChild(d, e)) \/ AutosaveTick(d) \/ SetAutosave(d)
               \/ BeginShutdown(d) \/ Stop(d) \/ Orphan(d)
        PROVE Order'
    BY <2>4, OrderQuiet, QuietPublish, QuietLoad, QuietTell, QuietChildIsDirty,
       QuietSaveIfDirty, QuietAskChild, QuietAutosaveTick, QuietSetAutosave,
       QuietBeginShutdown, QuietStop, QuietOrphan
  <2> QED
    BY <1>2, <2>1, <2>2, <2>3, <2>4, OrderForward, OrderFileOp DEF ActorStep
<1>3. ASSUME NEW d \in Dir, Fire(d) PROVE Order'
  BY <1>3, QuietFire, OrderQuiet
<1>4. CASE UNCHANGED vars
  BY <1>4, SameBoxes, SameSaves, QuietSame, OrderQuiet DEF vars
<1> QED
  BY <1>1, <1>2, <1>3, <1>4 DEF Next

\* The tree of actors is also kept if no directory is created.
LEMMA TreeSound == Shapes /\ Shapes' /\ Sound /\ Tree /\ [Next]_vars => Tree'
<1> SUFFICES ASSUME Shapes, Shapes', Sound, Tree, [Next]_vars PROVE Tree'
  OBVIOUS
<1>1. CASE ParentsExist
  BY <1>1, TreeNext
<1>2. CASE WithoutCreate
  <2>1. CASE ClientStep
    BY <2>1, TreeClient
  <2>2. ASSUME NEW d \in Dir, ActorStep(d) PROVE Tree'
    BY <1>2, <2>2, NoCreateDir, TreePublish, TreeLoad, TreeForward, TreeFileOp,
       TreeTell, TreeChildIsDirty, TreeUpdateDirRefHash, TreeSaveIfDirty, TreeAskChild,
       TreeSaveDone, TreeAutosaveTick, TreeSetAutosave, TreeBeginShutdown, TreeStop, TreeOrphan
    DEF ActorStep
  <2>3. ASSUME NEW d \in Dir, Fire(d) PROVE Tree'
    BY <2>3, TreeFire
  <2>4. CASE UNCHANGED vars
    BY <2>4, TreeStays DEF vars, Tree
  <2> QED
    BY <2>1, <2>2, <2>3, <2>4 DEF Next
<1> QED
  BY <1>1, <1>2 DEF Sound

LEMMA TreeAlways == Spec => [](Sound => Tree)
<1>1. Init => (Sound => Tree)
  BY TreeInit
<1>2. Shapes /\ Shapes' /\ (Sound => Tree) /\ [Next]_vars => (Sound => Tree)'
  <2>1. [Next]_vars => (Sound' <=> Sound)
    BY ConfigStays DEF Sound, ParentsExist, WithoutCreate
  <2> QED
    BY <2>1, TreeSound
<1> QED
  BY <1>1, <1>2, ShapesCorrect, PTL DEF Spec

\* The puts to a path reach the directory that holds its file in the order in which
\* they were called, and no snapshot ever has a later content than a put that is still
\* on its way, if no directory is created below one that does not exist (the mailboxes
\* are FIFO and PathOp passes a message on before the next is received).
THEOREM OrderCorrect == Spec => [](Sound => Order)
<1>1. Init => (Sound => Order)
  BY OrderInit
<1>2. Shapes /\ (Sound => Tree) /\ (Sound => Order) /\ [Next]_vars => (Sound => Order)'
  <2>1. [Next]_vars => (Sound' <=> Sound)
    BY ConfigStays DEF Sound, ParentsExist, WithoutCreate
  <2> QED
    BY <2>1, OrderNext
<1> QED
  BY <1>1, <1>2, ShapesCorrect, TreeAlways, PTL DEF Spec

-----------------------------------------------------------------------------
(***************************************************************************)
(* Without autosave and without create_dir nobody sends an                 *)
(* UpdateDirRefHash: the hash of a directory gets into its parent only as  *)
(* the answer to a save.                                                   *)
(***************************************************************************)
PlainUse == WithoutAutosave /\ WithoutCreate

PlainRecord(r) ==
    /\ r.auto = FALSE /\ r.timer = "off" /\ r.life # "creating"
    /\ r.task.op = "tell" => r.task.msg.op = "mark_as_dirty"
PlainBox(q) == \A i \in DOMAIN q : q[i].op \notin {"update_ref", "autosave_tick"}
Plain(acts, b) == \A f \in Dir : PlainRecord(acts[f]) /\ PlainBox(b[f])

LEMMA PlainTail ==
    ASSUME NEW M, NEW q \in Seq(M), q # <<>>, PlainBox(q)
    PROVE  PlainBox(Tail(q)) /\ Head(q).op \notin {"update_ref", "autosave_tick"}
<1>1. /\ \A i \in DOMAIN Tail(q) : i + 1 \in DOMAIN q /\ Tail(q)[i] = q[i + 1]
      /\ 1 \in DOMAIN q /\ q[1] = Head(q)
  OBVIOUS
<1> QED
  BY <1>1 DEF PlainBox

LEMMA PlainAppend ==
    ASSUME NEW M, NEW q \in Seq(M), PlainBox(q), NEW m, m.op \notin {"update_ref", "autosave_tick"}
    PROVE  PlainBox(Append(q, m))
BY AppendFacts DEF PlainBox

LEMMA PlainOwn ==
    ASSUME Shapes, Plain(actor, box), NEW d, NEW r, PlainRecord(r),
           NEW b, \A f \in Dir : PlainBox(b[f])
    PROVE  Plain([actor EXCEPT ![d] = r], b)
<1>1. \A f \in Dir : [actor EXCEPT ![d] = r][f] = IF f = d THEN r ELSE actor[f]
  BY DEF Shapes, ActorsOK
<1> QED
  BY <1>1 DEF Plain

LEMMA PlainTaken ==
    ASSUME Shapes, Plain(actor, box), NEW d \in Dir, NEW ops, Receives(d, ops)
    PROVE  /\ \A f \in Dir : PlainBox(Take(d)[f])
           /\ Head(box[d]).op \notin {"update_ref", "autosave_tick"}
<1>1. box[d] \in Seq(Messages) /\ box[d] # <<>> /\ PlainBox(box[d])
  BY DEF Shapes, Receives, Plain
<1>2. PlainBox(Tail(box[d])) /\ Head(box[d]).op \notin {"update_ref", "autosave_tick"}
  BY <1>1, PlainTail
<1>3. \A f \in Dir : Take(d)[f] = IF f = d THEN Tail(box[d]) ELSE box[f]
  BY DEF Take, Shapes
<1> QED
  BY <1>2, <1>3 DEF Plain

LEMMA PlainSent ==
    ASSUME NEW M, NEW b \in [Dir -> Seq(M)], \A f \in Dir : PlainBox(b[f]), NEW e, NEW m,
           m.op \notin {"update_ref", "autosave_tick"}
    PROVE  \A f \in Dir : PlainBox([b EXCEPT ![e] = Append(@, m)][f])
<1> TAKE f \in Dir
<1>1. b[f] \in Seq(M) /\ PlainBox(b[f])
  OBVIOUS
<1>2. PlainBox(Append(b[f], m))
  BY <1>1, PlainAppend
<1>3. [b EXCEPT ![e] = Append(@, m)][f] = IF f = e THEN Append(b[f], m) ELSE b[f]
  OBVIOUS
<1> QED
  BY <1>1, <1>2, <1>3

LEMMA PlainToParent ==
    ASSUME NEW acts, NEW S, NEW M, ActorsOK(acts, S, M), NEW p, NEW d, NEW hash,
           hash = NoHash \/ hash \in S, NEW b, Plain(acts, b)
    PROVE  Plain(ToParent(acts, p, d, hash), b)
<1>1. PICK new : new = ToParent(acts, p, d, hash)
  OBVIOUS
<1>2. AnswerTo(acts, new, p, d, hash)
  BY <1>1, ToParentFacts
<1>3. ASSUME NEW f \in Dir PROVE PlainRecord(new[f])
  <2>1. PlainRecord(acts[f]) /\ RecordOK(acts[f], S, M)
    BY DEF Plain, ActorsOK
  <2>2. CASE f # p
    BY <1>2, <2>1, <2>2 DEF AnswerTo
  <2>3. CASE f = p
    <3>1. /\ new[f].life = acts[f].life /\ new[f].auto = acts[f].auto
          /\ new[f].timer = acts[f].timer
          /\ new[f].task = [acts[f].task EXCEPT !.wait = @ \ {d}]
      BY <1>2, <2>3 DEF AnswerTo
    <3>2. acts[f].task \in AllTasks(M)
      BY <2>1 DEF RecordOK
    <3>3. /\ new[f].task.op = acts[f].task.op
          /\ acts[f].task.op = "tell" => new[f].task = acts[f].task
      <4>1. PICK t : t = acts[f].task
        OBVIOUS
      <4>2. t \in AllTasks(M) /\ new[f].task = [t EXCEPT !.wait = @ \ {d}]
        BY <3>1, <3>2, <4>1
      <4>3. /\ [t EXCEPT !.wait = @ \ {d}].op = t.op
            /\ t.op \notin {"save", "shutdown"} => [t EXCEPT !.wait = @ \ {d}] = t
        BY <4>2, WaitOK
      <4>4. new[f].task.op = t.op /\ (t.op = "tell" => new[f].task = t)
        BY <4>2, <4>3
      <4> QED
        BY <4>1, <4>4
    <3> QED
      BY <2>1, <3>1, <3>3 DEF PlainRecord
  <2> QED
    BY <2>2, <2>3
<1> QED
  BY <1>1, <1>3 DEF Plain

LEMMA PlainFresh ==
    ASSUME NEW file PROVE Plain(FreshActors(file), [d \in Dir |-> <<>>])
BY DEF Plain, PlainRecord, PlainBox, FreshActors, Spawn, NotOpen, Idle

LEMMA PlainClient == Shapes /\ Plain(actor, box) /\ ClientStep => Plain(actor', box')
<1> SUFFICES ASSUME Shapes, Plain(actor, box), ClientStep PROVE Plain(actor', box')
  OBVIOUS
<1>1. ASSUME NEW op, NEW d, NEW arg, NEW from, Post(op, d, arg, from)
      PROVE  Plain(actor', box')
  <2> DEFINE m == Msg(op, d, arg, from)
  <2>1. actor' = actor /\ box' = [box EXCEPT ![Root] = Append(@, m)] /\ op \in config.ops
    BY <1>1 DEF Post
  <2>2. m.op \notin {"update_ref", "autosave_tick"}
    <3>1. op \in Ops
      BY <2>1, ConfigAssumption DEF Shapes, Config
    <3> QED
      BY <3>1 DEF Ops, Msg
  <2> HIDE DEF m
  <2>3. \A f \in Dir : PlainBox(box[f])
    BY DEF Plain
  <2>4. \A f \in Dir : PlainBox(box'[f])
    BY <2>1, <2>2, <2>3, PlainSent DEF Shapes
  <2> QED
    BY <2>1, <2>4 DEF Plain
<1>2. CASE Drop
  BY <1>2 DEF Drop
<1>3. CASE Crash
  BY <1>3, PlainFresh DEF Crash
<1> QED
  BY <1>1, <1>2, <1>3 DEF ClientStep, FilePutSync, FileGet, CreateDir, FilePut, Save,
     Shutdown, WithAutosave, Call

LEMMA PlainLoad ==
    ASSUME Shapes, Plain(actor, box), NEW d \in Dir, Load(d)
    PROVE  Plain(actor', box')
<1>1. RecordOK(actor[d], Known, Messages) /\ PlainRecord(actor[d]) /\ actor[d].life = "loading"
  BY DEF Load, Shapes, ActorsOK, Plain
<1>2. CASE actor' = [actor EXCEPT ![d].life = "running"] /\ UNCHANGED box
  <2> DEFINE r == [actor[d] EXCEPT !.life = "running"]
  <2>1. actor' = [actor EXCEPT ![d] = r]
    BY <1>2
  <2>2. PlainRecord(r)
    BY <1>1 DEF RecordOK, PlainRecord
  <2> HIDE DEF r
  <2> QED
    BY <1>2, <2>1, <2>2, PlainOwn DEF Plain
<1>3. CASE /\ actor' = ToParent([actor EXCEPT ![d].life = "stopped"],
                                IF actor[d].up \in Dropped(d) THEN actor[d].up ELSE None,
                                d, NoHash)
           /\ box' = [box EXCEPT ![d] = <<>>]
  <2> DEFINE r == [actor[d] EXCEPT !.life = "stopped"]
             p == IF actor[d].up \in Dropped(d) THEN actor[d].up ELSE None
             acts == [actor EXCEPT ![d] = r]
  <2>1. RecordOK(r, Known, Messages) /\ PlainRecord(r)
    BY <1>1 DEF RecordOK, PlainRecord
  <2>2. actor' = ToParent(acts, p, d, NoHash)
    BY <1>3
  <2> HIDE DEF r, p
  <2>3. ActorsOK(acts, Known, Messages)
    BY <2>1, ReplaceOK DEF Shapes
  <2>4. \A f \in Dir : PlainBox(box'[f])
    BY <1>3 DEF Shapes, Plain, PlainBox
  <2>5. Plain(acts, box')
    BY <2>1, <2>4, PlainOwn
  <2> HIDE DEF acts
  <2> QED
    BY <2>2, <2>3, <2>5, PlainToParent
<1> QED
  BY <1>2, <1>3 DEF Load

LEMMA PlainForward ==
    ASSUME Shapes, Plain(actor, box), NEW d \in Dir, Forward(d)
    PROVE  Plain(actor', box')
<1> DEFINE m == Head(box[d])
           e == FirstOf(d, m)
           new == Spawn("loading", d, actor[d].state.dirs[e], actor[d].auto)
<1>0. Receives(d, PathOps)
  BY DEF Forward
<1>1. Take(d) \in [Dir -> Seq(Messages)]
  BY <1>0, Receiving
<1>2. (\A f \in Dir : PlainBox(Take(d)[f])) /\ m.op \notin {"update_ref", "autosave_tick"}
  BY <1>0, PlainTaken
<1>3. CASE box' = Take(d) /\ UNCHANGED actor
  BY <1>2, <1>3 DEF Plain
<1>4. CASE /\ box' = [Take(d) EXCEPT ![e] = Append(@, m)]
           /\ actor' = IF actor[e].life # "none" THEN actor ELSE [actor EXCEPT ![e] = new]
  <2>1. PlainRecord(new)
    <3>1. actor[d].auto = FALSE
      BY DEF Plain, PlainRecord
    <3> QED
      BY <3>1 DEF Spawn, Idle, PlainRecord
  <2> HIDE DEF m, e, new
  <2>2. \A f \in Dir : PlainBox(box'[f])
    BY <1>1, <1>2, <1>4, PlainSent
  <2>3. CASE actor[e].life # "none"
    BY <1>4, <2>2, <2>3 DEF Plain
  <2>4. CASE actor[e].life = "none"
    BY <1>4, <2>1, <2>2, <2>4, PlainOwn
  <2> QED
    BY <2>3, <2>4
<1> QED
  BY <1>3, <1>4 DEF Forward

LEMMA PlainMark ==
    ASSUME Shapes, Plain(actor, box), NEW d \in Dir, NEW ops, Receives(d, ops), box' = Take(d),
           NEW q, Changed(d, q), actor' = [actor EXCEPT ![d] = MarkAsDirty(d, q, None)]
    PROVE  Plain(actor', box')
<1> DEFINE r == MarkAsDirty(d, q, None)
<1>1. actor[d].life = "running" /\ actor[d].task = Idle /\ PlainRecord(actor[d])
  BY DEF Receives, Free, Plain
<1>2. Marked(d, q, r, None)
  BY <1>1, ChangedMarks DEF Senders
<1>3. RecordOK(q, Known, Messages) /\ q.auto = FALSE /\ q.timer = "off" /\ q.life = "running"
  BY <1>1 DEF Changed, OnlyState, PlainRecord
<1>4. r.timer = q.timer
  BY <1>3, MarkTimer
<1>5. actor' = [actor EXCEPT ![d] = r] /\ \A f \in Dir : PlainBox(box'[f])
  BY PlainTaken
<1> HIDE DEF r
<1>6. r.task = Idle \/ r.task = Telling("mark_as_dirty", d, None, "arm", None)
  BY <1>2 DEF Marked
<1>7. r.task.op = "tell" => r.task.msg.op = "mark_as_dirty"
  BY <1>6 DEF Idle, Telling, Msg
<1>8. PlainRecord(r)
  BY <1>2, <1>3, <1>4, <1>7 DEF PlainRecord, Marked
<1>9. Plain([actor EXCEPT ![d] = r], box')
  BY <1>5, <1>8, PlainOwn
<1> QED
  BY <1>5, <1>9

LEMMA PlainFileOp ==
    ASSUME Shapes, Plain(actor, box), NEW d \in Dir, FileOp(d) \/ ChildIsDirty(d)
    PROVE  Plain(actor', box')
<1>1. CASE FileOp(d)
  BY <1>1, FileOpMarks, PlainMark DEF FileOp
<1>2. CASE ChildIsDirty(d)
  BY <1>2, ChildIsDirtyMarks, PlainMark DEF ChildIsDirty
<1> QED
  BY <1>1, <1>2

LEMMA PlainTell ==
    ASSUME Shapes, Plain(actor, box), NEW d \in Dir, Tell(d)
    PROVE  Plain(actor', box')
<1> DEFINE x == actor[d].task.msg
           u == actor[d].up
<1>1. /\ PlainRecord(actor[d]) /\ actor[d].task.op = "tell"
      /\ box' = [box EXCEPT ![u] = Append(@, x)]
  BY DEF Tell, Plain
<1>2. x.op = "mark_as_dirty" /\ ~actor[d].auto
  BY <1>1 DEF PlainRecord
<1>3. PICK r : /\ actor' = [actor EXCEPT ![d] = r]
               /\ r.task = Idle /\ r.life = actor[d].life /\ r.auto = actor[d].auto
               /\ ~actor[d].auto => r.timer = actor[d].timer
  BY TellDone
<1>4. PlainRecord(r)
  BY <1>1, <1>2, <1>3 DEF PlainRecord, Idle
<1> HIDE DEF x, u
<1>5. \A f \in Dir : PlainBox(box[f])
  BY DEF Plain
<1>6. \A f \in Dir : PlainBox(box'[f])
  BY <1>1, <1>2, <1>5, PlainSent DEF Shapes
<1> QED
  BY <1>3, <1>4, <1>6, PlainOwn

LEMMA PlainSaveIfDirty ==
    ASSUME Shapes, Plain(actor, box), NEW d \in Dir, SaveIfDirty(d)
    PROVE  Plain(actor', box')
<1> DEFINE from == Head(box[d]).from
           t == [op |-> "save", from |-> from, todo |-> Handles(d), wait |-> {}]
           r == [actor[d] EXCEPT !.task = t]
<1>1. Receives(d, {"save"}) /\ box' = Take(d) /\ PlainRecord(actor[d])
  BY DEF SaveIfDirty, Plain
<1>2. \A f \in Dir : PlainBox(box'[f])
  BY <1>1, PlainTaken
<1>3. CASE actor[d].dirty \/ IsRoot(d)
  <2>1. actor' = [actor EXCEPT ![d] = r]
    BY <1>3 DEF SaveIfDirty
  <2>2. t.op = "save"
    OBVIOUS
  <2> HIDE DEF t
  <2>3. PlainRecord(r)
    <3>1. RecordOK(actor[d], Known, Messages)
      BY DEF Shapes, ActorsOK
    <3> QED
      BY <1>1, <2>2, <3>1 DEF RecordOK, PlainRecord
  <2> HIDE DEF r
  <2> QED
    BY <1>2, <2>1, <2>3, PlainOwn
<1>4. CASE ~(actor[d].dirty \/ IsRoot(d))
  <2>1. actor' = ToParent([actor EXCEPT ![d] = Arm(actor[d])], from, d, NoHash)
    BY <1>4 DEF SaveIfDirty
  <2>2. Arm(actor[d]) = actor[d]
    BY <1>1, ArmQuiet DEF PlainRecord
  <2>3. actor' = ToParent(actor, from, d, NoHash)
    BY <2>1, <2>2 DEF Shapes, ActorsOK
  <2>4. Plain(actor, box') /\ ActorsOK(actor, Known, Messages)
    BY <1>2 DEF Plain, Shapes
  <2> HIDE DEF from
  <2> QED
    BY <2>3, <2>4, PlainToParent
<1> QED
  BY <1>3, <1>4

LEMMA PlainAskChild ==
    ASSUME Shapes, Plain(actor, box), NEW d \in Dir, NEW e \in Dir, AskChild(d, e)
    PROVE  Plain(actor', box')
<1> DEFINE t == actor[d].task
           m == Msg(t.op, e, 0, d)
<1>1. t.op \in {"save", "shutdown"} /\ PlainRecord(actor[d]) /\ \A f \in Dir : PlainBox(box[f])
  BY AskChildFacts DEF Plain
<1>2. PICK r : /\ actor' = [actor EXCEPT ![d] = r]
               /\ r.life = actor[d].life
               /\ r.auto = actor[d].auto /\ r.timer = actor[d].timer
               /\ r.task.op = t.op
               /\ box' = box \/ box' = [box EXCEPT ![e] = Append(@, m)]
  BY AskChildFacts
<1>3. m.op \notin {"update_ref", "autosave_tick"}
  BY <1>1 DEF Msg
<1> HIDE DEF m
<1>4. \A f \in Dir : PlainBox(box'[f])
  BY <1>1, <1>2, <1>3, PlainSent DEF Shapes
<1>5. PlainRecord(r)
  BY <1>1, <1>2 DEF PlainRecord
<1> QED
  BY <1>2, <1>4, <1>5, PlainOwn

LEMMA PlainSaveDone ==
    ASSUME Shapes, Plain(actor, box), NEW d \in Dir, SaveDone(d)
    PROVE  Plain(actor', box')
<1>1. PICK a, h, ok : SavedAs(d, a, h, ok)
  BY SaveDoneFacts
<1>2. box' = box /\ ActorsOK(actor, Known', Messages')
  BY SaveDoneFacts
<1> DEFINE from == actor[d].task.from
           acts == [actor EXCEPT ![d] = a]
<1>3. /\ actor' = ToParent(acts, from, d, h) /\ RecordOK(a, Known', Messages')
      /\ h = NoHash \/ h \in Known'
  BY <1>1 DEF SavedAs
<1>4. PlainRecord(a)
  <2>1. PlainRecord(actor[d])
    BY DEF Plain
  <2>2. /\ a.task = Idle /\ a.life = actor[d].life /\ a.auto = actor[d].auto
        /\ ~actor[d].auto => a.timer = actor[d].timer
    BY <1>1 DEF SavedAs
  <2> QED
    BY <2>1, <2>2 DEF PlainRecord, Idle
<1>5. Plain(acts, box)
  BY <1>4, PlainOwn DEF Plain
<1>6. ActorsOK(acts, Known', Messages')
  BY <1>2, <1>3, ReplaceOK
<1> HIDE DEF acts, from
<1> QED
  BY <1>2, <1>3, <1>5, <1>6, PlainToParent

LEMMA PlainBeginShutdown ==
    ASSUME Shapes, Plain(actor, box), NEW d \in Dir, BeginShutdown(d)
    PROVE  Plain(actor', box')
<1> DEFINE t == [op |-> "shutdown", from |-> Head(box[d]).from, todo |-> Handles(d), wait |-> {}]
           r == [actor[d] EXCEPT !.task = t]
<1>1. /\ Receives(d, {"shutdown"}) /\ box' = Take(d) /\ actor' = [actor EXCEPT ![d] = r]
      /\ PlainRecord(actor[d])
  BY DEF BeginShutdown, Plain
<1>2. t.op = "shutdown"
  OBVIOUS
<1> HIDE DEF t
<1>3. PlainRecord(r)
  <2>1. RecordOK(actor[d], Known, Messages)
    BY DEF Shapes, ActorsOK
  <2> QED
    BY <1>1, <1>2, <2>1 DEF RecordOK, PlainRecord
<1> HIDE DEF r
<1> QED
  BY <1>1, <1>3, PlainTaken, PlainOwn

LEMMA PlainStop ==
    ASSUME Shapes, Plain(actor, box), NEW d \in Dir, Stop(d)
    PROVE  Plain(actor', box')
<1> DEFINE from == actor[d].task.from
<1>1. PICK q : /\ actor' = ToParent([actor EXCEPT ![d] = q], from, d, NoHash)
               /\ RecordOK(q, Known, Messages) /\ q.task = Idle /\ q.life = "stopped"
               /\ q.auto = actor[d].auto /\ q.timer = actor[d].timer
  BY StopFacts
<1> DEFINE acts == [actor EXCEPT ![d] = q]
<1>2. ActorsOK(acts, Known, Messages)
  BY <1>1, ReplaceOK DEF Shapes
<1>3. PlainRecord(q)
  <2>1. PlainRecord(actor[d])
    BY DEF Plain
  <2> QED
    BY <1>1, <2>1 DEF PlainRecord, Idle
<1>4. box' = [box EXCEPT ![d] = <<>>]
  BY DEF Stop
<1>5. \A f \in Dir : PlainBox(box'[f])
  BY <1>4 DEF Shapes, Plain, PlainBox
<1>6. Plain(acts, box')
  BY <1>3, <1>5, PlainOwn
<1> HIDE DEF acts, from
<1>7. actor' = ToParent(acts, from, d, NoHash)
  BY <1>1 DEF acts
<1> QED
  BY <1>2, <1>6, <1>7, PlainToParent

LEMMA PlainOrphan ==
    ASSUME Shapes, Plain(actor, box), NEW d \in Dir, Orphan(d)
    PROVE  Plain(actor', box')
<1> DEFINE r == [actor[d] EXCEPT !.life = "stopped"]
<1>1. box' = box /\ actor' = [actor EXCEPT ![d] = r] /\ PlainRecord(actor[d])
  BY DEF Orphan, Plain
<1>2. PlainRecord(r)
  <2>1. RecordOK(actor[d], Known, Messages)
    BY DEF Shapes, ActorsOK
  <2> QED
    BY <1>1, <2>1 DEF RecordOK, PlainRecord
<1> HIDE DEF r
<1> QED
  BY <1>1, <1>2, PlainOwn DEF Plain

\* The handlers that do not run.
LEMMA NotPlain ==
    ASSUME Shapes, PlainUse, Plain(actor, box), NEW d \in Dir
    PROVE  /\ ~Publish(d) /\ ~CreateDirAt(d) /\ ~UpdateDirRefHash(d)
           /\ ~Fire(d) /\ ~AutosaveTick(d) /\ ~SetAutosave(d)
<1>1. PlainRecord(actor[d])
  BY DEF Plain
<1>2. ~Publish(d) /\ ~Fire(d)
  BY <1>1 DEF Publish, Fire, PlainRecord
<1>3. ~UpdateDirRefHash(d) /\ ~AutosaveTick(d)
  BY PlainTaken DEF UpdateDirRefHash, AutosaveTick, Receives
<1>4. ~SetAutosave(d)
  <2> SUFFICES ASSUME SetAutosave(d) PROVE FALSE
    OBVIOUS
  <2>1. Head(box[d]) \in Messages /\ Head(box[d]).op = "with_autosave"
    BY Receiving DEF SetAutosave
  <2> QED
    BY <2>1 DEF Messages, PlainUse, WithoutAutosave
<1> QED
  BY <1>2, <1>3, <1>4, NoCreateDir DEF PlainUse

LEMMA PlainNext ==
    Shapes /\ PlainUse /\ Plain(actor, box) /\ [Next]_vars => Plain(actor', box')
<1> SUFFICES ASSUME Shapes, PlainUse, Plain(actor, box), [Next]_vars PROVE Plain(actor', box')
  OBVIOUS
<1>1. CASE ClientStep
  BY <1>1, PlainClient
<1>2. ASSUME NEW d \in Dir, ActorStep(d) PROVE Plain(actor', box')
  BY <1>2, NotPlain, PlainLoad, PlainForward, PlainFileOp, PlainTell, PlainSaveIfDirty,
     PlainAskChild, PlainSaveDone, PlainBeginShutdown, PlainStop, PlainOrphan
  DEF ActorStep
<1>3. ASSUME NEW d \in Dir, Fire(d) PROVE Plain(actor', box')
  BY <1>3, NotPlain
<1>4. CASE UNCHANGED vars
  BY <1>4 DEF vars
<1> QED
  BY <1>1, <1>2, <1>3, <1>4 DEF Next

LEMMA PlainAlways == Spec => [](PlainUse => Plain(actor, box))
<1> DEFINE I == PlainUse => Plain(actor, box)
<1>1. Init => I
  BY PlainFresh DEF Init
<1>2. Shapes /\ I /\ [Next]_vars => I'
  <2>1. [Next]_vars => (PlainUse' <=> PlainUse)
    BY ConfigStays DEF PlainUse, WithoutAutosave, WithoutCreate
  <2>2. Plain(actor, box)' <=> Plain(actor', box')
    BY DEF Plain, PlainRecord, PlainBox
  <2> QED
    BY <2>1, <2>2, PlainNext
<1> HIDE DEF I
<1>3. Spec => []I
  BY <1>1, <1>2, ShapesCorrect, PTL DEF Spec
<1> QED
  BY <1>3 DEF I

-----------------------------------------------------------------------------
(***************************************************************************)
(* Later snapshots: the same directories, and no file older, all the way   *)
(* down.  A snapshot holds the snapshots of its directories, so the order  *)
(* is the largest relation that looks one level down.                      *)
(***************************************************************************)
Grows(s, t, R) ==
    /\ DOMAIN s.dirs = DOMAIN t.dirs
    /\ \A x \in Dir : s.files[x] <= t.files[x]
    /\ \A e \in DOMAIN s.dirs : <<s.dirs[e], t.dirs[e]>> \in R
Sim(R) == \A s, t : <<s, t>> \in R => Grows(s, t, R)
Leq(s, t) == \E R : Sim(R) /\ Grows(s, t, R)

\* The directories of s are in X, and so on down.
Over(s, X) ==
    /\ \A e \in DOMAIN s.dirs : s.dirs[e] \in X
    /\ \A x \in Dir : s.files[x] \in Nat
Closed(X) == \A s \in X : Over(s, X)

LEMMA LeqDown ==
    ASSUME NEW s, NEW t, Leq(s, t)
    PROVE  /\ DOMAIN s.dirs = DOMAIN t.dirs
           /\ \A x \in Dir : s.files[x] <= t.files[x]
           /\ \A e \in DOMAIN s.dirs : Leq(s.dirs[e], t.dirs[e])
<1>1. PICK R : Sim(R) /\ Grows(s, t, R)
  BY DEF Leq
<1>2. ASSUME NEW e \in DOMAIN s.dirs PROVE Leq(s.dirs[e], t.dirs[e])
  <2>1. Grows(s.dirs[e], t.dirs[e], R)
    BY <1>1 DEF Grows, Sim
  <2> QED
    BY <1>1, <2>1 DEF Leq
<1> QED
  BY <1>1, <1>2 DEF Grows

LEMMA LeqUp ==
    ASSUME NEW X, Closed(X), NEW s, NEW t, Over(s, X), Over(t, X),
           DOMAIN s.dirs = DOMAIN t.dirs,
           \A x \in Dir : s.files[x] <= t.files[x],
           \A e \in DOMAIN s.dirs : Leq(s.dirs[e], t.dirs[e])
    PROVE  Leq(s, t)
<1> DEFINE R == {p \in X \X X : Leq(p[1], p[2])}
<1>1. \A a, b : <<a, b>> \in R <=> a \in X /\ b \in X /\ Leq(a, b)
  OBVIOUS
<1> HIDE DEF R
<1>2. Grows(s, t, R)
  BY <1>1 DEF Grows, Over
<1>3. ASSUME NEW a, NEW b, <<a, b>> \in R PROVE Grows(a, b, R)
  <2>1. a \in X /\ b \in X /\ Leq(a, b) /\ Over(a, X) /\ Over(b, X)
    BY <1>1, <1>3 DEF Closed
  <2>2. /\ DOMAIN a.dirs = DOMAIN b.dirs
        /\ \A x \in Dir : a.files[x] <= b.files[x]
        /\ \A e \in DOMAIN a.dirs : Leq(a.dirs[e], b.dirs[e])
    BY <2>1, LeqDown
  <2> QED
    BY <1>1, <2>1, <2>2 DEF Grows, Over
<1> QED
  BY <1>2, <1>3 DEF Leq, Sim

LEMMA LeqRefl ==
    ASSUME NEW X, Closed(X), NEW s, Over(s, X)
    PROVE  Leq(s, s)
<1> DEFINE R == {p \in X \X X : p[1] = p[2]}
<1>1. \A a, b : <<a, b>> \in R <=> a \in X /\ a = b
  OBVIOUS
<1> HIDE DEF R
<1>2. ASSUME NEW a, Over(a, X) PROVE Grows(a, a, R)
  BY <1>1, <1>2 DEF Grows, Over
<1>3. Sim(R)
  BY <1>1, <1>2 DEF Sim, Closed
<1> QED
  BY <1>2, <1>3 DEF Leq

LEMMA LeqTrans ==
    ASSUME NEW X, Closed(X), NEW s, NEW t, NEW u, Over(s, X), Over(t, X), Over(u, X),
           Leq(s, t), Leq(t, u)
    PROVE  Leq(s, u)
<1> DEFINE R == {p \in X \X X : \E b \in X : Leq(p[1], b) /\ Leq(b, p[2])}
<1>1. \A a, c : <<a, c>> \in R <=> a \in X /\ c \in X /\ \E b \in X : Leq(a, b) /\ Leq(b, c)
  OBVIOUS
<1> HIDE DEF R
<1>2. ASSUME NEW a, NEW b, NEW c, Over(a, X), Over(b, X), Over(c, X), Leq(a, b), Leq(b, c)
      PROVE  Grows(a, c, R)
  <2>1. /\ DOMAIN a.dirs = DOMAIN b.dirs
        /\ \A x \in Dir : a.files[x] <= b.files[x]
        /\ \A e \in DOMAIN a.dirs : Leq(a.dirs[e], b.dirs[e])
    BY <1>2, LeqDown
  <2>2. /\ DOMAIN b.dirs = DOMAIN c.dirs
        /\ \A x \in Dir : b.files[x] <= c.files[x]
        /\ \A e \in DOMAIN b.dirs : Leq(b.dirs[e], c.dirs[e])
    BY <1>2, LeqDown
  <2>3. ASSUME NEW x \in Dir PROVE a.files[x] <= c.files[x]
    <3>1. a.files[x] \in Nat /\ b.files[x] \in Nat /\ c.files[x] \in Nat
      BY <1>2 DEF Over
    <3> QED
      BY <2>1, <2>2, <3>1
  <2>4. ASSUME NEW e \in DOMAIN a.dirs PROVE <<a.dirs[e], c.dirs[e]>> \in R
    <3>1. a.dirs[e] \in X /\ b.dirs[e] \in X /\ c.dirs[e] \in X
      BY <1>2, <2>1, <2>2 DEF Over
    <3> QED
      BY <1>1, <2>1, <2>2, <3>1
  <2> QED
    BY <2>1, <2>2, <2>3, <2>4 DEF Grows
<1>3. ASSUME NEW a, NEW c, <<a, c>> \in R PROVE Grows(a, c, R)
  <2>1. PICK b \in X : a \in X /\ c \in X /\ Leq(a, b) /\ Leq(b, c)
    BY <1>1, <1>3
  <2>2. Over(a, X) /\ Over(b, X) /\ Over(c, X)
    BY <2>1 DEF Closed
  <2> QED
    BY <1>2, <2>1, <2>2
<1>4. Grows(s, u, R)
  BY <1>2
<1> QED
  BY <1>3, <1>4 DEF Leq, Sim

-----------------------------------------------------------------------------
(***************************************************************************)
(* Functions that are given along the paths: Holder is one.                *)
(***************************************************************************)

\* The beginning of such a function, on the way to x.
Way(g, x, V, top, F) ==
    /\ g \in [Up[x] -> V] /\ g[Root] = top
    /\ \A y \in Up[x] \ {Root} : g[y] = F[<<y, g[Parent[y]]>>]

LEMMA WayExists ==
    ASSUME NEW V, NEW top \in V, NEW F \in [Dir \X V -> V], NEW x \in Dir
    PROVE  \E g : Way(g, x, V, top, F)
<1> DEFINE S == {a \in Dir : \E g : Way(g, a, V, top, F)}
<1>1. Root \in S
  <2> DEFINE g == [y \in {Root} |-> top]
  <2>1. Way(g, Root, V, top, F)
    BY UpRoot DEF Way
  <2> QED
    BY <2>1, TreeAssumption
<1>2. ASSUME NEW a \in Dir \ {Root}, Parent[a] \in S PROVE a \in S
  <2>1. PICK g : Way(g, Parent[a], V, top, F)
    BY <1>2
  <2>2. Parent[a] \in Dir /\ Up[a] = {a} \cup Up[Parent[a]] /\ a \notin Up[Parent[a]]
    BY UpStep, NoLoops
  <2>3. Parent[a] \in Up[Parent[a]] /\ Root \in Up[Parent[a]]
    BY <2>2, UpFacts, RootAbove
  <2>4. g \in [Up[Parent[a]] -> V] /\ g[Parent[a]] \in V
    BY <2>1, <2>3 DEF Way
  <2>5. PICK v : v = F[<<a, g[Parent[a]]>>]
    OBVIOUS
  <2>6. v \in V
    BY <2>4, <2>5
  <2> DEFINE h == [y \in Up[a] |-> IF y = a THEN v ELSE g[y]]
  <2>7. h \in [Up[a] -> V] /\ h[a] = v /\ \A y \in Up[Parent[a]] : h[y] = g[y]
    BY <2>2, <2>4, <2>6
  <2> HIDE DEF h
  <2>8. ASSUME NEW y \in Up[a] \ {Root} PROVE h[y] = F[<<y, h[Parent[y]]>>]
    <3>1. CASE y = a
      BY <2>3, <2>5, <2>7, <3>1
    <3>2. CASE y \in Up[Parent[a]]
      <4>1. Parent[y] \in Up[Parent[a]]
        BY <2>2, <3>2, UpFacts
      <4>2. g[y] = F[<<y, g[Parent[y]]>>]
        BY <2>1, <3>2 DEF Way
      <4> QED
        BY <2>7, <3>2, <4>1, <4>2
    <3> QED
      BY <2>2, <3>1, <3>2
  <2>9. Way(h, a, V, top, F)
    BY <2>1, <2>3, <2>7, <2>8 DEF Way
  <2> QED
    BY <2>9
<1>3. S = Dir
  BY <1>1, <1>2, PathAssumption
<1> QED
  BY <1>3

\* Function F says what comes next, and h follows it.
Guides(F, V, top) == top \in V /\ F \in [Dir \X V -> V]
Follows(h, F, V, top) ==
    /\ h \in [Dir -> V] /\ h[Root] = top
    /\ \A y \in Dir \ {Root} : h[y] = F[<<y, h[Parent[y]]>>]

LEMMA AlongPaths ==
    ASSUME NEW F, NEW V, NEW top, Guides(F, V, top)
    PROVE  \E h : Follows(h, F, V, top)
<1> DEFINE way(x) == CHOOSE g : Way(g, x, V, top, F)
           h == [x \in Dir |-> way(x)[x]]
<1>0. ASSUME NEW x \in Dir, NEW z \in Dir, NEW f, NEW g,
             Way(f, x, V, top, F), Way(g, z, V, top, F)
      PROVE  \A y \in Dir : y \in Up[x] /\ y \in Up[z] => f[y] = g[y]
  <2> DEFINE S == {a \in Dir : a \in Up[x] /\ a \in Up[z] => f[a] = g[a]}
  <2>1. Root \in S
    BY <1>0, TreeAssumption DEF Way
  <2>2. ASSUME NEW a \in Dir \ {Root}, Parent[a] \in S, a \in Up[x], a \in Up[z]
        PROVE  f[a] = g[a]
    <3>1. Parent[a] \in Up[x] /\ Parent[a] \in Up[z]
      BY <2>2, UpFacts
    <3> QED
      BY <1>0, <2>2, <3>1 DEF Way
  <2>3. S = Dir
    BY <2>1, <2>2, PathAssumption
  <2> QED
    BY <2>3
<1>1. ASSUME NEW x \in Dir PROVE Way(way(x), x, V, top, F)
  BY WayExists DEF Guides
<1> HIDE DEF way
<1>2. \A x \in Dir : h[x] = way(x)[x]
  OBVIOUS
<1>3. ASSUME NEW x \in Dir PROVE h[x] \in V
  BY <1>1, <1>2, UpFacts DEF Way
<1>4. h \in [Dir -> V]
  BY <1>3
<1> HIDE DEF h
<1>5. h[Root] = top
  BY <1>1, <1>2, TreeAssumption DEF Way
<1>6. ASSUME NEW y \in Dir \ {Root} PROVE h[y] = F[<<y, h[Parent[y]]>>]
  <2>1. Parent[y] \in Dir /\ Parent[y] \in Up[y] /\ y \in Up[y] /\ Parent[y] \in Up[Parent[y]]
    BY TreeAssumption, UpFacts
  <2>2. way(y)[y] = F[<<y, way(y)[Parent[y]]>>]
    BY <1>1, <2>1 DEF Way
  <2>3. Way(way(y), y, V, top, F) /\ Way(way(Parent[y]), Parent[y], V, top, F)
    BY <1>1, <2>1
  <2>4. way(y)[Parent[y]] = way(Parent[y])[Parent[y]]
    <3>1. PICK p \in Dir : p = Parent[y]
      BY <2>1
    <3>2. PICK f, g : f = way(y) /\ g = way(p)
      OBVIOUS
    <3>3. /\ y \in Dir /\ Way(f, y, V, top, F) /\ Way(g, p, V, top, F)
          /\ p \in Up[y] /\ p \in Up[p]
      BY <2>1, <2>3, <3>1, <3>2
    <3>4. f[p] = g[p]
      <4>1. \A a \in Dir : a \in Up[y] /\ a \in Up[p] => f[a] = g[a]
        BY <1>0, <3>3
      <4> QED
        BY <3>3, <4>1
    <3> QED
      BY <3>1, <3>2, <3>4
  <2> QED
    BY <1>2, <2>1, <2>2, <2>4
<1> QED
  BY <1>4, <1>5, <1>6 DEF Follows

-----------------------------------------------------------------------------
(***************************************************************************)
(* Without create_dir and without autosave an open directory is never      *)
(* behind the snapshot that its parent refers to, nor the root behind its  *)
(* file.                                                                   *)
(***************************************************************************)
Grow(acts, file) ==
    /\ Leq(file, acts[Root].state)
    /\ \A f \in Dir : acts[f].life # "none" => acts[f].state # NoHash
    /\ \A f \in Dir \ {Root} :
          acts[f].life # "none" => Leq(acts[Parent[f]].state.dirs[f], acts[f].state)

LEMMA Stock ==
    ASSUME Shapes, Order, WithoutCreate
    PROVE  Closed(stored) /\ \A s \in Pool : s # NoHash => Over(s, stored)
<1>1. Known = stored
  BY DEF Known
<1>2. ASSUME NEW s \in Pool, s # NoHash PROVE Over(s, stored)
  <2>1. Snap(s, Known)
    BY <1>2 DEF Pool, Shapes, StoredOK, ActorsOK, RecordOK
  <2>2. s.files \in [Dir -> Nat]
    BY <1>2 DEF Order, OrderIn, Behind
  <2> QED
    BY <1>1, <2>1, <2>2 DEF Snap, Over
<1>3. ASSUME NEW s \in stored PROVE s \in Pool /\ s # NoHash
  BY SnapIsNoHash DEF Shapes, StoredOK, Pool
<1> QED
  BY <1>2, <1>3 DEF Closed

LEMMA OverMore ==
    ASSUME NEW X, NEW Y, X \subseteq Y, NEW s, Over(s, X)
    PROVE  Over(s, Y)
BY DEF Over

\* The same when snapshots of directories have been added.
LEMMA StockSaved ==
    ASSUME Shapes, Order, WithoutCreate, SavesOnly
    PROVE  Closed(stored') /\ \A s \in Pool : s # NoHash => Over(s, stored')
<1>1. \A s \in Pool : s # NoHash => Over(s, stored')
  BY Stock, OverMore DEF SavesOnly
<1>2. ASSUME NEW s \in stored' PROVE s \in Pool /\ s # NoHash
  BY SnapIsNoHash DEF SavesOnly, Pool, Shapes, StoredOK
<1> QED
  BY <1>1, <1>2 DEF Closed

\* No directory is opened, every snapshot is later, and an entry that changes becomes
\* the snapshot that its directory had.
Advance(acts, acts1, file, file1, X) ==
    /\ Root \in Dir /\ acts[Root].life # "none" /\ Over(file, X)
    /\ file1 = file \/ file1 = acts[Root].state
    /\ \A f \in Dir : UnderParent(acts, f) /\ (acts[f].life = "none" => acts[f].state = NoHash)
    /\ \A f \in Dir : acts1[f].life # "none" => acts[f].life # "none"
    /\ \A f \in Dir : acts[f].life # "none" =>
          /\ Over(acts[f].state, X) /\ Over(acts1[f].state, X) /\ acts1[f].state # NoHash
          /\ Leq(acts[f].state, acts1[f].state)
    /\ \A f \in Dir \ {Root} : acts[f].life # "none" =>
          \/ acts1[Parent[f]].state.dirs[f] = acts[Parent[f]].state.dirs[f]
          \/ acts1[Parent[f]].state.dirs[f] = acts[f].state

LEMMA GrowAdvance ==
    ASSUME NEW X, Closed(X), NEW acts, NEW acts1, NEW file, NEW file1, Grow(acts, file),
           Advance(acts, acts1, file, file1, X)
    PROVE  Grow(acts1, file1)
<1>1. Leq(file1, acts1[Root].state)
  <2>1. /\ Over(acts[Root].state, X) /\ Over(acts1[Root].state, X) /\ Over(file, X)
        /\ Leq(acts[Root].state, acts1[Root].state) /\ Leq(file, acts[Root].state)
    BY DEF Advance, Grow
  <2>2. Leq(file, acts1[Root].state)
    BY <2>1, LeqTrans
  <2> QED
    BY <2>1, <2>2 DEF Advance
<1>2. ASSUME NEW f \in Dir \ {Root}, acts1[f].life # "none"
      PROVE  Leq(acts1[Parent[f]].state.dirs[f], acts1[f].state)
  <2>1. /\ acts[f].life # "none" /\ UnderParent(acts, f)
        /\ Over(acts[f].state, X) /\ Over(acts1[f].state, X)
        /\ Leq(acts[f].state, acts1[f].state)
    BY <1>2 DEF Advance
  <2>2. CASE acts1[Parent[f]].state.dirs[f] = acts[f].state
    BY <2>1, <2>2
  <2>3. CASE acts1[Parent[f]].state.dirs[f] = acts[Parent[f]].state.dirs[f]
    <3>1. PICK h : h = acts[Parent[f]].state.dirs[f]
      OBVIOUS
    <3>2. Leq(h, acts[f].state)
      BY <2>1, <3>1 DEF Grow
    <3>3. Over(h, X)
      <4>1. Parent[f] \in Dir
        BY TreeAssumption
      <4>2. Over(acts[Parent[f]].state, X)
        <5>1. acts[Parent[f]].state # NoHash /\ f \in DOMAIN acts[Parent[f]].state.dirs
          BY <2>1 DEF UnderParent
        <5> QED
          BY <4>1, <5>1 DEF Advance
      <4>3. h \in X
        BY <2>1, <3>1, <4>2 DEF UnderParent, Over
      <4> QED
        BY <4>3 DEF Closed
    <3>4. Leq(h, acts1[f].state)
      BY <2>1, <3>2, <3>3, LeqTrans
    <3> QED
      BY <2>3, <3>1, <3>4
  <2> QED
    BY <1>2, <2>1, <2>2, <2>3 DEF Advance
<1> QED
  BY <1>1, <1>2 DEF Grow, Advance

\* What the steps know of the directories that are open.
LEMMA GrowFacts ==
    ASSUME Shapes, Tree, Order, WithoutCreate, Grow(actor, rootFile), SavesOnly
    PROVE  /\ Closed(stored') /\ Root \in Dir /\ actor[Root].life # "none"
           /\ rootFile \in Pool /\ Over(rootFile, stored')
           /\ \A f \in Dir : UnderParent(actor, f) /\ (actor[f].life = "none" => actor[f].state = NoHash)
           /\ \A f \in Dir : actor[f].life # "none" =>
                 /\ actor[f].state # NoHash /\ Over(actor[f].state, stored')
                 /\ Leq(actor[f].state, actor[f].state)
           /\ rootFile' = rootFile \/ rootFile' = actor[Root].state
<1>1. Closed(stored') /\ \A s \in Pool : s # NoHash => Over(s, stored')
  BY StockSaved
<1>2. Root \in Dir /\ \A f \in Dir : UnderParent(actor, f) /\ ActorFits(f, actor[f])
  BY TreeAssumption DEF Tree, ActorTree
<1>3. rootFile \in Pool /\ rootFile # NoHash
  BY SnapIsNoHash DEF Pool, Shapes, StoredOK
<1>4. ASSUME NEW f \in Dir, actor[f].life # "none"
      PROVE  /\ actor[f].state # NoHash /\ Over(actor[f].state, stored')
             /\ Leq(actor[f].state, actor[f].state)
  <2>1. actor[f].state # NoHash /\ actor[f].state \in Pool
    BY <1>4 DEF Grow, Pool
  <2>2. Over(actor[f].state, stored')
    BY <1>1, <2>1
  <2> QED
    BY <1>1, <2>1, <2>2, LeqRefl
<1> QED
  BY <1>1, <1>2, <1>3, <1>4 DEF ActorFits, SavesOnly

LEMMA GrowQuiet ==
    ASSUME Shapes, Tree, Order, WithoutCreate, Grow(actor, rootFile), Quiet
    PROVE  Grow(actor', rootFile')
<1>1. SavesOnly /\ Steady
  BY DEF Quiet
<1>2. \A f \in Dir : actor'[f].state = actor[f].state /\ (actor'[f].life = "none" <=> actor[f].life = "none")
  BY <1>1 DEF Steady
<1>3. \A f \in Dir \ {Root} : actor'[Parent[f]].state = actor[Parent[f]].state
  BY <1>2, TreeAssumption
<1>4. Advance(actor, actor', rootFile, rootFile', stored')
  BY <1>1, <1>2, <1>3, GrowFacts DEF Advance
<1>5. Closed(stored')
  BY <1>1, GrowFacts
<1> QED
  BY <1>4, <1>5, GrowAdvance

LEMMA GrowEntered ==
    ASSUME Shapes, Tree, Order, WithoutCreate, Grow(actor, rootFile), NEW p \in Dir, NEW e \in Dir,
           Entered(p, e, actor[e].state), actor[e].state \in stored', actor[e].life # "none"
    PROVE  Grow(actor', rootFile')
<1>1. /\ SavesOnly
      /\ \A f \in Dir : actor'[f].life = "none" <=> actor[f].life = "none"
      /\ \A f \in Dir : f # p => actor'[f].state = actor[f].state
  BY DEF Entered
<1>2. Closed(stored')
  BY <1>1, GrowFacts
<1>3. CASE actor'[p].state = actor[p].state
  <2>1. Quiet
    BY <1>3 DEF Entered, Quiet, Steady
  <2> QED
    BY <2>1, GrowQuiet
<1>4. CASE /\ actor[p].state # NoHash /\ e \in DOMAIN actor[p].state.dirs
           /\ actor'[p].state = [actor[p].state EXCEPT !.dirs[e] = actor[e].state]
  <2> DEFINE s == actor[p].state
             t == actor'[p].state
             h == actor[e].state
  <2>1. Snap(s, Known) /\ actor[p].life # "none"
    BY <1>1, <1>4, GrowFacts DEF Shapes, ActorsOK, RecordOK
  <2>2. /\ t.files = s.files /\ t # NoHash /\ t.dirs = [s.dirs EXCEPT ![e] = h]
    BY <1>4, <2>1, EntryFiles
  <2>3. e # Root /\ Parent[e] = p
    BY <1>4, <2>1, OnlyRoot DEF ActorFits, Fits
  <2>4. Over(s, stored') /\ \A x \in DOMAIN s.dirs : s.dirs[x] \in stored'
    BY <1>1, <2>1, GrowFacts DEF Over
  <2>5. /\ DOMAIN t.dirs = DOMAIN s.dirs /\ t.dirs[e] = h
        /\ \A x \in DOMAIN s.dirs : x # e => t.dirs[x] = s.dirs[x]
        /\ \A x : x # e => t.dirs[x] = s.dirs[x] \/ x \notin DOMAIN s.dirs
    BY <1>4, <2>1, <2>2 DEF Snap
  <2>6. Over(t, stored')
    BY <2>2, <2>4, <2>5 DEF Over
  <2>7. ASSUME NEW x \in DOMAIN s.dirs PROVE Leq(s.dirs[x], t.dirs[x])
    <3>1. CASE x = e
      BY <2>3, <2>5, <3>1 DEF Grow
    <3>2. CASE x # e
      <4>1. Over(s.dirs[x], stored') /\ t.dirs[x] = s.dirs[x]
        BY <1>2, <2>4, <2>5, <3>2 DEF Closed
      <4>2. Leq(s.dirs[x], s.dirs[x])
        BY <1>2, <4>1, LeqRefl
      <4> QED
        BY <4>1, <4>2
    <3> QED
      BY <3>1, <3>2
  <2>8. \A x \in Dir : s.files[x] <= t.files[x]
    BY <2>2, <2>4 DEF Over
  <2>9. PICK s1, t1 : s1 = s /\ t1 = t
    OBVIOUS
  <2>10. Leq(s, t)
    <3>1. /\ Over(s1, stored') /\ Over(t1, stored') /\ DOMAIN s1.dirs = DOMAIN t1.dirs
          /\ \A x \in Dir : s1.files[x] <= t1.files[x]
          /\ \A x \in DOMAIN s1.dirs : Leq(s1.dirs[x], t1.dirs[x])
      BY <2>4, <2>5, <2>6, <2>7, <2>8, <2>9
    <3>2. Leq(s1, t1)
      BY <1>2, <3>1, LeqUp
    <3> QED
      BY <2>9, <3>2
  <2>11. ASSUME NEW f \in Dir, actor[f].life # "none"
         PROVE  /\ Over(actor[f].state, stored') /\ Over(actor'[f].state, stored')
                /\ actor'[f].state # NoHash /\ Leq(actor[f].state, actor'[f].state)
    BY <1>1, <2>2, <2>6, <2>10, <2>11, GrowFacts
  <2>12. ASSUME NEW f \in Dir \ {Root}, actor[f].life # "none"
         PROVE  \/ actor'[Parent[f]].state.dirs[f] = actor[Parent[f]].state.dirs[f]
                \/ actor'[Parent[f]].state.dirs[f] = actor[f].state
    <3>1. Parent[f] \in Dir
      BY TreeAssumption
    <3>2. CASE Parent[f] # p
      BY <1>1, <3>1, <3>2
    <3>3. CASE Parent[f] = p /\ f = e
      BY <2>5, <3>3
    <3>4. CASE Parent[f] = p /\ f # e
      <4>1. f \in DOMAIN s.dirs
        BY <1>1, <2>12, <3>4, GrowFacts DEF UnderParent
      <4> QED
        BY <2>5, <3>4, <4>1
    <3> QED
      BY <3>2, <3>3, <3>4
  <2>13. Advance(actor, actor', rootFile, rootFile', stored')
    BY <1>1, <2>11, <2>12, GrowFacts DEF Advance
  <2> QED
    BY <1>2, <2>13, GrowAdvance
<1> QED
  BY <1>3, <1>4 DEF Entered

LEMMA GrowFiled ==
    ASSUME Shapes, Tree, Order, WithoutCreate, Grow(actor, rootFile), NEW d \in Dir,
           actor[d].life # "none", NEW x \in Dir, NEW n \in Nat, Filed(d, x, n),
           actor[d].state.files[x] <= n, UNCHANGED <<stored, rootFile>>
    PROVE  Grow(actor', rootFile')
<1>1. /\ SavesOnly
      /\ \A f \in Dir : actor'[f].life = "none" <=> actor[f].life = "none"
      /\ \A f \in Dir : f # d => actor'[f].state = actor[f].state
      /\ actor'[d].state = [actor[d].state EXCEPT !.files[x] = n]
  BY SameSaves DEF Filed
<1>2. Closed(stored') /\ actor[d].state # NoHash /\ Over(actor[d].state, stored')
  BY <1>1, GrowFacts
<1>3. Snap(actor[d].state, Known) /\ actor[d].state.files \in [Dir -> Nat]
  BY <1>2 DEF Shapes, ActorsOK, RecordOK, Order, OrderIn, Behind, Pool
<1>4. PICK s, t : s = actor[d].state /\ t = actor'[d].state
  OBVIOUS
<1>5. t.files = [s.files EXCEPT ![x] = n] /\ t.dirs = s.dirs
  BY <1>1, <1>3, <1>4, FiledState
<1>6. t # NoHash
  <2>1. Snap(t, Known)
    <3>1. Snap(s, Known) /\ t = [s EXCEPT !.files[x] = n]
      BY <1>1, <1>3, <1>4
    <3>2. Snap([s EXCEPT !.files[x] = n], Known)
      BY <3>1, FilesOK
    <3> QED
      BY <3>1, <3>2
  <2> QED
    BY <2>1, SnapIsNoHash
<1>7. Over(s, stored') /\ s.files \in [Dir -> Nat] /\ s.files[x] <= n
  BY <1>2, <1>3, <1>4
<1>8. Over(t, stored') /\ \A y \in Dir : s.files[y] <= t.files[y]
  BY <1>5, <1>7 DEF Over
<1>9. \A e \in DOMAIN s.dirs : Leq(s.dirs[e], t.dirs[e])
  <2> TAKE e \in DOMAIN s.dirs
  <2>1. Over(s.dirs[e], stored')
    BY <1>2, <1>7 DEF Over, Closed
  <2>2. Leq(s.dirs[e], s.dirs[e])
    BY <1>2, <2>1, LeqRefl
  <2> QED
    BY <1>5, <2>2
<1>10. Leq(s, t)
  BY <1>2, <1>5, <1>7, <1>8, <1>9, LeqUp
<1>11. ASSUME NEW f \in Dir, actor[f].life # "none"
       PROVE  /\ Over(actor[f].state, stored') /\ Over(actor'[f].state, stored')
              /\ actor'[f].state # NoHash /\ Leq(actor[f].state, actor'[f].state)
  BY <1>1, <1>4, <1>6, <1>8, <1>10, <1>11, GrowFacts
<1>12. ASSUME NEW f \in Dir \ {Root}
       PROVE  actor'[Parent[f]].state.dirs[f] = actor[Parent[f]].state.dirs[f]
  <2>1. Parent[f] \in Dir
    BY TreeAssumption
  <2>2. CASE Parent[f] = d
    BY <1>4, <1>5, <2>2
  <2>3. CASE Parent[f] # d
    BY <1>1, <2>1, <2>3
  <2> QED
    BY <2>2, <2>3
<1>13. Advance(actor, actor', rootFile, rootFile', stored')
  BY <1>1, <1>11, <1>12, GrowFacts DEF Advance
<1> QED
  BY <1>2, <1>13, GrowAdvance

LEMMA GrowOpened ==
    ASSUME Shapes, Tree, Order, WithoutCreate, Grow(actor, rootFile), NEW d \in Dir, NEW e \in Dir,
           e # Root, Parent[e] = d, e # d, e \in DOMAIN actor[d].state.dirs, actor[d].life # "none",
           Opened(d, e), UNCHANGED <<stored, rootFile>>
    PROVE  Grow(actor', rootFile')
<1>1. CASE actor' = actor
  BY <1>1 DEF Grow
<1>2. CASE /\ actor[e].life = "none"
           /\ actor'[e].state = actor[d].state.dirs[e] /\ actor'[e].life = "loading"
           /\ \A f \in Dir : f # e => actor'[f] = actor[f]
  <2>0. SavesOnly /\ stored' = stored
    BY SameSaves
  <2>1. Closed(stored) /\ Over(actor[d].state, stored)
    BY <2>0, GrowFacts
  <2>2. PICK h : h = actor[d].state.dirs[e]
    OBVIOUS
  <2>3. h \in stored
    BY <2>1, <2>2 DEF Over
  <2>4. Leq(h, h)
    BY <2>1, <2>3, LeqRefl DEF Closed
  <2>5. h # NoHash
    BY <2>3, SnapIsNoHash DEF Shapes, StoredOK
  <2>6. actor'[Root] = actor[Root] /\ actor'[d] = actor[d]
    BY <1>2, TreeAssumption
  <2>7. ASSUME NEW f \in Dir \ {Root}, actor'[f].life # "none"
        PROVE  Leq(actor'[Parent[f]].state.dirs[f], actor'[f].state)
    <3>1. CASE f = e
      BY <1>2, <2>2, <2>4, <2>6, <3>1
    <3>2. CASE f # e
      <4>1. actor'[f] = actor[f] /\ actor[f].life # "none" /\ Parent[f] \in Dir
        BY <1>2, <2>7, <3>2, TreeAssumption
      <4>2. Parent[f] # e
        BY <1>2, <2>0, <4>1, GrowFacts DEF UnderParent
      <4>3. actor'[Parent[f]] = actor[Parent[f]]
        BY <1>2, <4>1, <4>2
      <4> QED
        BY <4>1, <4>3 DEF Grow
    <3> QED
      BY <3>1, <3>2
  <2>8. ASSUME NEW f \in Dir, actor'[f].life # "none" PROVE actor'[f].state # NoHash
    BY <1>2, <2>2, <2>5, <2>8 DEF Grow
  <2>9. Leq(rootFile', actor'[Root].state)
    BY <2>6 DEF Grow
  <2> QED
    BY <2>7, <2>8, <2>9 DEF Grow
<1> QED
  BY <1>1, <1>2 DEF Opened

LEMMA GrowFresh ==
    ASSUME NEW file, Leq(file, file), file # NoHash
    PROVE  Grow(FreshActors(file), file)
<1>1. PICK acts : acts = FreshActors(file)
  OBVIOUS
<1>2. /\ Root \in Dir /\ acts[Root].state = file
      /\ \A f \in Dir \ {Root} : acts[f].life = "none"
  BY <1>1, TreeAssumption DEF FreshActors, Spawn, NotOpen
<1>3. Grow(acts, file)
  BY <1>2 DEF Grow
<1> QED
  BY <1>1, <1>3

LEMMA RootFileLater ==
    ASSUME Shapes, Order, WithoutCreate
    PROVE  Leq(rootFile, rootFile) /\ rootFile # NoHash
<1>1. rootFile \in Pool /\ rootFile # NoHash
  BY SnapIsNoHash DEF Pool, Shapes, StoredOK
<1> QED
  BY <1>1, Stock, LeqRefl

LEMMA GrowClient ==
    ASSUME Shapes, Order, WithoutCreate, Grow(actor, rootFile), ClientStep
    PROVE  Grow(actor', rootFile') /\ SavesOnly
<1>1. ASSUME UNCHANGED <<actor, stored, rootFile>> PROVE Grow(actor', rootFile') /\ SavesOnly
  BY <1>1, SameSaves
<1>2. ASSUME NEW op, NEW d, NEW arg, NEW from, Post(op, d, arg, from)
      PROVE  UNCHANGED <<actor, stored, rootFile>>
  BY <1>2 DEF Post
<1>3. CASE Drop
  BY <1>1, <1>3 DEF Drop
<1>4. CASE Crash
  <2>1. actor' = FreshActors(rootFile) /\ UNCHANGED <<stored, rootFile>>
    BY <1>4 DEF Crash
  <2>2. Grow(FreshActors(rootFile), rootFile)
    BY RootFileLater, GrowFresh
  <2> QED
    BY <2>1, <2>2, SameSaves
<1>5. CASE \E op, d, arg, from : Post(op, d, arg, from)
  BY <1>1, <1>2, <1>5
<1> QED
  BY <1>3, <1>4, <1>5 DEF ClientStep, FilePutSync, FileGet, CreateDir, FilePut, Save,
     Shutdown, WithAutosave, Call

LEMMA GrowFileOp ==
    ASSUME Shapes, Tree, Order, WithoutCreate, Grow(actor, rootFile), NEW d \in Dir, FileOp(d)
    PROVE  Grow(actor', rootFile') /\ SavesOnly
<1>1. PICK m : m = Head(box[d])
  OBVIOUS
<1>2. /\ m.op = "file_get" => Quiet
      /\ m.op # "file_get" => Put(m) /\ Filed(d, m.dir, m.arg)
  BY <1>1, FileOpFiles
<1>3. UNCHANGED <<stored, rootFile>> /\ SavesOnly
  BY SameSaves DEF FileOp
<1>4. CASE m.op # "file_get"
  <2>1. Receives(d, {"file_put", "file_put_sync", "file_get"})
    BY DEF FileOp
  <2>2. /\ actor[d].life = "running" /\ actor[d].state # NoHash
        /\ box[d] \in Seq(Messages) /\ box[d] # <<>>
    BY <2>1, Receiving DEF Receives, Shapes
  <2>3. InPuts(box[d], m.dir, m.arg)
    BY <1>1, <1>2, <1>4, <2>2, HeadFirst
  <2>4. m.dir \in Dir /\ m.arg \in Nat
    BY <2>3 DEF Order, OrderIn, RoutedAt
  <2>5. actor[d].state.files[m.dir] <= m.arg
    BY <2>2, <2>3 DEF Order, OrderIn, Behind, Pool
  <2> QED
    BY <1>2, <1>3, <1>4, <2>2, <2>4, <2>5, GrowFiled
<1> QED
  BY <1>2, <1>3, <1>4, GrowQuiet

LEMMA GrowNext ==
    Shapes /\ Tree /\ Order /\ PlainUse /\ Plain(actor, box) /\ Grow(actor, rootFile) /\ [Next]_vars
    => Grow(actor', rootFile') /\ SavesOnly
<1> SUFFICES ASSUME Shapes, Tree, Order, PlainUse, Plain(actor, box), Grow(actor, rootFile),
                    [Next]_vars
             PROVE  Grow(actor', rootFile') /\ SavesOnly
  OBVIOUS
<1>0. WithoutCreate
  BY DEF PlainUse
<1>1. CASE ClientStep
  BY <1>0, <1>1, GrowClient
<1>2. ASSUME Quiet PROVE Grow(actor', rootFile') /\ SavesOnly
  BY <1>0, <1>2, GrowQuiet DEF Quiet
<1>3. ASSUME NEW d \in Dir, ActorStep(d) PROVE Grow(actor', rootFile') /\ SavesOnly
  <2>1. ASSUME SaveDone(d) PROVE Grow(actor', rootFile') /\ SavesOnly
    <3>1. ASSUME NEW p \in Dir, Entered(p, d, actor[d].state), actor[d].state \in stored'
          PROVE  Grow(actor', rootFile') /\ SavesOnly
      <4>1. actor[d].life # "none"
        <5>1. actor[d].state # NoHash
          BY <2>1, Busy DEF SaveDone, ChildrenDone
        <5> QED
          BY <5>1 DEF Tree, ActorTree, ActorFits
      <4> QED
        BY <1>0, <3>1, <4>1, GrowEntered DEF Entered
    <3> QED
      BY <1>2, <2>1, <3>1, SaveDoneEnters
  <2>2. ASSUME Forward(d) PROVE Grow(actor', rootFile') /\ SavesOnly
    <3>1. actor[d].life # "none"
      BY <2>2, Receiving DEF Forward
    <3>2. ASSUME NEW e \in Dir, e # Root, Parent[e] = d, e # d,
                 e \in DOMAIN actor[d].state.dirs, Opened(d, e),
                 UNCHANGED <<stored, rootFile>>
          PROVE  Grow(actor', rootFile') /\ SavesOnly
      BY <1>0, <3>1, <3>2, GrowOpened, SameSaves
    <3> QED
      BY <1>2, <2>2, <3>2, ForwardOpens
  <2>3. ASSUME \/ Load(d) \/ Tell(d) \/ ChildIsDirty(d) \/ SaveIfDirty(d)
               \/ (\E e \in Dir : AskChild(d, e))
               \/ BeginShutdown(d) \/ Stop(d) \/ Orphan(d)
        PROVE Quiet
    BY <2>3, QuietLoad, QuietTell, QuietChildIsDirty,
       QuietSaveIfDirty, QuietAskChild, QuietBeginShutdown, QuietStop, QuietOrphan
  <2> QED
    BY <1>0, <1>2, <1>3, <2>1, <2>2, <2>3, GrowFileOp, NotPlain DEF ActorStep
<1>4. ASSUME NEW d \in Dir, Fire(d) PROVE Grow(actor', rootFile') /\ SavesOnly
  BY <1>4, NotPlain
<1>5. CASE UNCHANGED vars
  BY <1>5, SameSaves DEF vars
<1> QED
  BY <1>1, <1>3, <1>4, <1>5 DEF Next

LEMMA GrowAlways == Spec => [](PlainUse => Grow(actor, rootFile))
<1> DEFINE I == PlainUse => Grow(actor, rootFile)
           O == Sound => Order
           T == Sound => Tree
           P == PlainUse => Plain(actor, box)
<1>1. Shapes /\ O /\ Init => I
  <2> SUFFICES ASSUME Shapes, Order, PlainUse, Init PROVE Grow(actor, rootFile)
    BY DEF PlainUse, Sound
  <2>1. Grow(FreshActors(rootFile), rootFile)
    BY RootFileLater, GrowFresh DEF PlainUse
  <2> QED
    BY <2>1 DEF Init
<1>2. Shapes /\ O /\ T /\ P /\ I /\ [Next]_vars => I'
  <2>1. [Next]_vars => (PlainUse' <=> PlainUse)
    BY ConfigStays DEF PlainUse, WithoutAutosave, WithoutCreate
  <2>2. Grow(actor, rootFile)' <=> Grow(actor', rootFile')
    BY DEF Grow, Leq, Sim, Grows
  <2>3. PlainUse => Sound
    BY DEF PlainUse, Sound
  <2> QED
    BY <2>1, <2>2, <2>3, GrowNext
<1>3. (Spec => []O) /\ (Spec => []T) /\ (Spec => []P)
  BY OrderCorrect, TreeAlways, PlainAlways
<1> HIDE DEF I, O, T, P
<1>4. Spec => []I
  BY <1>1, <1>2, <1>3, ShapesCorrect, PTL DEF Spec
<1> QED
  BY <1>4 DEF I

-----------------------------------------------------------------------------
(***************************************************************************)
(* What a reader of the root file finds.                                   *)
(***************************************************************************)

\* One step down from where the reader is for the path above x.
Below(x, h, st) ==
    IF h.snap # NoHash /\ h.dir = Parent[x] /\ x \in DOMAIN h.snap.dirs
    THEN [dir |-> x, snap |-> IF h.snap.dirs[x] \in st THEN h.snap.dirs[x] ELSE NoHash]
    ELSE h
Reads(H, file, st) ==
    H = [x \in Dir |-> IF x = Root THEN [dir |-> Root, snap |-> file]
                       ELSE Below(x, H[Parent[x]], st)]
Reader(file, st) == CHOOSE H : Reads(H, file, st)

LEMMA ReaderReads ==
    ASSUME NEW file, NEW st
    PROVE  Reads(Reader(file, st), file, st)
<1> DEFINE V == [dir : Dir, snap : st \cup {file} \cup {NoHash}]
           top == [dir |-> Root, snap |-> file]
           F == [q \in Dir \X V |-> Below(q[1], q[2], st)]
<1>1. top \in V
  BY TreeAssumption
<1>2. ASSUME NEW x \in Dir, NEW v \in V PROVE Below(x, v, st) \in V
  BY DEF Below
<1>3. F \in [Dir \X V -> V] /\ \A x \in Dir, v \in V : F[<<x, v>>] = Below(x, v, st)
  <2> HIDE DEF V
  <2> QED
    BY <1>2
<1> HIDE DEF V, F, top
<1>4. PICK h : /\ h \in [Dir -> V] /\ h[Root] = top
               /\ \A y \in Dir \ {Root} : h[y] = F[<<y, h[Parent[y]]>>]
  <2>1. Guides(F, V, top)
    BY <1>1, <1>3 DEF Guides
  <2>2. \E h : Follows(h, F, V, top)
    BY <2>1, AlongPaths
  <2> QED
    BY <2>2 DEF Follows
<1>5. \A y \in Dir \ {Root} : h[y] = Below(y, h[Parent[y]], st)
  BY <1>3, <1>4, TreeAssumption
<1>6. Reads(h, file, st)
  BY <1>4, <1>5 DEF Reads, top
<1> QED
  BY <1>6, Zenon DEF Reader

LEMMA HolderReads ==
    /\ Holder = Reader(rootFile, stored)
    /\ Holder' = Reader(rootFile', stored')
<1>1. Holder = Reader(rootFile, stored)
  BY Zenon DEF Holder, Reader, Reads, Below
<1>2. Holder' = Reader(rootFile', stored')
  BY Zenon DEF Holder, Reader, Reads, Below
<1> QED
  BY <1>1, <1>2

LEMMA ReaderSteps ==
    ASSUME NEW file, NEW st, NEW H, Reads(H, file, st)
    PROVE  /\ H[Root] = [dir |-> Root, snap |-> file]
           /\ \A x \in Dir \ {Root} : H[x] = Below(x, H[Parent[x]], st)
<1>1. PICK G : G = [x \in Dir |-> IF x = Root THEN [dir |-> Root, snap |-> file]
                                 ELSE Below(x, H[Parent[x]], st)]
  OBVIOUS
<1>2. H = G
  BY <1>1 DEF Reads
<1>3. /\ G[Root] = [dir |-> Root, snap |-> file]
      /\ \A x \in Dir \ {Root} : G[x] = Below(x, H[Parent[x]], st)
  BY <1>1, TreeAssumption
<1> QED
  BY <1>2, <1>3

\* A root file all of whose directories can be loaded.
Whole(file, st) == file # NoHash /\ NoHash \notin st /\ Closed(st) /\ Over(file, st)

\* Where two readers are when the second one reads later snapshots.
Later(h, k, st, st1) ==
    /\ h.dir = k.dir /\ h.snap # NoHash /\ k.snap # NoHash
    /\ Over(h.snap, st) /\ Over(k.snap, st1) /\ Leq(h.snap, k.snap)

LEMMA BelowLater ==
    ASSUME NEW st, NEW st1, Closed(st), Closed(st1), NoHash \notin st, NoHash \notin st1,
           NEW h, NEW k, Later(h, k, st, st1), NEW x
    PROVE  Later(Below(x, h, st), Below(x, k, st1), st, st1)
<1>1. /\ h.dir = k.dir /\ h.snap # NoHash /\ k.snap # NoHash
      /\ Over(h.snap, st) /\ Over(k.snap, st1) /\ Leq(h.snap, k.snap)
  BY DEF Later
<1>2. /\ DOMAIN h.snap.dirs = DOMAIN k.snap.dirs
      /\ \A e \in DOMAIN h.snap.dirs : Leq(h.snap.dirs[e], k.snap.dirs[e])
  BY <1>1, LeqDown
<1>3. CASE h.dir = Parent[x] /\ x \in DOMAIN h.snap.dirs
  <2>1. PICK a, b : a = h.snap.dirs[x] /\ b = k.snap.dirs[x]
    OBVIOUS
  <2>2. a \in st /\ b \in st1
    BY <1>1, <1>2, <1>3, <2>1 DEF Over
  <2>3. Below(x, h, st) = [dir |-> x, snap |-> a] /\ Below(x, k, st1) = [dir |-> x, snap |-> b]
    BY <1>1, <1>2, <1>3, <2>1, <2>2 DEF Below
  <2>4. a # NoHash /\ b # NoHash /\ Over(a, st) /\ Over(b, st1) /\ Leq(a, b)
    BY <1>2, <1>3, <2>1, <2>2 DEF Closed
  <2> QED
    BY <2>3, <2>4 DEF Later
<1>4. CASE ~(h.dir = Parent[x] /\ x \in DOMAIN h.snap.dirs)
  BY <1>1, <1>2, <1>4 DEF Below, Later
<1> QED
  BY <1>3, <1>4

LEMMA ReadersLater ==
    ASSUME NEW file, NEW st, NEW file1, NEW st1, Whole(file, st), Whole(file1, st1),
           Leq(file, file1), NEW H, NEW K, Reads(H, file, st), Reads(K, file1, st1)
    PROVE  \A x \in Dir : Later(H[x], K[x], st, st1)
<1> DEFINE S == {x \in Dir : Later(H[x], K[x], st, st1)}
<1>1. /\ H[Root] = [dir |-> Root, snap |-> file] /\ K[Root] = [dir |-> Root, snap |-> file1]
      /\ \A x \in Dir \ {Root} : H[x] = Below(x, H[Parent[x]], st)
      /\ \A x \in Dir \ {Root} : K[x] = Below(x, K[Parent[x]], st1)
  BY ReaderSteps
<1>2. Root \in S
  BY <1>1, TreeAssumption DEF Later, Whole
<1>3. ASSUME NEW x \in Dir \ {Root}, Parent[x] \in S PROVE x \in S
  <2>1. PICK h, k : h = H[Parent[x]] /\ k = K[Parent[x]]
    OBVIOUS
  <2>2. Later(h, k, st, st1)
    BY <1>3, <2>1
  <2>3. Later(Below(x, h, st), Below(x, k, st1), st, st1)
    BY <2>2, BelowLater DEF Whole
  <2> QED
    BY <1>1, <2>1, <2>3
<1>4. S = Dir
  BY <1>2, <1>3, PathAssumption
<1> QED
  BY <1>4

LEMMA RootFileWhole ==
    ASSUME Shapes, Order, WithoutCreate
    PROVE  Whole(rootFile, stored)
<1>1. rootFile \in Pool /\ rootFile # NoHash /\ NoHash \notin stored
  BY SnapIsNoHash DEF Pool, Shapes, StoredOK
<1> QED
  BY <1>1, Stock DEF Whole

LEMMA StillWhole ==
    ASSUME Shapes, Tree, Order, WithoutCreate, Grow(actor, rootFile), SavesOnly
    PROVE  Whole(rootFile', stored') /\ Leq(rootFile, rootFile')
<1>1. /\ Closed(stored') /\ Over(rootFile, stored')
      /\ actor[Root].state # NoHash /\ Over(actor[Root].state, stored')
      /\ rootFile' = rootFile \/ rootFile' = actor[Root].state
  BY GrowFacts
<1>2. Leq(rootFile, rootFile) /\ rootFile # NoHash /\ Leq(rootFile, actor[Root].state)
  BY RootFileLater DEF Grow
<1>3. NoHash \notin stored'
  BY SnapIsNoHash DEF SavesOnly, Shapes, StoredOK
<1> QED
  BY <1>1, <1>2, <1>3 DEF Whole

LEMMA PersistedLater ==
    ASSUME Shapes, Tree, Order, WithoutCreate, Grow(actor, rootFile), SavesOnly, NEW d \in Dir
    PROVE  Persisted(d)' >= Persisted(d)
<1>1. PICK H, K : H = Holder /\ K = Holder'
  OBVIOUS
<1>2. Reads(H, rootFile, stored) /\ Reads(K, rootFile', stored')
  BY <1>1, HolderReads, ReaderReads
<1>3. /\ Whole(rootFile, stored) /\ Whole(rootFile', stored') /\ Leq(rootFile, rootFile')
  BY RootFileWhole, StillWhole
<1>4. Later(H[d], K[d], stored, stored')
  <2>1. \A x \in Dir : Later(H[x], K[x], stored, stored')
    BY <1>2, <1>3, ReadersLater
  <2> QED
    BY <2>1
<1>5. PICK h, k : h = H[d].snap /\ k = K[d].snap
  OBVIOUS
<1>6. /\ h # NoHash /\ k # NoHash /\ h.files[d] \in Nat /\ k.files[d] \in Nat /\ Leq(h, k)
  BY <1>4, <1>5 DEF Later, Over
<1>7. Persisted(d) = h.files[d] /\ Persisted(d)' = k.files[d]
  BY <1>1, <1>5, <1>6 DEF Persisted
<1>8. h.files[d] <= k.files[d]
  BY <1>6, LeqDown
<1> QED
  BY <1>6, <1>7, <1>8

\* What the root file holds of a path is never replaced by an older put, for any tree of
\* directories, without autosave and without create_dir: a save writes what the children
\* answered, and each of them is at least as new as what its parent had
\* (persistence.rs, save and save_if_dirty).
THEOREM NoRollbackCorrect == Spec => NoRollback
<1> DEFINE A == PlainUse => \A d \in Dir : Persisted(d)' >= Persisted(d)
           G == PlainUse => Grow(actor, rootFile)
           O == Sound => Order
           T == Sound => Tree
           P == PlainUse => Plain(actor, box)
<1>1. Shapes /\ O /\ T /\ P /\ G /\ [Next]_vars => A
  <2> SUFFICES ASSUME Shapes, O, T, P, G, [Next]_vars, PlainUse, NEW d \in Dir
               PROVE  Persisted(d)' >= Persisted(d)
    OBVIOUS
  <2>1. Sound /\ WithoutCreate
    BY DEF Sound, PlainUse
  <2>2. Tree /\ Order /\ Plain(actor, box) /\ Grow(actor, rootFile)
    BY <2>1
  <2>3. SavesOnly
    BY <2>2, GrowNext
  <2> QED
    BY <2>1, <2>2, <2>3, PersistedLater
<1>2. (Spec => []O) /\ (Spec => []T) /\ (Spec => []P) /\ (Spec => []G)
  BY OrderCorrect, TreeAlways, PlainAlways, GrowAlways
<1>3. NoRollback <=> [][A]_vars
  BY DEF NoRollback, PlainUse
<1> HIDE DEF A, G, O, T, P
<1> QED
  BY <1>1, <1>2, <1>3, ShapesCorrect, PTL DEF Spec
=============================================================================
