------------------------- MODULE DirActorPuts_proofs -------------------------
(***************************************************************************)
(* Proofs about DirActor, continued: what was put is not lost on its way   *)
(* from the client to the directory, through the saves to the root file,   *)
(* for any tree of directories and any number of clients.                  *)
(***************************************************************************)
EXTENDS DirActor_proofs

-----------------------------------------------------------------------------
(***************************************************************************)
(* A call is one message in one mailbox, or the task of one actor, and it  *)
(* is the call that the client waits for.                                  *)
(***************************************************************************)
Fitting(c, m) == c.op = m.op /\ c.dir = m.dir /\ c.arg = m.arg
Does(t) == IF t.op = "tell" THEN "create_dir" ELSE t.op

Asks(q, k) == \E i \in DOMAIN q : q[i].from = k
Lone(q) == \A i, j \in DOMAIN q : q[i].from = q[j].from /\ q[i].from \in Client => i = j
Fitted(q, cl) == \A i \in DOMAIN q : q[i].from \in Client => Fitting(cl[q[i].from], q[i])

MatchIn(acts, b, cl) ==
    /\ \A f \in Dir : Lone(b[f]) /\ Fitted(b[f], cl)
    /\ \A f, g \in Dir : \A k \in Client :
          /\ Asks(b[f], k) /\ Asks(b[g], k) => f = g
          /\ Works(acts, f, k) /\ Works(acts, g, k) => f = g
          /\ ~(Asks(b[f], k) /\ Works(acts, g, k))
    /\ \A f \in Dir : \A k \in Client : Works(acts, f, k) => cl[k].op = Does(acts[f].task)

Match == MatchIn(actor, box, client)

LEMMA MatchPrimed == MatchIn(actor', box', client') => Match'
BY DEF Match, MatchIn, Lone, Fitted, Asks, Works, Fitting, Does

\* A mailbox has no new message of a client.
Part(q, p) ==
    /\ Lone(q) => Lone(p)
    /\ \A i \in DOMAIN p : p[i].from \in Client => \E j \in DOMAIN q : q[j] = p[i]

\* Actor f works for k as it did, or has taken the call from the mailbox of d.
Goes(acts, b, cl, acts1, b1, d, f, k) ==
    \/ Works(acts, f, k) /\ acts1[f].task.op = acts[f].task.op
    \/ /\ f = d /\ Asks(b[d], k) /\ (\A g \in Dir : ~Asks(b1[g], k))
       /\ cl[k].op = Does(acts1[d].task)

LEMMA MatchStep ==
    ASSUME NEW acts, NEW b, NEW cl, NEW acts1, NEW b1, NEW cl1, NEW d \in Dir,
           MatchIn(acts, b, cl), \A f \in Dir : Part(b[f], b1[f]),
           \A f \in Dir : \A k \in Client :
              Works(acts1, f, k) => Goes(acts, b, cl, acts1, b1, d, f, k),
           \A k \in Client : \/ cl1[k] = cl[k]
                             \/ \A f \in Dir : ~Asks(b1[f], k) /\ ~Works(acts1, f, k)
    PROVE  MatchIn(acts1, b1, cl1)
<1>1. ASSUME NEW f \in Dir, NEW k \in Client, Asks(b1[f], k) PROVE Asks(b[f], k)
  BY <1>1 DEF Asks, Part
<1>2. ASSUME NEW f \in Dir PROVE Lone(b1[f]) /\ Fitted(b1[f], cl1)
  <2>1. Part(b[f], b1[f]) /\ Lone(b[f]) /\ Fitted(b[f], cl)
    BY DEF MatchIn
  <2>2. ASSUME NEW i \in DOMAIN b1[f], b1[f][i].from \in Client
        PROVE  Fitting(cl1[b1[f][i].from], b1[f][i])
    <3>1. PICK j \in DOMAIN b[f] : b[f][j] = b1[f][i]
      BY <2>1, <2>2 DEF Part
    <3>2. Fitting(cl[b1[f][i].from], b1[f][i])
      BY <2>1, <2>2, <3>1 DEF Fitted
    <3>3. Asks(b1[f], b1[f][i].from)
      BY DEF Asks
    <3> QED
      BY <2>2, <3>2, <3>3
  <2> QED
    BY <2>1, <2>2 DEF Part, Fitted
<1>3. ASSUME NEW f \in Dir, NEW g \in Dir, NEW k \in Client
      PROVE  /\ Asks(b1[f], k) /\ Asks(b1[g], k) => f = g
             /\ Works(acts1, f, k) /\ Works(acts1, g, k) => f = g
             /\ ~(Asks(b1[f], k) /\ Works(acts1, g, k))
  <2>1. /\ Asks(b[f], k) /\ Asks(b[g], k) => f = g
        /\ Works(acts, f, k) /\ Works(acts, g, k) => f = g
        /\ ~(Asks(b[f], k) /\ Works(acts, g, k))
        /\ ~(Asks(b[d], k) /\ Works(acts, g, k))
        /\ ~(Asks(b[d], k) /\ Works(acts, f, k))
    BY DEF MatchIn
  <2>2. /\ Works(acts1, f, k) => Goes(acts, b, cl, acts1, b1, d, f, k)
        /\ Works(acts1, g, k) => Goes(acts, b, cl, acts1, b1, d, g, k)
    OBVIOUS
  <2>3. /\ Asks(b1[f], k) => Asks(b[f], k)
        /\ Asks(b1[g], k) => Asks(b[g], k)
    BY <1>1
  <2> QED
    BY <2>1, <2>2, <2>3 DEF Goes
<1>4. ASSUME NEW f \in Dir, NEW k \in Client, Works(acts1, f, k)
      PROVE  cl1[k].op = Does(acts1[f].task)
  <2>1. cl1[k] = cl[k]
    BY <1>4
  <2>2. CASE Works(acts, f, k) /\ acts1[f].task.op = acts[f].task.op
    <3>1. cl[k].op = Does(acts[f].task)
      BY <2>2 DEF MatchIn
    <3> QED
      BY <2>1, <2>2, <3>1 DEF Does
  <2> QED
    BY <1>4, <2>1, <2>2 DEF Goes
<1> QED
  BY <1>2, <1>3, <1>4 DEF MatchIn

LEMMA PartTail ==
    ASSUME NEW M, NEW q \in Seq(M), q # <<>>
    PROVE  /\ Part(q, Tail(q))
           /\ Lone(q) /\ Head(q).from \in Client => ~Asks(Tail(q), Head(q).from)
           /\ Asks(q, Head(q).from)
           /\ \A cl : Fitted(q, cl) /\ Head(q).from \in Client =>
                 Fitting(cl[Head(q).from], Head(q))
<1>1. \A i \in DOMAIN Tail(q) : /\ i \in Nat /\ i + 1 \in DOMAIN q /\ i + 1 # 1
                                /\ Tail(q)[i] = q[i + 1]
  OBVIOUS
<1>2. 1 \in DOMAIN q /\ Head(q) = q[1]
  OBVIOUS
<1>3. Lone(q) => Lone(Tail(q))
  <2> SUFFICES ASSUME Lone(q), NEW i \in DOMAIN Tail(q), NEW j \in DOMAIN Tail(q),
                      Tail(q)[i].from = Tail(q)[j].from, Tail(q)[i].from \in Client
               PROVE  i = j
    BY DEF Lone
  <2>1. i + 1 = j + 1
    BY <1>1 DEF Lone
  <2> QED
    BY <1>1, <2>1
<1>4. Part(q, Tail(q))
  BY <1>1, <1>3 DEF Part
<1>5. Lone(q) /\ Head(q).from \in Client => ~Asks(Tail(q), Head(q).from)
  BY <1>1, <1>2 DEF Lone, Asks
<1> QED
  BY <1>2, <1>4, <1>5 DEF Asks, Fitted

LEMMA PartAppend ==
    ASSUME NEW M, NEW q \in Seq(M), NEW m
    PROVE  /\ m.from \notin Client => Part(q, Append(q, m))
           /\ ~Asks(q, m.from) /\ Lone(q) => Lone(Append(q, m))
           /\ \A cl : Fitted(q, cl) /\ Fitting(cl[m.from], m) => Fitted(Append(q, m), cl)
           /\ \A k : Asks(Append(q, m), k) => Asks(q, k) \/ k = m.from
<1>1. /\ \A i \in DOMAIN q : Append(q, m)[i] = q[i] /\ i \in DOMAIN Append(q, m)
      /\ Append(q, m)[Len(q) + 1] = m
      /\ \A i \in DOMAIN Append(q, m) : i \in DOMAIN q \/ i = Len(q) + 1
  BY AppendFacts
<1>2. m.from \notin Client => Part(q, Append(q, m))
  BY <1>1 DEF Part, Lone
<1>3. ~Asks(q, m.from) /\ Lone(q) => Lone(Append(q, m))
  BY <1>1 DEF Asks, Lone
<1>4. \A cl : Fitted(q, cl) /\ Fitting(cl[m.from], m) => Fitted(Append(q, m), cl)
  BY <1>1 DEF Fitted
<1>5. \A k : Asks(Append(q, m), k) => Asks(q, k) \/ k = m.from
  BY <1>1 DEF Asks
<1> QED
  BY <1>2, <1>3, <1>4, <1>5

LEMMA PartSame == ASSUME NEW q PROVE Part(q, q)
BY DEF Part

LEMMA PartEmpty == ASSUME NEW q PROVE Part(q, <<>>) /\ \A k : ~Asks(<<>>, k)
BY DEF Part, Asks, Lone

LEMMA PartTrans == ASSUME NEW q, NEW p, NEW o, Part(q, p), Part(p, o) PROVE Part(q, o)
<1>1. ASSUME NEW i \in DOMAIN o, o[i].from \in Client PROVE \E j \in DOMAIN q : q[j] = o[i]
  <2>1. PICK j \in DOMAIN p : p[j] = o[i]
    BY <1>1 DEF Part
  <2> QED
    BY <1>1, <2>1 DEF Part
<1> QED
  BY <1>1 DEF Part

LEMMA PartTake ==
    ASSUME Shapes, NEW d \in Dir, box[d] # <<>>
    PROVE  \A f \in Dir : Part(box[f], Take(d)[f])
<1>1. /\ box[d] \in Seq(Messages) /\ Take(d)[d] = Tail(box[d])
      /\ \A f \in Dir : f # d => Take(d)[f] = box[f]
  BY DEF Shapes, Take
<1>2. Part(box[d], Tail(box[d]))
  BY <1>1, PartTail
<1> QED
  BY <1>1, <1>2, PartSame

LEMMA PartSend ==
    ASSUME NEW M, NEW b \in [Dir -> Seq(M)], NEW e, NEW m, m.from \notin Client, NEW f \in Dir
    PROVE  Part(b[f], [b EXCEPT ![e] = Append(@, m)][f])
<1>1. CASE f = e
  <2>1. [b EXCEPT ![e] = Append(@, m)][f] = Append(b[f], m) /\ b[f] \in Seq(M)
    BY <1>1
  <2> QED
    BY <2>1, PartAppend
<1>2. CASE f # e
  <2>1. [b EXCEPT ![e] = Append(@, m)][f] = b[f]
    BY <1>2
  <2> QED
    BY <2>1, PartSame
<1> QED
  BY <1>1, <1>2

\* The call of the first message is nowhere else.
LEMMA HeadAlone ==
    ASSUME Shapes, Match, NEW d \in Dir, box[d] # <<>>, Head(box[d]).from \in Client
    PROVE  LET k == Head(box[d]).from IN
           /\ \A f \in Dir : ~Asks(Take(d)[f], k) /\ ~Works(actor, f, k)
           /\ Asks(box[d], k) /\ Fitting(client[k], Head(box[d]))
<1>1. PICK k : k = Head(box[d]).from
  OBVIOUS
<1>2. k \in Client
  BY <1>1
<1>3. /\ box[d] \in Seq(Messages) /\ Take(d)[d] = Tail(box[d])
      /\ \A f \in Dir : f # d => Take(d)[f] = box[f]
  BY DEF Shapes, Take
<1>4. Lone(box[d]) /\ Fitted(box[d], client)
  BY DEF Match, MatchIn
<1>5. ~Asks(Tail(box[d]), k) /\ Asks(box[d], k) /\ Fitting(client[k], Head(box[d]))
  BY <1>1, <1>2, <1>3, <1>4, PartTail
<1>6. \A f \in Dir : (Asks(box[f], k) => f = d) /\ ~Works(actor, f, k)
  BY <1>2, <1>5 DEF Match, MatchIn
<1> QED
  BY <1>1, <1>3, <1>5, <1>6

\* A message of a client that waits nowhere else is sent to e.
LEMMA MatchPosted ==
    ASSUME NEW acts, NEW M, NEW b \in [Dir -> Seq(M)], NEW cl, NEW cl1, MatchIn(acts, b, cl),
           NEW e \in Dir, NEW m, m.from \in Client,
           \A f \in Dir : ~Asks(b[f], m.from) /\ ~Works(acts, f, m.from),
           Fitting(cl1[m.from], m), \A k \in Client : k # m.from => cl1[k] = cl[k]
    PROVE  MatchIn(acts, [b EXCEPT ![e] = Append(@, m)], cl1)
<1>1. PICK b1 : b1 = [b EXCEPT ![e] = Append(@, m)]
  OBVIOUS
<1>2. /\ b1[e] = Append(b[e], m) /\ b[e] \in Seq(M)
      /\ \A f \in Dir : f # e => b1[f] = b[f]
  BY <1>1
<1>3. ASSUME NEW f \in Dir PROVE Lone(b[f]) /\ Fitted(b[f], cl1)
  <2>1. Lone(b[f]) /\ Fitted(b[f], cl) /\ ~Asks(b[f], m.from)
    BY DEF MatchIn
  <2> QED
    BY <2>1 DEF Fitted, Asks
<1>4. ASSUME NEW f \in Dir PROVE Lone(b1[f]) /\ Fitted(b1[f], cl1)
  <2>1. Lone(Append(b[e], m)) /\ Fitted(Append(b[e], m), cl1)
    BY <1>2, <1>3, PartAppend
  <2> QED
    BY <1>2, <1>3, <2>1
<1>5. ASSUME NEW f \in Dir, NEW k, Asks(b1[f], k) PROVE Asks(b[f], k) \/ (f = e /\ k = m.from)
  <2>1. Asks(Append(b[e], m), k) => Asks(b[e], k) \/ k = m.from
    BY <1>2, PartAppend
  <2> QED
    BY <1>2, <1>5, <2>1
<1>6. ASSUME NEW f \in Dir, NEW g \in Dir, NEW k \in Client
      PROVE  /\ Asks(b1[f], k) /\ Asks(b1[g], k) => f = g
             /\ Works(acts, f, k) /\ Works(acts, g, k) => f = g
             /\ ~(Asks(b1[f], k) /\ Works(acts, g, k))
  <2>1. /\ Asks(b[f], k) /\ Asks(b[g], k) => f = g
        /\ Works(acts, f, k) /\ Works(acts, g, k) => f = g
        /\ ~(Asks(b[f], k) /\ Works(acts, g, k))
    BY DEF MatchIn
  <2> QED
    BY <1>5, <2>1
<1>7. ASSUME NEW f \in Dir, NEW k \in Client, Works(acts, f, k)
      PROVE  cl1[k].op = Does(acts[f].task)
  BY <1>7 DEF MatchIn
<1>8. MatchIn(acts, b1, cl1)
  BY <1>4, <1>6, <1>7 DEF MatchIn
<1> QED
  BY <1>1, <1>8

-----------------------------------------------------------------------------
\* An actor works for nobody, or for whom it did.
Idles(q) == \A k \in Client : ~(q.task.op # "idle" /\ q.task.from = k)
SameDuty(r, q) ==
    \A k \in Client : q.task.op # "idle" /\ q.task.from = k =>
        r.task.op # "idle" /\ r.task.from = k /\ q.task.op = r.task.op

LEMMA DutyFacts ==
    /\ \A r, q : Idles(q) => SameDuty(r, q)
    /\ \A r, q : q.task = r.task => SameDuty(r, q)
    /\ \A q : q.task = Idle => Idles(q)
    /\ \A q, op, d, h, then : q.task = Telling(op, d, h, then, None) => Idles(q)
<1>1. \A r, q : Idles(q) => SameDuty(r, q)
  BY DEF Idles, SameDuty
<1>2. \A r, q : q.task = r.task => SameDuty(r, q)
  BY DEF SameDuty
<1>3. \A q : q.task = Idle => Idles(q)
  BY DEF Idles, Idle
<1>4. ASSUME NEW q, NEW op, NEW d, NEW h, NEW then, q.task = Telling(op, d, h, then, None)
      PROVE  Idles(q)
  <2>1. q.task.from = None
    BY <1>4 DEF Telling
  <2> QED
    BY <2>1, TreeAssumption DEF Idles
<1> QED
  BY <1>1, <1>2, <1>3, <1>4

LEMMA DutyOwn ==
    ASSUME Shapes, NEW d \in Dir, NEW r, actor' = [actor EXCEPT ![d] = r], SameDuty(actor[d], r)
    PROVE  \A f \in Dir : SameDuty(actor[f], actor'[f])
<1>1. actor'[d] = r /\ \A f \in Dir : f # d => actor'[f] = actor[f]
  BY DEF Shapes, ActorsOK
<1> QED
  BY <1>1 DEF SameDuty

\* The clients in out get their answer, and are not in any mailbox or task any more.
LEMMA MatchDone ==
    ASSUME Match, NEW out, \A f \in Dir : Part(box[f], box'[f]),
           \A f \in Dir : SameDuty(actor[f], actor'[f]),
           \A k \in Client : k \in out =>
              \A f \in Dir : ~Asks(box'[f], k) /\ ~Works(actor', f, k),
           \A k \in Client : client'[k] = client[k] \/ k \in out
    PROVE  Match'
<1>1. PICK d : d \in Dir
  BY TreeAssumption
<1>2. MatchIn(actor, box, client)
  BY DEF Match
<1>3. ASSUME NEW f \in Dir, NEW k \in Client, Works(actor', f, k)
      PROVE  Goes(actor, box, client, actor', box', d, f, k)
  BY <1>3 DEF Works, SameDuty, Goes
<1>4. \A k \in Client : \/ client'[k] = client[k]
                        \/ \A f \in Dir : ~Asks(box'[f], k) /\ ~Works(actor', f, k)
  OBVIOUS
<1>5. MatchIn(actor', box', client')
  BY <1>1, <1>2, <1>3, <1>4, MatchStep
<1> QED
  BY <1>5, MatchPrimed

LEMMA MatchKept ==
    ASSUME Match, \A f \in Dir : Part(box[f], box'[f]),
           \A f \in Dir : SameDuty(actor[f], actor'[f]), client' = client
    PROVE  Match'
<1> DEFINE out == {}
<1>1. \A k \in Client : k \notin out
  OBVIOUS
<1> HIDE DEF out
<1> QED
  BY <1>1, MatchDone

\* Actor d takes over the call of the first message.
LEMMA MatchTook ==
    ASSUME Shapes, Match, NEW d \in Dir, box[d] # <<>>, box' = Take(d), client' = client,
           \A f \in Dir : f # d => SameDuty(actor[f], actor'[f]),
           actor'[d].task.from = Head(box[d]).from,
           Does(actor'[d].task) = Head(box[d]).op
    PROVE  Match'
<1>1. MatchIn(actor, box, client) /\ \A f \in Dir : Part(box[f], box'[f])
  BY PartTake DEF Match
<1>2. ASSUME NEW f \in Dir, NEW k \in Client, Works(actor', f, k)
      PROVE  Goes(actor, box, client, actor', box', d, f, k)
  <2>1. CASE f # d
    BY <1>2, <2>1 DEF Works, SameDuty, Goes
  <2>2. CASE f = d
    <3>1. k = Head(box[d]).from
      BY <1>2, <2>2 DEF Works
    <3>2. /\ \A g \in Dir : ~Asks(Take(d)[g], k)
          /\ Asks(box[d], k) /\ Fitting(client[k], Head(box[d]))
      BY <1>2, <3>1, HeadAlone
    <3> QED
      BY <2>2, <3>2 DEF Goes, Fitting
  <2> QED
    BY <2>1, <2>2
<1>3. MatchIn(actor', box', client')
  BY <1>1, <1>2, MatchStep
<1> QED
  BY <1>3, MatchPrimed

\* Directory d answers the call of the first message.
LEMMA MatchAnswered ==
    ASSUME Shapes, Match, NEW d \in Dir, box[d] # <<>>, box' = Take(d),
           \A f \in Dir : SameDuty(actor[f], actor'[f]),
           \A k \in Client : client'[k] = client[k] \/ k = Head(box[d]).from
    PROVE  Match'
<1> DEFINE out == {Head(box[d]).from}
<1>1. \A f \in Dir : Part(box[f], box'[f])
  BY PartTake
<1>2. ASSUME NEW k \in Client, k \in out
      PROVE  \A f \in Dir : ~Asks(box'[f], k) /\ ~Works(actor', f, k)
  <2>1. \A f \in Dir : ~Asks(Take(d)[f], k) /\ ~Works(actor, f, k)
    BY <1>2, HeadAlone
  <2> QED
    BY <2>1 DEF Works, SameDuty
<1>3. \A k \in Client : client'[k] = client[k] \/ k \in out
  OBVIOUS
<1> HIDE DEF out
<1> QED
  BY <1>1, <1>2, <1>3, MatchDone

LEMMA AnswerClients ==
    ASSUME NEW c, NEW failed, Answer(c, failed)
    PROVE  \A k \in Client : client'[k] = client[k] \/ k \in {c} \cup failed
BY DEF Answer, Released

\* A child has answered its parent, which goes on with its task.
LEMMA DutyToParent ==
    ASSUME Shapes, NEW d \in Dir, NEW r, NEW S, NEW M,
           ActorsOK([actor EXCEPT ![d] = r], S, M), SameDuty(actor[d], r),
           NEW p, NEW hash, hash = NoHash \/ hash \in S,
           actor' = ToParent([actor EXCEPT ![d] = r], p, d, hash)
    PROVE  /\ \A f \in Dir : SameDuty(actor[f], actor'[f])
           /\ SameDuty(r, actor'[d])
<1> DEFINE acts == [actor EXCEPT ![d] = r]
<1>1. acts[d] = r /\ \A f \in Dir : f # d => acts[f] = actor[f]
  BY DEF Shapes, ActorsOK
<1> HIDE DEF acts
<1>2. ActorsOK(acts, S, M) /\ actor' = ToParent(acts, p, d, hash)
  BY DEF acts
<1>3. AnswerTo(acts, actor', p, d, hash)
  BY <1>2, ToParentFacts
<1>4. ASSUME NEW f \in Dir PROVE SameDuty(acts[f], actor'[f])
  <2>1. CASE f # p
    BY <1>3, <2>1, DutyFacts DEF AnswerTo
  <2>2. CASE f = p
    <3>1. PICK t, u : t = acts[p].task /\ u = [t EXCEPT !.wait = @ \ {d}]
      OBVIOUS
    <3>2. t \in AllTasks(M) /\ actor'[p].task = u
      BY <1>2, <1>3, <2>2, <3>1 DEF ActorsOK, RecordOK, AnswerTo
    <3>3. /\ t.op \notin {"save", "shutdown"} => u = t
          /\ t.op \in {"save", "shutdown"} =>
              u = [op |-> t.op, from |-> t.from, todo |-> t.todo, wait |-> t.wait \ {d}]
      BY <3>1, <3>2, WaitOK
    <3>4. u.op = t.op /\ u.from = t.from
      BY <3>3
    <3> QED
      BY <2>2, <3>1, <3>2, <3>4 DEF SameDuty
  <2> QED
    BY <2>1, <2>2
<1>5. SameDuty(r, actor'[d])
  BY <1>1, <1>4
<1>6. SameDuty(actor[d], actor'[d])
  BY <1>5 DEF SameDuty
<1> QED
  BY <1>1, <1>4, <1>5, <1>6

-----------------------------------------------------------------------------
LEMMA MatchPublish ==
    ASSUME Shapes, Match, NEW d \in Dir, Publish(d)
    PROVE  Match'
<1>1. PICK ok \in Outcome : actor' = [actor EXCEPT ![d] =
             [@ EXCEPT !.life = "running",
                       !.task = IF ok /\ actor[actor[d].up].life # "stopped"
                                THEN Telling("update_ref", d, actor[d].state, "loop", None)
                                ELSE Idle]]
  BY DEF Publish
<1> DEFINE t == IF ok /\ actor[actor[d].up].life # "stopped"
                THEN Telling("update_ref", d, actor[d].state, "loop", None) ELSE Idle
           r == [actor[d] EXCEPT !.life = "running", !.task = t]
<1>2. actor' = [actor EXCEPT ![d] = r] /\ box' = box /\ client' = client
  BY <1>1 DEF Publish, NoAnswer
<1>3. t = Telling("update_ref", d, actor[d].state, "loop", None) \/ t = Idle
  OBVIOUS
<1> HIDE DEF t
<1>4. r.task = t
  <2>1. RecordOK(actor[d], Known, Messages)
    BY DEF Shapes, ActorsOK
  <2> QED
    BY <2>1 DEF RecordOK
<1> HIDE DEF r
<1>5. Idles(r)
  BY <1>3, <1>4, DutyFacts
<1>6. SameDuty(actor[d], r)
  BY <1>5, DutyFacts
<1> QED
  BY <1>2, <1>6, DutyOwn, PartSame, MatchKept

\* What an actor that is gone leaves: nobody waits for it or in its mailbox.
LEMMA MatchGone ==
    ASSUME Shapes, Match, NEW d \in Dir, NEW c,
           c = None \/ (actor[d].task.op # "idle" /\ actor[d].task.from = c),
           box' = [box EXCEPT ![d] = <<>>], Answer(c, Dropped(d)),
           \A f \in Dir : SameDuty(actor[f], actor'[f]), Idles(actor'[d])
    PROVE  Match'
<1> DEFINE out == {c} \cup Dropped(d)
<1>1. box'[d] = <<>> /\ \A f \in Dir : f # d => box'[f] = box[f]
  BY DEF Shapes
<1>2. \A f \in Dir : Part(box[f], box'[f])
  BY <1>1, PartSame, PartEmpty
<1>3. ASSUME NEW k \in Client, k \in out, NEW f \in Dir
      PROVE  ~Asks(box'[f], k) /\ ~Works(actor', f, k)
  <2>1. Asks(box[d], k) \/ Works(actor, d, k)
    BY <1>3, TreeAssumption DEF Dropped, Asks, Works
  <2>2. /\ Asks(box[f], k) => f = d
        /\ Works(actor, f, k) => f = d
    BY <2>1 DEF Match, MatchIn
  <2>3. ~Asks(box'[f], k)
    BY <1>1, <2>2, PartEmpty
  <2>4. ~Works(actor', f, k)
    BY <2>2 DEF Works, SameDuty, Idles
  <2> QED
    BY <2>3, <2>4
<1>4. \A k \in Client : client'[k] = client[k] \/ k \in out
  BY AnswerClients
<1> HIDE DEF out
<1> QED
  BY <1>2, <1>3, <1>4, MatchDone

LEMMA MatchLoad ==
    ASSUME Shapes, Tree, Match, NEW d \in Dir, Load(d)
    PROVE  Match'
<1>1. actor[d].task.op = "idle" /\ RecordOK(actor[d], Known, Messages)
  BY NotRunning DEF Load, Shapes, ActorsOK
<1>2. CASE /\ actor' = [actor EXCEPT ![d].life = "running"]
           /\ NoAnswer /\ UNCHANGED box
  <2> DEFINE r == [actor[d] EXCEPT !.life = "running"]
  <2>1. actor' = [actor EXCEPT ![d] = r] /\ r.task = actor[d].task
    BY <1>1, <1>2 DEF RecordOK
  <2> HIDE DEF r
  <2>2. SameDuty(actor[d], r) /\ client' = client
    BY <1>2, <2>1, DutyFacts DEF NoAnswer
  <2> QED
    BY <1>2, <2>1, <2>2, DutyOwn, PartSame, MatchKept
<1>3. CASE /\ actor' = ToParent([actor EXCEPT ![d].life = "stopped"],
                                IF actor[d].up \in Dropped(d) THEN actor[d].up ELSE None,
                                d, NoHash)
           /\ box' = [box EXCEPT ![d] = <<>>]
           /\ Answer(None, Dropped(d))
  <2> DEFINE r == [actor[d] EXCEPT !.life = "stopped"]
             p == IF actor[d].up \in Dropped(d) THEN actor[d].up ELSE None
  <2>1. RecordOK(r, Known, Messages) /\ r.task = actor[d].task
    BY <1>1 DEF RecordOK, Load
  <2>2. actor' = ToParent([actor EXCEPT ![d] = r], p, d, NoHash)
    BY <1>3
  <2> HIDE DEF r, p
  <2>3. ActorsOK([actor EXCEPT ![d] = r], Known, Messages)
    BY <2>1, ReplaceOK DEF Shapes
  <2>4. SameDuty(actor[d], r) /\ Idles(r)
    BY <1>1, <2>1, DutyFacts DEF Idles
  <2>5. /\ \A f \in Dir : SameDuty(actor[f], actor'[f])
        /\ SameDuty(r, actor'[d])
    BY <2>2, <2>3, <2>4, DutyToParent
  <2>6. Idles(actor'[d])
    BY <2>4, <2>5 DEF Idles, SameDuty
  <2> QED
    BY <1>3, <2>5, <2>6, MatchGone
<1> QED
  BY <1>2, <1>3 DEF Load

LEMMA MatchForward ==
    ASSUME Shapes, Tree, Match, NEW d \in Dir, Forward(d)
    PROVE  Match'
<1> DEFINE m == Head(box[d])
           e == FirstOf(d, m)
           new == Spawn("loading", d, actor[d].state.dirs[e], actor[d].auto)
<1>1. /\ box[d] # <<>> /\ Take(d) \in [Dir -> Seq(Messages)] /\ Snap(actor[d].state, Known)
  BY Receiving DEF Forward, Receives
<1>2. e \in Dir
  BY <1>1 DEF Forward, Snap
<1>3. CASE box' = Take(d) /\ Answer(None, {m.from}) /\ UNCHANGED actor
  <2>1. \A k \in Client : client'[k] = client[k] \/ k \in {None} \cup {m.from}
    BY <1>3, AnswerClients
  <2>2. \A k \in Client : client'[k] = client[k] \/ k = m.from
    BY <2>1, TreeAssumption
  <2> QED
    BY <1>1, <1>3, <2>2, DutyFacts, MatchAnswered
<1>4. CASE /\ box' = [Take(d) EXCEPT ![e] = Append(@, m)]
           /\ actor' = IF actor[e].life # "none" THEN actor ELSE [actor EXCEPT ![e] = new]
           /\ NoAnswer
  <2>1. new.task = Idle
    BY DEF Spawn
  <2> HIDE DEF e, new
  <2>2. \A f \in Dir : SameDuty(actor[f], actor'[f])
    <3>1. SameDuty(actor[e], new)
      BY <2>1, DutyFacts
    <3>2. CASE actor[e].life # "none"
      BY <1>4, <3>2, DutyFacts
    <3>3. CASE actor[e].life = "none"
      BY <1>2, <1>4, <3>1, <3>3, DutyOwn
    <3> QED
      BY <3>2, <3>3
  <2>3. MatchIn(actor', Take(d), client)
    <3>1. ASSUME NEW f \in Dir, NEW k \in Client, Works(actor', f, k)
          PROVE  Goes(actor, box, client, actor', Take(d), d, f, k)
      BY <2>2, <3>1 DEF Works, SameDuty, Goes
    <3>2. MatchIn(actor, box, client) /\ \A f \in Dir : Part(box[f], Take(d)[f])
      BY <1>1, PartTake DEF Match
    <3> QED
      BY <3>1, <3>2, MatchStep
  <2>4. client' = client /\ m = Head(box[d])
    BY <1>4 DEF NoAnswer
  <2>5. MatchIn(actor', box', client')
    <3>1. CASE m.from \in Client
      <4>1. /\ \A f \in Dir : ~Asks(Take(d)[f], m.from) /\ ~Works(actor, f, m.from)
            /\ Fitting(client[m.from], m)
        BY <1>1, <3>1, HeadAlone
      <4>2. \A f \in Dir : ~Works(actor', f, m.from)
        BY <2>2, <3>1, <4>1 DEF Works, SameDuty
      <4> HIDE DEF m
      <4>3. MatchIn(actor', [Take(d) EXCEPT ![e] = Append(@, m)], client)
        BY <1>1, <1>2, <2>3, <3>1, <4>1, <4>2, MatchPosted
      <4> QED
        BY <1>4, <2>4, <4>3
    <3>2. CASE m.from \notin Client
      <4> HIDE DEF m
      <4>1. \A f \in Dir : Part(Take(d)[f], box'[f])
        BY <1>1, <1>4, <3>2, PartSend
      <4>2. ASSUME NEW f \in Dir, NEW k \in Client, Works(actor', f, k)
            PROVE  Goes(actor', Take(d), client, actor', box', d, f, k)
        BY <4>2 DEF Goes
      <4> QED
        BY <2>3, <2>4, <4>1, <4>2, MatchStep
    <3> QED
      BY <3>1, <3>2
  <2> QED
    BY <2>5, MatchPrimed
<1> QED
  BY <1>3, <1>4 DEF Forward

\* A handler that ends with mark_as_dirty and answers nobody when that is done.
LEMMA MarkIdles ==
    ASSUME Shapes, NEW d \in Dir, NEW q, Changed(d, q), actor[d].task = Idle,
           actor' = [actor EXCEPT ![d] = MarkAsDirty(d, q, None)]
    PROVE  \A f \in Dir : SameDuty(actor[f], actor'[f])
<1> DEFINE r == MarkAsDirty(d, q, None)
<1>1. Marked(d, q, r, None)
  BY ChangedMarks DEF Senders
<1> HIDE DEF r
<1>2. r.task = Idle \/ r.task = Telling("mark_as_dirty", d, None, "arm", None)
  BY <1>1 DEF Marked
<1>3. Idles(r)
  BY <1>2, DutyFacts
<1>4. SameDuty(actor[d], r) /\ actor' = [actor EXCEPT ![d] = r]
  BY <1>3, DutyFacts DEF r
<1> QED
  BY <1>4, DutyOwn

LEMMA MatchFileOp ==
    ASSUME Shapes, Match, NEW d \in Dir, FileOp(d)
    PROVE  Match'
<1>1. PICK q : Changed(d, q) /\ actor' = [actor EXCEPT ![d] = MarkAsDirty(d, q, None)]
  BY FileOpMarks
<1>2. /\ actor[d].task = Idle /\ box[d] # <<>> /\ box' = Take(d) /\ Answer(Head(box[d]).from, {})
  BY DEF FileOp, Receives, Free
<1>3. \A f \in Dir : SameDuty(actor[f], actor'[f])
  BY <1>1, <1>2, MarkIdles
<1>4. \A k \in Client : client'[k] = client[k] \/ k \in {Head(box[d]).from} \cup {}
  BY <1>2, AnswerClients
<1>5. \A k \in Client : client'[k] = client[k] \/ k = Head(box[d]).from
  BY <1>4
<1> QED
  BY <1>2, <1>3, <1>5, MatchAnswered

LEMMA MatchTaken ==
    ASSUME Shapes, Match, NEW d \in Dir, box[d] # <<>>, box' = Take(d), client' = client,
           \A f \in Dir : SameDuty(actor[f], actor'[f])
    PROVE  Match'
BY PartTake, MatchKept

LEMMA MatchChildIsDirty ==
    ASSUME Shapes, Match, NEW d \in Dir, ChildIsDirty(d)
    PROVE  Match'
<1>1. PICK q : Changed(d, q) /\ actor' = [actor EXCEPT ![d] = MarkAsDirty(d, q, None)]
  BY ChildIsDirtyMarks
<1>2. actor[d].task = Idle /\ box[d] # <<>> /\ box' = Take(d) /\ client' = client
  BY DEF ChildIsDirty, Receives, Free, NoAnswer
<1> QED
  BY <1>1, <1>2, MarkIdles, MatchTaken

LEMMA MatchUpdateDirRefHash ==
    ASSUME Shapes, Match, NEW d \in Dir, UpdateDirRefHash(d)
    PROVE  Match'
<1>1. actor[d].task = Idle /\ box[d] # <<>> /\ box' = Take(d) /\ client' = client
  BY DEF UpdateDirRefHash, Receives, Free, NoAnswer
<1>2. \A f \in Dir : SameDuty(actor[f], actor'[f])
  <2>1. CASE actor' = actor
    BY <2>1, DutyFacts
  <2>2. CASE \E q : Changed(d, q) /\ actor' = [actor EXCEPT ![d] = MarkAsDirty(d, q, None)]
    BY <1>1, <2>2, MarkIdles
  <2> QED
    BY <2>1, <2>2, UpdateMarks
<1> QED
  BY <1>1, <1>2, MatchTaken

-----------------------------------------------------------------------------
LEMMA CreateAnswers ==
    ASSUME Shapes, NEW d \in Dir, CreateDirAt(d)
    PROVE  IF actor'[d].task = Idle THEN Answer(Head(box[d]).from, {}) ELSE NoAnswer
<1> DEFINE m == Head(box[d])
           e == IF Above(d, m.dir) THEN m.dir ELSE Blank[d]
           old == actor[d].state
           moved == ExtractChild(old.files, e)
           stay == [f \in Dir |-> IF e \in Up[f] THEN 0 ELSE old.files[f]]
           none == e \notin Dir \ DOMAIN old.dirs
           r == IF none THEN Arm(actor[d])
                ELSE MarkAsDirty(d, [actor[d] EXCEPT
                        !.state = Snapshot(stay, [f \in DOMAIN old.dirs \cup {e} |->
                                    IF f = e THEN NoHash ELSE old.dirs[f]])], m.from)
           new == Spawn("creating", d, Snapshot(moved, <<>>), actor[d].auto)
<1>1. /\ actor' = [actor EXCEPT ![d] = r, ![e] = IF none THEN @ ELSE new]
      /\ IF r.task = Idle THEN Answer(m.from, {}) ELSE NoAnswer
  BY DEF CreateDirAt
<1>2. e # d
  BY TreeAssumption DEF Above
<1> HIDE DEF r, e, none, new
<1>3. actor'[d] = r
  BY <1>1, <1>2 DEF Shapes, ActorsOK
<1> QED
  BY <1>1, <1>3

LEMMA MatchCreateDirAt ==
    ASSUME Shapes, Tree, ParentsExist, Match, NEW d \in Dir, CreateDirAt(d)
    PROVE  Match'
<1> DEFINE from == Head(box[d]).from
<1>1. /\ Receives(d, {"create_dir"}) /\ box' = Take(d) /\ actor[d].task = Idle
      /\ box[d] # <<>> /\ Head(box[d]).op = "create_dir" /\ actor[d].task.op = "idle"
  <2>1. Receives(d, {"create_dir"}) /\ box' = Take(d)
    BY DEF CreateDirAt
  <2> QED
    BY <2>1 DEF Receives, Free, Idle
<1>2. ASSUME NEW t, actor'[d].task = t, \A f \in Dir : f # d => SameDuty(actor[f], actor'[f]),
             t = Idle \/ t = Telling("mark_as_dirty", d, None, "arm", from)
      PROVE  Match'
  <2>1. CASE t = Idle
    <3>1. Answer(from, {})
      BY <1>2, <2>1, CreateAnswers
    <3>2. \A k \in Client : client'[k] = client[k] \/ k \in {from} \cup {}
      BY <3>1, AnswerClients
    <3>3. \A k \in Client : client'[k] = client[k] \/ k = Head(box[d]).from
      BY <3>2
    <3>4. SameDuty(actor[d], actor'[d])
      BY <1>2, <2>1, DutyFacts
    <3> QED
      BY <1>1, <1>2, <3>3, <3>4, MatchAnswered
  <2>2. CASE t = Telling("mark_as_dirty", d, None, "arm", from)
    <3>1. t.op = "tell" /\ t.from = from
      BY <2>2 DEF Telling
    <3>2. t # Idle
      BY <3>1 DEF Idle
    <3>3. client' = client
      BY <1>2, <3>2, CreateAnswers DEF NoAnswer
    <3>4. Does(t) = Head(box[d]).op
      BY <1>1, <3>1 DEF Does
    <3> QED
      BY <1>1, <1>2, <3>1, <3>3, <3>4, MatchTook
  <2> QED
    BY <1>2, <2>1, <2>2
<1>3. CASE actor' = [actor EXCEPT ![d] = Arm(actor[d])]
  <2> DEFINE r == Arm(actor[d])
  <2>1. r.task = Idle
    <3>1. RecordOK(actor[d], Known, Messages)
      BY DEF Shapes, ActorsOK
    <3> QED
      BY <1>1, <3>1, ArmFacts
  <2> HIDE DEF r
  <2>2. actor'[d] = r /\ \A f \in Dir : f # d => actor'[f] = actor[f]
    BY <1>3 DEF Shapes, ActorsOK, r
  <2> QED
    BY <1>2, <2>1, <2>2, DutyFacts
<1>4. ASSUME NEW q, NEW e, NEW new,
             Changed(d, q), Newborn(d, e, new), from \in Senders,
             actor' = [[actor EXCEPT ![d] = MarkAsDirty(d, q, from)] EXCEPT ![e] = new]
      PROVE  Match'
  <2> DEFINE r == MarkAsDirty(d, q, from)
  <2>1. Marked(d, q, r, from)
    BY <1>1, <1>4, ChangedMarks
  <2>2. actor' = [[actor EXCEPT ![d] = r] EXCEPT ![e] = new]
    BY <1>4
  <2> HIDE DEF r
  <2>3. /\ actor'[d] = r /\ actor'[e] = new
        /\ \A f \in Dir : f # d /\ f # e => actor'[f] = actor[f]
    BY <1>4, <2>2 DEF Newborn, Shapes, ActorsOK
  <2>4. new.task = Idle
    BY <1>4 DEF Newborn
  <2>5. SameDuty(actor[e], new)
    BY <2>4, DutyFacts
  <2>6. \A f \in Dir : f # d => SameDuty(actor[f], actor'[f])
    BY <2>3, <2>5, DutyFacts
  <2>7. r.task = Idle \/ r.task = Telling("mark_as_dirty", d, None, "arm", from)
    BY <2>1 DEF Marked
  <2> QED
    BY <1>2, <2>3, <2>6, <2>7
<1> QED
  BY <1>3, <1>4, CreateDirMarks

\* What is told to the parent is nobody's call.
LEMMA TellMsg ==
    ASSUME Shapes, Tree, NEW d \in Dir, actor[d].task.op = "tell"
    PROVE  /\ actor[d].task.msg \in Messages /\ actor[d].task.msg.from = None
           /\ actor[d].task.msg.op \in {"mark_as_dirty", "update_ref"}
<1> DEFINE t == actor[d].task
<1>1. t \in AllTasks(Messages)
  BY DEF Shapes, ActorsOK, RecordOK
<1>2. t \in TellTasks(Messages)
  BY <1>1 DEF AllTasks, WorkTasks, Idle
<1>3. t.msg \in Messages
  BY <1>2 DEF TellTasks
<1>4. TellFits(d, t)
  BY DEF Tree, ActorTree, ActorFits
<1>5. t.msg.op \in {"mark_as_dirty", "update_ref"}
  BY <1>4 DEF TellFits
<1> HIDE DEF t
<1>6. t.msg.from = None
  BY <1>3, <1>5 DEF Messages, Answered
<1> QED
  BY <1>3, <1>5, <1>6 DEF t

LEMMA MatchTell ==
    ASSUME Shapes, Tree, Match, NEW d \in Dir, Tell(d)
    PROVE  Match'
<1> DEFINE t == actor[d].task
           out == {t.from}
<1>1. PICK r : actor' = [actor EXCEPT ![d] = r] /\ r.task = Idle
  BY TellDone
<1>2. PICK x, u : x = t.msg /\ u = actor[d].up
  OBVIOUS
<1>3. box' = [box EXCEPT ![u] = Append(@, x)] /\ t.op = "tell"
  BY <1>2 DEF Tell
<1>4. x.from \notin Client
  BY <1>2, <1>3, TellMsg, TreeAssumption
<1>5. \A f \in Dir : Part(box[f], box'[f])
  BY <1>3, <1>4, PartSend DEF Shapes
<1>6. SameDuty(actor[d], r) /\ Idles(r) /\ actor'[d] = r
  BY <1>1, DutyFacts DEF Shapes, ActorsOK
<1>7. \A f \in Dir : SameDuty(actor[f], actor'[f])
  BY <1>1, <1>6, DutyOwn
<1>8. ASSUME NEW k \in Client, k \in out, NEW f \in Dir
      PROVE  ~Asks(box'[f], k) /\ ~Works(actor', f, k)
  <2>1. Works(actor, d, k)
    BY <1>3, <1>8 DEF Works
  <2>2. ~Asks(box[f], k) /\ (Works(actor, f, k) => f = d)
    BY <2>1 DEF Match, MatchIn
  <2>3. ~Asks(box'[f], k)
    BY <1>5, <2>2 DEF Part, Asks
  <2>4. ~Works(actor', f, k)
    BY <1>6, <1>7, <2>2 DEF Works, SameDuty, Idles
  <2> QED
    BY <2>3, <2>4
<1>9. \A k \in Client : client'[k] = client[k] \/ k \in out
  <2>1. NoAnswer \/ Answer(t.from, {})
    BY DEF Tell
  <2>2. Answer(t.from, {}) => \A k \in Client : client'[k] = client[k] \/ k \in {t.from} \cup {}
    BY AnswerClients
  <2> QED
    BY <2>1, <2>2 DEF NoAnswer
<1> HIDE DEF out
<1> QED
  BY <1>5, <1>7, <1>8, <1>9, MatchDone

LEMMA MatchSaveIfDirty ==
    ASSUME Shapes, Match, NEW d \in Dir, SaveIfDirty(d)
    PROVE  Match'
<1> DEFINE from == Head(box[d]).from
           t == [op |-> "save", from |-> from, todo |-> Handles(d), wait |-> {}]
<1>1. /\ box[d] # <<>> /\ box' = Take(d) /\ Head(box[d]).op = "save"
      /\ RecordOK(actor[d], Known, Messages) /\ client' = client
  <2>1. Receives(d, {"save"}) /\ box' = Take(d) /\ client' = client
    BY DEF SaveIfDirty, NoAnswer
  <2>2. box[d] # <<>>
    BY <2>1 DEF Receives
  <2> QED
    BY <2>1, <2>2, Receiving
<1>2. CASE actor[d].dirty \/ IsRoot(d)
  <2>1. actor' = [actor EXCEPT ![d] = [actor[d] EXCEPT !.task = t]]
    BY <1>2 DEF SaveIfDirty
  <2>2. t.from = from /\ Does(t) = "save"
    BY DEF Does
  <2> HIDE DEF t
  <2> DEFINE r == [actor[d] EXCEPT !.task = t]
  <2>3. r.task = t
    BY <1>1 DEF RecordOK
  <2> HIDE DEF r
  <2>4. actor'[d] = r /\ \A f \in Dir : f # d => actor'[f] = actor[f]
    BY <2>1 DEF Shapes, ActorsOK, r
  <2> QED
    BY <1>1, <2>2, <2>3, <2>4, DutyFacts, MatchTook
<1>3. CASE ~(actor[d].dirty \/ IsRoot(d))
  <2> DEFINE r == Arm(actor[d])
  <2>1. actor' = ToParent([actor EXCEPT ![d] = r], from, d, NoHash)
    BY <1>3 DEF SaveIfDirty
  <2>2. RecordOK(r, Known, Messages) /\ r.task = actor[d].task
    BY <1>1, ArmFacts
  <2> HIDE DEF r
  <2>3. ActorsOK([actor EXCEPT ![d] = r], Known, Messages)
    BY <2>2, ReplaceOK DEF Shapes
  <2>4. SameDuty(actor[d], r)
    BY <2>2, DutyFacts
  <2>5. \A f \in Dir : SameDuty(actor[f], actor'[f])
    BY <2>1, <2>3, <2>4, DutyToParent
  <2> QED
    BY <1>1, <2>5, MatchTaken
<1> QED
  BY <1>2, <1>3

LEMMA MatchAskChild ==
    ASSUME Shapes, Match, NEW d \in Dir, NEW e \in Dir, AskChild(d, e)
    PROVE  Match'
<1> DEFINE t == actor[d].task
           m == Msg(t.op, e, 0, d)
<1>1. PICK r : /\ actor' = [actor EXCEPT ![d] = r]
               /\ r.task.op = t.op /\ r.task.from = t.from
               /\ box' = box \/ box' = [box EXCEPT ![e] = Append(@, m)]
  BY AskChildFacts
<1>2. SameDuty(actor[d], r) /\ client' = client
  BY <1>1 DEF SameDuty, AskChild, NoAnswer
<1>3. m.from \notin Client
  BY TreeAssumption DEF Msg
<1> HIDE DEF m
<1>4. \A f \in Dir : Part(box[f], box'[f])
  BY <1>1, <1>3, PartSend, PartSame DEF Shapes
<1> QED
  BY <1>1, <1>2, <1>4, DutyOwn, MatchKept

LEMMA MatchSaveDone ==
    ASSUME Shapes, Match, NEW d \in Dir, SaveDone(d)
    PROVE  Match'
<1> DEFINE from == actor[d].task.from
           out == {None} \cup {from}
<1>1. PICK a, h, ok : SavedAs(d, a, h, ok)
  BY SaveDoneFacts
<1>2. box' = box /\ ActorsOK(actor, Known', Messages') /\ actor[d].task.op = "save"
  BY SaveDoneFacts DEF SaveDone, ChildrenDone
<1>3. /\ actor' = ToParent([actor EXCEPT ![d] = a], from, d, h)
      /\ RecordOK(a, Known', Messages') /\ a.task = Idle
      /\ h = NoHash \/ h \in Known'
  BY <1>1 DEF SavedAs
<1>4. ActorsOK([actor EXCEPT ![d] = a], Known', Messages')
  BY <1>2, <1>3, ReplaceOK
<1>5. SameDuty(actor[d], a) /\ Idles(a)
  BY <1>3, DutyFacts
<1>6. /\ \A f \in Dir : SameDuty(actor[f], actor'[f])
      /\ SameDuty(a, actor'[d])
  BY <1>3, <1>4, <1>5, DutyToParent
<1>7. ASSUME NEW k \in Client, k \in out, NEW f \in Dir
      PROVE  ~Asks(box'[f], k) /\ ~Works(actor', f, k)
  <2>1. Works(actor, d, k)
    BY <1>2, <1>7, TreeAssumption DEF Works
  <2>2. ~Asks(box[f], k) /\ (Works(actor, f, k) => f = d)
    BY <2>1 DEF Match, MatchIn
  <2>3. ~Works(actor', f, k)
    BY <1>5, <1>6, <2>2 DEF Works, SameDuty, Idles
  <2> QED
    BY <1>2, <2>2, <2>3
<1>8. \A k \in Client : client'[k] = client[k] \/ k \in out
  <2>1. PICK c : c \in {None, from} /\ Answer(c, {from})
    BY DEF SaveDone
  <2>2. \A k \in Client : client'[k] = client[k] \/ k \in {c} \cup {from}
    BY <2>1, AnswerClients
  <2> QED
    BY <2>1, <2>2
<1>9. \A f \in Dir : Part(box[f], box'[f])
  BY <1>2, PartSame
<1> HIDE DEF out
<1> QED
  BY <1>6, <1>7, <1>8, <1>9, MatchDone

LEMMA MatchFire ==
    ASSUME Shapes, Match, NEW d \in Dir, Fire(d)
    PROVE  Match'
<1> DEFINE m == Msg("autosave_tick", d, 0, None)
           r == [actor[d] EXCEPT !.timer = "fired"]
<1>1. /\ box' = [box EXCEPT ![d] = Append(@, m)]
      /\ actor' = [actor EXCEPT ![d] = r] /\ client' = client
  BY DEF Fire, NoAnswer
<1>2. r.task = actor[d].task /\ m.from \notin Client
  <2>1. RecordOK(actor[d], Known, Messages)
    BY DEF Shapes, ActorsOK
  <2> QED
    BY <2>1, TreeAssumption DEF RecordOK, Msg
<1> HIDE DEF r, m
<1>3. \A f \in Dir : Part(box[f], box'[f])
  BY <1>1, <1>2, PartSend DEF Shapes
<1>4. SameDuty(actor[d], r)
  BY <1>2, DutyFacts
<1> QED
  BY <1>1, <1>3, <1>4, DutyOwn, MatchKept

LEMMA MatchAutosaveTick ==
    ASSUME Shapes, Match, NEW d \in Dir, AutosaveTick(d)
    PROVE  Match'
<1> DEFINE r == [actor[d] EXCEPT !.timer = "off"]
           tell == ~IsRoot(d) /\ actor[r.up].life # "stopped"
           t == Telling("update_ref", d, r.state, "saved", None)
<1>1. PICK ok : actor' = [actor EXCEPT ![d] =
               IF ~ok THEN Arm(r)
               ELSE IF r.dirty /\ tell THEN [r EXCEPT !.task = t]
               ELSE [r EXCEPT !.dirty = FALSE]]
  BY DEF AutosaveTick
<1>2. box[d] # <<>> /\ box' = Take(d) /\ actor[d].task = Idle /\ client' = client
  BY DEF AutosaveTick, Receives, Free, NoAnswer
<1>3. RecordOK(r, Known, Messages) /\ r.task = Idle
  <2>1. RecordOK(actor[d], Known, Messages)
    BY DEF Shapes, ActorsOK
  <2> QED
    BY <1>2, <2>1 DEF RecordOK
<1>4. \A q : q.task = t => Idles(q)
  BY DutyFacts
<1> HIDE DEF r, t, tell
<1>5. /\ Arm(r).task = Idle /\ [r EXCEPT !.task = t].task = t
      /\ [r EXCEPT !.dirty = FALSE].task = Idle
  BY <1>3, ArmFacts DEF RecordOK
<1> DEFINE q == IF ~ok THEN Arm(r)
               ELSE IF r.dirty /\ tell THEN [r EXCEPT !.task = t]
               ELSE [r EXCEPT !.dirty = FALSE]
<1>6. q.task = t \/ q.task = Idle
  BY <1>5
<1>7. actor' = [actor EXCEPT ![d] = q]
  BY <1>1
<1> HIDE DEF q
<1>8. SameDuty(actor[d], q)
  BY <1>4, <1>6, DutyFacts
<1> QED
  BY <1>2, <1>7, <1>8, DutyOwn, MatchTaken

LEMMA MatchSetAutosave ==
    ASSUME Shapes, Match, NEW d \in Dir, SetAutosave(d)
    PROVE  Match'
<1> DEFINE live == {e \in Handles(d) : actor[e].life # "stopped"}
           m == Head(box[d])
           r == Arm([actor[d] EXCEPT !.auto = TRUE])
<1>1. /\ RecordOK(actor[d], Known, Messages) /\ m.op = "with_autosave" /\ m \in Messages
  BY Receiving DEF SetAutosave
<1>2. /\ box[d] # <<>> /\ actor' = [actor EXCEPT ![d] = r] /\ client' = client
      /\ box' = [f \in Dir |-> IF f = d THEN Tail(box[f])
                                ELSE IF f \in live THEN Append(box[f], m)
                                ELSE box[f]]
  BY DEF SetAutosave, Receives, NoAnswer
<1>3. r.task = actor[d].task
  <2> DEFINE q == [actor[d] EXCEPT !.auto = TRUE]
  <2>1. RecordOK(q, Known, Messages) /\ q.task = actor[d].task
    BY <1>1, AutoOK
  <2> HIDE DEF q
  <2>2. Arm(q).task = q.task
    BY <2>1, ArmFacts
  <2> QED
    BY <2>1, <2>2 DEF q
<1>4. m.from \notin Client
  BY <1>1, TreeAssumption DEF Messages, Answered
<1> HIDE DEF live, m, r
<1>5. ASSUME NEW f \in Dir PROVE Part(box[f], box'[f])
  <2>1. box[f] \in Seq(Messages)
    BY DEF Shapes
  <2>2. CASE f = d
    <3>1. box'[f] = Tail(box[f])
      BY <1>2, <2>2
    <3> QED
      BY <1>2, <2>1, <2>2, <3>1, PartTail
  <2>3. CASE f # d /\ f \in live
    <3>1. box'[f] = Append(box[f], m)
      BY <1>2, <2>3
    <3> QED
      BY <1>4, <2>1, <3>1, PartAppend
  <2>4. CASE f # d /\ f \notin live
    <3>1. box'[f] = box[f]
      BY <1>2, <2>4
    <3> QED
      BY <3>1, PartSame
  <2> QED
    BY <2>2, <2>3, <2>4
<1>6. SameDuty(actor[d], r)
  BY <1>3, DutyFacts
<1> QED
  BY <1>2, <1>5, <1>6, DutyOwn, MatchKept

LEMMA MatchBeginShutdown ==
    ASSUME Shapes, Match, NEW d \in Dir, BeginShutdown(d)
    PROVE  Match'
<1> DEFINE t == [op |-> "shutdown", from |-> Head(box[d]).from, todo |-> Handles(d), wait |-> {}]
           r == [actor[d] EXCEPT !.task = t]
<1>1. /\ Receives(d, {"shutdown"}) /\ box' = Take(d) /\ actor' = [actor EXCEPT ![d] = r]
      /\ client' = client
  BY DEF BeginShutdown, NoAnswer
<1>2. box[d] # <<>> /\ Head(box[d]).op = "shutdown" /\ RecordOK(actor[d], Known, Messages)
  BY <1>1, Receiving DEF Receives
<1>3. t.from = Head(box[d]).from /\ Does(t) = "shutdown"
  BY DEF Does
<1> HIDE DEF t
<1>4. r.task = t
  BY <1>2 DEF RecordOK
<1> HIDE DEF r
<1>5. actor'[d] = r /\ \A f \in Dir : f # d => actor'[f] = actor[f]
  BY <1>1 DEF Shapes, ActorsOK
<1> QED
  BY <1>1, <1>2, <1>3, <1>4, <1>5, DutyFacts, MatchTook

LEMMA MatchStop ==
    ASSUME Shapes, Match, NEW d \in Dir, Stop(d)
    PROVE  Match'
<1>1. PICK c : c = actor[d].task.from
  OBVIOUS
<1>2. PICK q : /\ actor' = ToParent([actor EXCEPT ![d] = q], c, d, NoHash)
               /\ RecordOK(q, Known, Messages) /\ q.task = Idle
  BY <1>1, StopFacts
<1>3. ActorsOK([actor EXCEPT ![d] = q], Known, Messages)
  BY <1>2, ReplaceOK DEF Shapes
<1>4. SameDuty(actor[d], q) /\ Idles(q)
  BY <1>2, DutyFacts
<1>5. /\ \A f \in Dir : SameDuty(actor[f], actor'[f])
      /\ SameDuty(q, actor'[d])
  BY <1>2, <1>3, <1>4, DutyToParent
<1>6. Idles(actor'[d])
  BY <1>4, <1>5 DEF Idles, SameDuty
<1>7. /\ box' = [box EXCEPT ![d] = <<>>] /\ Answer(c, Dropped(d))
      /\ actor[d].task.op # "idle"
  BY <1>1 DEF Stop, ChildrenDone
<1> QED
  BY <1>1, <1>5, <1>6, <1>7, MatchGone

LEMMA MatchOrphan ==
    ASSUME Shapes, Match, NEW d \in Dir, Orphan(d)
    PROVE  Match'
<1> DEFINE r == [actor[d] EXCEPT !.life = "stopped"]
<1>1. box' = box /\ actor' = [actor EXCEPT ![d] = r] /\ client' = client
  BY DEF Orphan, NoAnswer
<1>2. r.task = actor[d].task
  <2>1. RecordOK(actor[d], Known, Messages)
    BY DEF Shapes, ActorsOK
  <2> QED
    BY <2>1 DEF RecordOK
<1> HIDE DEF r
<1>3. SameDuty(actor[d], r)
  BY <1>2, DutyFacts
<1> QED
  BY <1>1, <1>3, DutyOwn, PartSame, MatchKept

-----------------------------------------------------------------------------
LEMMA MatchFresh ==
    ASSUME NEW acts, NEW b, NEW cl, \A f \in Dir : acts[f].task = Idle /\ b[f] = <<>>
    PROVE  MatchIn(acts, b, cl)
<1>1. \A f \in Dir : \A k : ~Works(acts, f, k) /\ ~Asks(b[f], k)
  BY PartEmpty DEF Works, Idle
<1>2. \A f \in Dir : Lone(b[f]) /\ Fitted(b[f], cl)
  BY DEF Lone, Fitted
<1> QED
  BY <1>1, <1>2 DEF MatchIn

LEMMA FreshIdle ==
    ASSUME NEW file, NEW f \in Dir
    PROVE  FreshActors(file)[f].task = Idle
BY DEF FreshActors, Spawn, NotOpen

LEMMA MatchInit == Init => Match
<1> SUFFICES ASSUME Init PROVE Match
  OBVIOUS
<1>1. \A f \in Dir : actor[f].task = Idle /\ box[f] = <<>>
  BY FreshIdle DEF Init
<1> QED
  BY <1>1, MatchFresh DEF Match

LEMMA MatchClient == Shapes /\ Owing /\ Match /\ ClientStep => Match'
<1> SUFFICES ASSUME Shapes, Owing, Match, ClientStep PROVE Match'
  OBVIOUS
<1>0. box \in [Dir -> Seq(Messages)] /\ Root \in Dir
  BY TreeAssumption DEF Shapes
<1>1. ASSUME NEW c \in Client, NEW op, NEW d, NEW arg, Call(c, op, d, arg) PROVE Match'
  <2>1. PICK m : m = Msg(op, d, arg, c)
    OBVIOUS
  <2>2. /\ actor' = actor /\ box' = [box EXCEPT ![Root] = Append(@, m)] /\ client[c] = NoCall
        /\ client' = [client EXCEPT ![c] = [op |-> op, dir |-> d, arg |-> arg, need |-> acked]]
    BY <1>1, <2>1 DEF Call, Post
  <2>3. m.op = op /\ m.dir = d /\ m.arg = arg /\ m.from = c
    BY <2>1 DEF Msg
  <2>4. /\ Fitting(client'[c], m) /\ \A k \in Client : k # c => client'[k] = client[k]
    BY <2>2, <2>3 DEF Owing, Fitting
  <2>5. ASSUME NEW f \in Dir PROVE ~Asks(box[f], c) /\ ~Works(actor, f, c)
    <3>1. ASSUME Asks(box[f], c) PROVE FALSE
      <4>1. PICK i \in DOMAIN box[f] : box[f][i].from = c
        BY <3>1 DEF Asks
      <4>2. box[f][i] \in Messages
        BY <1>0
      <4>3. box[f][i].op \in Answered
        BY <4>1, <4>2, TreeAssumption DEF Messages
      <4>4. Fitting(client[c], box[f][i])
        BY <4>1 DEF Match, MatchIn, Fitted
      <4> QED
        BY <2>2, <4>3, <4>4 DEF Fitting, NoCall, Answered
    <3>2. ASSUME Works(actor, f, c) PROVE FALSE
      <4>1. client[c].op = Does(actor[f].task) /\ actor[f].task.op # "idle"
        BY <3>2 DEF Match, MatchIn, Works
      <4>2. actor[f].task \in AllTasks(Messages)
        BY DEF Shapes, ActorsOK, RecordOK
      <4>3. actor[f].task.op \in {"tell", "save", "shutdown"}
        BY <4>1, <4>2 DEF AllTasks, TellTasks, WorkTasks, Idle
      <4> QED
        BY <2>2, <4>1, <4>3 DEF Does, NoCall
    <3> QED
      BY <3>1, <3>2
  <2>6. MatchIn(actor, box, client)
    BY DEF Match
  <2>7. MatchIn(actor, [box EXCEPT ![Root] = Append(@, m)], client')
    BY <1>0, <2>3, <2>4, <2>5, <2>6, MatchPosted
  <2> QED
    BY <2>2, <2>7, MatchPrimed
<1>2. ASSUME NEW op, NEW d, NEW arg, Post(op, d, arg, None), client' = client PROVE Match'
  <2>1. PICK m : m = Msg(op, d, arg, None)
    OBVIOUS
  <2>2. actor' = actor /\ box' = [box EXCEPT ![Root] = Append(@, m)]
    BY <1>2, <2>1 DEF Post
  <2>3. m.from \notin Client
    BY <2>1, TreeAssumption DEF Msg
  <2>4. \A f \in Dir : Part(box[f], box'[f])
    BY <1>0, <2>2, <2>3, PartSend
  <2> QED
    BY <1>2, <2>2, <2>4, DutyFacts, MatchKept
<1>3. CASE Drop
  BY <1>3, DutyFacts, PartSame, MatchKept DEF Drop
<1>4. CASE Crash
  <2>1. \A f \in Dir : actor'[f].task = Idle /\ box'[f] = <<>>
    BY <1>4, FreshIdle DEF Crash
  <2> QED
    BY <2>1, MatchFresh, MatchPrimed
<1> QED
  BY <1>1, <1>2, <1>3, <1>4
  DEF ClientStep, FilePutSync, FileGet, CreateDir, FilePut, Save, Shutdown, WithAutosave

LEMMA MatchNext ==
    Shapes /\ Tree /\ Sound /\ Owing /\ Match /\ [Next]_vars => Match'
<1> SUFFICES ASSUME Shapes, Tree, Sound, Owing, Match, [Next]_vars PROVE Match'
  OBVIOUS
<1>1. CASE ClientStep
  BY <1>1, MatchClient
<1>2. ASSUME NEW d \in Dir, ActorStep(d) PROVE Match'
  <2>1. ASSUME CreateDirAt(d) PROVE Match'
    BY <2>1, NoCreateDir, MatchCreateDirAt DEF Sound
  <2> QED
    BY <1>2, <2>1, MatchPublish, MatchLoad, MatchForward, MatchFileOp,
       MatchTell, MatchChildIsDirty, MatchUpdateDirRefHash, MatchSaveIfDirty,
       MatchAskChild, MatchSaveDone, MatchAutosaveTick, MatchSetAutosave,
       MatchBeginShutdown, MatchStop, MatchOrphan
    DEF ActorStep
<1>3. ASSUME NEW d \in Dir, Fire(d) PROVE Match'
  BY <1>3, MatchFire
<1>4. CASE UNCHANGED vars
  BY <1>4, DutyFacts, PartSame, MatchKept DEF vars
<1> QED
  BY <1>1, <1>2, <1>3, <1>4 DEF Next

-----------------------------------------------------------------------------
(***************************************************************************)
(* Where the clients see the file of a path.                               *)
(***************************************************************************)
LBelow(x, h, acts) ==
    IF h.snap # NoHash /\ h.dir = Parent[x] /\ x \in DOMAIN h.snap.dirs
    THEN [dir |-> x, snap |-> IF acts[x].life = "none" THEN h.snap.dirs[x] ELSE acts[x].state]
    ELSE h
LReads(H, acts) ==
    H = [x \in Dir |-> IF x = Root THEN [dir |-> Root, snap |-> acts[Root].state]
                       ELSE LBelow(x, H[Parent[x]], acts)]
LReader(acts) == CHOOSE H : LReads(H, acts)

\* The snapshots that may be met on the way: a set that is closed under going down.
Met(acts, W) ==
    /\ acts[Root].state \in W
    /\ \A s \in W : s # NoHash => \A x \in DOMAIN s.dirs : s.dirs[x] \in W
    /\ \A x \in Dir : acts[x].state \in W

LEMMA LReaderReads ==
    ASSUME NEW acts, NEW W, Met(acts, W)
    PROVE  LReads(LReader(acts), acts)
<1> DEFINE V == [dir : Dir, snap : W]
           top == [dir |-> Root, snap |-> acts[Root].state]
           F == [q \in Dir \X V |-> LBelow(q[1], q[2], acts)]
<1>1. top \in V
  BY TreeAssumption DEF Met
<1>2. ASSUME NEW x \in Dir, NEW v \in V PROVE LBelow(x, v, acts) \in V
  BY DEF LBelow, Met
<1>3. F \in [Dir \X V -> V] /\ \A x \in Dir, v \in V : F[<<x, v>>] = LBelow(x, v, acts)
  <2> HIDE DEF V
  <2> QED
    BY <1>2
<1> HIDE DEF V, F, top
<1>4. PICK h : /\ h \in [Dir -> V] /\ h[Root] = top
               /\ \A y \in Dir \ {Root} : h[y] = F[<<y, h[Parent[y]]>>]
  <2>1. Guides(F, V, top)
    BY <1>1, <1>3 DEF Guides
  <2>2. \E h : Follows(h, F, V, top)
    BY <2>1, AlongPaths
  <2> QED
    BY <2>2 DEF Follows
<1>5. \A y \in Dir \ {Root} : h[y] = LBelow(y, h[Parent[y]], acts)
  BY <1>3, <1>4, TreeAssumption
<1>6. LReads(h, acts)
  BY <1>4, <1>5 DEF LReads, top
<1> QED
  BY <1>6, Zenon DEF LReader

LEMMA LiveHolderReads ==
    /\ LiveHolder = LReader(actor)
    /\ LiveHolder' = LReader(actor')
<1>1. LiveHolder = LReader(actor)
  BY Zenon DEF LiveHolder, LReader, LReads, LBelow
<1>2. LiveHolder' = LReader(actor')
  BY Zenon DEF LiveHolder, LReader, LReads, LBelow
<1> QED
  BY <1>1, <1>2

LEMMA LReaderSteps ==
    ASSUME NEW acts, NEW H, LReads(H, acts)
    PROVE  /\ H[Root] = [dir |-> Root, snap |-> acts[Root].state]
           /\ \A x \in Dir \ {Root} : H[x] = LBelow(x, H[Parent[x]], acts)
<1>1. PICK G : G = [x \in Dir |-> IF x = Root THEN [dir |-> Root, snap |-> acts[Root].state]
                                 ELSE LBelow(x, H[Parent[x]], acts)]
  OBVIOUS
<1>2. H = G
  BY <1>1 DEF LReads
<1>3. /\ G[Root] = [dir |-> Root, snap |-> acts[Root].state]
      /\ \A x \in Dir \ {Root} : G[x] = LBelow(x, H[Parent[x]], acts)
  BY <1>1, TreeAssumption
<1> QED
  BY <1>2, <1>3

\* The snapshots of the program: those stored, and those of the directories.
LEMMA MetInShapes ==
    ASSUME Shapes
    PROVE  Met(actor, Pool \cup {NoHash})
<1>1. Root \in Dir
  BY TreeAssumption
<1>2. \A s \in Pool : s = NoHash \/ Snap(s, Known)
  BY DEF Pool, Shapes, StoredOK, ActorsOK, RecordOK
<1>3. Known \subseteq Pool \cup {NoHash}
  BY DEF Known, Pool
<1>4. \A x \in Dir : actor[x].state \in Pool
  BY DEF Pool
<1>5. ASSUME NEW s \in Pool \cup {NoHash}, s # NoHash, NEW x \in DOMAIN s.dirs
      PROVE  s.dirs[x] \in Pool \cup {NoHash}
  <2>1. Snap(s, Known)
    BY <1>2, <1>5
  <2>2. s.dirs[x] \in Known
    BY <2>1 DEF Snap
  <2> QED
    BY <1>3, <2>2
<1> QED
  BY <1>1, <1>4, <1>5 DEF Met

LEMMA LiveReads ==
    /\ Shapes => LReads(LiveHolder, actor)
    /\ Shapes' => LReads(LiveHolder', actor')
<1>1. Shapes => LReads(LiveHolder, actor)
  BY MetInShapes, LReaderReads, LiveHolderReads
<1>2. ASSUME Shapes' PROVE LReads(LiveHolder', actor')
  <2>1. Met(actor', (Pool \cup {NoHash})')
    <3>1. Shapes' => Met(actor, Pool \cup {NoHash})'
      BY MetInShapes, PTL
    <3> QED
      BY <1>2, <3>1 DEF Met
  <2>2. LReads(LReader(actor'), actor')
    BY <2>1, LReaderReads
  <2> QED
    BY <2>2, LiveHolderReads
<1> QED
  BY <1>1, <1>2

\* The file of path x is visible in snapshot s.
FileIn(s, x) == IF s = NoHash THEN 0 ELSE s.files[x]
LEMMA VisibleIn ==
    /\ \A x : Visible(x) = FileIn(LiveHolder[x].snap, x)
    /\ \A x : Visible(x)' = FileIn(LiveHolder'[x].snap, x)
    /\ \A x : Persisted(x) = FileIn(Holder[x].snap, x)
BY Zenon DEF Visible, Persisted, FileIn

-----------------------------------------------------------------------------
LEMMA LReaderShape ==
    ASSUME NEW acts, NEW H, LReads(H, acts)
    PROVE  \A x \in Dir : H[x] = [dir |-> H[x].dir, snap |-> H[x].snap]
<1> DEFINE S == {x \in Dir : H[x] = [dir |-> H[x].dir, snap |-> H[x].snap]}
<1>1. /\ H[Root] = [dir |-> Root, snap |-> acts[Root].state]
      /\ \A x \in Dir \ {Root} : H[x] = LBelow(x, H[Parent[x]], acts)
  BY LReaderSteps
<1>2. Root \in S
  BY <1>1, TreeAssumption
<1>3. ASSUME NEW x \in Dir \ {Root}, Parent[x] \in S PROVE x \in S
  <2>1. PICK h : h = H[Parent[x]]
    OBVIOUS
  <2>2. h = [dir |-> h.dir, snap |-> h.snap] /\ H[x] = LBelow(x, h, acts)
    BY <1>1, <1>3, <2>1
  <2>3. H[x] = h \/ \E s : H[x] = [dir |-> x, snap |-> s]
    BY <2>2 DEF LBelow
  <2> QED
    BY <2>2, <2>3
<1>4. S = Dir
  BY <1>2, <1>3, PathAssumption
<1> QED
  BY <1>4

\* A directory that is open holds its own files.
LEMMA OpenHolder ==
    ASSUME Tree, NEW H, LReads(H, actor)
    PROVE  \A x \in Dir : actor[x].life # "none" => H[x] = [dir |-> x, snap |-> actor[x].state]
<1> DEFINE S == {x \in Dir : actor[x].life # "none" => H[x] = [dir |-> x, snap |-> actor[x].state]}
<1>1. /\ H[Root] = [dir |-> Root, snap |-> actor[Root].state]
      /\ \A x \in Dir \ {Root} : H[x] = LBelow(x, H[Parent[x]], actor)
  BY LReaderSteps
<1>2. Root \in S
  BY <1>1, TreeAssumption
<1>3. ASSUME NEW x \in Dir \ {Root}, Parent[x] \in S PROVE x \in S
  <2> SUFFICES ASSUME actor[x].life # "none" PROVE H[x] = [dir |-> x, snap |-> actor[x].state]
    OBVIOUS
  <2>1. PICK p \in Dir : p = Parent[x]
    BY TreeAssumption
  <2>2. actor[p].state # NoHash /\ x \in DOMAIN actor[p].state.dirs
    BY <2>1 DEF Tree, ActorTree, UnderParent
  <2>3. actor[p].life # "none"
    BY <2>2 DEF Tree, ActorTree, ActorFits
  <2>4. H[p] = [dir |-> p, snap |-> actor[p].state]
    BY <1>3, <2>1, <2>3
  <2>5. LBelow(x, H[p], actor) = [dir |-> x, snap |-> actor[x].state]
    BY <2>1, <2>2, <2>4 DEF LBelow
  <2> QED
    BY <1>1, <2>1, <2>5
<1>4. S = Dir
  BY <1>2, <1>3, PathAssumption
<1> QED
  BY <1>4

\* The file of a path is held by the last open directory on the way if the way does not
\* go on below it.
LEMMA EndsHere ==
    ASSUME Tree, NEW H, LReads(H, actor), NEW d \in Dir, actor[d].life # "none",
           NEW x \in Dir, d \in Up[x],
           \A y \in Up[x] : y # Root /\ Parent[y] = d => y \notin DOMAIN actor[d].state.dirs
    PROVE  H[x] = [dir |-> d, snap |-> actor[d].state]
<1> DEFINE here == [dir |-> d, snap |-> actor[d].state]
           S == {y \in Dir : d \in Up[y] /\ y \in Up[x] => H[y] = here}
<1>1. \A y \in Dir \ {Root} : H[y] = LBelow(y, H[Parent[y]], actor)
  BY LReaderSteps
<1>2. H[d] = here
  BY OpenHolder
<1>3. Root \in S
  BY <1>2, UpRoot, TreeAssumption
<1>4. ASSUME NEW y \in Dir \ {Root}, Parent[y] \in S, d \in Up[y], y \in Up[x]
      PROVE  H[y] = here
  <2>1. CASE y = d
    BY <1>2, <2>1
  <2>2. CASE y # d
    <3>1. d \in Up[Parent[y]] /\ Parent[y] \in Up[x]
      BY <1>4, <2>2, UpStep, UpFacts
    <3>2. H[Parent[y]] = here
      BY <1>4, <3>1
    <3>3. ~(d = Parent[y] /\ y \in DOMAIN actor[d].state.dirs)
      BY <1>4
    <3>4. LBelow(y, here, actor) = here
      BY <3>3 DEF LBelow
    <3> QED
      BY <1>1, <3>2, <3>4
  <2> QED
    BY <2>1, <2>2
<1>5. S = Dir
  BY <1>3, <1>4, PathAssumption
<1>6. x \in Up[x]
  BY UpFacts
<1> QED
  BY <1>5, <1>6

-----------------------------------------------------------------------------
\* Only directory p changes, not in the entries that are not open but for c, and a directory
\* that is opened starts with its entry.
Kin(s, t, c, acts1) ==
    \/ s = t
    \/ /\ s # NoHash /\ t # NoHash
       /\ \A e : e # c => (e \in DOMAIN t.dirs <=> e \in DOMAIN s.dirs)
       /\ \A e \in DOMAIN s.dirs : e # c /\ acts1[e].life = "none" => t.dirs[e] = s.dirs[e]

Alike(acts, acts1, p, c) ==
    /\ p \in Dir /\ acts[p].life # "none" /\ acts[Root].life # "none" /\ c # Root
    /\ Kin(acts[p].state, acts1[p].state, c, acts1)
    /\ \A f \in Dir : f # c =>
          /\ acts[f].life # "none" =>
                acts1[f].life # "none" /\ (f # p => acts1[f].state = acts[f].state)
          /\ acts[f].life = "none" /\ acts1[f].life # "none" =>
                /\ f # Root /\ acts[Parent[f]].life # "none"
                /\ acts1[f].state = acts[Parent[f]].state.dirs[f]

\* Where the file of a path is seen before and after.
SeenAs(h, k, acts, acts1, p) ==
    /\ k.dir = h.dir
    /\ acts[h.dir].life # "none" => h.snap = acts[h.dir].state
    /\ acts1[k.dir].life # "none" => k.snap = acts1[k.dir].state
    /\ \/ k.snap = h.snap
       \/ h.dir = p /\ h.snap = acts[p].state /\ k.snap = acts1[p].state

LEMMA BelowSeenAs ==
    ASSUME NEW acts, NEW acts1, NEW p, NEW c, Alike(acts, acts1, p, c),
           NEW h, NEW k, SeenAs(h, k, acts, acts1, p), NEW x \in Dir, x # c
    PROVE  SeenAs(LBelow(x, h, acts), LBelow(x, k, acts1), acts, acts1, p)
<1>1. k.dir = h.dir /\ (acts[h.dir].life # "none" => h.snap = acts[h.dir].state)
  BY DEF SeenAs
<1>2. Kin(h.snap, k.snap, c, acts1)
  BY DEF SeenAs, Alike, Kin
<1>3. h.snap # NoHash <=> k.snap # NoHash
  BY <1>2 DEF Kin
<1>4. CASE h.snap # NoHash /\ h.dir = Parent[x] /\ x \in DOMAIN h.snap.dirs
  <2>1. k.snap # NoHash /\ k.dir = Parent[x] /\ x \in DOMAIN k.snap.dirs
    BY <1>1, <1>2, <1>4 DEF Kin
  <2>2. PICK s, t : /\ s = (IF acts[x].life = "none" THEN h.snap.dirs[x] ELSE acts[x].state)
                    /\ t = (IF acts1[x].life = "none" THEN k.snap.dirs[x] ELSE acts1[x].state)
    OBVIOUS
  <2>3. LBelow(x, h, acts) = [dir |-> x, snap |-> s] /\ LBelow(x, k, acts1) = [dir |-> x, snap |-> t]
    BY <1>4, <2>1, <2>2 DEF LBelow
  <2>4. /\ acts[x].life # "none" => s = acts[x].state
        /\ acts1[x].life # "none" => t = acts1[x].state
    BY <2>2
  <2>5. t = s \/ (x = p /\ s = acts[p].state /\ t = acts1[p].state)
    <3>1. CASE acts[x].life # "none"
      BY <2>2, <3>1 DEF Alike
    <3>2. CASE acts[x].life = "none" /\ acts1[x].life = "none"
      BY <1>2, <1>4, <2>2, <3>2 DEF Kin
    <3>3. CASE acts[x].life = "none" /\ acts1[x].life # "none"
      <4>1. acts[Parent[x]].life # "none" /\ acts1[x].state = acts[Parent[x]].state.dirs[x]
        BY <3>3 DEF Alike
      <4> QED
        BY <1>1, <1>4, <2>2, <3>3, <4>1
    <3> QED
      BY <3>1, <3>2, <3>3
  <2> QED
    BY <2>3, <2>4, <2>5 DEF SeenAs
<1>5. CASE ~(h.snap # NoHash /\ h.dir = Parent[x] /\ x \in DOMAIN h.snap.dirs)
  <2>1. ~(k.snap # NoHash /\ k.dir = Parent[x] /\ x \in DOMAIN k.snap.dirs)
    BY <1>1, <1>2, <1>3, <1>5 DEF Kin
  <2>2. LBelow(x, h, acts) = h /\ LBelow(x, k, acts1) = k
    BY <1>5, <2>1 DEF LBelow
  <2> QED
    BY <2>2
<1> QED
  BY <1>4, <1>5

LEMMA SeenAlike ==
    ASSUME NEW acts, NEW acts1, NEW p, NEW c, Alike(acts, acts1, p, c),
           NEW H, NEW K, LReads(H, acts), LReads(K, acts1)
    PROVE  \A x \in Dir : c \notin Up[x] => SeenAs(H[x], K[x], acts, acts1, p)
<1> DEFINE S == {x \in Dir : c \notin Up[x] => SeenAs(H[x], K[x], acts, acts1, p)}
<1>1. /\ H[Root] = [dir |-> Root, snap |-> acts[Root].state]
      /\ K[Root] = [dir |-> Root, snap |-> acts1[Root].state]
      /\ \A x \in Dir \ {Root} : H[x] = LBelow(x, H[Parent[x]], acts)
      /\ \A x \in Dir \ {Root} : K[x] = LBelow(x, K[Parent[x]], acts1)
  BY LReaderSteps
<1>2. Root \in S
  <2>1. acts1[Root].state = acts[Root].state \/ Root = p
    BY TreeAssumption DEF Alike
  <2> QED
    BY <1>1, <2>1, TreeAssumption DEF SeenAs
<1>3. ASSUME NEW x \in Dir \ {Root}, Parent[x] \in S, c \notin Up[x]
      PROVE  SeenAs(H[x], K[x], acts, acts1, p)
  <2>1. PICK h, k : h = H[Parent[x]] /\ k = K[Parent[x]]
    OBVIOUS
  <2>2. c \notin Up[Parent[x]] /\ x # c
    BY <1>3, UpStep, UpFacts
  <2>3. SeenAs(h, k, acts, acts1, p)
    BY <1>3, <2>1, <2>2
  <2>4. SeenAs(LBelow(x, h, acts), LBelow(x, k, acts1), acts, acts1, p)
    BY <2>2, <2>3, BelowSeenAs
  <2> QED
    BY <1>1, <2>1, <2>4
<1>4. S = Dir
  BY <1>2, <1>3, PathAssumption
<1> QED
  BY <1>4

\* What is visible of a path does not change if the file is the same in both snapshots of p.
LEMMA VisibleAlike ==
    ASSUME Shapes, Shapes', NEW p, NEW c, Alike(actor, actor', p, c), NEW x \in Dir, c \notin Up[x],
           FileIn(actor'[p].state, x) = FileIn(actor[p].state, x)
    PROVE  Visible(x)' = Visible(x)
<1>1. PICK H, K, acts1 : H = LiveHolder /\ K = LiveHolder' /\ acts1 = actor'
  OBVIOUS
<1>2. LReads(H, actor) /\ LReads(K, acts1)
  BY <1>1, LiveReads
<1>3. SeenAs(H[x], K[x], actor, acts1, p)
  BY <1>1, <1>2, SeenAlike
<1>4. FileIn(K[x].snap, x) = FileIn(H[x].snap, x)
  BY <1>1, <1>3 DEF SeenAs
<1> QED
  BY <1>1, <1>4, VisibleIn

-----------------------------------------------------------------------------
(***************************************************************************)
(* What the steps do to what is visible of a path.                         *)
(***************************************************************************)
LEMMA NoneAbove == ASSUME NEW x \in Dir PROVE None \notin Up[x] /\ None # Root
BY UpFacts, TreeAssumption

LEMMA VisibleSteady ==
    ASSUME Shapes, Shapes', Tree, Steady, NEW x \in Dir
    PROVE  Visible(x)' = Visible(x)
<1>1. Root \in Dir /\ actor[Root].life # "none"
  BY TreeAssumption DEF Tree, ActorTree, ActorFits
<1>2. Alike(actor, actor', Root, None)
  BY <1>1, TreeAssumption DEF Alike, Kin, Steady
<1>3. actor'[Root].state = actor[Root].state
  BY <1>1 DEF Steady
<1> QED
  BY <1>2, <1>3, NoneAbove, VisibleAlike

LEMMA VisibleEntered ==
    ASSUME Shapes, Shapes', Tree, NEW p \in Dir, NEW e \in Dir, NEW h, Entered(p, e, h),
           actor[e].life # "none", NEW x \in Dir
    PROVE  Visible(x)' = Visible(x)
<1>1. CASE actor'[p].state = actor[p].state
  <2>1. Steady
    BY <1>1 DEF Entered, Steady
  <2> QED
    BY <2>1, VisibleSteady
<1>2. CASE /\ actor[p].state # NoHash /\ e \in DOMAIN actor[p].state.dirs
           /\ actor'[p].state = [actor[p].state EXCEPT !.dirs[e] = h]
  <2>1. PICK s, t : s = actor[p].state /\ t = actor'[p].state
    OBVIOUS
  <2>2. Snap(s, Known) /\ s # NoHash /\ actor[p].life # "none" /\ actor[Root].life # "none"
    BY <1>2, <2>1, TreeAssumption DEF Shapes, ActorsOK, RecordOK, Tree, ActorTree, ActorFits
  <2>3. t.files = s.files /\ t # NoHash /\ t.dirs = [s.dirs EXCEPT ![e] = h]
    BY <1>2, <2>1, <2>2, EntryFiles
  <2>4. DOMAIN t.dirs = DOMAIN s.dirs /\ \A f \in DOMAIN s.dirs : f # e => t.dirs[f] = s.dirs[f]
    BY <2>3
  <2>5. actor'[e].life # "none"
    BY DEF Entered
  <2>6. Kin(s, t, None, actor')
    BY <2>2, <2>3, <2>4, <2>5 DEF Kin
  <2>7. Alike(actor, actor', p, None)
    BY <2>1, <2>2, <2>6, TreeAssumption DEF Alike, Entered
  <2>8. FileIn(t, x) = FileIn(s, x)
    BY <2>2, <2>3 DEF FileIn
  <2> QED
    BY <2>1, <2>7, <2>8, NoneAbove, VisibleAlike
<1> QED
  BY <1>1, <1>2 DEF Entered

LEMMA VisibleOpened ==
    ASSUME Shapes, Shapes', Tree, NEW d \in Dir, NEW e \in Dir, e # Root, e # d, Parent[e] = d,
           actor[d].life # "none", Opened(d, e), NEW x \in Dir
    PROVE  Visible(x)' = Visible(x)
<1>1. CASE actor' = actor
  <2>1. Steady
    BY <1>1 DEF Steady
  <2> QED
    BY <2>1, VisibleSteady
<1>2. CASE /\ actor[e].life = "none"
           /\ actor'[e].state = actor[d].state.dirs[e] /\ actor'[e].life = "loading"
           /\ \A f \in Dir : f # e => actor'[f] = actor[f]
  <2>1. actor[Root].life # "none" /\ actor'[d] = actor[d]
    BY <1>2, TreeAssumption DEF Tree, ActorTree, ActorFits
  <2>2. Alike(actor, actor', d, None)
    BY <1>2, <2>1, TreeAssumption DEF Alike, Kin
  <2> QED
    BY <2>1, <2>2, NoneAbove, VisibleAlike
<1> QED
  BY <1>1, <1>2 DEF Opened

\* A put is visible in the directory that holds the file of its path, and only there.
LEMMA VisibleFiled ==
    ASSUME Shapes, Shapes', Tree, Order, NEW d \in Dir, actor[d].life # "none",
           actor[d].state # NoHash, NEW x \in Dir, NEW n \in Nat, Filed(d, x, n), d \in Up[x],
           \A y \in Up[x] : y # Root /\ Parent[y] = d => y \notin DOMAIN actor[d].state.dirs
    PROVE  /\ Visible(x)' = n /\ Visible(x) = actor[d].state.files[x]
           /\ \A y \in Dir : y # x => Visible(y)' = Visible(y)
<1>1. PICK s, t : s = actor[d].state /\ t = actor'[d].state
  OBVIOUS
<1>2. Snap(s, Known) /\ s # NoHash /\ s.files \in [Dir -> Nat] /\ actor[Root].life # "none"
  <2>1. s \in Pool /\ s # NoHash
    BY <1>1 DEF Pool
  <2>2. s.files \in [Dir -> Nat]
    BY <2>1 DEF Order, OrderIn, Behind
  <2>3. Snap(s, Known)
    BY <1>1, <2>1 DEF Shapes, ActorsOK, RecordOK
  <2>4. actor[Root].life # "none"
    BY TreeAssumption DEF Tree, ActorTree, ActorFits
  <2> QED
    BY <2>1, <2>2, <2>3, <2>4
<1>3. t = [s EXCEPT !.files[x] = n]
  BY <1>1 DEF Filed
<1>4. t.files = [s.files EXCEPT ![x] = n] /\ t.dirs = s.dirs
  BY <1>2, <1>3, FiledState
<1>5. t # NoHash
  BY <1>2, <1>3, FilesOK, SnapIsNoHash
<1>6. Kin(s, t, None, actor')
  BY <1>2, <1>4, <1>5 DEF Kin
<1>7. Alike(actor, actor', d, None)
  BY <1>1, <1>2, <1>6, TreeAssumption DEF Alike, Filed
<1>8. ASSUME NEW y \in Dir, y # x PROVE Visible(y)' = Visible(y)
  <2>1. FileIn(t, y) = FileIn(s, y)
    BY <1>2, <1>4, <1>5, <1>8 DEF FileIn
  <2> QED
    BY <1>1, <1>7, <2>1, NoneAbove, VisibleAlike
<1>9. PICK H, K, acts1 : H = LiveHolder /\ K = LiveHolder' /\ acts1 = actor'
  OBVIOUS
<1>10. LReads(H, actor) /\ LReads(K, acts1)
  BY <1>9, LiveReads
<1>11. H[x] = [dir |-> d, snap |-> s]
  BY <1>1, <1>10, EndsHere
<1>12. SeenAs(H[x], K[x], actor, acts1, d)
  BY <1>7, <1>9, <1>10, NoneAbove, SeenAlike
<1>13. K[x].snap = t
  BY <1>1, <1>9, <1>11, <1>12 DEF SeenAs, Filed
<1>14. FileIn(t, x) = n /\ FileIn(s, x) = s.files[x]
  BY <1>2, <1>4, <1>5 DEF FileIn
<1>15. Visible(x)' = n /\ Visible(x) = s.files[x]
  BY <1>9, <1>11, <1>13, <1>14, VisibleIn
<1> QED
  BY <1>1, <1>8, <1>15

-----------------------------------------------------------------------------
\* Directory e is made below d, and the files on the way through e are in it.
Made(acts, acts1, d, e) ==
    /\ e \in Dir /\ e # Root /\ e # d /\ Parent[e] = d /\ acts[e].life = "none"
    /\ acts[d].state # NoHash /\ acts1[d].state # NoHash
    /\ e \notin DOMAIN acts[d].state.dirs
    /\ DOMAIN acts1[d].state.dirs = DOMAIN acts[d].state.dirs \cup {e}
    /\ \A f \in DOMAIN acts[d].state.dirs : acts1[d].state.dirs[f] = acts[d].state.dirs[f]
    /\ \A x \in Dir : e \notin Up[x] => acts1[d].state.files[x] = acts[d].state.files[x]
    /\ \A x \in Dir : e \in Up[x] => acts1[e].state.files[x] = acts[d].state.files[x]
    /\ acts1[d].life # "none" /\ acts1[e].life # "none" /\ acts1[e].state # NoHash
    /\ DOMAIN acts1[e].state.dirs = {}
    /\ \A f \in Dir : f \notin {d, e} => acts1[f] = acts[f]

LEMMA MadeReads ==
    ASSUME Tree, NEW acts1, NEW d \in Dir, actor[d].life # "none", NEW e, Made(actor, acts1, d, e),
           NEW H, NEW K, LReads(H, actor), LReads(K, acts1),
           K[d] = [dir |-> d, snap |-> acts1[d].state]
    PROVE  \A x \in Dir : e \in Up[x] => /\ H[x] = [dir |-> d, snap |-> actor[d].state]
                                         /\ K[x] = [dir |-> e, snap |-> acts1[e].state]
<1> DEFINE h == [dir |-> d, snap |-> actor[d].state]
           k == [dir |-> e, snap |-> acts1[e].state]
           S == {x \in Dir : e \in Up[x] => H[x] = h /\ K[x] = k}
<1>1. /\ \A x \in Dir \ {Root} : H[x] = LBelow(x, H[Parent[x]], actor)
      /\ \A x \in Dir \ {Root} : K[x] = LBelow(x, K[Parent[x]], acts1)
  BY LReaderSteps
<1>2. e \in Dir \ {Root} /\ Parent[e] = d /\ e \notin Up[d]
  BY NoLoops DEF Made
<1>3. Root \in S
  BY <1>2, UpRoot, TreeAssumption
<1>4. H[e] = h
  <2>1. H[d] = h
    BY OpenHolder
  <2>2. LBelow(e, h, actor) = h
    BY DEF LBelow, Made
  <2> QED
    BY <1>1, <1>2, <2>1, <2>2
<1>5. K[e] = k
  <2>1. LBelow(e, [dir |-> d, snap |-> acts1[d].state], acts1) = k
    BY <1>2 DEF LBelow, Made
  <2> QED
    BY <1>1, <1>2, <2>1
<1>6. ASSUME NEW x \in Dir \ {Root}, Parent[x] \in S, e \in Up[x] PROVE H[x] = h /\ K[x] = k
  <2>1. CASE x = e
    BY <1>4, <1>5, <2>1
  <2>2. CASE x # e
    <3>1. e \in Up[Parent[x]]
      BY <1>6, <2>2, UpStep
    <3>2. H[Parent[x]] = h /\ K[Parent[x]] = k
      BY <1>6, <3>1
    <3>3. Parent[x] # d
      BY <1>2, <3>1
    <3>4. LBelow(x, h, actor) = h
      BY <3>3 DEF LBelow
    <3>5. LBelow(x, k, acts1) = k
      BY DEF LBelow, Made
    <3> QED
      BY <1>1, <3>2, <3>4, <3>5
  <2> QED
    BY <2>1, <2>2
<1>7. S = Dir
  BY <1>3, <1>6, PathAssumption
<1> QED
  BY <1>7

LEMMA VisibleMade ==
    ASSUME Shapes, Shapes', Tree, NEW d \in Dir, actor[d].life # "none", NEW e,
           Made(actor, actor', d, e), NEW x \in Dir
    PROVE  Visible(x)' = Visible(x)
<1>1. e \in Dir \ {Root} /\ Parent[e] = d /\ e \notin Up[d] /\ actor[Root].life # "none"
  BY NoLoops, TreeAssumption DEF Made, Tree, ActorTree, ActorFits
<1>2. PICK s, t, u, acts1 : s = actor[d].state /\ t = actor'[d].state /\ u = actor'[e].state
                            /\ acts1 = actor'
  OBVIOUS
<1>3. Kin(s, t, e, actor')
  BY <1>2 DEF Kin, Made
<1>4. Alike(actor, acts1, d, e)
  BY <1>1, <1>2, <1>3 DEF Alike, Made
<1>5. CASE e \notin Up[x]
  <2>1. FileIn(t, x) = FileIn(s, x)
    BY <1>2, <1>5 DEF FileIn, Made
  <2> QED
    BY <1>2, <1>4, <1>5, <2>1, VisibleAlike
<1>6. CASE e \in Up[x]
  <2>1. PICK H, K : H = LiveHolder /\ K = LiveHolder'
    OBVIOUS
  <2>2. LReads(H, actor) /\ LReads(K, acts1)
    BY <1>2, <2>1, LiveReads
  <2>3. SeenAs(H[d], K[d], actor, acts1, d)
    BY <1>1, <1>4, <2>2, SeenAlike
  <2>4. H[d] = [dir |-> d, snap |-> s]
    BY <1>2, <2>2, OpenHolder
  <2>5. K[d].dir = d /\ K[d].snap = t
    BY <1>2, <2>3, <2>4 DEF SeenAs, Made
  <2>6. K[d] = [dir |-> d, snap |-> t]
    <3>1. K[d] = [dir |-> K[d].dir, snap |-> K[d].snap]
      BY <2>2, LReaderShape
    <3> QED
      BY <2>5, <3>1
  <2>7. Made(actor, acts1, d, e) /\ acts1[d].state = t
    BY <1>2
  <2>8. H[x] = [dir |-> d, snap |-> s] /\ K[x] = [dir |-> e, snap |-> u]
    <3>1. K[d] = [dir |-> d, snap |-> acts1[d].state]
      BY <2>6, <2>7
    <3>2. \A z \in Dir : e \in Up[z] => /\ H[z] = [dir |-> d, snap |-> actor[d].state]
                                        /\ K[z] = [dir |-> e, snap |-> acts1[e].state]
      BY <2>2, <2>7, <3>1, MadeReads
    <3> QED
      BY <1>2, <1>6, <3>2
  <2>9. FileIn(u, x) = FileIn(s, x)
    <3>1. s # NoHash /\ u # NoHash /\ u.files[x] = s.files[x]
      BY <1>2, <1>6, <2>7 DEF Made
    <3> QED
      BY <3>1 DEF FileIn
  <2>10. FileIn(K[x].snap, x) = FileIn(H[x].snap, x)
    BY <2>8, <2>9
  <2> QED
    BY <2>1, <2>10, VisibleIn
<1> QED
  BY <1>5, <1>6

-----------------------------------------------------------------------------
(***************************************************************************)
(* While no directory ends, a put stays in its mailbox until it is passed  *)
(* on or done, and only the put itself changes what has been accepted.     *)
(***************************************************************************)
Runs == \A f \in Dir : actor[f].life # "stopped"

Keeps(q, p) == \A x, n : InPuts(q, x, n) => InPuts(p, x, n)

\* A directory has told its hash, and only a directory that is open has.
Announces(q, e) == \E i \in DOMAIN q : q[i].op = "update_ref" /\ q[i].dir = e
Told == \A f \in Dir : \A e : Announces(box[f], e) => e \in Dir /\ actor[e].life # "none"

News(S) == \A f \in Dir : \A e : Announces(box'[f], e) => Announces(box[f], e) \/ e \in S
Carried == \A f \in Dir : Keeps(box[f], box'[f])
Smooth == Runs' => Runs /\ acked' = acked /\ Carried

LEMMA TailFlow ==
    ASSUME NEW M, NEW q \in Seq(M), q # <<>>
    PROVE  /\ \A e : Announces(Tail(q), e) => Announces(q, e)
           /\ ~Put(Head(q)) => Keeps(q, Tail(q))
           /\ \A x, n : InPuts(q, x, n) => \/ InPuts(Tail(q), x, n)
                                           \/ Put(Head(q)) /\ x = Head(q).dir /\ n = Head(q).arg
<1>1. \A i \in DOMAIN Tail(q) : i + 1 \in DOMAIN q /\ Tail(q)[i] = q[i + 1]
  OBVIOUS
<1>2. \A i \in DOMAIN q : i # 1 => i - 1 \in DOMAIN Tail(q) /\ Tail(q)[i - 1] = q[i]
  OBVIOUS
<1>3. Head(q) = q[1]
  OBVIOUS
<1>4. \A e : Announces(Tail(q), e) => Announces(q, e)
  BY <1>1 DEF Announces
<1>5. ASSUME NEW x, NEW n, InPuts(q, x, n)
      PROVE  InPuts(Tail(q), x, n) \/ (Put(Head(q)) /\ x = Head(q).dir /\ n = Head(q).arg)
  <2>1. PICK i \in DOMAIN q : Put(q[i]) /\ q[i].dir = x /\ q[i].arg = n
    BY <1>5 DEF InPuts
  <2>2. CASE i = 1
    BY <1>3, <2>1, <2>2
  <2>3. CASE i # 1
    BY <1>2, <2>1, <2>3 DEF InPuts
  <2> QED
    BY <2>2, <2>3
<1> QED
  BY <1>4, <1>5 DEF Keeps

LEMMA AppendFlow ==
    ASSUME NEW M, NEW q \in Seq(M), NEW m
    PROVE  /\ Keeps(q, Append(q, m))
           /\ \A e : Announces(Append(q, m), e) =>
                 Announces(q, e) \/ (m.op = "update_ref" /\ m.dir = e)
           /\ Put(m) => InPuts(Append(q, m), m.dir, m.arg)
<1>1. /\ \A i \in DOMAIN q : Append(q, m)[i] = q[i] /\ i \in DOMAIN Append(q, m)
      /\ Append(q, m)[Len(q) + 1] = m /\ Len(q) + 1 \in DOMAIN Append(q, m)
      /\ \A i \in DOMAIN Append(q, m) : i \in DOMAIN q \/ i = Len(q) + 1
  BY AppendFacts
<1>2. Keeps(q, Append(q, m))
  BY <1>1 DEF Keeps, InPuts
<1>3. \A e : Announces(Append(q, m), e) => Announces(q, e) \/ (m.op = "update_ref" /\ m.dir = e)
  BY <1>1 DEF Announces
<1>4. Put(m) => InPuts(Append(q, m), m.dir, m.arg)
  BY <1>1 DEF InPuts
<1> QED
  BY <1>2, <1>3, <1>4

LEMMA SameFlow == ASSUME box' = box PROVE Carried /\ News({})
BY DEF Carried, Keeps, News

LEMMA TakenFlow ==
    ASSUME Shapes, NEW d \in Dir, box[d] # <<>>, box' = Take(d)
    PROVE  News({}) /\ (~Put(Head(box[d])) => Carried)
<1>1. /\ box[d] \in Seq(Messages) /\ box'[d] = Tail(box[d])
      /\ \A f \in Dir : f # d => box'[f] = box[f]
  BY DEF Shapes, Take
<1>2. /\ \A e : Announces(Tail(box[d]), e) => Announces(box[d], e)
      /\ ~Put(Head(box[d])) => Keeps(box[d], Tail(box[d]))
  BY <1>1, TailFlow
<1>3. \A f \in Dir : f # d => Keeps(box[f], box'[f])
  BY <1>1 DEF Keeps
<1> QED
  BY <1>1, <1>2, <1>3 DEF News, Carried

LEMMA SentFlow ==
    ASSUME Shapes, NEW e, NEW m, box' = [box EXCEPT ![e] = Append(@, m)]
    PROVE  /\ Carried /\ News({m.dir})
           /\ m.op # "update_ref" => News({})
<1>1. /\ e \in Dir => box'[e] = Append(box[e], m) /\ box[e] \in Seq(Messages)
      /\ \A f \in Dir : f # e => box'[f] = box[f]
  BY DEF Shapes
<1>2. e \in Dir => /\ Keeps(box[e], box'[e])
                   /\ \A x : Announces(box'[e], x) =>
                         Announces(box[e], x) \/ (m.op = "update_ref" /\ m.dir = x)
  BY <1>1, AppendFlow
<1>3. \A f \in Dir : f # e => Keeps(box[f], box'[f])
  BY <1>1 DEF Keeps
<1> QED
  BY <1>1, <1>2, <1>3 DEF News, Carried

LEMMA EmptyFlow ==
    ASSUME Shapes, NEW d \in Dir, box' = [box EXCEPT ![d] = <<>>]
    PROVE  News({})
<1>1. box'[d] = <<>> /\ \A f \in Dir : f # d => box'[f] = box[f]
  BY DEF Shapes
<1> QED
  BY <1>1 DEF News, Announces

\* No directory that has ended goes on.
LEMMA OwnRuns ==
    ASSUME NEW d \in Dir, actor[d].life # "stopped",
           \A f \in Dir : f # d => actor'[f].life = actor[f].life, Runs'
    PROVE  Runs
BY DEF Runs

LEMMA ParentRuns ==
    ASSUME Shapes, NEW d \in Dir, actor[d].life # "stopped", NEW r, NEW S, NEW M,
           ActorsOK([actor EXCEPT ![d] = r], S, M), NEW p, NEW hash, hash = NoHash \/ hash \in S,
           actor' = ToParent([actor EXCEPT ![d] = r], p, d, hash)
    PROVE  /\ Runs' => Runs
           /\ r.life = "stopped" => ~Runs'
<1> DEFINE acts == [actor EXCEPT ![d] = r]
<1>1. acts[d] = r /\ \A f \in Dir : f # d => acts[f] = actor[f]
  BY DEF Shapes, ActorsOK
<1>2. ActorsOK(acts, S, M) /\ actor' = ToParent(acts, p, d, hash)
  OBVIOUS
<1> HIDE DEF acts
<1>3. AnswerTo(acts, actor', p, d, hash)
  BY <1>2, ToParentFacts
<1>4. \A f \in Dir : actor'[f].life = acts[f].life
  BY <1>3 DEF AnswerTo
<1>5. Runs' => Runs
  BY <1>1, <1>4 DEF Runs
<1> QED
  BY <1>1, <1>4, <1>5 DEF Runs

-----------------------------------------------------------------------------
\* Only the answer to a put that the client waits for accepts anything.
LEMMA AnswerOther ==
    ASSUME NEW c, NEW failed, Answer(c, failed), c \in Client => client[c].op # "file_put_sync"
    PROVE  acked' = acked
BY DEF Answer, NoCall

LEMMA SmoothOwn ==
    ASSUME Shapes, NEW d \in Dir, actor[d].life # "stopped", NEW r,
           actor' = [actor EXCEPT ![d] = r], acked' = acked, Carried
    PROVE  Smooth
<1>1. \A f \in Dir : f # d => actor'[f] = actor[f]
  BY DEF Shapes, ActorsOK
<1> QED
  BY <1>1 DEF Smooth, Runs

LEMMA SmoothStopped ==
    ASSUME NEW d \in Dir, actor'[d].life = "stopped"
    PROVE  Smooth
BY DEF Smooth, Runs

\* A message that is no put is taken by d, which goes on and answers nobody.
LEMMA SmoothTaken ==
    ASSUME Shapes, NEW d \in Dir, NEW ops, Receives(d, ops), box' = Take(d),
           "file_put" \notin ops, "file_put_sync" \notin ops, acked' = acked
    PROVE  /\ News({}) /\ Carried
           /\ \A r : actor' = [actor EXCEPT ![d] = r] => Smooth
<1>1. Head(box[d]).op \in ops /\ actor[d].life = "running" /\ box[d] # <<>>
  BY Receiving DEF Receives
<1>2. ~Put(Head(box[d]))
  BY <1>1 DEF Put
<1>3. News({}) /\ Carried
  BY <1>1, <1>2, TakenFlow
<1> QED
  BY <1>1, <1>3, SmoothOwn

LEMMA SmoothPublish ==
    ASSUME Shapes, Tree, NEW d \in Dir, Publish(d)
    PROVE  Smooth /\ News({})
<1>1. /\ \E r : actor' = [actor EXCEPT ![d] = r]
      /\ actor[d].life = "creating" /\ box' = box /\ acked' = acked
  BY DEF Publish, NoAnswer
<1> QED
  BY <1>1, SameFlow, SmoothOwn

LEMMA SmoothLoad ==
    ASSUME Shapes, Tree, NEW d \in Dir, Load(d)
    PROVE  Smooth /\ News({})
<1>1. actor[d].life = "loading" /\ RecordOK(actor[d], Known, Messages)
  BY DEF Load, Shapes, ActorsOK
<1>2. CASE /\ actor' = [actor EXCEPT ![d].life = "running"]
           /\ NoAnswer /\ UNCHANGED box
  <2>1. \E r : actor' = [actor EXCEPT ![d] = r]
    BY <1>2
  <2> QED
    BY <1>1, <1>2, <2>1, SameFlow, SmoothOwn DEF NoAnswer
<1>3. CASE /\ actor' = ToParent([actor EXCEPT ![d].life = "stopped"],
                                IF actor[d].up \in Dropped(d) THEN actor[d].up ELSE None,
                                d, NoHash)
           /\ box' = [box EXCEPT ![d] = <<>>]
  <2> DEFINE r == [actor[d] EXCEPT !.life = "stopped"]
             p == IF actor[d].up \in Dropped(d) THEN actor[d].up ELSE None
  <2>1. RecordOK(r, Known, Messages) /\ r.life = "stopped"
    BY <1>1 DEF RecordOK
  <2>2. actor' = ToParent([actor EXCEPT ![d] = r], p, d, NoHash)
    BY <1>3
  <2> HIDE DEF r, p
  <2>3. ActorsOK([actor EXCEPT ![d] = r], Known, Messages)
    BY <2>1, ReplaceOK DEF Shapes
  <2>4. ~Runs'
    BY <1>1, <2>1, <2>2, <2>3, ParentRuns
  <2> QED
    BY <1>3, <2>4, EmptyFlow DEF Smooth
<1> QED
  BY <1>2, <1>3 DEF Load

LEMMA SmoothTell ==
    ASSUME Shapes, Tree, Match, NEW d \in Dir, Tell(d)
    PROVE  Smooth /\ News({d})
<1> DEFINE t == actor[d].task
<1>1. PICK r : actor' = [actor EXCEPT ![d] = r] /\ r.task = Idle
  BY TellDone
<1>2. PICK x, u : x = t.msg /\ u = actor[d].up
  OBVIOUS
<1>3. /\ box' = [box EXCEPT ![u] = Append(@, x)] /\ t.op = "tell"
      /\ actor[d].life = "running"
  BY <1>2 DEF Tell
<1>4. x.dir = d
  <2>1. TellFits(d, t)
    BY DEF Tree, ActorTree, ActorFits
  <2> QED
    BY <1>2, <1>3, <2>1 DEF TellFits
<1>5. Carried /\ News({d})
  BY <1>3, <1>4, SentFlow
<1>6. acked' = acked
  <2>1. CASE NoAnswer
    BY <2>1 DEF NoAnswer
  <2>2. CASE Answer(t.from, {})
    <3>1. t.from \in Client => client[t.from].op = "create_dir"
      <4>1. t.from \in Client => Works(actor, d, t.from)
        BY <1>3 DEF Works
      <4> QED
        BY <1>3, <4>1 DEF Match, MatchIn, Does
    <3> HIDE DEF t
    <3> QED
      BY <2>2, <3>1, AnswerOther
  <2> QED
    BY <2>1, <2>2 DEF Tell
<1> QED
  BY <1>1, <1>3, <1>5, <1>6, SmoothOwn

LEMMA SmoothChildIsDirty ==
    ASSUME Shapes, NEW d \in Dir, ChildIsDirty(d)
    PROVE  Smooth /\ News({})
<1>1. /\ Receives(d, {"mark_as_dirty"}) /\ box' = Take(d) /\ acked' = acked
      /\ \E r : actor' = [actor EXCEPT ![d] = r]
  BY DEF ChildIsDirty, NoAnswer
<1> QED
  BY <1>1, SmoothTaken

LEMMA SmoothUpdateDirRefHash ==
    ASSUME Shapes, NEW d \in Dir, UpdateDirRefHash(d)
    PROVE  Smooth /\ News({})
<1>1. /\ Receives(d, {"update_ref"}) /\ box' = Take(d) /\ acked' = acked
      /\ \E r : actor' = [actor EXCEPT ![d] = r]
  BY DEF UpdateDirRefHash, NoAnswer
<1> QED
  BY <1>1, SmoothTaken

LEMMA SmoothSaveIfDirty ==
    ASSUME Shapes, NEW d \in Dir, SaveIfDirty(d)
    PROVE  Smooth /\ News({})
<1> DEFINE from == Head(box[d]).from
<1>1. Receives(d, {"save"}) /\ box' = Take(d) /\ acked' = acked
  BY DEF SaveIfDirty, NoAnswer
<1>2. RecordOK(actor[d], Known, Messages) /\ actor[d].life = "running"
  BY <1>1, Receiving
<1>3. News({}) /\ Carried
  BY <1>1, SmoothTaken
<1>4. CASE \E r : actor' = [actor EXCEPT ![d] = r]
  BY <1>1, <1>4, SmoothTaken
<1>5. CASE actor' = ToParent([actor EXCEPT ![d] = Arm(@)], from, d, NoHash)
  <2> DEFINE r == Arm(actor[d])
  <2>1. actor' = ToParent([actor EXCEPT ![d] = r], from, d, NoHash)
    BY <1>5
  <2>2. RecordOK(r, Known, Messages)
    BY <1>2, ArmFacts
  <2> HIDE DEF r
  <2>3. ActorsOK([actor EXCEPT ![d] = r], Known, Messages)
    BY <2>2, ReplaceOK DEF Shapes
  <2>4. Runs' => Runs
    BY <1>2, <2>1, <2>3, ParentRuns
  <2> QED
    BY <1>1, <1>3, <2>4 DEF Smooth
<1> QED
  BY <1>4, <1>5 DEF SaveIfDirty

LEMMA SmoothAskChild ==
    ASSUME Shapes, Tree, NEW d \in Dir, NEW e \in Dir, AskChild(d, e)
    PROVE  Smooth /\ News({})
<1> DEFINE t == actor[d].task
           m == Msg(t.op, e, 0, d)
<1>1. PICK r : /\ actor' = [actor EXCEPT ![d] = r]
               /\ box' = box \/ box' = [box EXCEPT ![e] = Append(@, m)]
  BY AskChildFacts
<1>2. t.op \in {"save", "shutdown"} /\ acked' = acked
  BY DEF AskChild, NoAnswer
<1>3. m.op # "update_ref"
  BY <1>2 DEF Msg
<1>4. actor[d].life # "stopped"
  BY <1>2, NotRunning
<1> HIDE DEF m
<1>5. Carried /\ News({})
  BY <1>1, <1>3, SameFlow, SentFlow
<1> QED
  BY <1>1, <1>2, <1>4, <1>5, SmoothOwn

LEMMA SmoothSaveDone ==
    ASSUME Shapes, Tree, Match, NEW d \in Dir, SaveDone(d)
    PROVE  Smooth /\ News({})
<1> DEFINE from == actor[d].task.from
<1>1. PICK a, h, ok : SavedAs(d, a, h, ok)
  BY SaveDoneFacts
<1>2. box' = box /\ ActorsOK(actor, Known', Messages') /\ actor[d].task.op = "save"
  BY SaveDoneFacts DEF SaveDone, ChildrenDone
<1>3. /\ actor' = ToParent([actor EXCEPT ![d] = a], from, d, h)
      /\ RecordOK(a, Known', Messages')
      /\ h = NoHash \/ h \in Known'
  BY <1>1 DEF SavedAs
<1>4. ActorsOK([actor EXCEPT ![d] = a], Known', Messages')
  BY <1>2, <1>3, ReplaceOK
<1>5. actor[d].life # "stopped"
  BY <1>2, NotRunning
<1>6. Runs' => Runs
  BY <1>1, <1>3, <1>4, <1>5, ParentRuns DEF SavedAs
<1>7. acked' = acked
  <2>1. PICK c : c \in {None, from} /\ Answer(c, {from})
    BY DEF SaveDone
  <2>2. c \in Client => client[c].op = "save"
    <3>1. c \in Client => Works(actor, d, c)
      BY <1>2, <2>1, TreeAssumption DEF Works
    <3> QED
      BY <1>2, <3>1 DEF Match, MatchIn, Does
  <2> QED
    BY <2>1, <2>2, AnswerOther
<1> QED
  BY <1>2, <1>6, <1>7, SameFlow DEF Smooth

LEMMA SmoothFire ==
    ASSUME Shapes, NEW d \in Dir, Fire(d)
    PROVE  Smooth /\ News({})
<1>1. PICK m : m = Msg("autosave_tick", d, 0, None)
  OBVIOUS
<1>2. /\ box' = [box EXCEPT ![d] = Append(@, m)] /\ m.op # "update_ref"
      /\ actor[d].life = "running" /\ acked' = acked
      /\ \E r : actor' = [actor EXCEPT ![d] = r]
  BY <1>1 DEF Fire, NoAnswer, Msg
<1> QED
  BY <1>2, SentFlow, SmoothOwn

LEMMA SmoothAutosaveTick ==
    ASSUME Shapes, NEW d \in Dir, AutosaveTick(d)
    PROVE  Smooth /\ News({})
<1>1. /\ Receives(d, {"autosave_tick"}) /\ box' = Take(d) /\ acked' = acked
      /\ \E r : actor' = [actor EXCEPT ![d] = r]
  BY DEF AutosaveTick, NoAnswer
<1> QED
  BY <1>1, SmoothTaken

LEMMA SmoothSetAutosave ==
    ASSUME Shapes, NEW d \in Dir, SetAutosave(d)
    PROVE  Smooth /\ News({})
<1> DEFINE live == {e \in Handles(d) : actor[e].life # "stopped"}
<1>1. PICK m : m = Head(box[d])
  OBVIOUS
<1>2. m.op = "with_autosave" /\ actor[d].life = "running"
  BY <1>1, Receiving DEF SetAutosave
<1>3. /\ box[d] # <<>> /\ acked' = acked /\ \E r : actor' = [actor EXCEPT ![d] = r]
      /\ box' = [f \in Dir |-> IF f = d THEN Tail(box[f])
                                ELSE IF f \in live THEN Append(box[f], m)
                                ELSE box[f]]
  BY <1>1 DEF SetAutosave, Receives, NoAnswer
<1> HIDE DEF live
<1>4. ASSUME NEW f \in Dir
      PROVE  Keeps(box[f], box'[f]) /\ \A e : Announces(box'[f], e) => Announces(box[f], e)
  <2>1. box[f] \in Seq(Messages)
    BY DEF Shapes
  <2>2. CASE f = d
    <3>1. box'[f] = Tail(box[f]) /\ box[f] # <<>> /\ ~Put(Head(box[f]))
      BY <1>1, <1>2, <1>3, <2>2 DEF Put
    <3> QED
      BY <2>1, <3>1, TailFlow
  <2>3. CASE f # d /\ f \in live
    <3>1. box'[f] = Append(box[f], m)
      BY <1>3, <2>3
    <3>2. Keeps(box[f], Append(box[f], m)) /\ \A e : Announces(Append(box[f], m), e) =>
                 Announces(box[f], e) \/ (m.op = "update_ref" /\ m.dir = e)
      BY <2>1, AppendFlow
    <3> QED
      BY <1>2, <3>1, <3>2
  <2>4. CASE f # d /\ f \notin live
    <3>1. box'[f] = box[f]
      BY <1>3, <2>4
    <3> QED
      BY <3>1 DEF Keeps
  <2> QED
    BY <2>2, <2>3, <2>4
<1>5. Carried /\ News({})
  BY <1>4 DEF Carried, News
<1> QED
  BY <1>2, <1>3, <1>5, SmoothOwn

LEMMA SmoothBeginShutdown ==
    ASSUME Shapes, NEW d \in Dir, BeginShutdown(d)
    PROVE  Smooth /\ News({})
<1>1. /\ Receives(d, {"shutdown"}) /\ box' = Take(d) /\ acked' = acked
      /\ \E r : actor' = [actor EXCEPT ![d] = r]
  BY DEF BeginShutdown, NoAnswer
<1> QED
  BY <1>1, SmoothTaken

LEMMA SmoothStop ==
    ASSUME Shapes, Tree, NEW d \in Dir, Stop(d)
    PROVE  Smooth /\ News({})
<1>1. PICK c : c = actor[d].task.from
  OBVIOUS
<1>2. PICK q : /\ actor' = ToParent([actor EXCEPT ![d] = q], c, d, NoHash)
               /\ RecordOK(q, Known, Messages) /\ q.life = "stopped"
  BY <1>1, StopFacts
<1>3. ActorsOK([actor EXCEPT ![d] = q], Known, Messages)
  BY <1>2, ReplaceOK DEF Shapes
<1>4. actor[d].life # "stopped" /\ box' = [box EXCEPT ![d] = <<>>]
  BY NotRunning DEF Stop, ChildrenDone
<1>5. ~Runs'
  BY <1>2, <1>3, <1>4, ParentRuns
<1> QED
  BY <1>4, <1>5, EmptyFlow DEF Smooth

LEMMA SmoothOrphan ==
    ASSUME Shapes, NEW d \in Dir, Orphan(d)
    PROVE  Smooth /\ News({})
<1>1. RecordOK(actor[d], Known, Messages)
  BY DEF Shapes, ActorsOK
<1>2. box' = box /\ actor' = [actor EXCEPT ![d].life = "stopped"]
  BY DEF Orphan
<1>3. actor'[d].life = "stopped"
  BY <1>1, <1>2 DEF Shapes, ActorsOK, RecordOK
<1> QED
  BY <1>2, <1>3, SameFlow, SmoothStopped

-----------------------------------------------------------------------------
\* The put is in some mailbox.
OnItsWay(b, x, n) == \E a \in Dir : InPuts(b[a], x, n)

Safe ==
    \A x \in Dir : \/ Visible(x) >= acked[x]
                   \/ \E n : OnItsWay(box, x, n) /\ n >= acked[x]
Lasts == Runs' => Runs /\ (Safe => Safe')

Unseen == \A x \in Dir : Visible(x)' = Visible(x)
Onward == \A x, n : OnItsWay(box, x, n) => OnItsWay(box', x, n)
StillOpen == \A f \in Dir : actor[f].life # "none" => actor'[f].life # "none"

LEMMA SafeKept ==
    ASSUME Safe, acked' = acked, Onward, Unseen
    PROVE  Safe'
<1>1. ASSUME NEW x \in Dir
      PROVE  Visible(x)' >= acked'[x] \/ \E n : OnItsWay(box', x, n) /\ n >= acked'[x]
  <2>1. Visible(x) >= acked[x] \/ \E n : OnItsWay(box, x, n) /\ n >= acked[x]
    BY DEF Safe
  <2>2. Visible(x)' = Visible(x)
    BY DEF Unseen
  <2> QED
    BY <2>1, <2>2 DEF Onward
<1> QED
  BY <1>1 DEF Safe, OnItsWay

LEMMA LastsSmooth ==
    ASSUME Smooth, Unseen
    PROVE  Lasts
<1>1. Carried => Onward
  BY DEF Carried, Keeps, Onward, OnItsWay
<1> QED
  BY <1>1, SafeKept DEF Smooth, Lasts

LEMMA ToldStep ==
    ASSUME Told, StillOpen, NEW S, News(S), \A e \in S : e \in Dir /\ actor[e].life # "none"
    PROVE  Told'
BY DEF Told, StillOpen, News, Announces

Going == Lasts /\ Told'

LEMMA GoingQuiet ==
    ASSUME Shapes, Shapes', Tree, Told, Quiet, Smooth, NEW S, News(S),
           \A e \in S : e \in Dir /\ actor[e].life # "none"
    PROVE  Going
<1>1. Steady
  BY DEF Quiet
<1>2. Unseen
  BY <1>1, VisibleSteady DEF Unseen
<1>3. StillOpen
  BY <1>1 DEF Steady, StillOpen
<1> QED
  BY <1>2, <1>3, LastsSmooth, ToldStep DEF Going

LEMMA GoingEntered ==
    ASSUME Shapes, Shapes', Tree, Told, Smooth, News({}), NEW p \in Dir, NEW e \in Dir, NEW h,
           Entered(p, e, h), actor[e].life # "none"
    PROVE  Going
<1>1. Unseen
  BY VisibleEntered DEF Unseen
<1>2. StillOpen
  BY DEF Entered, StillOpen
<1> QED
  BY <1>1, <1>2, LastsSmooth, ToldStep DEF Going

LEMMA GoingUpdate ==
    ASSUME Shapes, Shapes', Tree, Told, NEW d \in Dir, UpdateDirRefHash(d)
    PROVE  Going
<1>1. PICK m : m = Head(box[d])
  OBVIOUS
<1>2. m \in Messages /\ m.op = "update_ref" /\ box[d] # <<>> /\ box[d] \in Seq(Messages)
  BY <1>1, Receiving DEF UpdateDirRefHash, Receives, Shapes
<1>3. Announces(box[d], m.dir)
  <2>1. 1 \in DOMAIN box[d] /\ box[d][1] = m
    BY <1>1, <1>2
  <2> QED
    BY <1>2, <2>1 DEF Announces
<1>4. m.dir \in Dir /\ actor[m.dir].life # "none"
  BY <1>3 DEF Told
<1>5. Entered(d, m.dir, m.arg)
  BY <1>1, UpdateEnters
<1> QED
  BY <1>4, <1>5, SmoothUpdateDirRefHash, GoingEntered

LEMMA GoingSaveDone ==
    ASSUME Shapes, Shapes', Tree, Match, Told, NEW d \in Dir, SaveDone(d)
    PROVE  Going
<1>1. actor[d].life # "none"
  BY NotRunning DEF SaveDone, ChildrenDone
<1>2. Smooth /\ News({})
  BY SmoothSaveDone
<1>3. CASE Quiet
  BY <1>2, <1>3, GoingQuiet
<1>4. CASE \E p \in Dir : Entered(p, d, actor[d].state)
  BY <1>1, <1>2, <1>4, GoingEntered
<1> QED
  BY <1>3, <1>4, SaveDoneEnters

LEMMA GoingForward ==
    ASSUME Shapes, Shapes', Tree, Told, NEW d \in Dir, Forward(d)
    PROVE  Going
<1>1. PICK m : m = Head(box[d])
  OBVIOUS
<1>2. /\ box[d] # <<>> /\ box[d] \in Seq(Messages) /\ m.op \in PathOps
      /\ actor[d].life = "running"
  BY <1>1, Receiving DEF Forward, Receives, Shapes
<1>3. CASE Quiet /\ box' = Take(d) /\ \E f \in Dir : actor'[f].life = "stopped"
  <2>1. News({})
    BY <1>2, <1>3, TakenFlow
  <2> QED
    BY <1>3, <2>1, SmoothStopped, GoingQuiet
<1>4. ASSUME NEW e \in Dir, e # Root, Parent[e] = d, e # d,
             box'[d] = Tail(box[d]), box'[e] = Append(box[e], m),
             \A f \in Dir : f \notin {d, e} => box'[f] = box[f],
             Opened(d, e), acked' = acked
      PROVE  Going
  <2>1. Unseen
    BY <1>2, <1>4, VisibleOpened DEF Unseen
  <2>2. StillOpen /\ (Runs' => Runs)
    BY <1>4 DEF Opened, StillOpen, Runs
  <2>3. /\ \A x : Announces(Tail(box[d]), x) => Announces(box[d], x)
        /\ \A x, n : InPuts(box[d], x, n) => \/ InPuts(Tail(box[d]), x, n)
                                             \/ Put(m) /\ x = m.dir /\ n = m.arg
    BY <1>1, <1>2, TailFlow
  <2>4. box[e] \in Seq(Messages)
    BY DEF Shapes
  <2>5. /\ Keeps(box[e], Append(box[e], m))
        /\ \A x : Announces(Append(box[e], m), x) =>
                 Announces(box[e], x) \/ (m.op = "update_ref" /\ m.dir = x)
        /\ Put(m) => InPuts(Append(box[e], m), m.dir, m.arg)
    BY <2>4, AppendFlow
  <2>6. News({})
    BY <1>2, <1>4, <2>3, <2>5 DEF News, PathOps
  <2>7. Onward
    <3> SUFFICES ASSUME NEW x, NEW n, NEW a \in Dir, InPuts(box[a], x, n)
                 PROVE  OnItsWay(box', x, n)
      BY DEF Onward, OnItsWay
    <3>1. CASE a = d
      <4>1. InPuts(Tail(box[d]), x, n) \/ (Put(m) /\ x = m.dir /\ n = m.arg)
        BY <2>3, <3>1
      <4>2. InPuts(box'[d], x, n) \/ InPuts(box'[e], x, n)
        BY <1>4, <2>5, <4>1
      <4> QED
        BY <4>2 DEF OnItsWay
    <3>2. CASE a = e
      <4>1. InPuts(Append(box[e], m), x, n)
        BY <2>5, <3>2 DEF Keeps
      <4> QED
        BY <1>4, <4>1 DEF OnItsWay
    <3>3. CASE a \notin {d, e}
      BY <1>4, <3>3 DEF OnItsWay
    <3> QED
      BY <3>1, <3>2, <3>3
  <2>8. Lasts
    BY <1>4, <2>1, <2>2, <2>7, SafeKept DEF Lasts
  <2> QED
    BY <2>2, <2>6, <2>8, ToldStep DEF Going
<1> QED
  BY <1>1, <1>3, <1>4, ForwardOpens

\* What create_dir_at leaves: nothing new, or a directory with the files below it.
LEMMA CreateMakes ==
    ASSUME Shapes, Tree, ParentsExist, NEW d \in Dir, CreateDirAt(d)
    PROVE  \/ Steady /\ \E r : actor' = [actor EXCEPT ![d] = r]
           \/ \E e : Made(actor, actor', d, e)
<1> DEFINE m == Head(box[d])
           e == IF Above(d, m.dir) THEN m.dir ELSE Blank[d]
           old == actor[d].state
           moved == ExtractChild(old.files, e)
           stay == [f \in Dir |-> IF e \in Up[f] THEN 0 ELSE old.files[f]]
           none == e \notin Dir \ DOMAIN old.dirs
           s == Snapshot(stay, [f \in DOMAIN old.dirs \cup {e} |->
                                    IF f = e THEN NoHash ELSE old.dirs[f]])
           q == [actor[d] EXCEPT !.state = s]
           born == Snapshot(moved, <<>>)
           new == Spawn("creating", d, born, actor[d].auto)
           x == MarkAsDirty(d, q, m.from)
           a == Arm(actor[d])
<1>1. /\ m \in Messages /\ m.op = "create_dir" /\ actor[d].life = "running"
      /\ actor[d].task = Idle /\ old # NoHash
      /\ RecordOK(actor[d], Known, Messages) /\ Snap(actor[d].state, Known)
  BY Receiving DEF CreateDirAt
<1>2. actor' = [actor EXCEPT ![d] = IF none THEN a ELSE x, ![e] = IF none THEN @ ELSE new]
  BY DEF CreateDirAt
<1>3. NoHash \in Known /\ m.from \in Senders
  BY <1>1 DEF Known, Messages, WithoutCreate, PathOps
<1>4. e # d
  BY <1>1, TreeAssumption DEF Above
<1>5. CASE none
  <2> DEFINE n == none
  <2>1. actor' = [actor EXCEPT ![d] = IF n THEN a ELSE x, ![e] = IF n THEN @ ELSE new]
    BY <1>2
  <2>2. n
    BY <1>5
  <2>3. a.state = actor[d].state /\ a.life = "running"
    BY <1>1, ArmFacts
  <2> HIDE DEF e, new, x, a, n
  <2>4. actor' = [actor EXCEPT ![d] = a]
    BY <1>4, <2>1, <2>2 DEF Shapes, ActorsOK
  <2>5. Steady
    BY <1>1, <2>3, <2>4 DEF Steady, Shapes, ActorsOK
  <2> QED
    BY <2>4, <2>5
<1>6. CASE ~none
  <2>1. e \in Dir /\ e \notin DOMAIN old.dirs
    BY <1>6
  <2>2. e # Root /\ Parent[e] = d /\ actor[e].life = "none"
    BY <1>6, CreatedFacts
  <2>3. /\ born # NoHash /\ DOMAIN born.dirs = {}
        /\ \A f \in Dir : e \in Up[f] => born.files[f] = old.files[f]
    <3>1. Snap(born, Known)
      BY DEF Snap, Snapshot
    <3>2. born.dirs = <<>> /\ born.files = [f \in Dir |-> IF e \in Up[f] THEN old.files[f] ELSE 0]
      BY DEF Snapshot, ExtractChild
    <3> HIDE DEF born, e
    <3> QED
      BY <3>1, <3>2, SnapIsNoHash
  <2>4. /\ s # NoHash /\ DOMAIN s.dirs = DOMAIN old.dirs \cup {e}
        /\ \A f \in DOMAIN old.dirs : s.dirs[f] = old.dirs[f]
        /\ \A f \in Dir : e \notin Up[f] => s.files[f] = old.files[f]
        /\ Snap(s, Known)
    <3>1. s.files = stay /\ s.dirs = [f \in DOMAIN old.dirs \cup {e} |->
                                    IF f = e THEN NoHash ELSE old.dirs[f]]
      BY DEF Snapshot
    <3>2. Snap(s, Known)
      <4> HIDE DEF m, e, stay
      <4> QED
        BY <1>1, <1>3, <2>1 DEF Snap, Snapshot
    <3> HIDE DEF s, e
    <3> QED
      BY <2>1, <3>1, <3>2, SnapIsNoHash
  <2>5. new.state = born /\ new.life = "creating"
    BY DEF Spawn
  <2> HIDE DEF m, e, moved, stay, born, s
  <2>7. Changed(d, q) /\ q.state = s
    BY <1>1, <2>4, StateChanged DEF RecordOK
  <2>8. actor' = [[actor EXCEPT ![d] = x] EXCEPT ![e] = new]
    BY <1>2, <1>6
  <2> HIDE DEF q, new
  <2>9. x.state = s /\ x.life = "running"
    <3>1. Marked(d, q, x, m.from)
      BY <1>1, <1>3, <2>7, ChangedMarks
    <3> HIDE DEF x
    <3> QED
      BY <1>1, <2>7, <3>1 DEF Marked, Changed, OnlyState
  <2> HIDE DEF x
  <2>10. /\ actor'[d] = x /\ actor'[e] = new
         /\ \A f \in Dir : f # d /\ f # e => actor'[f] = actor[f]
    BY <1>4, <2>1, <2>8 DEF Shapes, ActorsOK
  <2>11. Made(actor, actor', d, e)
    BY <1>1, <1>4, <2>1, <2>2, <2>3, <2>4, <2>5, <2>9, <2>10 DEF Made
  <2> QED
    BY <2>11
<1> QED
  BY <1>5, <1>6

LEMMA GoingCreate ==
    ASSUME Shapes, Shapes', Tree, ParentsExist, Match, Told, NEW d \in Dir, CreateDirAt(d)
    PROVE  Going
<1>1. /\ Receives(d, {"create_dir"}) /\ box' = Take(d) /\ actor[d].life = "running"
      /\ Head(box[d]).op = "create_dir" /\ box[d] # <<>>
  <2>1. Receives(d, {"create_dir"}) /\ box' = Take(d)
    BY DEF CreateDirAt
  <2> QED
    BY <2>1, Receiving DEF Receives
<1>2. acked' = acked
  <2>1. PICK k : k = Head(box[d]).from
    OBVIOUS
  <2>2. k \in Client => client[k].op = "create_dir"
    BY <1>1, <2>1, HeadAlone DEF Fitting
  <2>3. Answer(k, {}) \/ NoAnswer
    BY <2>1, CreateAnswers
  <2> QED
    BY <2>2, <2>3, AnswerOther DEF NoAnswer
<1>3. News({}) /\ Carried /\ \A r : actor' = [actor EXCEPT ![d] = r] => Smooth
  BY <1>1, <1>2, SmoothTaken
<1>4. CASE Steady /\ \E r : actor' = [actor EXCEPT ![d] = r]
  <2>1. Unseen
    BY <1>4, VisibleSteady DEF Unseen
  <2>2. StillOpen
    BY <1>4 DEF Steady, StillOpen
  <2> QED
    BY <1>3, <1>4, <2>1, <2>2, LastsSmooth, ToldStep DEF Going
<1>5. ASSUME NEW e, Made(actor, actor', d, e) PROVE Going
  <2>1. Unseen
    BY <1>1, <1>5, VisibleMade DEF Unseen
  <2>2. StillOpen
    BY <1>5 DEF Made, StillOpen
  <2>3. Smooth
    BY <1>1, <1>2, <1>3, <1>5 DEF Made, Smooth, Runs
  <2> QED
    BY <1>3, <2>1, <2>2, <2>3, LastsSmooth, ToldStep DEF Going
<1> QED
  BY <1>4, <1>5, CreateMakes

-----------------------------------------------------------------------------
(***************************************************************************)
(* What has been accepted is a number of puts for each path.               *)
(***************************************************************************)
Counted ==
    /\ acked \in [Dir -> Nat]
    /\ \A c \in Client : client[c].op = "file_put_sync" => client[c].arg \in Nat

OnePut(x, n) == [NoFiles EXCEPT ![x] = n]

LEMMA MergedPut ==
    ASSUME NEW f \in [Dir -> Nat], NEW x, NEW n \in Nat,
           NEW g, g = Merge(f, OnePut(x, n))
    PROVE  /\ g \in [Dir -> Nat]
           /\ \A y \in Dir : g[y] = f[y] \/ (y = x /\ g[y] = n)
<1> DEFINE h == OnePut(x, n)
<1>1. /\ \A y \in Dir : y # x => h[y] = 0
      /\ \A y \in Dir : h[y] \in Nat
      /\ x \in Dir => h[x] = n
  BY DEF NoFiles, OnePut
<1> HIDE DEF h
<1>0. g = Merge(f, h)
  BY DEF h
<1>2. \A y \in Dir : g[y] = IF f[y] >= h[y] THEN f[y] ELSE h[y]
  BY <1>0 DEF Merge
<1>3. g = [y \in Dir |-> IF f[y] >= h[y] THEN f[y] ELSE h[y]]
  BY <1>0 DEF Merge
<1>4. \A y \in Dir : g[y] \in Nat
  BY <1>1, <1>2
<1>5. ASSUME NEW y \in Dir, y # x PROVE g[y] = f[y]
  <2>1. h[y] = 0 /\ f[y] \in Nat
    BY <1>1, <1>5
  <2>2. f[y] >= h[y]
    BY <2>1
  <2> QED
    BY <1>2, <2>2
<1>6. \A y \in Dir : y = x => g[y] = f[y] \/ g[y] = n
  BY <1>1, <1>2
<1>7. g \in [Dir -> Nat]
  <2>1. g = [y \in Dir |-> g[y]]
    BY <1>3
  <2> QED
    BY <1>4, <2>1
<1> QED
  BY <1>5, <1>6, <1>7

LEMMA CountedAnswer ==
    ASSUME Counted, NEW c, NEW failed, Answer(c, failed)
    PROVE  Counted'
<1>1. acked' \in [Dir -> Nat]
  <2>1. CASE c \in Client /\ client[c].op = "file_put_sync"
    <3>1. acked' = Merge(acked, OnePut(client[c].dir, client[c].arg))
      BY <2>1 DEF Answer, OnePut
    <3>2. client[c].arg \in Nat /\ acked \in [Dir -> Nat]
      BY <2>1 DEF Counted
    <3>3. PICK x, n, g : x = client[c].dir /\ n = client[c].arg /\ g = acked'
      OBVIOUS
    <3>4. g = Merge(acked, OnePut(x, n)) /\ n \in Nat
      BY <3>1, <3>2, <3>3
    <3>5. g \in [Dir -> Nat]
      BY <3>2, <3>4, MergedPut
    <3> QED
      BY <3>3, <3>5
  <2>2. CASE c \in Client => client[c].op # "file_put_sync"
    BY <2>2, AnswerOther DEF Counted
  <2> QED
    BY <2>1, <2>2
<1>2. \A k \in Client : client'[k] = NoCall \/ client'[k] = client[k]
  BY DEF Answer
<1> QED
  BY <1>1, <1>2 DEF Counted, NoCall

LEMMA CountedActor ==
    ASSUME Counted, NEW d \in Dir, ActorStep(d) \/ Fire(d)
    PROVE  Counted'
<1>1. CASE \E c, failed : Answer(c, failed)
  BY <1>1, CountedAnswer
<1>2. CASE NoAnswer
  BY <1>2 DEF NoAnswer, Counted
<1>3. Publish(d) \/ ChildIsDirty(d) \/ UpdateDirRefHash(d) \/ SaveIfDirty(d)
      \/ (\E e \in Dir : AskChild(d, e)) \/ AutosaveTick(d) \/ SetAutosave(d)
      \/ BeginShutdown(d) \/ Orphan(d) \/ Fire(d) => NoAnswer
  BY DEF Publish, ChildIsDirty, UpdateDirRefHash, SaveIfDirty, AskChild, AutosaveTick,
         SetAutosave, BeginShutdown, Orphan, Fire
<1>4. Load(d) => NoAnswer \/ \E c, failed : Answer(c, failed)
  BY DEF Load
<1>5. Forward(d) => NoAnswer \/ \E c, failed : Answer(c, failed)
  BY DEF Forward
<1>6. FileOp(d) => \E c, failed : Answer(c, failed)
  BY DEF FileOp
<1>7. CreateDirAt(d) => NoAnswer \/ \E c, failed : Answer(c, failed)
  BY DEF CreateDirAt
<1>8. Tell(d) => NoAnswer \/ \E c, failed : Answer(c, failed)
  BY DEF Tell
<1>9. SaveDone(d) => \E c, failed : Answer(c, failed)
  BY DEF SaveDone
<1>10. Stop(d) => \E c, failed : Answer(c, failed)
  BY DEF Stop
<1> QED
  BY <1>1, <1>2, <1>3, <1>4, <1>5, <1>6, <1>7, <1>8, <1>9, <1>10 DEF ActorStep

LEMMA GoingFileGet ==
    ASSUME Shapes, Shapes', Tree, Match, Told, NEW d \in Dir, FileOp(d),
           Head(box[d]).op = "file_get"
    PROVE  Going
<1>1. /\ Receives(d, {"file_get"}) /\ box' = Take(d) /\ box[d] # <<>>
      /\ \E r : actor' = [actor EXCEPT ![d] = r]
  BY DEF FileOp, Receives
<1>2. PICK k : k = Head(box[d]).from
  OBVIOUS
<1>3. k \in Client => client[k].op = "file_get"
  BY <1>1, <1>2, HeadAlone DEF Fitting
<1>4. Answer(k, {})
  BY <1>2 DEF FileOp
<1>5. acked' = acked
  BY <1>3, <1>4, AnswerOther
<1>6. Smooth /\ News({})
  BY <1>1, <1>5, SmoothTaken
<1> QED
  BY <1>6, FileOpFiles, GoingQuiet

LEMMA PutMerged ==
    ASSUME acked \in [Dir -> Nat], NEW x \in Dir, NEW n \in Nat,
           acked' = Merge(acked, OnePut(x, n))
    PROVE  /\ \A y \in Dir : y # x => acked'[y] = acked[y]
           /\ acked'[x] = acked[x] \/ acked'[x] = n
           /\ acked' \in [Dir -> Nat]
<1>1. PICK f, g : f = acked /\ g = acked'
  OBVIOUS
<1>2. f \in [Dir -> Nat] /\ g = Merge(f, OnePut(x, n))
  BY <1>1
<1>3. g \in [Dir -> Nat]
  BY <1>2, MergedPut
<1>4. \A y \in Dir : g[y] = f[y] \/ (y = x /\ g[y] = n)
  BY <1>2, MergedPut
<1> QED
  BY <1>1, <1>3, <1>4

\* What is accepted when a put is done: nothing else than that put.
LEMMA PutAccepted ==
    ASSUME Shapes, Match, Counted, NEW d \in Dir, FileOp(d), Put(Head(box[d])),
           NEW x \in Dir, x = Head(box[d]).dir, NEW n \in Nat, n = Head(box[d]).arg
    PROVE  /\ \A y \in Dir : y # x => acked'[y] = acked[y]
           /\ acked'[x] = acked[x] \/ acked'[x] = n
           /\ acked' \in [Dir -> Nat]
<1>1. PICK k : k = Head(box[d]).from
  OBVIOUS
<1>2. Answer(k, {}) /\ box[d] # <<>> /\ acked \in [Dir -> Nat]
  BY <1>1 DEF FileOp, Receives, Counted
<1>3. CASE k \in Client /\ client[k].op = "file_put_sync"
  <2>1. Fitting(client[k], Head(box[d]))
    BY <1>1, <1>2, <1>3, HeadAlone
  <2>2. acked' = Merge(acked, OnePut(x, n))
    BY <1>2, <1>3, <2>1 DEF Answer, Fitting, OnePut
  <2> QED
    BY <1>2, <2>2, PutMerged
<1>4. CASE k \in Client => client[k].op # "file_put_sync"
  BY <1>2, <1>4, AnswerOther
<1> QED
  BY <1>3, <1>4

LEMMA GoingPut ==
    ASSUME Shapes, Shapes', Tree, Order, Match, Told, Counted, NEW d \in Dir, FileOp(d),
           Put(Head(box[d]))
    PROVE  Going
<1>1. PICK m : m = Head(box[d])
  OBVIOUS
<1>2. /\ Receives(d, {"file_put", "file_put_sync", "file_get"}) /\ IsLocal(d) /\ box' = Take(d)
  BY DEF FileOp
<1>3. /\ box[d] # <<>> /\ box[d] \in Seq(Messages) /\ actor[d].life = "running"
      /\ actor[d].state # NoHash /\ m \in Messages
  BY <1>1, <1>2, Receiving DEF Receives, Shapes
<1>4. /\ InPuts(box[d], m.dir, m.arg)
      /\ \A f \in Dir : Ordered(box[f]) /\ RoutedAt(actor, box[f], f, next)
  BY <1>1, <1>3, HeadFirst DEF Order, OrderIn
<1>5. PICK x, n : x = m.dir /\ n = m.arg
  OBVIOUS
<1>6. x \in Dir /\ d \in Up[x] /\ n \in Nat
  BY <1>4, <1>5 DEF RoutedAt
<1>7. Filed(d, x, n)
  BY <1>1, <1>5, FileOpFiles DEF Put
<1>8. \A y \in Up[x] : y # Root /\ Parent[y] = d => y \notin DOMAIN actor[d].state.dirs
  <2> SUFFICES ASSUME NEW y \in Up[x], y # Root, Parent[y] = d
               PROVE  y \notin DOMAIN actor[d].state.dirs
    OBVIOUS
  <2>1. y \in Dir /\ Up[y] \subseteq Up[x]
    BY <1>6, UpTrans
  <2>2. d # x
    <3>1. y \notin Up[Parent[y]]
      BY <2>1, NoLoops
    <3> QED
      BY <3>1
  <2>3. Above(d, m.dir)
    BY <1>5, <1>6, <2>2 DEF Above
  <2>4. PICK c : c = FirstOf(d, m)
    OBVIOUS
  <2>5. c \in Up[x] /\ c # Root /\ Parent[c] = d
    BY <1>5, <1>6, <2>3, <2>4, FirstFacts
  <2>6. c = y
    BY <1>6, <2>5, OneWayDown
  <2> QED
    BY <1>1, <1>2, <2>4, <2>6 DEF IsLocal
<1>9. /\ Visible(x)' = n /\ Visible(x) = actor[d].state.files[x]
      /\ \A y \in Dir : y # x => Visible(y)' = Visible(y)
  BY <1>3, <1>6, <1>7, <1>8, VisibleFiled
<1>10. actor[d].state.files[x] \in Nat /\ actor[d].state.files[x] <= n
  <2>1. Behind(actor[d].state, box, next)
    BY DEF Order, OrderIn, Pool
  <2> QED
    BY <1>3, <1>4, <1>5, <1>6, <2>1 DEF Behind
<1>11. /\ \A y \in Dir : y # x => acked'[y] = acked[y]
       /\ acked'[x] = acked[x] \/ acked'[x] = n
       /\ acked[x] \in Nat
  BY <1>1, <1>5, <1>6, PutAccepted DEF Counted
<1>12. News({}) /\ StillOpen /\ (Runs' => Runs)
  BY <1>2, <1>3, <1>7, TakenFlow DEF Filed, StillOpen, Runs
<1>13. \A y, k : OnItsWay(box, y, k) => OnItsWay(box', y, k) \/ (y = x /\ k = n)
  <2> SUFFICES ASSUME NEW y, NEW k, NEW a \in Dir, InPuts(box[a], y, k), ~(y = x /\ k = n)
               PROVE  InPuts(box'[a], y, k)
    BY DEF OnItsWay
  <2>1. box'[d] = Tail(box[d]) /\ \A f \in Dir : f # d => box'[f] = box[f]
    BY <1>2 DEF Take, Shapes
  <2>2. InPuts(box[d], y, k) => \/ InPuts(Tail(box[d]), y, k)
                                \/ Put(Head(box[d])) /\ y = Head(box[d]).dir /\ k = Head(box[d]).arg
    BY <1>3, TailFlow
  <2> QED
    BY <1>1, <1>5, <2>1, <2>2
<1>14. \A k : OnItsWay(box', x, k) => n <= k
  BY <1>1, <1>5, LaterPuts DEF OnItsWay
<1>15. \A k : OnItsWay(box, x, k) => k \in Nat
  BY <1>4 DEF RoutedAt, OnItsWay
<1>16. ASSUME Safe, NEW y \in Dir
       PROVE  Visible(y)' >= acked'[y] \/ \E k : OnItsWay(box', y, k) /\ k >= acked'[y]
  <2>1. Visible(y) >= acked[y] \/ \E k : OnItsWay(box, y, k) /\ k >= acked[y]
    BY <1>16 DEF Safe
  <2>2. CASE y # x
    BY <1>9, <1>11, <1>13, <2>1, <2>2
  <2>3. CASE y = x
    <3>1. CASE n >= acked[x]
      <4>1. n >= acked'[x]
        BY <1>6, <1>11, <3>1
      <4> QED
        BY <1>9, <2>3, <4>1
    <3>2. CASE ~(n >= acked[x])
      <4>1. ~(Visible(x) >= acked[x])
        BY <1>6, <1>9, <1>10, <1>11, <3>2
      <4>2. PICK k : OnItsWay(box, x, k) /\ k >= acked[x]
        BY <2>1, <2>3, <4>1
      <4>3. k # n
        BY <3>2, <4>2
      <4>4. OnItsWay(box', x, k)
        BY <1>13, <4>2, <4>3
      <4>5. k \in Nat /\ n <= k
        BY <1>14, <1>15, <4>2, <4>4
      <4>6. k >= acked'[x]
        BY <1>6, <1>11, <4>2, <4>5
      <4> QED
        BY <2>3, <4>4, <4>6
    <3> QED
      BY <3>1, <3>2
  <2> QED
    BY <2>2, <2>3
<1>17. Safe => Safe'
  BY <1>16 DEF Safe, OnItsWay
<1> QED
  BY <1>12, <1>17, ToldStep DEF Going, Lasts

-----------------------------------------------------------------------------
LEMMA VisibleIsPut ==
    ASSUME Shapes, Order
    PROVE  \A x \in Dir : Visible(x) \in Nat
<1>1. PICK H : H = LiveHolder
  OBVIOUS
<1>2. PICK W : W = Pool \cup {NoHash}
  OBVIOUS
<1>3. LReads(H, actor) /\ Met(actor, W)
  BY <1>1, <1>2, LiveReads, MetInShapes
<1>4. /\ H[Root] = [dir |-> Root, snap |-> actor[Root].state]
      /\ \A x \in Dir \ {Root} : H[x] = LBelow(x, H[Parent[x]], actor)
  BY <1>3, LReaderSteps
<1> DEFINE S == {x \in Dir : H[x].snap \in W}
<1>5. Root \in S
  BY <1>3, <1>4, TreeAssumption DEF Met
<1>6. ASSUME NEW x \in Dir \ {Root}, Parent[x] \in S PROVE x \in S
  <2>1. PICK h : h = H[Parent[x]]
    OBVIOUS
  <2>2. h.snap \in W /\ H[x] = LBelow(x, h, actor)
    BY <1>4, <1>6, <2>1
  <2>3. LBelow(x, h, actor).snap \in W
    BY <1>3, <2>2 DEF LBelow, Met
  <2> QED
    BY <2>2, <2>3
<1>7. S = Dir
  BY <1>5, <1>6, PathAssumption
<1>8. ASSUME NEW x \in Dir PROVE Visible(x) \in Nat
  <2>1. PICK s : s = LiveHolder[x].snap
    OBVIOUS
  <2>2. s \in W /\ Visible(x) = FileIn(s, x)
    BY <1>1, <1>7, <2>1, VisibleIn
  <2>3. s # NoHash => Behind(s, box, next)
    BY <1>2, <2>2 DEF Order, OrderIn
  <2>4. s # NoHash => s.files[x] \in Nat
    BY <2>3 DEF Behind
  <2> QED
    BY <2>2, <2>4 DEF FileIn
<1> QED
  BY <1>8

\* Who opens the root file sees what it holds.
LEMMA VisibleFresh ==
    ASSUME Shapes, Shapes', Order, actor' = FreshActors(rootFile)
    PROVE  \A x \in Dir : Visible(x)' = Persisted(x) /\ Persisted(x) \in Nat
<1>1. PICK H, K, acts : H = Holder /\ K = LiveHolder' /\ acts = actor'
  OBVIOUS
<1>2. Reads(H, rootFile, stored) /\ LReads(K, acts)
  BY <1>1, HolderReads, ReaderReads, LiveReads
<1>3. /\ H[Root] = [dir |-> Root, snap |-> rootFile]
      /\ \A x \in Dir \ {Root} : H[x] = Below(x, H[Parent[x]], stored)
  BY <1>2, ReaderSteps
<1>4. /\ K[Root] = [dir |-> Root, snap |-> acts[Root].state]
      /\ \A x \in Dir \ {Root} : K[x] = LBelow(x, K[Parent[x]], acts)
  BY <1>2, LReaderSteps
<1>5. acts[Root].state = rootFile /\ \A x \in Dir \ {Root} : acts[x].life = "none"
  BY <1>1, TreeAssumption DEF FreshActors, Spawn, NotOpen
<1> DEFINE W == stored \cup {rootFile, NoHash}
           S == {x \in Dir : K[x] = H[x] /\ H[x].snap \in W}
<1>6. Root \in S
  BY <1>3, <1>4, <1>5, TreeAssumption
<1>7. ASSUME NEW x \in Dir \ {Root}, Parent[x] \in S PROVE x \in S
  <2>1. PICK h : h = H[Parent[x]]
    OBVIOUS
  <2>2. /\ h.snap \in W /\ H[x] = Below(x, h, stored) /\ K[x] = LBelow(x, h, acts)
        /\ acts[x].life = "none"
    BY <1>3, <1>4, <1>5, <1>7, <2>1
  <2>3. h.snap # NoHash /\ x \in DOMAIN h.snap.dirs => h.snap.dirs[x] \in stored \cup {NoHash}
    <3> SUFFICES ASSUME h.snap # NoHash, x \in DOMAIN h.snap.dirs
                 PROVE  h.snap.dirs[x] \in stored \cup {NoHash}
      OBVIOUS
    <3>1. Snap(h.snap, Known)
      BY <2>2 DEF Shapes, StoredOK
    <3>2. h.snap.dirs[x] \in Known
      BY <3>1 DEF Snap
    <3> QED
      BY <3>2 DEF Known
  <2>4. Below(x, h, stored) = LBelow(x, h, acts) /\ Below(x, h, stored).snap \in W
    BY <2>2, <2>3 DEF Below, LBelow
  <2> QED
    BY <2>2, <2>4
<1>8. S = Dir
  BY <1>6, <1>7, PathAssumption
<1>9. ASSUME NEW x \in Dir PROVE Visible(x)' = Persisted(x) /\ Persisted(x) \in Nat
  <2>1. PICK s : s = H[x].snap
    OBVIOUS
  <2>2. s \in W /\ K[x].snap = s
    BY <1>8, <2>1
  <2>3. Visible(x)' = FileIn(s, x) /\ Persisted(x) = FileIn(s, x)
    BY <1>1, <2>1, <2>2, VisibleIn
  <2>4. s # NoHash => Behind(s, box, next)
    BY <2>2 DEF Order, OrderIn, Pool
  <2>5. s # NoHash => s.files[x] \in Nat
    BY <2>4 DEF Behind
  <2> QED
    BY <2>3, <2>5 DEF FileIn
<1> QED
  BY <1>9

-----------------------------------------------------------------------------
\* What has been accepted is safe, unless a directory has ended.
Upheld == (Runs => Safe) => (Runs' => Safe')

LEMMA LastsUpholds == ASSUME Lasts PROVE Upheld
BY DEF Lasts, Upheld

\* A message is sent to the root.
LEMMA PostedFlow ==
    ASSUME Shapes, Told, NEW m, m.op # "update_ref", actor' = actor,
           box' = [box EXCEPT ![Root] = Append(@, m)]
    PROVE  /\ Onward /\ Told' /\ (Runs' => Runs)
           /\ Put(m) => OnItsWay(box', m.dir, m.arg)
<1>1. Carried /\ News({})
  BY SentFlow
<1>2. StillOpen /\ (Runs' => Runs)
  BY DEF StillOpen, Runs
<1>3. Onward
  BY <1>1 DEF Carried, Keeps, Onward, OnItsWay
<1>4. Told'
  BY <1>1, <1>2, ToldStep
<1>5. box'[Root] = Append(box[Root], m) /\ box[Root] \in Seq(Messages) /\ Root \in Dir
  BY TreeAssumption DEF Shapes
<1>6. Put(m) => InPuts(Append(box[Root], m), m.dir, m.arg)
  BY <1>5, AppendFlow
<1>7. Put(m) => OnItsWay(box', m.dir, m.arg)
  BY <1>5, <1>6 DEF OnItsWay
<1> QED
  BY <1>2, <1>3, <1>4, <1>7

LEMMA SameUnseen == ASSUME Shapes, Shapes', Tree, actor' = actor PROVE Unseen
<1>1. Steady
  BY DEF Steady
<1> QED
  BY <1>1, VisibleSteady DEF Unseen

LEMMA UpheldCall ==
    ASSUME Shapes, Shapes', Tree, Told, Counted, NEW c \in Client, NEW op, NEW d, NEW arg,
           Call(c, op, d, arg), op # "update_ref", op = "file_put_sync" => arg \in Nat,
           client = [k \in Client |-> client[k]]
    PROVE  Upheld /\ Told' /\ Counted'
<1>1. PICK m : m = Msg(op, d, arg, c)
  OBVIOUS
<1>2. /\ actor' = actor /\ box' = [box EXCEPT ![Root] = Append(@, m)] /\ acked' = acked
      /\ client' = [client EXCEPT ![c] = [op |-> op, dir |-> d, arg |-> arg, need |-> acked]]
  BY <1>1 DEF Call, Post
<1>3. m.op # "update_ref"
  BY <1>1 DEF Msg
<1>4. Onward /\ Told' /\ (Runs' => Runs)
  BY <1>2, <1>3, PostedFlow
<1>5. Lasts
  BY <1>2, <1>4, SameUnseen, SafeKept DEF Lasts
<1>6. \A k \in Client : client'[k].op = "file_put_sync" => client'[k].arg \in Nat
  <2>1. /\ client'[c] = [op |-> op, dir |-> d, arg |-> arg, need |-> acked]
        /\ \A k \in Client : k # c => client'[k] = client[k]
    BY <1>2
  <2> QED
    BY <2>1 DEF Counted
<1>7. Counted'
  BY <1>2, <1>6 DEF Counted
<1> QED
  BY <1>4, <1>5, <1>7, LastsUpholds

LEMMA UpheldFilePut ==
    ASSUME Shapes, Shapes', Tree, Told, Counted, NEW d \in Dir, FilePut(d)
    PROVE  Upheld /\ Told' /\ Counted'
<1>1. PICK n : n = next'[d]
  OBVIOUS
<1>2. PICK m : m = Msg("file_put", d, n, None)
  OBVIOUS
<1>3. /\ actor' = actor /\ box' = [box EXCEPT ![Root] = Append(@, m)] /\ client' = client
      /\ acked' = [acked EXCEPT ![d] = n] /\ n \in Nat
  BY <1>1, <1>2 DEF FilePut, Post, Shapes
<1>4. m.op = "file_put" /\ m.dir = d /\ m.arg = n /\ Put(m)
  BY <1>2 DEF Msg, Put
<1>5. Onward /\ Told' /\ (Runs' => Runs) /\ OnItsWay(box', d, n)
  BY <1>3, <1>4, PostedFlow
<1>6. acked \in [Dir -> Nat] /\ acked'[d] = n /\ \A y \in Dir : y # d => acked'[y] = acked[y]
  BY <1>3 DEF Counted
<1>7. ASSUME Safe, NEW y \in Dir
      PROVE  Visible(y)' >= acked'[y] \/ \E k : OnItsWay(box', y, k) /\ k >= acked'[y]
  <2>1. CASE y = d
    <3>1. n >= acked'[d]
      BY <1>3, <1>6
    <3> QED
      BY <1>5, <2>1, <3>1
  <2>2. CASE y # d
    <3>1. Visible(y) >= acked[y] \/ \E k : OnItsWay(box, y, k) /\ k >= acked[y]
      BY <1>7 DEF Safe
    <3>2. Visible(y)' = Visible(y)
      BY <1>3, SameUnseen DEF Unseen
    <3> QED
      BY <1>5, <1>6, <2>2, <3>1, <3>2 DEF Onward
  <2> QED
    BY <2>1, <2>2
<1>8. Safe => Safe'
  BY <1>7 DEF Safe, OnItsWay
<1>9. Counted'
  BY <1>3, <1>6 DEF Counted
<1> QED
  BY <1>5, <1>8, <1>9 DEF Upheld

LEMMA UpheldCrash ==
    ASSUME Shapes, Shapes', Order, Crash
    PROVE  Upheld /\ Told' /\ Counted'
<1>1. /\ actor' = FreshActors(rootFile) /\ box' = [f \in Dir |-> <<>>]
      /\ client' = [k \in Client |-> NoCall] /\ acked' = [x \in Dir |-> Persisted(x)]
  BY DEF Crash
<1>2. \A x \in Dir : Visible(x)' = Persisted(x) /\ Persisted(x) \in Nat
  BY <1>1, VisibleFresh
<1>3. ASSUME NEW x \in Dir PROVE Visible(x)' >= acked'[x] /\ acked'[x] \in Nat
  <2>1. PICK n : n = Persisted(x)
    OBVIOUS
  <2>2. Visible(x)' = n /\ n \in Nat /\ acked'[x] = n
    BY <1>1, <1>2, <2>1
  <2> QED
    BY <2>2
<1>4. Safe'
  BY <1>3 DEF Safe
<1>5. acked' \in [Dir -> Nat]
  <2>1. acked' = [x \in Dir |-> acked'[x]]
    BY <1>1
  <2> QED
    BY <1>3, <2>1
<1>6. Counted'
  BY <1>1, <1>5 DEF Counted, NoCall
<1>7. Told'
  BY <1>1 DEF Told, Announces
<1> QED
  BY <1>4, <1>6, <1>7 DEF Upheld

LEMMA UpheldClient ==
    ASSUME Shapes, Shapes', Tree, Order, Owing, Told, Counted, ClientStep
    PROVE  Upheld /\ Told' /\ Counted'
<1>0. client = [k \in Client |-> client[k]] /\ config.dirs \subseteq Dir /\ next \in [Dir -> Nat]
  BY ConfigAssumption DEF Owing, Shapes, Config
<1>1. ASSUME NEW c \in Client, NEW op, NEW d, NEW arg, Call(c, op, d, arg),
             op # "update_ref", op = "file_put_sync" => arg \in Nat
      PROVE  Upheld /\ Told' /\ Counted'
  BY <1>0, <1>1, UpheldCall
<1>2. ASSUME NEW c \in Client, NEW d \in config.dirs, FilePutSync(c, d)
      PROVE  Upheld /\ Told' /\ Counted'
  <2>1. PICK n : n = next'[d]
    OBVIOUS
  <2>2. Call(c, "file_put_sync", d, n) /\ n \in Nat
    BY <1>0, <1>2, <2>1 DEF FilePutSync
  <2> QED
    BY <1>1, <2>2
<1>3. ASSUME NEW c \in Client, NEW d, FileGet(c, d) \/ CreateDir(c, d)
      PROVE  Upheld /\ Told' /\ Counted'
  BY <1>1, <1>3 DEF FileGet, CreateDir
<1>4. ASSUME NEW c \in Client, Save(c) \/ Shutdown(c)
      PROVE  Upheld /\ Told' /\ Counted'
  BY <1>1, <1>4 DEF Save, Shutdown
<1>5. ASSUME NEW d \in config.dirs, FilePut(d)
      PROVE  Upheld /\ Told' /\ Counted'
  BY <1>0, <1>5, UpheldFilePut
<1>6. CASE WithAutosave
  <2>1. PICK m : m = Msg("with_autosave", Root, 0, None)
    OBVIOUS
  <2>2. /\ actor' = actor /\ box' = [box EXCEPT ![Root] = Append(@, m)] /\ client' = client
        /\ acked' = acked /\ m.op # "update_ref"
    BY <1>6, <2>1 DEF WithAutosave, Post, Msg
  <2>3. Onward /\ Told' /\ (Runs' => Runs)
    BY <2>2, PostedFlow
  <2>4. Lasts
    BY <2>2, <2>3, SameUnseen, SafeKept DEF Lasts
  <2> QED
    BY <2>2, <2>3, <2>4, LastsUpholds DEF Counted
<1>7. CASE Drop
  <2>1. actor' = actor /\ box' = box /\ client' = client /\ acked' = acked
    BY <1>7 DEF Drop
  <2>2. Carried /\ News({}) /\ StillOpen /\ (Runs' => Runs)
    BY <2>1, SameFlow DEF StillOpen, Runs
  <2>3. Smooth /\ Unseen
    BY <2>1, <2>2, SameUnseen DEF Smooth
  <2> QED
    BY <2>1, <2>2, <2>3, LastsSmooth, LastsUpholds, ToldStep DEF Counted
<1>8. CASE Crash
  BY <1>8, UpheldCrash
<1> QED
  BY <1>2, <1>3, <1>4, <1>5, <1>6, <1>7, <1>8 DEF ClientStep

-----------------------------------------------------------------------------
LEMMA GoingNext ==
    ASSUME Shapes, Shapes', Tree, ParentsExist, Order, Match, Told, Counted,
           NEW d \in Dir, ActorStep(d) \/ Fire(d)
    PROVE  Going
<1>1. ASSUME Tell(d) PROVE Going
  <2>1. Smooth /\ News({d}) /\ Quiet
    BY <1>1, SmoothTell, QuietTell
  <2>2. \A e \in {d} : e \in Dir /\ actor[e].life # "none"
    BY <1>1 DEF Tell
  <2> QED
    BY <2>1, <2>2, GoingQuiet
<1>2. ASSUME FileOp(d) PROVE Going
  BY <1>2, FileOpFiles, GoingFileGet, GoingPut
<1>3. ASSUME Quiet, Smooth, News({}) PROVE Going
  BY <1>3, GoingQuiet
<1>4. Publish(d) \/ Load(d) \/ ChildIsDirty(d) => Going
  BY <1>3, SmoothPublish, QuietPublish, SmoothLoad, QuietLoad, SmoothChildIsDirty,
     QuietChildIsDirty
<1>5. SaveIfDirty(d) \/ (\E e \in Dir : AskChild(d, e)) \/ Fire(d) => Going
  BY <1>3, SmoothSaveIfDirty, QuietSaveIfDirty, SmoothAskChild, QuietAskChild, SmoothFire,
     QuietFire
<1>6. AutosaveTick(d) \/ SetAutosave(d) \/ BeginShutdown(d) => Going
  BY <1>3, SmoothAutosaveTick, QuietAutosaveTick, SmoothSetAutosave, QuietSetAutosave,
     SmoothBeginShutdown, QuietBeginShutdown
<1>7. Stop(d) \/ Orphan(d) => Going
  BY <1>3, SmoothStop, QuietStop, SmoothOrphan, QuietOrphan
<1> QED
  BY <1>1, <1>2, <1>4, <1>5, <1>6, <1>7, GoingForward, GoingCreate, GoingUpdate,
     GoingSaveDone DEF ActorStep

Kept == Told /\ Counted /\ (Runs => Safe)

LEMMA KeptNext ==
    Shapes /\ Shapes' /\ ParentsExist /\ Tree /\ Order /\ Owing /\ Match /\ Kept /\ [Next]_vars
    => Kept'
<1> SUFFICES ASSUME Shapes, Shapes', ParentsExist, Tree, Order, Owing, Match, Kept, [Next]_vars
             PROVE  Kept'
  OBVIOUS
<1>0. Told /\ Counted /\ (Runs => Safe)
  BY DEF Kept
<1>1. ASSUME Upheld, Told', Counted' PROVE Kept'
  BY <1>0, <1>1 DEF Upheld, Kept
<1>2. CASE ClientStep
  BY <1>0, <1>1, <1>2, UpheldClient
<1>3. ASSUME NEW d \in Dir, ActorStep(d) \/ Fire(d) PROVE Kept'
  <2>1. Going
    BY <1>0, <1>3, GoingNext
  <2>2. Counted'
    BY <1>0, <1>3, CountedActor
  <2> QED
    BY <1>1, <2>1, <2>2, LastsUpholds DEF Going
<1>4. CASE UNCHANGED vars
  <2>1. actor' = actor /\ box' = box /\ client' = client /\ acked' = acked
    BY <1>4 DEF vars
  <2>2. Carried /\ News({}) /\ StillOpen /\ (Runs' => Runs)
    BY <2>1, SameFlow DEF StillOpen, Runs
  <2>3. Smooth /\ Unseen
    BY <2>1, <2>2, SameUnseen DEF Smooth
  <2>4. Counted'
    BY <1>0, <2>1 DEF Counted
  <2>5. Told'
    BY <1>0, <2>2, ToldStep
  <2> QED
    BY <1>1, <2>3, <2>4, <2>5, LastsSmooth, LastsUpholds
<1> QED
  BY <1>2, <1>3, <1>4 DEF Next

LEMMA KeptInit == Init => Kept
<1> SUFFICES ASSUME Init PROVE Kept
  OBVIOUS
<1>1. \A x \in Dir : Visible(x) \in Nat
  BY ShapesInit, OrderInit, VisibleIsPut
<1>2. acked = [x \in Dir |-> 0] /\ client = [c \in Client |-> NoCall] /\ box = [d \in Dir |-> <<>>]
  BY DEF Init, NoFiles
<1>3. Safe
  <2>1. ASSUME NEW x \in Dir PROVE Visible(x) >= acked[x]
    <3>1. PICK n : n = Visible(x)
      OBVIOUS
    <3>2. n \in Nat /\ acked[x] = 0
      BY <1>1, <1>2, <3>1
    <3> QED
      BY <3>1, <3>2
  <2> QED
    BY <2>1 DEF Safe
<1>4. Told
  BY <1>2 DEF Told, Announces
<1>5. Counted
  BY <1>2 DEF Counted, NoCall
<1> QED
  BY <1>3, <1>4, <1>5 DEF Kept

LEMMA OwingAlways == Spec => [](ParentsExist => Owing)
<1>1. Init => Owing
  BY DEF Init, Owing
<1>2. Shapes /\ Shapes' /\ (ParentsExist => Tree) /\ (ParentsExist => Owing)
      /\ [Next]_vars => (ParentsExist => Owing)'
  <2>1. [Next]_vars => (ParentsExist' <=> ParentsExist)
    BY ConfigStays DEF ParentsExist
  <2> QED
    BY <2>1, OwingNext
<1> QED
  BY <1>1, <1>2, ShapesCorrect, TreeCorrect, PTL DEF Spec

LEMMA MatchAlways == Spec => [](ParentsExist => Match)
<1>1. Shapes /\ (ParentsExist => Tree) /\ (ParentsExist => Owing) /\ (ParentsExist => Match)
      /\ [Next]_vars => (ParentsExist => Match)'
  <2>1. [Next]_vars => (ParentsExist' <=> ParentsExist)
    BY ConfigStays DEF ParentsExist
  <2>2. ParentsExist => Sound
    BY DEF Sound
  <2> QED
    BY <2>1, <2>2, MatchNext
<1> QED
  BY <1>1, MatchInit, ShapesCorrect, TreeCorrect, OwingAlways, PTL DEF Spec

\* An accepted put is not lost: as long as no directory has ended, the last put to a path
\* that a client was told of is visible or still in a mailbox on its way down, whatever is
\* created, opened, saved or reloaded in the meantime (actor.rs:303, sharding.rs:60).
THEOREM PutsAreNotLostCorrect == Spec => []PutsAreNotLost
<1>1. Shapes /\ Shapes' /\ (ParentsExist => Tree) /\ (Sound => Order) /\ (ParentsExist => Owing)
      /\ (ParentsExist => Match) /\ (ParentsExist => Kept) /\ [Next]_vars
      => (ParentsExist => Kept)'
  <2>1. [Next]_vars => (ParentsExist' <=> ParentsExist)
    BY ConfigStays DEF ParentsExist
  <2>2. ParentsExist => Sound
    BY DEF Sound
  <2> QED
    BY <2>1, <2>2, KeptNext
<1>2. (ParentsExist => Kept) => PutsAreNotLost
  <2> SUFFICES ASSUME ParentsExist, Kept, Runs, NEW x \in Dir, ~(Visible(x) >= acked[x])
               PROVE  \E a \in Dir : \E i \in DOMAIN box[a] :
                         /\ box[a][i].op \in {"file_put", "file_put_sync"}
                         /\ box[a][i].dir = x /\ box[a][i].arg >= acked[x]
    BY DEF PutsAreNotLost, Runs
  <2>1. PICK n : OnItsWay(box, x, n) /\ n >= acked[x]
    BY DEF Kept, Safe
  <2>2. PICK a \in Dir : InPuts(box[a], x, n)
    BY <2>1 DEF OnItsWay
  <2>3. PICK i \in DOMAIN box[a] : Put(box[a][i]) /\ box[a][i].dir = x /\ box[a][i].arg = n
    BY <2>2 DEF InPuts
  <2> QED
    BY <2>1, <2>2, <2>3 DEF Put
<1> QED
  BY <1>1, <1>2, KeptInit, ShapesCorrect, TreeCorrect, OrderCorrect, OwingAlways, MatchAlways,
     PTL DEF Spec

-----------------------------------------------------------------------------
(***************************************************************************)
(* A tree of one level that nobody adds to: the root has the directories   *)
(* there were at first, and these have none.                               *)
(***************************************************************************)
FlatUse == WithoutAutosave /\ WithoutCreate /\ OneLevel /\ ~config.errors

Kids == ChildrenIn(config.exists, Root)
Leaf(s) == DOMAIN s.dirs = {}
Top(s) == DOMAIN s.dirs = Kids /\ \A e \in Kids : Leaf(s.dirs[e])

Flat(acts, file) ==
    /\ Top(file) /\ Top(acts[Root].state)
    /\ \A f \in Dir \ {Root} : acts[f].life # "none" => f \in Kids /\ Leaf(acts[f].state)

LEMMA FlatUses ==
    ASSUME Shapes, FlatUse
    PROVE  PlainUse /\ Sound /\ ParentsExist /\ WithoutCreate /\ Calm
<1>1. config \in Configs
  BY DEF Shapes
<1>2. Root \in config.exists
  BY <1>1, ConfigAssumption
<1>3. ParentsExist
  BY <1>2 DEF FlatUse, OneLevel, ParentsExist
<1> QED
  BY <1>3 DEF FlatUse, PlainUse, Sound, Calm

LEMMA KidsFacts ==
    ASSUME Shapes
    PROVE  Kids \subseteq Dir \ {Root} /\ \A e \in Kids : Parent[e] = Root
<1>1. config \in Configs
  BY DEF Shapes
<1>2. config \in Config /\ config.exists \subseteq config.dirs
  BY <1>1, ConfigAssumption
<1>3. config.dirs \subseteq Dir
  BY <1>2 DEF Config
<1> QED
  BY <1>2, <1>3 DEF Kids, ChildrenIn

LEMMA FlatFresh == ASSUME NEW file, Top(file) PROVE Flat(FreshActors(file), file)
<1>1. PICK acts : acts = FreshActors(file)
  OBVIOUS
<1>2. /\ Root \in Dir /\ acts[Root].state = file
      /\ \A f \in Dir \ {Root} : acts[f].life = "none"
  BY <1>1, TreeAssumption DEF FreshActors, Spawn, NotOpen
<1>3. Flat(acts, file)
  BY <1>2 DEF Flat
<1> QED
  BY <1>1, <1>3

LEMMA FlatInit == ASSUME Init, OneLevel PROVE Flat(actor, rootFile)
<1>1. PICK s : s = Initial[config.exists]
  OBVIOUS
<1>2. config \in Configs /\ rootFile = s[Root] /\ actor = FreshActors(rootFile)
  BY <1>1 DEF Init
<1>3. /\ Root \in config.exists /\ config.exists \subseteq config.dirs
      /\ \A d \in config.exists :
            s[d] = Snapshot(NoFiles, [e \in ChildrenIn(config.exists, d) |-> s[e]])
  BY <1>1, <1>2, ConfigAssumption
<1>4. ASSUME NEW d \in config.exists
      PROVE  /\ DOMAIN s[d].dirs = ChildrenIn(config.exists, d)
             /\ \A e \in DOMAIN s[d].dirs : s[d].dirs[e] = s[e]
  <2>1. PICK D : D = [e \in ChildrenIn(config.exists, d) |-> s[e]]
    OBVIOUS
  <2>2. s[d] = Snapshot(NoFiles, D)
    BY <1>3, <2>1
  <2>3. s[d].dirs = D
    BY <2>2 DEF Snapshot
  <2> QED
    BY <2>1, <2>3
<1>5. ASSUME NEW e \in Kids PROVE e \in config.exists /\ e # Root /\ ChildrenIn(config.exists, e) = {}
  BY <1>3, <1>5 DEF Kids, ChildrenIn, OneLevel
<1>6. Top(rootFile)
  <2>1. DOMAIN rootFile.dirs = Kids /\ \A e \in Kids : rootFile.dirs[e] = s[e]
    BY <1>2, <1>3, <1>4 DEF Kids
  <2> QED
    BY <1>4, <1>5, <2>1 DEF Top, Leaf
<1> QED
  BY <1>2, <1>6, FlatFresh

LEMMA FlatSaved ==
    ASSUME Flat(actor, rootFile), SavesOnly
    PROVE  Top(rootFile')
BY DEF Flat, SavesOnly

LEMMA FlatQuiet ==
    ASSUME Flat(actor, rootFile), Steady, SavesOnly
    PROVE  Flat(actor', rootFile')
<1>1. Top(rootFile')
  BY FlatSaved
<1> QED
  BY <1>1, TreeAssumption DEF Flat, Steady

LEMMA FlatEntered ==
    ASSUME Shapes, Tree, Flat(actor, rootFile), NEW p \in Dir, NEW d \in Dir,
           actor[d].life # "none", Entered(p, d, actor[d].state)
    PROVE  Flat(actor', rootFile')
<1>1. Top(rootFile') /\ Root \in Dir
  BY FlatSaved, TreeAssumption DEF Entered
<1>2. CASE actor'[p].state = actor[p].state
  BY <1>1, <1>2 DEF Flat, Entered
<1>3. CASE /\ actor[p].state # NoHash /\ d \in DOMAIN actor[p].state.dirs
           /\ actor'[p].state = [actor[p].state EXCEPT !.dirs[d] = actor[d].state]
  <2>1. actor[p].life # "none"
    BY <1>3 DEF Tree, ActorTree, ActorFits
  <2>2. p = Root /\ d \in Kids /\ d # Root /\ Leaf(actor[d].state) /\ Top(actor[p].state)
    BY <1>3, <2>1, KidsFacts DEF Flat, Leaf, Top
  <2>3. RecordOK(actor[p], Known, Messages)
    BY DEF Shapes, ActorsOK
  <2>4. Snap(actor[p].state, Known)
    BY <1>3, <2>3 DEF RecordOK
  <2>5. PICK s : s = actor[p].state
    OBVIOUS
  <2>6. actor'[p].state.dirs = [s.dirs EXCEPT ![d] = actor[d].state]
    <3>1. s = [files |-> s.files, dirs |-> s.dirs]
      BY <2>4, <2>5 DEF Snap, Snapshot
    <3>2. [s EXCEPT !.dirs[d] = actor[d].state] =
              [files |-> s.files, dirs |-> [s.dirs EXCEPT ![d] = actor[d].state]]
      BY <3>1
    <3> QED
      BY <1>3, <2>5, <3>2
  <2>7. Top(actor'[p].state)
    <3>1. s.dirs \in [Kids -> Known]
      BY <2>2, <2>4, <2>5 DEF Snap, Top
    <3>2. ASSUME NEW e \in Kids PROVE Leaf(actor'[p].state.dirs[e])
      BY <2>2, <2>5, <2>6, <3>1 DEF Top
    <3> QED
      BY <2>6, <3>1, <3>2 DEF Top
  <2> QED
    BY <1>1, <2>2, <2>7 DEF Flat, Entered
<1> QED
  BY <1>2, <1>3 DEF Entered

LEMMA FlatFiled ==
    ASSUME Shapes, Order, Flat(actor, rootFile), NEW d \in Dir, actor[d].state # NoHash,
           NEW x \in Dir, NEW n, Filed(d, x, n), actor[d].life # "none", rootFile' = rootFile
    PROVE  Flat(actor', rootFile')
<1>1. Snap(actor[d].state, Known)
  BY DEF Shapes, ActorsOK, RecordOK
<1>2. actor[d].state.files \in [Dir -> Nat]
  BY DEF Order, OrderIn, Pool, Behind
<1>3. actor'[d].state.dirs = actor[d].state.dirs
  BY <1>1, <1>2, FiledState DEF Filed
<1>4. \A s, t : s.dirs = t.dirs => (Leaf(s) <=> Leaf(t)) /\ (Top(s) <=> Top(t))
  BY DEF Top, Leaf
<1>5. \A f \in Dir : f # d => actor'[f] = actor[f]
  BY DEF Filed
<1>6. CASE d = Root
  <2>1. Top(actor'[Root].state)
    BY <1>3, <1>4, <1>6 DEF Flat
  <2> QED
    BY <1>5, <1>6, <2>1 DEF Flat
<1>7. CASE d # Root
  <2>1. actor'[Root] = actor[Root]
    BY <1>5, <1>7, TreeAssumption
  <2>2. d \in Kids /\ Leaf(actor'[d].state)
    BY <1>3, <1>4, <1>7 DEF Flat
  <2> QED
    BY <1>5, <2>1, <2>2 DEF Flat
<1> QED
  BY <1>6, <1>7

LEMMA FlatOpened ==
    ASSUME Shapes, Tree, Flat(actor, rootFile), NEW d \in Dir, NEW e \in Dir, e # Root,
           actor[d].life # "none", e \in DOMAIN actor[d].state.dirs, Opened(d, e),
           rootFile' = rootFile
    PROVE  d = Root /\ e \in Kids /\ Flat(actor', rootFile')
<1>1. d = Root /\ e \in Kids /\ Leaf(actor[d].state.dirs[e])
  BY DEF Flat, Leaf, Top
<1> QED
  BY <1>1, TreeAssumption DEF Flat, Opened

LEMMA FlatClient ==
    ASSUME Flat(actor, rootFile), ClientStep
    PROVE  Flat(actor', rootFile')
<1>1. ASSUME UNCHANGED <<actor, rootFile>> PROVE Flat(actor', rootFile')
  BY <1>1
<1>2. CASE Crash
  BY <1>2, FlatFresh DEF Crash, Flat
<1>3. CASE Drop
  BY <1>1, <1>3 DEF Drop
<1>4. CASE \E op, d, arg, from : Post(op, d, arg, from)
  BY <1>1, <1>4 DEF Post
<1> QED
  BY <1>2, <1>3, <1>4 DEF ClientStep, FilePutSync, FileGet, CreateDir, FilePut, Save,
     Shutdown, WithAutosave, Call

LEMMA FlatFileOp ==
    ASSUME Shapes, Tree, Order, Flat(actor, rootFile), NEW d \in Dir, FileOp(d)
    PROVE  Flat(actor', rootFile')
<1>1. PICK m : m = Head(box[d])
  OBVIOUS
<1>2. /\ m.op = "file_get" => Quiet
      /\ m.op # "file_get" => Put(m) /\ Filed(d, m.dir, m.arg)
  BY <1>1, FileOpFiles
<1>3. Receives(d, {"file_put", "file_put_sync", "file_get"}) /\ rootFile' = rootFile
  BY DEF FileOp
<1>4. m \in Messages /\ actor[d].life = "running" /\ actor[d].state # NoHash
  BY <1>1, <1>3, Receiving
<1>5. m.dir \in Dir
  BY <1>4 DEF Messages
<1> QED
  BY <1>2, <1>3, <1>4, <1>5, FlatQuiet, FlatFiled DEF Quiet

LEMMA FlatNext ==
    Shapes /\ Tree /\ Order /\ PlainUse /\ Plain(actor, box) /\ Flat(actor, rootFile) /\ [Next]_vars
    => Flat(actor', rootFile')
<1> SUFFICES ASSUME Shapes, Tree, Order, PlainUse, Plain(actor, box), Flat(actor, rootFile),
                    [Next]_vars
             PROVE  Flat(actor', rootFile')
  OBVIOUS
<1>1. ASSUME Quiet PROVE Flat(actor', rootFile')
  BY <1>1, FlatQuiet DEF Quiet
<1>2. ASSUME NEW d \in Dir, SaveDone(d) PROVE Flat(actor', rootFile')
  <2>1. actor[d].state # NoHash
    BY <1>2, Busy DEF SaveDone, ChildrenDone
  <2>2. actor[d].life # "none"
    BY <2>1 DEF Tree, ActorTree, ActorFits
  <2> QED
    BY <1>1, <1>2, <2>2, SaveDoneEnters, FlatEntered
<1>3. ASSUME NEW d \in Dir, Forward(d) PROVE Flat(actor', rootFile')
  <2>1. actor[d].life # "none"
    BY <1>3, Receiving DEF Forward
  <2>2. ASSUME NEW e \in Dir, e # Root, e \in DOMAIN actor[d].state.dirs, Opened(d, e),
               UNCHANGED <<stored, rootFile, next, acked>>
        PROVE  Flat(actor', rootFile')
    BY <2>1, <2>2, FlatOpened
  <2> QED
    BY <1>1, <1>3, <2>2, ForwardOpens
<1>4. ASSUME NEW d \in Dir,
             \/ Load(d) \/ Tell(d) \/ ChildIsDirty(d) \/ SaveIfDirty(d)
             \/ (\E e \in Dir : AskChild(d, e))
             \/ BeginShutdown(d) \/ Stop(d) \/ Orphan(d)
      PROVE  Flat(actor', rootFile')
  <2>1. Quiet
    BY <1>4, QuietLoad, QuietTell, QuietChildIsDirty,
       QuietSaveIfDirty, QuietAskChild, QuietBeginShutdown, QuietStop, QuietOrphan
  <2> QED
    BY <1>1, <2>1
<1>5. ASSUME NEW d \in Dir, ActorStep(d) \/ Fire(d) PROVE Flat(actor', rootFile')
  BY <1>2, <1>3, <1>4, <1>5, FlatFileOp, NotPlain DEF ActorStep
<1>6. CASE UNCHANGED vars
  BY <1>6 DEF vars
<1> QED
  BY <1>5, <1>6, FlatClient DEF Next

-----------------------------------------------------------------------------
(* Which tasks there are, and that a root that ends does not go on.         *)

Moves(r, q) ==
    /\ q.task.op = "save" => r.task.op = "save" /\ q.task.from = r.task.from
    /\ r.life = "stopped" => q.life = "stopped"
    /\ r.task.op = "shutdown" => q.task.op = "shutdown" \/ q.life = "stopped"

MovesAll == \A f \in Dir : Moves(actor[f], actor'[f])

LEMMA MovesIdle ==
    ASSUME NEW r, NEW q, r.life # "stopped", r.task.op # "shutdown", q.task.op # "save"
    PROVE  Moves(r, q)
BY DEF Moves

LEMMA MovesOwn ==
    ASSUME Shapes, NEW d \in Dir, NEW r, actor' = [actor EXCEPT ![d] = r], Moves(actor[d], r)
    PROVE  MovesAll
<1>1. actor'[d] = r /\ \A f \in Dir : f # d => actor'[f] = actor[f]
  BY DEF Shapes, ActorsOK
<1> QED
  BY <1>1 DEF MovesAll, Moves

LEMMA MovesToParent ==
    ASSUME Shapes, NEW d \in Dir, NEW r, NEW S, NEW M, ActorsOK([actor EXCEPT ![d] = r], S, M),
           NEW p, NEW h, h = NoHash \/ h \in S, Moves(actor[d], r),
           actor' = ToParent([actor EXCEPT ![d] = r], p, d, h)
    PROVE  MovesAll
<1>1. PICK acts : acts = [actor EXCEPT ![d] = r]
  OBVIOUS
<1>2. acts[d] = r /\ \A f \in Dir : f # d => acts[f] = actor[f]
  BY <1>1 DEF Shapes, ActorsOK
<1>3. ActorsOK(acts, S, M) /\ actor' = ToParent(acts, p, d, h)
  BY <1>1
<1>4. AnswerTo(acts, actor', p, d, h)
  BY <1>3, ToParentFacts
<1>5. ASSUME NEW f \in Dir
      PROVE  actor'[f].life = acts[f].life /\ LessWait(acts[f].task, actor'[f].task, d)
  BY <1>3, <1>4, TasksToParent DEF AnswerTo
<1>6. \A f \in Dir : Moves(actor[f], acts[f])
  BY <1>2 DEF Moves
<1> QED
  BY <1>5, <1>6 DEF MovesAll, Moves, LessWait

\* What an actor that takes a message is like.
LEMMA Taking ==
    ASSUME Shapes, NEW d \in Dir, NEW ops, Receives(d, ops)
    PROVE  /\ actor[d].life = "running" /\ actor[d].task = Idle /\ Idle.op = "idle"
           /\ box[d] # <<>> /\ box[d] \in Seq(Messages)
           /\ Head(box[d]) \in Messages /\ Head(box[d]).op \in ops
           /\ actor[d].state # NoHash /\ RecordOK(actor[d], Known, Messages)
BY Receiving DEF Receives, Idle, Shapes

LEMMA MovesLoad ==
    ASSUME Shapes, Tree, NEW d \in Dir, Load(d)
    PROVE  MovesAll
<1>1. actor[d].life = "loading" /\ RecordOK(actor[d], Known, Messages)
  BY DEF Load, Shapes, ActorsOK
<1>2. actor[d].task = Idle
  BY <1>1 DEF Tree, ActorTree, ActorFits
<1>3. ASSUME NEW l PROVE Moves(actor[d], [actor[d] EXCEPT !.life = l])
                         /\ (l = "stopped" => RecordOK([actor[d] EXCEPT !.life = l], Known, Messages))
  BY <1>1, <1>2 DEF Moves, Idle, RecordOK
<1>4. CASE actor' = [actor EXCEPT ![d].life = "running"]
  <2>1. actor' = [actor EXCEPT ![d] = [actor[d] EXCEPT !.life = "running"]]
    BY <1>4
  <2> QED
    BY <1>3, <2>1, MovesOwn
<1>5. CASE actor' = ToParent([actor EXCEPT ![d].life = "stopped"],
                             IF actor[d].up \in Dropped(d) THEN actor[d].up ELSE None, d, NoHash)
  <2> DEFINE r == [actor[d] EXCEPT !.life = "stopped"]
             p == IF actor[d].up \in Dropped(d) THEN actor[d].up ELSE None
  <2>1. actor' = ToParent([actor EXCEPT ![d] = r], p, d, NoHash)
    BY <1>5
  <2>2. RecordOK(r, Known, Messages) /\ Moves(actor[d], r)
    BY <1>3
  <2> HIDE DEF r, p
  <2>3. ActorsOK([actor EXCEPT ![d] = r], Known, Messages)
    BY <2>2, ReplaceOK DEF Shapes
  <2> QED
    BY <2>1, <2>2, <2>3, MovesToParent
<1> QED
  BY <1>4, <1>5 DEF Load

LEMMA MovesForward ==
    ASSUME Shapes, Tree, NEW d \in Dir, Forward(d)
    PROVE  MovesAll
<1>1. CASE actor' = actor
  BY <1>1 DEF MovesAll, Moves
<1>2. ASSUME NEW e, actor[e].life = "none", NEW s, NEW u, actor' = [actor EXCEPT ![e] =
                  Spawn("loading", d, s, u)]
      PROVE  MovesAll
  <2>1. CASE e \in Dir
    <3>1. actor[e].task = Idle
      BY <1>2, <2>1 DEF Tree, ActorTree, ActorFits
    <3>2. Moves(actor[e], Spawn("loading", d, s, u))
      BY <1>2, <3>1 DEF Spawn, Idle, Moves
    <3> QED
      BY <1>2, <2>1, <3>2, MovesOwn
  <2>2. CASE e \notin Dir
    <3>1. \A f \in Dir : actor'[f] = actor[f]
      BY <1>2, <2>2 DEF Shapes, ActorsOK
    <3> QED
      BY <3>1 DEF MovesAll, Moves
  <2> QED
    BY <2>1, <2>2
<1>3. PICK e : e = FirstOf(d, Head(box[d]))
  OBVIOUS
<1>4. \/ actor' = actor
      \/ /\ actor[e].life = "none"
         /\ actor' = [actor EXCEPT ![e] =
                        Spawn("loading", d, actor[d].state.dirs[e], actor[d].auto)]
  BY <1>3 DEF Forward
<1> QED
  BY <1>1, <1>2, <1>4

LEMMA MovesMark ==
    ASSUME Shapes, NEW d \in Dir, actor[d].life = "running", actor[d].task = Idle,
           NEW q, Changed(d, q), actor' = [actor EXCEPT ![d] = MarkAsDirty(d, q, None)]
    PROVE  MovesAll
<1>1. Marked(d, q, MarkAsDirty(d, q, None), None)
  BY ChangedMarks DEF Senders
<1>2. MarkAsDirty(d, q, None).task.op # "save"
  BY <1>1, MarkedTask
<1>3. Moves(actor[d], MarkAsDirty(d, q, None))
  BY <1>2, MovesIdle DEF Idle
<1> QED
  BY <1>3, MovesOwn

LEMMA MovesTell ==
    ASSUME Shapes, Tree, NEW d \in Dir, Tell(d)
    PROVE  MovesAll
<1>1. PICK r : actor' = [actor EXCEPT ![d] = r] /\ r.task = Idle
  BY TellDone
<1>2. actor[d].life = "running" /\ actor[d].task.op = "tell"
  BY DEF Tell
<1>3. Moves(actor[d], r)
  BY <1>1, <1>2, MovesIdle DEF Idle
<1> QED
  BY <1>1, <1>3, MovesOwn

LEMMA MovesSaveIfDirty ==
    ASSUME Shapes, Tree, NEW d \in Dir, SaveIfDirty(d)
    PROVE  \/ MovesAll
           \/ /\ actor' = [actor EXCEPT ![d].task =
                     [op |-> "save", from |-> Head(box[d]).from, todo |-> Handles(d), wait |-> {}]]
              /\ \A f \in Dir : f # d => Moves(actor[f], actor'[f])
<1> DEFINE from == Head(box[d]).from
<1>1. Receives(d, {"save"})
  BY DEF SaveIfDirty
<1>2. actor[d].life = "running" /\ actor[d].task = Idle /\ RecordOK(actor[d], Known, Messages)
  BY <1>1, Taking
<1>3. CASE actor' = [actor EXCEPT ![d].task =
                     [op |-> "save", from |-> from, todo |-> Handles(d), wait |-> {}]]
  <2>1. \A f \in Dir : f # d => actor'[f] = actor[f]
    BY <1>3 DEF Shapes, ActorsOK
  <2> QED
    BY <1>3, <2>1 DEF Moves
<1>4. CASE actor' = ToParent([actor EXCEPT ![d] = Arm(@)], from, d, NoHash)
  <2> DEFINE r == Arm(actor[d])
  <2>1. actor' = ToParent([actor EXCEPT ![d] = r], from, d, NoHash)
    BY <1>4
  <2>2. RecordOK(r, Known, Messages) /\ r.task = actor[d].task /\ r.life = actor[d].life
    BY <1>2, ArmFacts
  <2>3. Moves(actor[d], r)
    BY <2>2 DEF Moves
  <2> HIDE DEF r
  <2>4. ActorsOK([actor EXCEPT ![d] = r], Known, Messages)
    BY <2>2, ReplaceOK DEF Shapes
  <2> QED
    BY <2>1, <2>3, <2>4, MovesToParent
<1> QED
  BY <1>3, <1>4 DEF SaveIfDirty

LEMMA MovesAskChild ==
    ASSUME Shapes, NEW d \in Dir, NEW e \in Dir, AskChild(d, e)
    PROVE  MovesAll
<1>1. PICK r : /\ actor' = [actor EXCEPT ![d] = r] /\ r.life = actor[d].life
               /\ r.task.op = actor[d].task.op /\ r.task.from = actor[d].task.from
  BY AskChildFacts
<1>2. Moves(actor[d], r)
  BY <1>1 DEF Moves
<1> QED
  BY <1>1, <1>2, MovesOwn

LEMMA MovesSaveDone ==
    ASSUME Shapes, Tree, NEW d \in Dir, SaveDone(d)
    PROVE  MovesAll
<1>1. PICK a, h, ok : SavedAs(d, a, h, ok)
  BY SaveDoneFacts
<1>2. ActorsOK(actor, Known', Messages') /\ actor[d].task.op = "save"
  BY SaveDoneFacts DEF SaveDone, ChildrenDone
<1>3. /\ actor' = ToParent([actor EXCEPT ![d] = a], actor[d].task.from, d, h)
      /\ RecordOK(a, Known', Messages')
      /\ h = NoHash \/ h \in Known'
      /\ a.task = Idle /\ a.life = actor[d].life
  BY <1>1 DEF SavedAs
<1>4. ActorsOK([actor EXCEPT ![d] = a], Known', Messages')
  BY <1>2, <1>3, ReplaceOK
<1>5. Moves(actor[d], a)
  BY <1>2, <1>3 DEF Moves, Idle
<1> QED
  BY <1>3, <1>4, <1>5, MovesToParent

LEMMA MovesBeginShutdown ==
    ASSUME Shapes, NEW d \in Dir, BeginShutdown(d)
    PROVE  MovesAll /\ actor'[d].task.op = "shutdown"
<1>1. PICK t : t = [op |-> "shutdown", from |-> Head(box[d]).from, todo |-> Handles(d), wait |-> {}]
  OBVIOUS
<1>2. /\ actor' = [actor EXCEPT ![d] = [actor[d] EXCEPT !.task = t]]
      /\ t.op = "shutdown" /\ Receives(d, {"shutdown"})
  BY <1>1 DEF BeginShutdown
<1>3. actor[d].life = "running" /\ actor[d].task = Idle /\ RecordOK(actor[d], Known, Messages)
  BY <1>2, Taking
<1>4. PICK q : q = [actor[d] EXCEPT !.task = t]
  OBVIOUS
<1>5. q.task = t
  BY <1>3, <1>4 DEF RecordOK
<1>6. actor[d].task.op = "idle"
  BY <1>3 DEF Idle
<1>7. Moves(actor[d], q)
  BY <1>2, <1>3, <1>5, <1>6, MovesIdle
<1>8. actor' = [actor EXCEPT ![d] = q]
  BY <1>2, <1>4
<1>9. actor'[d] = q
  BY <1>8 DEF Shapes, ActorsOK
<1> QED
  BY <1>2, <1>5, <1>7, <1>8, <1>9, MovesOwn

LEMMA MovesStop ==
    ASSUME Shapes, Tree, NEW d \in Dir, Stop(d)
    PROVE  MovesAll
<1>1. PICK c : c = actor[d].task.from
  OBVIOUS
<1>2. PICK q : /\ actor' = ToParent([actor EXCEPT ![d] = q], c, d, NoHash)
               /\ RecordOK(q, Known, Messages) /\ q.life = "stopped" /\ q.task = Idle
  BY <1>1, StopFacts
<1>3. ActorsOK([actor EXCEPT ![d] = q], Known, Messages)
  BY <1>2, ReplaceOK DEF Shapes
<1>4. Moves(actor[d], q)
  BY <1>2 DEF Moves, Idle
<1> QED
  BY <1>2, <1>3, <1>4, MovesToParent

LEMMA MovesOrphan ==
    ASSUME Shapes, NEW d \in Dir, Orphan(d)
    PROVE  MovesAll /\ actor'[d].life = "stopped"
<1>1. RecordOK(actor[d], Known, Messages)
  BY DEF Shapes, ActorsOK
<1>2. actor' = [actor EXCEPT ![d] = [actor[d] EXCEPT !.life = "stopped"]]
  BY DEF Orphan
<1>3. /\ [actor[d] EXCEPT !.life = "stopped"].life = "stopped"
      /\ [actor[d] EXCEPT !.life = "stopped"].task = actor[d].task
  BY <1>1 DEF RecordOK
<1>4. Moves(actor[d], [actor[d] EXCEPT !.life = "stopped"])
  BY <1>3 DEF Moves
<1>5. actor'[d].life = "stopped"
  BY <1>2, <1>3 DEF Shapes, ActorsOK
<1> QED
  BY <1>2, <1>4, <1>5, MovesOwn

\* Only a directory that begins to save has a new task of that kind.
LEMMA MovesActor ==
    ASSUME Shapes, Tree, PlainUse, Plain(actor, box), NEW d \in Dir, ActorStep(d) \/ Fire(d)
    PROVE  \/ MovesAll
           \/ /\ SaveIfDirty(d)
              /\ actor' = [actor EXCEPT ![d].task =
                     [op |-> "save", from |-> Head(box[d]).from, todo |-> Handles(d), wait |-> {}]]
              /\ \A f \in Dir : f # d => Moves(actor[f], actor'[f])
<1>1. ASSUME FileOp(d) \/ ChildIsDirty(d) PROVE MovesAll
  <2>1. PICK q : Changed(d, q) /\ actor' = [actor EXCEPT ![d] = MarkAsDirty(d, q, None)]
    BY <1>1, FileOpMarks, ChildIsDirtyMarks
  <2>2. actor[d].life = "running" /\ actor[d].task = Idle
    BY <1>1, Taking DEF FileOp, ChildIsDirty
  <2> QED
    BY <2>1, <2>2, MovesMark
<1>2. Load(d) \/ Forward(d) \/ Tell(d) \/ (\E e \in Dir : AskChild(d, e)) \/ SaveDone(d)
      \/ BeginShutdown(d) \/ Stop(d) \/ Orphan(d) => MovesAll
  BY MovesLoad, MovesForward, MovesTell, MovesAskChild, MovesSaveDone, MovesBeginShutdown,
     MovesStop, MovesOrphan
<1> QED
  BY <1>1, <1>2, MovesSaveIfDirty, NotPlain DEF ActorStep

-----------------------------------------------------------------------------
Ends(acts) == acts[Root].life = "stopped" \/ acts[Root].task.op = "shutdown"

FromAbove(acts) == \A f \in Dir \ {Root} : acts[f].task.op = "save" => acts[f].task.from \notin Client

LEMMA EndsStay ==
    ASSUME Shapes, Tree, PlainUse, Plain(actor, box), NEW d \in Dir, ActorStep(d) \/ Fire(d),
           Ends(actor)
    PROVE  Ends(actor')
<1>1. ASSUME Moves(actor[Root], actor'[Root]) PROVE Ends(actor')
  BY <1>1 DEF Ends, Moves
<1>2. ASSUME SaveIfDirty(d), d = Root PROVE FALSE
  <2>1. actor[d].life = "running" /\ actor[d].task = Idle
    BY <1>2, Taking DEF SaveIfDirty
  <2> QED
    BY <1>2, <2>1 DEF Ends, Idle
<1> QED
  BY <1>1, <1>2, MovesActor, TreeAssumption DEF MovesAll

LEMMA FromAboveNext ==
    ASSUME Shapes, Tree, PlainUse, Plain(actor, box), FromAbove(actor), [Next]_vars
    PROVE  FromAbove(actor')
<1>1. ASSUME NEW d \in Dir, ActorStep(d) \/ Fire(d) PROVE FromAbove(actor')
  <2>1. CASE MovesAll
    BY <2>1 DEF MovesAll, Moves, FromAbove
  <2>2. ASSUME SaveIfDirty(d), NEW t, t.from = Head(box[d]).from, actor' = [actor EXCEPT ![d].task = t],
               \A f \in Dir : f # d => Moves(actor[f], actor'[f])
        PROVE  FromAbove(actor')
    <3>1. Head(box[d]) \in Messages /\ Head(box[d]).op = "save" /\ box[d] # <<>>
          /\ RecordOK(actor[d], Known, Messages)
      BY <2>2, Taking DEF SaveIfDirty
    <3>2. box[d] \in Seq(MessagesAt(d))
      BY DEF Tree, BoxTree
    <3>3. Head(box[d]) \in MessagesAt(d)
      BY <3>1, <3>2
    <3>4. d # Root => Head(box[d]).from \notin Client
      BY <3>1, <3>3 DEF MessagesAt
    <3>5. actor'[d].task = t
      BY <2>2, <3>1 DEF Shapes, ActorsOK, RecordOK
    <3>6. \A f \in Dir : f # d => Moves(actor[f], actor'[f])
      BY <2>2
    <3>7. ASSUME NEW f \in Dir \ {Root}, actor'[f].task.op = "save"
          PROVE  actor'[f].task.from \notin Client
      BY <2>2, <3>4, <3>5, <3>6, <3>7 DEF FromAbove, Moves
    <3> QED
      BY <3>7 DEF FromAbove
  <2> QED
    BY <1>1, <2>1, <2>2, MovesActor
<1>2. CASE Crash
  <2>1. \A f \in Dir \ {Root} : actor'[f].task = Idle
    BY <1>2 DEF Crash, FreshActors, NotOpen, Spawn
  <2> QED
    BY <2>1 DEF FromAbove, Idle
<1>3. CASE actor' = actor
  BY <1>3
<1>4. CASE ClientStep /\ ~Crash
  <2>1. (\E op, d, arg, from : Post(op, d, arg, from)) \/ Drop
    BY <1>4 DEF ClientStep, FilePutSync, FileGet, CreateDir, FilePut, Save,
     Shutdown, WithAutosave, Call
  <2> QED
    BY <1>3, <2>1 DEF Post, Drop
<1> QED
  BY <1>1, <1>2, <1>3, <1>4 DEF Next, vars

-----------------------------------------------------------------------------
(* Who is answered, and what a save that has been answered promises.        *)

LEMMA AnswersOrNot ==
    ASSUME NEW d \in Dir, ActorStep(d) \/ Fire(d)
    PROVE  NoAnswer \/ \E c, failed : Answer(c, failed)
<1>1. Publish(d) \/ ChildIsDirty(d) \/ UpdateDirRefHash(d) \/ SaveIfDirty(d)
      \/ (\E e \in Dir : AskChild(d, e)) \/ AutosaveTick(d) \/ SetAutosave(d)
      \/ BeginShutdown(d) \/ Orphan(d) \/ Fire(d) => NoAnswer
  BY DEF Publish, ChildIsDirty, UpdateDirRefHash, SaveIfDirty, AskChild, AutosaveTick,
         SetAutosave, BeginShutdown, Orphan, Fire
<1>2. Load(d) => NoAnswer \/ \E c, failed : Answer(c, failed)
  BY DEF Load
<1>3. Forward(d) => NoAnswer \/ \E c, failed : Answer(c, failed)
  BY DEF Forward
<1>4. FileOp(d) => \E c, failed : Answer(c, failed)
  BY DEF FileOp
<1>5. CreateDirAt(d) => NoAnswer \/ \E c, failed : Answer(c, failed)
  BY DEF CreateDirAt
<1>6. Tell(d) => NoAnswer \/ \E c, failed : Answer(c, failed)
  BY DEF Tell
<1>7. SaveDone(d) => \E c, failed : Answer(c, failed)
  BY DEF SaveDone
<1>8. Stop(d) => \E c, failed : Answer(c, failed)
  BY DEF Stop
<1> QED
  BY <1>1, <1>2, <1>3, <1>4, <1>5, <1>6, <1>7, <1>8 DEF ActorStep

LEMMA ClientsKept ==
    ASSUME NEW d \in Dir, ActorStep(d) \/ Fire(d)
    PROVE  \A k \in Client : client'[k] = client[k] \/ client'[k] = NoCall
<1>1. NoAnswer => client' = client
  BY DEF NoAnswer
<1>2. ASSUME NEW c, NEW failed, Answer(c, failed)
      PROVE  \A k \in Client : client'[k] = client[k] \/ client'[k] = NoCall
  BY <1>2 DEF Answer
<1> QED
  BY <1>1, <1>2, AnswersOrNot

LEMMA AnswerKeeps ==
    ASSUME NEW c, NEW failed, Answer(c, failed), c \in Client => client[c].op # "save"
    PROVE  kept' = kept
BY DEF Answer, NoCall

\* Only the end of a save that a client has asked the root for promises anything.
LEMMA KeptMoves ==
    ASSUME Shapes, Tree, Match, FromAbove(actor), NEW d \in Dir, ActorStep(d) \/ Fire(d),
           PlainUse, Plain(actor, box), ~config.errors
    PROVE  \/ kept' = kept
           \/ LET c == actor[Root].task.from IN
              /\ SaveDone(Root) /\ c \in Client /\ client[c].op = "save"
              /\ kept' = Merge(kept, client[c].need)
<1>1. ASSUME NoAnswer PROVE kept' = kept
  BY <1>1 DEF NoAnswer
<1>2. None \notin Client
  BY TreeAssumption
<1>3. ASSUME NEW failed, Answer(None, failed) PROVE kept' = kept
  BY <1>2, <1>3, AnswerKeeps
<1>4. SaveIfDirty(d) \/ ChildIsDirty(d) \/ (\E e \in Dir : AskChild(d, e))
      \/ BeginShutdown(d) \/ Orphan(d) => NoAnswer
  BY DEF ChildIsDirty, SaveIfDirty, AskChild, BeginShutdown, Orphan
<1>5. Load(d) => kept' = kept
  BY <1>1, <1>3 DEF Load
<1>6. Forward(d) => kept' = kept
  BY <1>1, <1>3 DEF Forward
<1>7. ASSUME FileOp(d) PROVE kept' = kept
  <2>1. PICK c : c = Head(box[d]).from
    OBVIOUS
  <2>2. Receives(d, {"file_put", "file_put_sync", "file_get"}) /\ Answer(c, {})
    BY <1>7, <2>1 DEF FileOp
  <2>3. box[d] # <<>> /\ Head(box[d]).op \in {"file_put", "file_put_sync", "file_get"}
    BY <2>2, Taking
  <2>4. c \in Client => client[c].op = Head(box[d]).op
    BY <2>1, <2>3, HeadAlone DEF Fitting
  <2> QED
    BY <2>2, <2>3, <2>4, AnswerKeeps
<1>8. ASSUME NEW c, c = actor[d].task.from, actor[d].task.op # "idle"
      PROVE  c \in Client => client[c].op = Does(actor[d].task)
  <2>1. c \in Client => Works(actor, d, c)
    BY <1>8 DEF Works
  <2> QED
    BY <2>1 DEF Match, MatchIn
<1>9. ASSUME Tell(d) PROVE kept' = kept
  <2>1. PICK c : c = actor[d].task.from
    OBVIOUS
  <2>2. actor[d].task.op = "tell" /\ (NoAnswer \/ Answer(c, {}))
    BY <1>9, <2>1 DEF Tell
  <2>3. c \in Client => client[c].op = "create_dir"
    BY <1>8, <2>1, <2>2 DEF Does
  <2> QED
    BY <1>1, <2>2, <2>3, AnswerKeeps
<1>10. ASSUME Stop(d) PROVE kept' = kept
  <2>1. PICK c : c = actor[d].task.from
    OBVIOUS
  <2>2. actor[d].task.op = "shutdown" /\ Answer(c, Dropped(d))
    BY <1>10, <2>1 DEF Stop, ChildrenDone
  <2>3. c \in Client => client[c].op = "shutdown"
    BY <1>8, <2>1, <2>2 DEF Does
  <2> QED
    BY <2>2, <2>3, AnswerKeeps
<1>11. ASSUME SaveDone(d)
       PROVE  \/ kept' = kept
              \/ LET c == actor[Root].task.from IN
                 /\ SaveDone(Root) /\ c \in Client /\ client[c].op = "save"
                 /\ kept' = Merge(kept, client[c].need)
  <2>1. PICK c : c = actor[d].task.from
    OBVIOUS
  <2>2. actor[d].task.op = "save"
    BY <1>11 DEF SaveDone, ChildrenDone
  <2>3. Answer(c, {c})
    BY <1>11, <2>1 DEF SaveDone, Outcome
  <2>4. CASE c \notin Client
    BY <2>3, <2>4, AnswerKeeps
  <2>5. CASE c \in Client
    <3>1. d = Root
      BY <2>1, <2>2, <2>5 DEF FromAbove
    <3>2. client[c].op = "save"
      BY <1>8, <2>1, <2>2, <2>5 DEF Does
    <3>3. kept' = Merge(kept, client[c].need)
      BY <2>3, <2>5, <3>2 DEF Answer
    <3> QED
      BY <1>11, <2>1, <2>5, <3>1, <3>2, <3>3
  <2> QED
    BY <2>4, <2>5
<1> QED
  BY <1>1, <1>4, <1>5, <1>6, <1>7, <1>9, <1>10, <1>11, NotPlain DEF ActorStep

-----------------------------------------------------------------------------
(* Puts in a mailbox, and those that are ahead of a save.                   *)

PutOf(m, x, n) == Put(m) /\ m.dir = x /\ m.arg >= n
PutIn(q, x, n) == \E j \in DOMAIN q : PutOf(q[j], x, n)
PutBefore(q, i, x, n) == \E j \in DOMAIN q : j < i /\ PutOf(q[j], x, n)
PutAhead(q, x, n) == \E i \in DOMAIN q : Request(q[i]) /\ PutBefore(q, i, x, n)

LEMMA AheadAppend ==
    ASSUME NEW M, NEW q \in Seq(M), NEW m, NEW x, NEW n
    PROVE  /\ PutIn(q, x, n) => PutIn(Append(q, m), x, n)
           /\ PutAhead(q, x, n) => PutAhead(Append(q, m), x, n)
           /\ Request(m) /\ PutIn(q, x, n) => PutAhead(Append(q, m), x, n)
           /\ \A i \in DOMAIN q : PutBefore(q, i, x, n) => PutBefore(Append(q, m), i, x, n)
           /\ PutIn(q, x, n) => PutBefore(Append(q, m), Len(q) + 1, x, n)
           /\ PutOf(m, x, n) => PutIn(Append(q, m), x, n)
<1>1. PICK p, l : p = Append(q, m) /\ l = Len(q) + 1
  OBVIOUS
<1>2. /\ \A i \in DOMAIN q : p[i] = q[i] /\ i \in DOMAIN p /\ i < l
      /\ p[l] = m /\ l \in DOMAIN p
  BY <1>1, AppendFacts
<1>3. PutIn(q, x, n) => PutIn(p, x, n) /\ PutBefore(p, l, x, n)
  BY <1>2 DEF PutIn, PutBefore
<1>4. \A i \in DOMAIN q : PutBefore(q, i, x, n) => PutBefore(p, i, x, n)
  BY <1>2 DEF PutBefore
<1>5. PutAhead(q, x, n) => PutAhead(p, x, n)
  BY <1>2, <1>4 DEF PutAhead
<1>6. Request(m) /\ PutIn(q, x, n) => PutAhead(p, x, n)
  BY <1>2, <1>3 DEF PutAhead
<1>7. PutOf(m, x, n) => PutIn(p, x, n)
  BY <1>2 DEF PutIn
<1> QED
  BY <1>1, <1>3, <1>4, <1>5, <1>6, <1>7

LEMMA AheadTail ==
    ASSUME NEW M, NEW q \in Seq(M), q # <<>>, NEW x, NEW n
    PROVE  /\ PutIn(q, x, n) => PutIn(Tail(q), x, n) \/ PutOf(Head(q), x, n)
           /\ PutAhead(q, x, n) => PutAhead(Tail(q), x, n) \/ PutOf(Head(q), x, n)
           /\ Request(Head(q)) /\ OneRequest(q) => ~PutAhead(q, x, n)
           /\ \A i \in DOMAIN Tail(q) :
                 /\ i + 1 \in DOMAIN q /\ q[i + 1] = Tail(q)[i]
                 /\ PutBefore(q, i + 1, x, n) => PutBefore(Tail(q), i, x, n) \/ PutOf(Head(q), x, n)
           /\ ~PutBefore(q, 1, x, n)
<1>1. PICK p : p = Tail(q)
  OBVIOUS
<1>2. \A i \in DOMAIN p : i \in Nat /\ i + 1 \in DOMAIN q /\ q[i + 1] = p[i]
  BY <1>1
<1>3. \A i \in DOMAIN q : /\ i \in Nat /\ i >= 1
                          /\ i # 1 => i - 1 \in DOMAIN p /\ p[i - 1] = q[i] /\ i > 1
  BY <1>1
<1>4. Head(q) = q[1] /\ 1 \in DOMAIN q
  OBVIOUS
<1>5. ~PutBefore(q, 1, x, n)
  <2> SUFFICES ASSUME NEW j \in DOMAIN q, j < 1 PROVE FALSE
    BY DEF PutBefore
  <2> QED
    BY <1>3
<1>6. PutIn(q, x, n) => PutIn(p, x, n) \/ PutOf(Head(q), x, n)
  BY <1>3, <1>4 DEF PutIn
<1>7. ASSUME NEW i \in DOMAIN p, PutBefore(q, i + 1, x, n), ~PutOf(Head(q), x, n)
      PROVE  PutBefore(p, i, x, n)
  <2>1. PICK j \in DOMAIN q : j < i + 1 /\ PutOf(q[j], x, n)
    BY <1>7 DEF PutBefore
  <2>2. j # 1
    BY <1>4, <1>7, <2>1
  <2>3. j - 1 \in DOMAIN p /\ p[j - 1] = q[j] /\ j \in Nat /\ i \in Nat
    BY <1>2, <1>3, <2>2
  <2>4. j - 1 < i
    BY <2>1, <2>3
  <2> QED
    BY <2>1, <2>3, <2>4 DEF PutBefore
<1>8. ASSUME PutAhead(q, x, n), ~PutOf(Head(q), x, n) PROVE PutAhead(p, x, n)
  <2>1. PICK i \in DOMAIN q : Request(q[i]) /\ PutBefore(q, i, x, n)
    BY <1>8 DEF PutAhead
  <2>2. i # 1
    BY <1>5, <2>1
  <2>3. i - 1 \in DOMAIN p /\ p[i - 1] = q[i] /\ i \in Nat
    BY <1>3, <2>2
  <2>4. (i - 1) + 1 = i
    BY <2>3
  <2>5. PutBefore(p, i - 1, x, n)
    BY <1>7, <1>8, <2>1, <2>3, <2>4
  <2> QED
    BY <2>1, <2>3, <2>5 DEF PutAhead
<1>9. ASSUME Request(Head(q)), OneRequest(q) PROVE ~PutAhead(q, x, n)
  <2> SUFFICES ASSUME NEW i \in DOMAIN q, Request(q[i]), PutBefore(q, i, x, n) PROVE FALSE
    BY DEF PutAhead
  <2>1. i = 1
    BY <1>4, <1>9 DEF OneRequest
  <2> QED
    BY <1>5, <2>1
<1> QED
  BY <1>1, <1>2, <1>5, <1>6, <1>7, <1>8, <1>9

-----------------------------------------------------------------------------
(* Where the file of a path is in a tree of one level.                      *)

\* From the path above x the way goes on to directory x, with snapshot G[x], or ends.
Descends(H, G, x) ==
    LET h == H[Parent[x]] IN
    IF h.snap # NoHash /\ h.dir = Parent[x] /\ x \in DOMAIN h.snap.dirs
    THEN x \in Kids => H[x] = [dir |-> x, snap |-> G[x]]
    ELSE H[x] = h

LEMMA FlatWay ==
    ASSUME Shapes, NEW H, NEW s, NEW G, s # NoHash, DOMAIN s.dirs = Kids,
           \A e \in Kids : G[e] # NoHash /\ Leaf(G[e]),
           H[Root] = [dir |-> Root, snap |-> s],
           \A x \in Dir \ {Root} : Descends(H, G, x)
    PROVE  \A x \in Dir : \/ Up[x] \cap Kids = {} /\ H[x].snap = s
                          \/ \E e \in Up[x] \cap Kids : H[x].snap = G[e]
<1> DEFINE S == {x \in Dir : \/ Up[x] \cap Kids = {} /\ H[x] = [dir |-> Root, snap |-> s]
                             \/ \E e \in Up[x] \cap Kids : H[x] = [dir |-> e, snap |-> G[e]]}
<1>1. Kids \subseteq Dir \ {Root} /\ \A e \in Kids : Parent[e] = Root
  BY KidsFacts
<1>2. Root \in S
  BY <1>1, UpRoot, TreeAssumption
<1>3. ASSUME NEW x \in Dir \ {Root}, Parent[x] \in S PROVE x \in S
  <2>1. Up[x] = {x} \cup Up[Parent[x]]
    BY UpStep
  <2>2. PICK h : h = H[Parent[x]]
    OBVIOUS
  <2>3. IF h.snap # NoHash /\ h.dir = Parent[x] /\ x \in DOMAIN h.snap.dirs
        THEN x \in Kids => H[x] = [dir |-> x, snap |-> G[x]]
        ELSE H[x] = h
    BY <2>2 DEF Descends
  <2>4. CASE Up[Parent[x]] \cap Kids = {} /\ h = [dir |-> Root, snap |-> s]
    <3>1. h.dir = Root /\ h.snap = s
      BY <2>4
    <3>2. CASE x \in Kids
      <4>1. H[x] = [dir |-> x, snap |-> G[x]]
        BY <1>1, <2>3, <3>1, <3>2
      <4>2. x \in Up[x] \cap Kids
        BY <2>1, <3>2
      <4> QED
        BY <4>1, <4>2
    <3>3. CASE x \notin Kids
      <4>1. H[x] = h /\ Up[x] \cap Kids = {}
        BY <2>1, <2>3, <2>4, <3>1, <3>3
      <4> QED
        BY <2>4, <4>1
    <3> QED
      BY <3>2, <3>3
  <2>5. ASSUME NEW e \in Up[Parent[x]] \cap Kids, h = [dir |-> e, snap |-> G[e]] PROVE x \in S
    <3>1. h.snap = G[e] /\ Leaf(G[e])
      BY <2>5
    <3>2. H[x] = h /\ e \in Up[x] \cap Kids
      BY <2>1, <2>3, <3>1 DEF Leaf
    <3> QED
      BY <2>5, <3>2
  <2> QED
    BY <1>3, <2>2, <2>4, <2>5
<1>4. S = Dir
  BY <1>2, <1>3, PathAssumption
<1>5. ASSUME NEW x \in Dir
      PROVE  \/ Up[x] \cap Kids = {} /\ H[x].snap = s
             \/ \E e \in Up[x] \cap Kids : H[x].snap = G[e]
  <2>1. x \in S
    BY <1>4
  <2>2. CASE Up[x] \cap Kids = {} /\ H[x] = [dir |-> Root, snap |-> s]
    BY <2>2
  <2>3. ASSUME NEW e \in Up[x] \cap Kids, H[x] = [dir |-> e, snap |-> G[e]]
        PROVE  H[x].snap = G[e]
    BY <2>3
  <2> QED
    BY <2>1, <2>2, <2>3
<1> QED
  BY <1>5

LEMMA OneKid ==
    ASSUME Shapes, NEW x \in Dir, NEW e \in Up[x] \cap Kids, NEW f \in Up[x] \cap Kids
    PROVE  e = f
BY KidsFacts, OneWayDown

\* The snapshots that a directory of one level refers to.
LEMMA FlatEntries ==
    ASSUME Shapes, Order, WithoutCreate, NEW s \in Pool, s # NoHash, Top(s)
    PROVE  /\ s.files \in [Dir -> Nat]
           /\ \A e \in Kids : /\ s.dirs[e] \in stored /\ s.dirs[e] # NoHash /\ Leaf(s.dirs[e])
                              /\ s.dirs[e].files \in [Dir -> Nat]
<1>1. Over(s, stored) /\ NoHash \notin stored
  BY Stock, RootFileWhole DEF Whole
<1>2. \A t \in Pool : t # NoHash => t.files \in [Dir -> Nat]
  BY DEF Order, OrderIn, Behind
<1>3. ASSUME NEW e \in Kids PROVE s.dirs[e] \in stored /\ Leaf(s.dirs[e])
  BY <1>1 DEF Top, Over
<1>4. stored \subseteq Pool
  BY DEF Pool
<1> QED
  BY <1>1, <1>2, <1>3, <1>4

LEMMA FlatVisible ==
    ASSUME Shapes, Tree, Order, WithoutCreate, Flat(actor, rootFile), Grow(actor, rootFile),
           NEW x \in Dir
    PROVE  \/ Up[x] \cap Kids = {} /\ Visible(x) = actor[Root].state.files[x]
           \/ \E e \in Up[x] \cap Kids :
                 \/ actor[e].life = "none" /\ Visible(x) = actor[Root].state.dirs[e].files[x]
                 \/ actor[e].life # "none" /\ Visible(x) = actor[e].state.files[x]
<1>1. PICK H, s, G : /\ H = LiveHolder /\ s = actor[Root].state
                     /\ G = [e \in Kids |-> IF actor[e].life = "none" THEN s.dirs[e]
                                            ELSE actor[e].state]
  OBVIOUS
<1>2. /\ H[Root] = [dir |-> Root, snap |-> s]
      /\ \A y \in Dir \ {Root} : H[y] = LBelow(y, H[Parent[y]], actor)
  BY <1>1, LiveReads, LReaderSteps
<1>3. s \in Pool /\ s # NoHash /\ Top(s) /\ Root \in Dir
  <2>1. actor[Root].life # "none" /\ Root \in Dir
    BY TreeAssumption DEF Tree, ActorTree, ActorFits
  <2> QED
    BY <1>1, <2>1 DEF Pool, Grow, Flat
<1>4. \A e \in Kids : s.dirs[e] # NoHash /\ Leaf(s.dirs[e])
  BY <1>3, FlatEntries
<1>5. ASSUME NEW e \in Kids PROVE G[e] # NoHash /\ Leaf(G[e])
  BY <1>1, <1>4, KidsFacts DEF Flat, Grow
<1>6. ASSUME NEW y \in Dir \ {Root}
      PROVE  Descends(H, G, y)
  <2>1. PICK h : h = H[Parent[y]]
    OBVIOUS
  <2>2. H[y] = LBelow(y, h, actor)
    BY <1>2, <2>1
  <2>3. CASE ~(h.snap # NoHash /\ h.dir = Parent[y] /\ y \in DOMAIN h.snap.dirs)
    BY <2>1, <2>2, <2>3 DEF LBelow, Descends
  <2>4. CASE h.snap # NoHash /\ h.dir = Parent[y] /\ y \in DOMAIN h.snap.dirs /\ y \in Kids
    <3>1. Parent[y] = Root
      BY <2>4, KidsFacts
    <3>2. h.snap = s
      BY <1>2, <2>1, <3>1
    <3>3. H[y] = [dir |-> y, snap |-> IF actor[y].life = "none" THEN s.dirs[y] ELSE actor[y].state]
      BY <2>2, <2>4, <3>2 DEF LBelow
    <3>4. H[y] = [dir |-> y, snap |-> G[y]]
      BY <1>1, <2>4, <3>3
    <3> QED
      BY <2>1, <2>4, <3>4 DEF Descends
  <2>5. CASE y \notin Kids /\ h.snap # NoHash /\ h.dir = Parent[y] /\ y \in DOMAIN h.snap.dirs
    BY <2>1, <2>5 DEF Descends
  <2> QED
    BY <2>3, <2>4, <2>5
<1>7. \/ Up[x] \cap Kids = {} /\ H[x].snap = s
      \/ \E e \in Up[x] \cap Kids : H[x].snap = G[e]
  BY <1>2, <1>3, <1>5, <1>6, FlatWay DEF Top
<1>8. Visible(x) = FileIn(H[x].snap, x)
  BY <1>1, VisibleIn
<1>9. CASE Up[x] \cap Kids = {} /\ H[x].snap = s
  BY <1>1, <1>3, <1>8, <1>9 DEF FileIn
<1>10. ASSUME NEW e \in Up[x] \cap Kids, H[x].snap = G[e]
       PROVE  \/ actor[e].life = "none" /\ Visible(x) = actor[Root].state.dirs[e].files[x]
              \/ actor[e].life # "none" /\ Visible(x) = actor[e].state.files[x]
  <2>1. G[e] # NoHash
    BY <1>5
  <2>2. Visible(x) = G[e].files[x]
    BY <1>8, <1>10, <2>1 DEF FileIn
  <2> QED
    BY <1>1, <2>2
<1> QED
  BY <1>7, <1>9, <1>10

\* What a reader of snapshot s finds for path x is put n or a later one.
Noted(s, x, n) ==
    \/ Up[x] \cap Kids = {} /\ s.files[x] >= n
    \/ \E e \in Up[x] \cap Kids : s.dirs[e].files[x] >= n

LEMMA NotedPersists ==
    ASSUME Shapes, Order, WithoutCreate, Top(rootFile),
           NEW x \in Dir, NEW n, Noted(rootFile, x, n)
    PROVE  Persisted(x) >= n
<1>1. PICK H, s, st : H = Holder /\ s = rootFile /\ st = stored
  OBVIOUS
<1>2. Reads(H, s, st)
  BY <1>1, HolderReads, ReaderReads
<1>3. /\ H[Root] = [dir |-> Root, snap |-> s]
      /\ \A y \in Dir \ {Root} : H[y] = Below(y, H[Parent[y]], st)
  BY <1>2, ReaderSteps
<1>4. Whole(rootFile, stored)
  BY RootFileWhole
<1>5. s # NoHash /\ NoHash \notin st /\ Top(s) /\ \A e \in Kids : s.dirs[e] \in st
  BY <1>1, <1>4 DEF Whole, Over, Top
<1>6. PICK G : G = [e \in Kids |-> s.dirs[e]]
  OBVIOUS
<1>7. \A e \in Kids : G[e] # NoHash /\ Leaf(G[e])
  BY <1>5, <1>6 DEF Top
<1>8. ASSUME NEW y \in Dir \ {Root}
      PROVE  Descends(H, G, y)
  <2>1. PICK h : h = H[Parent[y]]
    OBVIOUS
  <2>2. H[y] = Below(y, h, st)
    BY <1>3, <2>1
  <2>3. CASE ~(h.snap # NoHash /\ h.dir = Parent[y] /\ y \in DOMAIN h.snap.dirs)
    BY <2>1, <2>2, <2>3 DEF Below, Descends
  <2>4. CASE h.snap # NoHash /\ h.dir = Parent[y] /\ y \in DOMAIN h.snap.dirs /\ y \in Kids
    <3>1. Parent[y] = Root
      BY <2>4, KidsFacts
    <3>2. h.snap = s /\ s.dirs[y] \in st
      BY <1>3, <1>5, <2>1, <2>4, <3>1
    <3>3. H[y] = [dir |-> y, snap |-> s.dirs[y]]
      BY <2>2, <2>4, <3>2 DEF Below
    <3>4. H[y] = [dir |-> y, snap |-> G[y]]
      BY <1>6, <2>4, <3>3
    <3> QED
      BY <2>1, <2>4, <3>4 DEF Descends
  <2>5. CASE y \notin Kids /\ h.snap # NoHash /\ h.dir = Parent[y] /\ y \in DOMAIN h.snap.dirs
    BY <2>1, <2>5 DEF Descends
  <2> QED
    BY <2>3, <2>4, <2>5
<1>9. \/ Up[x] \cap Kids = {} /\ H[x].snap = s
      \/ \E e \in Up[x] \cap Kids : H[x].snap = G[e]
  BY <1>3, <1>5, <1>7, <1>8, FlatWay DEF Top
<1>10. Persisted(x) = FileIn(H[x].snap, x)
  BY <1>1 DEF Persisted, FileIn
<1>11. CASE Up[x] \cap Kids = {} /\ H[x].snap = s
  BY <1>1, <1>5, <1>10, <1>11 DEF FileIn, Noted
<1>12. ASSUME NEW e \in Up[x] \cap Kids, H[x].snap = G[e] PROVE Persisted(x) >= n
  <2>1. PICK f \in Up[x] \cap Kids : s.dirs[f].files[x] >= n
    BY <1>1, <1>12 DEF Noted
  <2>2. f = e
    BY OneKid
  <2>3. G[e] = s.dirs[e] /\ G[e] # NoHash
    BY <1>6, <1>7
  <2> QED
    BY <1>10, <1>12, <2>1, <2>2, <2>3 DEF FileIn
<1> QED
  BY <1>9, <1>11, <1>12

-----------------------------------------------------------------------------
(***************************************************************************)
(* What holds in a tree of one level until the root begins to end:         *)
(*  - nobody ends, and only a parent asks a directory to save;             *)
(*  - a directory without changes is what its parent refers to, and the    *)
(*    root what its file holds;                                            *)
(*  - every put that was accepted before a save was called is visible, or  *)
(*    ahead of the save in the mailbox of the root, or with a directory;   *)
(*  - when the root is in that save, the put is noted in the root, or a    *)
(*    directory that the save has not heard of yet has it or has it ahead  *)
(*    of the root's request.                                               *)
(***************************************************************************)
Inner(q) == \A i \in DOMAIN q : q[i].op # "shutdown" /\ (q[i].op = "save" => q[i].from \in Dir)

NoneEnds(acts, b) ==
    \A f \in Dir :
        /\ acts[f].life # "stopped" /\ acts[f].task.op # "shutdown"
        /\ f # Root => Inner(b[f]) /\ (acts[f].task.op = "save" => acts[f].task.from \in Dir)

Clean(acts, file) ==
    /\ ~acts[Root].dirty => file = acts[Root].state
    /\ \A f \in Dir \ {Root} : acts[f].life # "none" /\ ~acts[f].dirty =>
          acts[Root].state.dirs[f] = acts[f].state

Asking(m) == m.op = "save" /\ m.from \in Client
Elsewhere(b, x, n) == \E a \in Dir \ {Root} : PutIn(b[a], x, n)
Held(b, i, x, v, n) == v[x] >= n \/ PutBefore(b[Root], i, x, n) \/ Elsewhere(b, x, n)
Seen == [x \in Dir |-> Visible(x)]

Called(b, cl, v) ==
    \A i \in DOMAIN b[Root] : Asking(b[Root][i]) =>
        \A x \in Dir : Held(b, i, x, v, cl[b[Root][i].from].need[x])

PendingAt(t, r, q, e, x, n) ==
    \/ e \in t.todo \cup t.wait /\ r.state.files[x] >= n
    \/ e \in t.todo /\ PutIn(q, x, n)
    \/ e \in t.wait /\ PutAhead(q, x, n)

Due(acts, b, x, n) ==
    \/ Noted(acts[Root].state, x, n)
    \/ \E e \in Up[x] \cap Kids : PendingAt(acts[Root].task, acts[e], b[e], e, x, n)

Saving(acts, b, cl) ==
    Asking(acts[Root].task) =>
        \A x \in Dir : Due(acts, b, x, cl[acts[Root].task.from].need[x])

Needs(cl) == \A c \in Client : cl[c].op = "save" => cl[c].need \in [Dir -> Nat]

Live(acts, b, file, cl, v) ==
    NoneEnds(acts, b) /\ Clean(acts, file) /\ Called(b, cl, v) /\ Saving(acts, b, cl)

-----------------------------------------------------------------------------
(* The mailboxes.                                                           *)

BoxKept(f) ==
    \/ box'[f] = box[f]
    \/ \E m : box'[f] = Append(box[f], m) /\ m.op # "shutdown" /\ (m.op = "save" => m.from \in Dir)
Took(d) == box[d] # <<>> /\ box'[d] = Tail(box[d])
BoxesGo(d) == \A f \in Dir : BoxKept(f) \/ (f = d /\ Took(d))

LEMMA InnerGoes ==
    ASSUME Shapes, NEW d \in Dir, BoxesGo(d), NEW f \in Dir, Inner(box[f])
    PROVE  Inner(box'[f])
<1>1. PICK q : q = box[f] /\ q \in Seq(Messages)
  BY DEF Shapes
<1>2. ASSUME NEW m, m.op # "shutdown", m.op = "save" => m.from \in Dir PROVE Inner(Append(q, m))
  <2>1. /\ \A i \in DOMAIN q : Append(q, m)[i] = q[i]
        /\ Append(q, m)[Len(q) + 1] = m
        /\ \A i \in DOMAIN Append(q, m) : i \in DOMAIN q \/ i = Len(q) + 1
    BY <1>1, AppendFacts
  <2> QED
    BY <1>1, <1>2, <2>1 DEF Inner
<1>3. ASSUME q # <<>> PROVE Inner(Tail(q))
  <2>1. \A i \in DOMAIN Tail(q) : i + 1 \in DOMAIN q /\ Tail(q)[i] = q[i + 1]
    BY <1>1, <1>3
  <2> QED
    BY <1>1, <2>1 DEF Inner
<1> QED
  BY <1>1, <1>2, <1>3 DEF BoxesGo, BoxKept, Took

LEMMA KeptPuts ==
    ASSUME Shapes, NEW f \in Dir, BoxKept(f), NEW x, NEW n
    PROVE  /\ PutIn(box[f], x, n) => PutIn(box'[f], x, n)
           /\ PutAhead(box[f], x, n) => PutAhead(box'[f], x, n)
           /\ \A i \in DOMAIN box[f] : PutBefore(box[f], i, x, n) => PutBefore(box'[f], i, x, n)
<1>1. box[f] \in Seq(Messages)
  BY DEF Shapes
<1> QED
  BY <1>1, AheadAppend DEF BoxKept

LEMMA TookPuts ==
    ASSUME Shapes, NEW d \in Dir, Took(d), NEW x, NEW n, ~PutOf(Head(box[d]), x, n)
    PROVE  /\ PutIn(box[d], x, n) => PutIn(box'[d], x, n)
           /\ PutAhead(box[d], x, n) => PutAhead(box'[d], x, n)
           /\ \A i \in DOMAIN box'[d] :
                 /\ i + 1 \in DOMAIN box[d] /\ box[d][i + 1] = box'[d][i]
                 /\ PutBefore(box[d], i + 1, x, n) => PutBefore(box'[d], i, x, n)
<1>1. box[d] \in Seq(Messages)
  BY DEF Shapes
<1> QED
  BY <1>1, AheadTail DEF Took

\* A client that waits for a save waits for the same one.
SameCalls ==
    \A k \in Client : client'[k].op = "save" => client'[k] = client[k]

LEMMA CalledStep ==
    ASSUME Shapes, Called(box, client, Seen), Needs(client), Match', SameCalls,
           NEW d \in Dir, BoxesGo(d),
           \A x \in Dir : Seen[x] \in Nat /\ Seen'[x] \in Nat /\ Seen'[x] >= Seen[x],
           Took(d) => \A x \in Dir : \A n \in Nat : PutOf(Head(box[d]), x, n) =>
                         Seen'[x] >= n \/ Elsewhere(box', x, n)
    PROVE  Called(box', client', Seen')
<1> SUFFICES ASSUME NEW i \in DOMAIN box'[Root], Asking(box'[Root][i]), NEW x \in Dir
             PROVE  Held(box', i, x, Seen', client'[box'[Root][i].from].need[x])
  BY DEF Called
<1>1. Root \in Dir /\ Dir \cap Client = {}
  BY TreeAssumption
<1>2. PICK c \in Client : c = box'[Root][i].from
  BY DEF Asking
<1>3. client'[c].op = "save"
  <2>1. Fitted(box'[Root], client')
    BY <1>1 DEF Match, MatchIn
  <2> QED
    BY <1>2, <2>1 DEF Fitted, Fitting, Asking
<1>4. client'[c] = client[c] /\ client[c].op = "save"
  BY <1>3 DEF SameCalls
<1>5. PICK n \in Nat : n = client[c].need[x] /\ n = client'[c].need[x]
  BY <1>4 DEF Needs
<1>6. ASSUME Elsewhere(box, x, n) PROVE Seen'[x] >= n \/ Elsewhere(box', x, n)
  <2>1. PICK a \in Dir \ {Root} : PutIn(box[a], x, n)
    BY <1>6 DEF Elsewhere
  <2>2. CASE BoxKept(a)
    BY <2>1, <2>2, KeptPuts DEF Elsewhere
  <2>3. CASE a = d /\ Took(d)
    BY <2>1, <2>3, TookPuts DEF Elsewhere
  <2> QED
    BY <2>2, <2>3 DEF BoxesGo
<1>7. Seen[x] >= n => Seen'[x] >= n
  <2>1. Seen[x] \in Nat /\ Seen'[x] \in Nat /\ Seen'[x] >= Seen[x]
    OBVIOUS
  <2> QED
    BY <2>1
<1>8. ASSUME NEW j \in DOMAIN box[Root], box[Root][j] = box'[Root][i],
             PutBefore(box[Root], j, x, n) =>
                PutBefore(box'[Root], i, x, n) \/ Seen'[x] >= n \/ Elsewhere(box', x, n)
      PROVE  Held(box', i, x, Seen', n)
  <2>1. Held(box, j, x, Seen, n)
    BY <1>2, <1>5, <1>8 DEF Called
  <2> QED
    BY <1>6, <1>7, <1>8, <2>1 DEF Held
<1>9. CASE BoxKept(Root)
  <2>1. i \in DOMAIN box[Root] /\ box[Root][i] = box'[Root][i]
    <3>1. CASE box'[Root] = box[Root]
      BY <3>1
    <3>2. ASSUME NEW m, box'[Root] = Append(box[Root], m), m.op = "save" => m.from \in Dir
          PROVE  i \in DOMAIN box[Root] /\ box[Root][i] = box'[Root][i]
      <4>1. ~Asking(m)
        BY <1>1, <3>2 DEF Asking
      <4>2. box[Root] \in Seq(Messages)
        BY <1>1 DEF Shapes
      <4> QED
        BY <3>2, <4>1, <4>2, AppendFacts
    <3> QED
      BY <1>9, <3>1, <3>2 DEF BoxKept
  <2>2. PutBefore(box[Root], i, x, n) => PutBefore(box'[Root], i, x, n)
    BY <1>1, <1>9, <2>1, KeptPuts
  <2> QED
    BY <1>2, <1>5, <1>8, <2>1, <2>2
<1>10. CASE Root = d /\ Took(d)
  <2>1. /\ i + 1 \in DOMAIN box[d] /\ box[d][i + 1] = box'[d][i]
        /\ PutBefore(box[d], i + 1, x, n) => PutBefore(box'[d], i, x, n) \/ PutOf(Head(box[d]), x, n)
    <3>1. box[d] \in Seq(Messages)
      BY DEF Shapes
    <3> QED
      BY <1>10, <3>1, AheadTail DEF Took
  <2> QED
    BY <1>2, <1>5, <1>8, <1>10, <2>1
<1> QED
  BY <1>1, <1>9, <1>10 DEF BoxesGo

LEMMA PendingKept ==
    ASSUME Shapes, NEW d \in Dir, BoxesGo(d), NEW t, NEW u, u.todo = t.todo, u.wait = t.wait,
           NEW e \in Dir, NEW x, NEW n,
           actor[e].state.files[x] >= n => actor'[e].state.files[x] >= n,
           e = d /\ Took(d) /\ PutOf(Head(box[d]), x, n) => actor'[e].state.files[x] >= n,
           PendingAt(t, actor[e], box[e], e, x, n)
    PROVE  PendingAt(u, actor'[e], box'[e], e, x, n)
<1>1. CASE BoxKept(e)
  BY <1>1, KeptPuts DEF PendingAt
<1>2. CASE e = d /\ Took(d)
  <2>1. CASE PutOf(Head(box[d]), x, n)
    BY <1>2, <2>1 DEF PendingAt
  <2>2. CASE ~PutOf(Head(box[d]), x, n)
    BY <1>2, <2>2, TookPuts DEF PendingAt
  <2> QED
    BY <2>1, <2>2
<1> QED
  BY <1>1, <1>2 DEF BoxesGo

LEMMA SavingStep ==
    ASSUME Saving(actor, box, client), Needs(client), Match', SameCalls,
           Asking(actor'[Root].task) =>
              /\ Asking(actor[Root].task) /\ actor'[Root].task.from = actor[Root].task.from
              /\ \A x \in Dir : \A n \in Nat : Due(actor, box, x, n) => Due(actor', box', x, n)
    PROVE  Saving(actor', box', client')
<1> SUFFICES ASSUME Asking(actor'[Root].task), NEW x \in Dir
             PROVE  Due(actor', box', x, client'[actor'[Root].task.from].need[x])
  BY DEF Saving
<1>1. PICK c \in Client : c = actor'[Root].task.from /\ c = actor[Root].task.from
  BY DEF Asking
<1>2. client'[c].op = "save"
  <2>1. Works(actor', Root, c) /\ Root \in Dir
    BY <1>1, TreeAssumption DEF Works, Asking
  <2>2. client'[c].op = Does(actor'[Root].task)
    BY <2>1 DEF Match, MatchIn, Works
  <2> QED
    BY <2>2 DEF Does, Asking
<1>3. client'[c] = client[c] /\ client[c].op = "save"
  BY <1>2 DEF SameCalls
<1>4. PICK n \in Nat : n = client[c].need[x] /\ n = client'[c].need[x]
  BY <1>3 DEF Needs
<1>5. Due(actor, box, x, n)
  BY <1>1, <1>4 DEF Saving
<1> QED
  BY <1>1, <1>4, <1>5

-----------------------------------------------------------------------------
(* One step of an actor while the root goes on.                             *)

Standing ==
    /\ Shapes /\ Tree /\ Order /\ Asked /\ Match
    /\ FlatUse /\ PlainUse /\ WithoutCreate
    /\ Plain(actor, box) /\ Dirt(actor, box) /\ Flat(actor, rootFile) /\ Grow(actor, rootFile)
    /\ Needs(client)
    /\ Live(actor, box, rootFile, client, Seen)

LiveOn == Live(actor', box', rootFile', client', Seen')

Runner(f, r) ==
    /\ r.life # "stopped" /\ r.task.op # "shutdown"
    /\ f # Root => (r.task.op = "save" => r.task.from \in Dir)
Rising == \A x \in Dir : Seen'[x] \in Nat /\ Seen'[x] >= Seen[x]
Lands(d) ==
    Took(d) => \A x \in Dir : \A n \in Nat :
        PutOf(Head(box[d]), x, n) => Seen'[x] >= n \/ Elsewhere(box', x, n)
SaveGoesOn ==
    Asking(actor'[Root].task) =>
        /\ Asking(actor[Root].task) /\ actor'[Root].task.from = actor[Root].task.from
        /\ \A x \in Dir : \A n \in Nat : Due(actor, box, x, n) => Due(actor', box', x, n)

LEMMA SeenIsPut == ASSUME Shapes, Order PROVE
    \A x \in Dir : Seen[x] = Visible(x) /\ Seen'[x] = Visible(x)' /\ Seen[x] \in Nat
<1>1. \A x \in Dir : Visible(x) \in Nat
  BY VisibleIsPut
<1> QED
  BY <1>1 DEF Seen

LEMMA CallsSame == ASSUME NEW d \in Dir, ActorStep(d) PROVE SameCalls
BY ClientsKept DEF SameCalls, NoCall

LEMMA LiveStep ==
    ASSUME Standing, Shapes', Match', NEW d \in Dir, ActorStep(d), BoxesGo(d),
           \A f \in Dir : Runner(f, actor'[f]),
           Clean(actor', rootFile'), Rising, Lands(d), Saving(actor', box', client')
    PROVE  LiveOn
<1>1. /\ Shapes /\ Order /\ Called(box, client, Seen) /\ Needs(client) /\ NoneEnds(actor, box)
  BY DEF Standing, Live
<1>2. SameCalls
  BY CallsSame
<1>3. \A x \in Dir : Seen[x] \in Nat /\ Seen'[x] \in Nat /\ Seen'[x] >= Seen[x]
  BY <1>1, SeenIsPut DEF Rising
<1>4. Called(box', client', Seen')
  BY <1>1, <1>2, <1>3, CalledStep DEF Lands
<1>5. \A f \in Dir : f # Root => Inner(box'[f])
  BY <1>1, InnerGoes DEF NoneEnds
<1>6. NoneEnds(actor', box')
  BY <1>5 DEF NoneEnds, Runner
<1> QED
  BY <1>4, <1>6 DEF LiveOn, Live

LEMMA SavingOn ==
    ASSUME Standing, Match', NEW d \in Dir, ActorStep(d), SaveGoesOn
    PROVE  Saving(actor', box', client')
<1>1. Saving(actor, box, client) /\ Needs(client)
  BY DEF Standing, Live
<1> QED
  BY <1>1, CallsSame, SavingStep DEF SaveGoesOn

\* A step of an actor that changes nothing of a directory's content.
LEMMA LiveOwn ==
    ASSUME Standing, Shapes', Match', NEW d \in Dir, ActorStep(d), BoxesGo(d),
           Steady, rootFile' = rootFile, NEW r, actor' = [actor EXCEPT ![d] = r],
           r.life # "stopped", r.task.op # "shutdown", actor[d].dirty => r.dirty,
           r.dirty \in BOOLEAN,
           d # Root => (r.task.op = "save" => r.task.from \in Dir),
           d = Root /\ r.task.op = "save" =>
              /\ actor[d].task.op = "save" /\ r.task.from = actor[d].task.from
              /\ r.task.todo = actor[d].task.todo /\ r.task.wait = actor[d].task.wait,
           Took(d) => ~Put(Head(box[d]))
    PROVE  LiveOn
<1>1. /\ Shapes /\ Tree /\ Order /\ NoneEnds(actor, box) /\ Clean(actor, rootFile) /\ Root \in Dir
  BY TreeAssumption DEF Standing, Live
<1>2. actor'[d] = r /\ \A f \in Dir : f # d => actor'[f] = actor[f]
  BY <1>1 DEF Shapes, ActorsOK
<1>3. \A f \in Dir : Runner(f, actor'[f])
  BY <1>1, <1>2 DEF NoneEnds, Runner
<1>4. \A f \in Dir : ~actor'[f].dirty => ~actor[f].dirty
  BY <1>2
<1>5. Clean(actor', rootFile')
  BY <1>1, <1>4 DEF Clean, Steady
<1>6. \A x \in Dir : Seen'[x] = Seen[x] /\ Seen[x] \in Nat
  BY <1>1, SeenIsPut, VisibleSteady
<1>7. Rising
  BY <1>6 DEF Rising
<1>8. Lands(d)
  BY DEF Lands, PutOf
<1>9. SaveGoesOn
  <2> SUFFICES ASSUME Asking(actor'[Root].task)
               PROVE  /\ Asking(actor[Root].task) /\ actor'[Root].task.from = actor[Root].task.from
                      /\ \A x \in Dir : \A n \in Nat : Due(actor, box, x, n) => Due(actor', box', x, n)
    BY DEF SaveGoesOn
  <2>1. /\ Asking(actor[Root].task) /\ actor'[Root].task.from = actor[Root].task.from
        /\ actor'[Root].task.todo = actor[Root].task.todo
        /\ actor'[Root].task.wait = actor[Root].task.wait
    BY <1>1, <1>2 DEF Asking
  <2>2. ASSUME NEW x \in Dir, NEW n \in Nat, Due(actor, box, x, n) PROVE Due(actor', box', x, n)
    <3>1. actor'[Root].state = actor[Root].state
      BY <1>1 DEF Steady
    <3>2. ASSUME NEW e \in Up[x] \cap Kids, PendingAt(actor[Root].task, actor[e], box[e], e, x, n)
          PROVE  PendingAt(actor'[Root].task, actor'[e], box'[e], e, x, n)
      <4>1. e \in Dir
        BY <1>1, KidsFacts
      <4>2. actor'[e].state = actor[e].state
        BY <4>1 DEF Steady
      <4> QED
        BY <1>1, <2>1, <3>2, <4>1, <4>2, PendingKept DEF PutOf
    <3> QED
      BY <2>2, <3>1, <3>2 DEF Due
  <2> QED
    BY <2>1, <2>2
<1> QED
  BY <1>3, <1>5, <1>7, <1>8, <1>9, SavingOn, LiveStep

-----------------------------------------------------------------------------
LEMMA KeptNotTook == ASSUME Shapes, NEW d \in Dir, BoxKept(d) PROVE ~Took(d)
<1>1. PICK q : q = box[d] /\ q \in Seq(Messages)
  BY DEF Shapes
<1>2. Len(q) \in Nat /\ \A m : Len(Append(q, m)) = Len(q) + 1
  BY <1>1
<1>3. q # <<>> => Len(Tail(q)) = Len(q) - 1
  BY <1>1
<1>4. \A m : q # <<>> => Tail(q) # Append(q, m) /\ Tail(q) # q
  <2> SUFFICES ASSUME NEW m, q # <<>> PROVE Len(Tail(q)) # Len(Append(q, m)) /\ Len(Tail(q)) # Len(q)
    OBVIOUS
  <2>1. PICK a, b, c : a = Len(q) /\ b = Len(Append(q, m)) /\ c = Len(Tail(q))
    OBVIOUS
  <2>2. a \in Nat /\ b = a + 1 /\ c = a - 1
    BY <1>2, <1>3, <2>1
  <2> QED
    BY <2>1, <2>2
<1> QED
  BY <1>1, <1>4 DEF BoxKept, Took

LEMMA TakeGoes ==
    ASSUME Shapes, NEW d \in Dir, box[d] # <<>>, box' = Take(d)
    PROVE  BoxesGo(d) /\ Took(d) /\ \A f \in Dir : f # d => box'[f] = box[f]
BY DEF Take, Shapes, BoxesGo, Took, BoxKept

LEMMA SameGoes == ASSUME box' = box, NEW d PROVE BoxesGo(d)
BY DEF BoxesGo, BoxKept

LEMMA RootKnown ==
    ASSUME Standing
    PROVE  /\ Root \in Dir /\ Shapes /\ Tree /\ Order /\ WithoutCreate
           /\ actor[Root].state \in Pool /\ actor[Root].state # NoHash /\ Top(actor[Root].state)
           /\ Kids \subseteq Dir \ {Root} /\ \A e \in Kids : Parent[e] = Root
           /\ actor[Root].state.files \in [Dir -> Nat]
           /\ \A e \in Kids : /\ actor[Root].state.dirs[e] \in stored
                              /\ actor[Root].state.dirs[e].files \in [Dir -> Nat]
           /\ \A f \in Dir \ {Root} : actor[f].life # "none" => f \in Kids
           /\ Outcome = {TRUE}
<1>1. /\ Root \in Dir /\ Shapes /\ Tree /\ Order /\ WithoutCreate /\ Flat(actor, rootFile)
      /\ Grow(actor, rootFile) /\ FlatUse
  BY TreeAssumption DEF Standing
<1>2. actor[Root].state \in Pool /\ actor[Root].state # NoHash /\ Top(actor[Root].state)
  BY <1>1 DEF Pool, Flat, Grow, Tree, ActorTree, ActorFits
<1>3. Kids \subseteq Dir \ {Root} /\ \A e \in Kids : Parent[e] = Root
  BY <1>1, KidsFacts
<1>4. /\ actor[Root].state.files \in [Dir -> Nat]
      /\ \A e \in Kids : /\ actor[Root].state.dirs[e] \in stored
                         /\ actor[Root].state.dirs[e].files \in [Dir -> Nat]
  BY <1>1, <1>2, FlatEntries
<1>5. Outcome = {TRUE}
  BY <1>1 DEF Outcome, FlatUse
<1> QED
  BY <1>1, <1>2, <1>3, <1>4, <1>5 DEF Flat

LEMMA LiveLoad ==
    ASSUME Standing, Shapes', Match', NEW d \in Dir, Load(d)
    PROVE  LiveOn
<1>1. /\ Shapes /\ Tree /\ Dirt(actor, box) /\ Clean(actor, rootFile)
      /\ actor[d].life = "loading" /\ rootFile' = rootFile /\ ActorStep(d)
  BY DEF Standing, Live, Load, ActorStep
<1>2. IsRoot(d) \/ actor[d].state \in stored
  <2>1. CASE d = Root
    BY <1>1, <2>1, OnlyRoot
  <2>2. CASE d # Root
    <3>1. d \in Kids
      BY <1>1, <2>2, RootKnown
    <3>2. ~actor[d].dirty
      BY <1>1 DEF Dirt, OwnQuiet
    <3>3. actor[Root].state.dirs[d] = actor[d].state
      BY <1>1, <2>2, <3>2 DEF Clean
    <3> QED
      BY <3>1, <3>3, RootKnown
  <2> QED
    BY <2>1, <2>2
<1>3. actor' = [actor EXCEPT ![d].life = "running"] /\ box' = box
  <2>1. PICK ok \in Outcome :
        IF IsRoot(d) \/ (ok /\ actor[d].state \in stored)
        THEN actor' = [actor EXCEPT ![d].life = "running"] /\ box' = box
        ELSE TRUE
    BY DEF Load
  <2>2. ok = TRUE
    BY <2>1, RootKnown
  <2> QED
    BY <1>2, <2>1, <2>2
<1>4. PICK r : r = [actor[d] EXCEPT !.life = "running"]
  OBVIOUS
<1>5. RecordOK(actor[d], Known, Messages)
  BY <1>1 DEF Shapes, ActorsOK
<1>6. r.life = "running" /\ r.task = actor[d].task /\ r.dirty = actor[d].dirty /\ r.dirty \in BOOLEAN
  BY <1>4, <1>5 DEF RecordOK
<1>7. actor' = [actor EXCEPT ![d] = r]
  BY <1>3, <1>4
<1>8. Steady /\ BoxesGo(d) /\ ~Took(d)
  BY <1>1, <1>3, QuietLoad, SameGoes, KeptNotTook DEF Quiet, BoxKept
<1>9. actor[d].task.op = "idle"
  BY <1>1, NotRunning
<1> QED
  BY <1>1, <1>6, <1>7, <1>8, <1>9, LiveOwn

LEMMA LiveTell ==
    ASSUME Standing, Shapes', Match', NEW d \in Dir, Tell(d)
    PROVE  LiveOn
<1>1. /\ Shapes /\ Tree /\ Dirt(actor, box) /\ Plain(actor, box) /\ rootFile' = rootFile
      /\ actor[d].life = "running" /\ actor[d].task.op = "tell" /\ ActorStep(d)
  BY DEF Standing, Tell, ActorStep
<1>2. PICK r : /\ actor' = [actor EXCEPT ![d] = r] /\ RecordOK(r, Known, Messages)
               /\ r.task = Idle /\ r.life = actor[d].life
               /\ actor[d].task.then # "saved" => r.dirty = actor[d].dirty
  BY <1>1, TellDone
<1>3. r.dirty = actor[d].dirty /\ r.dirty \in BOOLEAN /\ r.task.op = "idle"
  BY <1>1, <1>2 DEF Dirt, OwnQuiet, RecordOK, Idle
<1>4. PICK m : m = actor[d].task.msg
  OBVIOUS
<1>5. m.op = "mark_as_dirty"
  BY <1>1, <1>4 DEF Plain, PlainRecord
<1>6. box' = [box EXCEPT ![actor[d].up] = Append(@, m)]
  BY <1>4 DEF Tell
<1>7. \A f \in Dir : box'[f] = box[f] \/ box'[f] = Append(box[f], m)
  BY <1>1, <1>6 DEF Shapes
<1>8. \A f \in Dir : BoxKept(f)
  BY <1>5, <1>7 DEF BoxKept
<1>9. BoxesGo(d) /\ ~Took(d) /\ Steady
  BY <1>1, <1>8, KeptNotTook, QuietTell DEF BoxesGo, Quiet
<1> QED
  BY <1>1, <1>2, <1>3, <1>9, LiveOwn

\* A directory takes a message that is no put and marks itself dirty.
LEMMA LiveMark ==
    ASSUME Standing, Shapes', Match', NEW d \in Dir, ActorStep(d), NEW ops, Receives(d, ops),
           NEW q, Changed(d, q), actor' = [actor EXCEPT ![d] = MarkAsDirty(d, q, None)],
           box' = Take(d), Steady, rootFile' = rootFile, ~Put(Head(box[d]))
    PROVE  LiveOn
<1>1. Shapes
  BY DEF Standing
<1>2. actor[d].life = "running" /\ actor[d].task = Idle /\ box[d] # <<>>
  BY <1>1, Taking
<1>3. PICK r : r = MarkAsDirty(d, q, None)
  OBVIOUS
<1>4. Marked(d, q, r, None)
  BY <1>1, <1>2, <1>3, ChangedMarks DEF Senders
<1>5. r.life = "running" /\ r.dirty = TRUE /\ r.task.op \in {"idle", "tell"}
  BY <1>2, <1>4 DEF Marked, Changed, OnlyState, Telling, Idle
<1>6. BoxesGo(d)
  BY <1>1, <1>2, TakeGoes
<1>7. /\ r.life # "stopped" /\ r.task.op # "shutdown" /\ r.dirty \in BOOLEAN
      /\ r.dirty /\ r.task.op # "save"
  BY <1>5
<1> QED
  BY <1>3, <1>6, <1>7, LiveOwn

LEMMA LiveChildIsDirty ==
    ASSUME Standing, Shapes', Match', NEW d \in Dir, ChildIsDirty(d)
    PROVE  LiveOn
<1>1. Shapes /\ Tree /\ ActorStep(d)
  BY DEF Standing, ActorStep
<1>2. Receives(d, {"mark_as_dirty"}) /\ box' = Take(d) /\ rootFile' = rootFile
  BY DEF ChildIsDirty
<1>3. ~Put(Head(box[d]))
  BY <1>1, <1>2, Taking DEF Put
<1>4. Steady
  BY <1>1, QuietChildIsDirty DEF Quiet
<1>5. PICK q : Changed(d, q) /\ actor' = [actor EXCEPT ![d] = MarkAsDirty(d, q, None)]
  BY <1>1, ChildIsDirtyMarks
<1> QED
  BY <1>1, <1>2, <1>3, <1>4, <1>5, LiveMark

LEMMA LiveFileGet ==
    ASSUME Standing, Shapes', Match', NEW d \in Dir, FileOp(d), Head(box[d]).op = "file_get"
    PROVE  LiveOn
<1>1. Shapes /\ Tree /\ ActorStep(d)
  BY DEF Standing, ActorStep
<1>2. /\ Receives(d, {"file_put", "file_put_sync", "file_get"}) /\ box' = Take(d)
      /\ rootFile' = rootFile
  BY DEF FileOp
<1>3. ~Put(Head(box[d]))
  BY DEF Put
<1>4. Steady
  BY <1>1, FileOpFiles DEF Quiet
<1>5. PICK q : Changed(d, q) /\ actor' = [actor EXCEPT ![d] = MarkAsDirty(d, q, None)]
  BY <1>1, FileOpMarks
<1> QED
  BY <1>1, <1>2, <1>3, <1>4, <1>5, LiveMark

-----------------------------------------------------------------------------
\* A put that arrives is what clients see from then on, and no older one.
LEMMA PutSeen ==
    ASSUME Shapes, Shapes', Tree, Order, NEW d \in Dir, FileOp(d), Put(Head(box[d])),
           NEW x, x = Head(box[d]).dir, NEW n, n = Head(box[d]).arg
    PROVE  /\ x \in Dir /\ n \in Nat /\ Filed(d, x, n)
           /\ Visible(x)' = n /\ Visible(x) = actor[d].state.files[x]
           /\ \A y \in Dir : y # x => Visible(y)' = Visible(y)
           /\ actor[d].state.files \in [Dir -> Nat] /\ actor[d].state.files[x] <= n
           /\ actor'[d].state.files = [actor[d].state.files EXCEPT ![x] = n]
           /\ actor'[d].state.dirs = actor[d].state.dirs
<1>1. PICK m : m = Head(box[d])
  OBVIOUS
<1>2. Receives(d, {"file_put", "file_put_sync", "file_get"}) /\ IsLocal(d)
  BY DEF FileOp
<1>3. /\ box[d] # <<>> /\ box[d] \in Seq(Messages) /\ actor[d].life = "running"
      /\ actor[d].state # NoHash /\ m \in Messages /\ Snap(actor[d].state, Known)
  BY <1>1, <1>2, Receiving DEF Receives, Shapes
<1>4. /\ InPuts(box[d], m.dir, m.arg)
      /\ \A f \in Dir : Ordered(box[f]) /\ RoutedAt(actor, box[f], f, next)
  BY <1>1, <1>3, HeadFirst DEF Order, OrderIn
<1>6. x \in Dir /\ d \in Up[x] /\ n \in Nat
  BY <1>1, <1>4 DEF RoutedAt
<1>7. Filed(d, x, n)
  BY <1>1, FileOpFiles DEF Put
<1>8. \A y \in Up[x] : y # Root /\ Parent[y] = d => y \notin DOMAIN actor[d].state.dirs
  <2> SUFFICES ASSUME NEW y \in Up[x], y # Root, Parent[y] = d
               PROVE  y \notin DOMAIN actor[d].state.dirs
    OBVIOUS
  <2>1. y \in Dir /\ Up[y] \subseteq Up[x]
    BY <1>6, UpTrans
  <2>2. d # x
    <3>1. y \notin Up[Parent[y]]
      BY <2>1, NoLoops
    <3> QED
      BY <3>1
  <2>3. Above(d, m.dir)
    BY <1>1, <1>6, <2>2 DEF Above
  <2>4. PICK c : c = FirstOf(d, m)
    OBVIOUS
  <2>5. c \in Up[x] /\ c # Root /\ Parent[c] = d
    BY <1>1, <1>6, <2>3, <2>4, FirstFacts
  <2>6. c = y
    BY <1>6, <2>5, OneWayDown
  <2> QED
    BY <1>1, <1>2, <2>4, <2>6 DEF IsLocal
<1>9. /\ Visible(x)' = n /\ Visible(x) = actor[d].state.files[x]
      /\ \A y \in Dir : y # x => Visible(y)' = Visible(y)
  BY <1>3, <1>6, <1>7, <1>8, VisibleFiled
<1>10. actor[d].state.files \in [Dir -> Nat] /\ actor[d].state.files[x] <= n
  <2>1. Behind(actor[d].state, box, next)
    BY DEF Order, OrderIn, Pool
  <2> QED
    BY <1>1, <1>3, <1>4, <1>6, <2>1 DEF Behind
<1>11. /\ actor'[d].state.files = [actor[d].state.files EXCEPT ![x] = n]
       /\ actor'[d].state.dirs = actor[d].state.dirs
  BY <1>3, <1>6, <1>7, <1>10, FiledState DEF Filed
<1> QED
  BY <1>6, <1>7, <1>9, <1>10, <1>11

LEMMA LiveFilePut ==
    ASSUME Standing, Shapes', Match', NEW d \in Dir, FileOp(d), Put(Head(box[d]))
    PROVE  LiveOn
<1>1. /\ Shapes /\ Tree /\ Order /\ NoneEnds(actor, box) /\ Clean(actor, rootFile) /\ Root \in Dir
      /\ ActorStep(d)
  BY TreeAssumption DEF Standing, Live, ActorStep
<1>2. PICK x, n : x = Head(box[d]).dir /\ n = Head(box[d]).arg
  OBVIOUS
<1>3. /\ x \in Dir /\ n \in Nat /\ Filed(d, x, n)
      /\ Visible(x)' = n /\ Visible(x) = actor[d].state.files[x]
      /\ \A y \in Dir : y # x => Visible(y)' = Visible(y)
      /\ actor[d].state.files \in [Dir -> Nat] /\ actor[d].state.files[x] <= n
      /\ actor'[d].state.files = [actor[d].state.files EXCEPT ![x] = n]
      /\ actor'[d].state.dirs = actor[d].state.dirs
  BY <1>1, <1>2, PutSeen
<1>4. /\ Receives(d, {"file_put", "file_put_sync", "file_get"}) /\ box' = Take(d)
      /\ rootFile' = rootFile
  BY DEF FileOp
<1>5. actor[d].life = "running" /\ actor[d].task = Idle /\ box[d] # <<>>
  BY <1>1, <1>4, Taking
<1>6. PICK q : Changed(d, q) /\ actor' = [actor EXCEPT ![d] = MarkAsDirty(d, q, None)]
  BY <1>1, FileOpMarks
<1>7. actor'[d].life = "running" /\ actor'[d].dirty = TRUE /\ actor'[d].task.op \in {"idle", "tell"}
  <2>1. Marked(d, q, actor'[d], None)
    <3>1. actor'[d] = MarkAsDirty(d, q, None)
      BY <1>1, <1>6 DEF Shapes, ActorsOK
    <3> QED
      BY <1>1, <1>5, <1>6, <3>1, ChangedMarks DEF Senders
  <2> QED
    BY <1>5, <1>6, <2>1 DEF Marked, Changed, OnlyState, Telling, Idle
<1>8. \A f \in Dir : f # d => actor'[f] = actor[f]
  BY <1>3 DEF Filed
<1>9. BoxesGo(d)
  BY <1>1, <1>4, <1>5, TakeGoes
<1>10. \A f \in Dir : Runner(f, actor'[f])
  BY <1>1, <1>7, <1>8 DEF NoneEnds, Runner
<1>11. Clean(actor', rootFile')
  <2>1. actor'[Root].state.dirs = actor[Root].state.dirs
    BY <1>1, <1>3, <1>8
  <2> QED
    BY <1>1, <1>4, <1>7, <1>8, <2>1 DEF Clean
<1>12. \A y \in Dir : Seen[y] = Visible(y) /\ Seen'[y] = Visible(y)' /\ Seen[y] \in Nat
  BY <1>1, SeenIsPut
<1>13. Rising
  <2> SUFFICES ASSUME NEW y \in Dir PROVE Seen'[y] \in Nat /\ Seen'[y] >= Seen[y]
    BY DEF Rising
  <2>1. CASE y = x
    <3>1. PICK k : k = actor[d].state.files[x]
      OBVIOUS
    <3>2. k \in Nat /\ k <= n /\ Seen[y] = k /\ Seen'[y] = n /\ n \in Nat
      BY <1>3, <1>12, <2>1, <3>1
    <3> QED
      BY <3>2
  <2>2. CASE y # x
    <3>1. PICK k : k = Seen[y]
      OBVIOUS
    <3>2. k \in Nat /\ Seen'[y] = k
      BY <1>3, <1>12, <2>2, <3>1
    <3> QED
      BY <3>1, <3>2
  <2> QED
    BY <2>1, <2>2
<1>14. \A y \in Dir : \A k \in Nat : PutOf(Head(box[d]), y, k) => y = x /\ n >= k
  BY <1>2 DEF PutOf
<1>15. Lands(d)
  BY <1>3, <1>12, <1>14 DEF Lands
<1>16. SaveGoesOn
  <2> SUFFICES ASSUME Asking(actor'[Root].task)
               PROVE  /\ Asking(actor[Root].task) /\ actor'[Root].task.from = actor[Root].task.from
                      /\ \A y \in Dir : \A k \in Nat : Due(actor, box, y, k) => Due(actor', box', y, k)
    BY DEF SaveGoesOn
  <2>1. d # Root /\ actor'[Root] = actor[Root]
    BY <1>1, <1>7, <1>8 DEF Asking
  <2>2. ASSUME NEW y \in Dir, NEW k \in Nat, NEW e \in Up[y] \cap Kids,
               PendingAt(actor[Root].task, actor[e], box[e], e, y, k)
        PROVE  PendingAt(actor'[Root].task, actor'[e], box'[e], e, y, k)
    <3>1. e \in Dir
      BY <1>1, KidsFacts
    <3>2. actor[e].state.files[y] >= k => actor'[e].state.files[y] >= k
      <4>1. CASE e # d
        BY <1>8, <3>1, <4>1
      <4>2. CASE e = d /\ y # x
        BY <1>3, <4>2
      <4>3. CASE e = d /\ y = x
        <5>1. PICK j : j = actor[d].state.files[x]
          OBVIOUS
        <5>2. j \in Nat /\ j <= n /\ actor'[d].state.files[x] = n
          BY <1>3, <5>1
        <5> QED
          BY <1>3, <4>3, <5>1, <5>2
      <4> QED
        BY <4>1, <4>2, <4>3
    <3>3. e = d /\ Took(d) /\ PutOf(Head(box[d]), y, k) => actor'[e].state.files[y] >= k
      BY <1>3, <1>14
    <3> QED
      BY <1>1, <1>9, <2>1, <2>2, <3>1, <3>2, <3>3, PendingKept
  <2> QED
    BY <2>1, <2>2 DEF Due
<1> QED
  BY <1>1, <1>9, <1>10, <1>11, <1>13, <1>15, <1>16, SavingOn, LiveStep

LEMMA LiveForward ==
    ASSUME Standing, Shapes', Match', NEW d \in Dir, Forward(d)
    PROVE  LiveOn
<1>1. /\ Shapes /\ Tree /\ Order /\ NoneEnds(actor, box) /\ Clean(actor, rootFile) /\ Root \in Dir
      /\ Flat(actor, rootFile) /\ ActorStep(d) /\ rootFile' = rootFile
  BY TreeAssumption DEF Standing, Live, ActorStep, Forward
<1>2. PICK m : m = Head(box[d])
  OBVIOUS
<1>3. /\ Receives(d, PathOps) /\ actor[d].life = "running" /\ actor[d].task = Idle
      /\ box[d] # <<>> /\ m.op \in PathOps /\ m \in Messages
  BY <1>1, <1>2, Taking DEF Forward
<1>4. PICK e : e = FirstOf(d, m)
  OBVIOUS
<1>5. e \in DOMAIN actor[d].state.dirs
  BY <1>2, <1>4 DEF Forward
<1>6. d = Root /\ e \in Kids /\ e \in Dir /\ e # Root /\ Parent[e] = Root
  <2>1. d = Root
    BY <1>1, <1>3, <1>5 DEF Flat, Leaf
  <2> QED
    BY <1>1, <1>5, <2>1, KidsFacts DEF Flat, Top
<1>7. actor[e].life # "stopped"
  BY <1>1, <1>6 DEF NoneEnds
<1>8. /\ box' = [Take(d) EXCEPT ![e] = Append(@, m)]
      /\ actor' = IF actor[e].life # "none" THEN actor
                  ELSE [actor EXCEPT ![e] =
                          Spawn("loading", d, actor[d].state.dirs[e], actor[d].auto)]
  BY <1>2, <1>4, <1>7 DEF Forward
<1>9. /\ box'[Root] = Tail(box[Root]) /\ box'[e] = Append(box[e], m)
      /\ \A f \in Dir : f # Root /\ f # e => box'[f] = box[f]
  <2>1. box \in [Dir -> Seq(Messages)]
    BY <1>1 DEF Shapes
  <2> QED
    BY <1>1, <1>6, <1>8, <2>1 DEF Take
<1>10. \/ actor' = actor /\ actor[e].life # "none"
       \/ /\ actor[e].life = "none"
          /\ actor'[e].state = actor[Root].state.dirs[e] /\ actor'[e].life = "loading"
          /\ actor'[e].task = Idle
          /\ \A f \in Dir : f # e => actor'[f] = actor[f]
  <2>1. CASE actor[e].life # "none"
    BY <1>8, <2>1
  <2>2. CASE actor[e].life = "none"
    <3>1. PICK r : r = Spawn("loading", d, actor[d].state.dirs[e], actor[d].auto)
      OBVIOUS
    <3>2. r.state = actor[Root].state.dirs[e] /\ r.life = "loading" /\ r.task = Idle
      BY <1>6, <3>1 DEF Spawn
    <3>3. actor'[e] = r /\ \A f \in Dir : f # e => actor'[f] = actor[f]
      BY <1>1, <1>6, <1>8, <2>2, <3>1 DEF Shapes, ActorsOK
    <3> QED
      BY <2>2, <3>2, <3>3
  <2> QED
    BY <2>1, <2>2
<1>11. Opened(Root, e)
  BY <1>10 DEF Opened
<1>12. m.op # "shutdown" /\ m.op # "save"
  BY <1>3 DEF PathOps
<1>13. BoxesGo(Root) /\ Took(Root)
  BY <1>3, <1>6, <1>9, <1>12 DEF BoxesGo, Took, BoxKept
<1>14. \A f \in Dir : Runner(f, actor'[f])
  BY <1>1, <1>10, <1>6 DEF NoneEnds, Runner, Idle
<1>15. Clean(actor', rootFile')
  BY <1>1, <1>6, <1>10 DEF Clean
<1>16. actor[Root].life # "none" /\ e # d
  BY <1>3, <1>6
<1>17. \A y \in Dir : Seen'[y] = Seen[y] /\ Seen[y] \in Nat
  BY <1>1, <1>6, <1>11, <1>16, SeenIsPut, VisibleOpened
<1>18. Rising
  BY <1>17 DEF Rising
<1>19. Lands(Root)
  <2> SUFFICES ASSUME NEW x \in Dir, NEW n \in Nat, PutOf(m, x, n)
               PROVE  Elsewhere(box', x, n)
    BY <1>2, <1>6 DEF Lands
  <2>1. box[e] \in Seq(Messages)
    BY <1>1, <1>6 DEF Shapes
  <2>2. PutIn(box'[e], x, n)
    BY <1>9, <2>1, AheadAppend
  <2> QED
    BY <1>6, <2>2 DEF Elsewhere
<1>20. SaveGoesOn
  <2>1. actor'[Root].task.op = "idle"
    BY <1>1, <1>3, <1>6, <1>10 DEF Idle
  <2> QED
    BY <2>1 DEF SaveGoesOn, Asking
<1> QED
  BY <1>1, <1>6, <1>13, <1>14, <1>15, <1>18, <1>19, <1>20, SavingOn, LiveStep

-----------------------------------------------------------------------------
\* The root begins a save: what was held when it was called is noted or at a child.
LEMMA HeldIsDue ==
    ASSUME Standing, actor[Root].task = Idle, box[Root] # <<>>, Asking(Head(box[Root])),
           NEW x \in Dir, NEW n, n = client[Head(box[Root]).from].need[x],
           NEW t, t.todo = Handles(Root),
           NEW acts, \A f \in Dir \ {Root} : acts[f] = actor[f], acts[Root].task = t,
           acts[Root].state = actor[Root].state,
           NEW b, \A f \in Dir \ {Root} : b[f] = box[f]
    PROVE  Due(acts, b, x, n)
<1>1. /\ Shapes /\ Tree /\ Order /\ WithoutCreate /\ Flat(actor, rootFile) /\ Grow(actor, rootFile)
      /\ Called(box, client, Seen) /\ Root \in Dir
      /\ Kids \subseteq Dir \ {Root} /\ \A e \in Kids : Parent[e] = Root
  BY RootKnown DEF Standing, Live
<1>2. box[Root] \in Seq(Messages)
  BY <1>1 DEF Shapes
<1>3. 1 \in DOMAIN box[Root] /\ box[Root][1] = Head(box[Root]) /\ ~PutBefore(box[Root], 1, x, n)
  BY <1>2, AheadTail
<1>4. Held(box, 1, x, Seen, n)
  BY <1>1, <1>3 DEF Called
<1>5. \A e \in Kids : actor[e].life # "none" => e \in t.todo
  BY <1>1, HandlesFacts
<1>6. CASE Seen[x] >= n
  <2>1. Visible(x) >= n
    BY <1>1, <1>6, SeenIsPut
  <2>2. CASE Up[x] \cap Kids = {} /\ Visible(x) = actor[Root].state.files[x]
    BY <2>1, <2>2 DEF Due, Noted
  <2>3. ASSUME NEW e \in Up[x] \cap Kids, Visible(x) = actor[Root].state.dirs[e].files[x]
        PROVE  Due(acts, b, x, n)
    BY <2>1, <2>3 DEF Due, Noted
  <2>4. ASSUME NEW e \in Up[x] \cap Kids, actor[e].life # "none",
               Visible(x) = actor[e].state.files[x]
        PROVE  Due(acts, b, x, n)
    <3>1. e \in t.todo /\ acts[e] = actor[e]
      BY <1>1, <1>5, <2>4
    <3>2. PendingAt(t, acts[e], b[e], e, x, n)
      BY <2>1, <2>4, <3>1 DEF PendingAt
    <3> QED
      BY <3>2 DEF Due
  <2> QED
    BY <1>1, <2>2, <2>3, <2>4, FlatVisible
<1>7. CASE Elsewhere(box, x, n)
  <2>1. PICK a \in Dir \ {Root} : PutIn(box[a], x, n)
    BY <1>7 DEF Elsewhere
  <2>2. PICK j \in DOMAIN box[a] : PutOf(box[a][j], x, n)
    BY <2>1 DEF PutIn
  <2>3. InPuts(box[a], x, box[a][j].arg)
    BY <2>2 DEF InPuts, PutOf
  <2>4. a \in Up[x] /\ actor[a].life # "none"
    BY <1>1, <2>3 DEF Order, OrderIn, RoutedAt
  <2>5. a \in Kids /\ a \in t.todo
    BY <1>1, <1>5, <2>4 DEF Flat
  <2>6. PendingAt(t, acts[a], b[a], a, x, n)
    BY <2>1, <2>5 DEF PendingAt
  <2> QED
    BY <2>4, <2>5, <2>6 DEF Due
<1> QED
  BY <1>3, <1>4, <1>6, <1>7 DEF Held

LEMMA LiveSaveStart ==
    ASSUME Standing, Shapes', Match', NEW d \in Dir, SaveIfDirty(d), actor[d].dirty \/ d = Root
    PROVE  LiveOn
<1>1. /\ Shapes /\ Tree /\ Order /\ NoneEnds(actor, box) /\ Clean(actor, rootFile) /\ Root \in Dir
      /\ ActorStep(d) /\ rootFile' = rootFile
  BY TreeAssumption DEF Standing, Live, ActorStep, SaveIfDirty
<1>2. PICK m : m = Head(box[d])
  OBVIOUS
<1>3. /\ Receives(d, {"save"}) /\ actor[d].life = "running" /\ actor[d].task = Idle
      /\ box[d] # <<>> /\ m.op = "save" /\ m \in Messages /\ box' = Take(d)
      /\ box[d] \in Seq(Messages) /\ RecordOK(actor[d], Known, Messages)
  BY <1>1, <1>2, Taking DEF SaveIfDirty
<1>4. actor[d].dirty \/ IsRoot(d)
  BY <1>1, <1>3, OnlyRoot
<1>5. PICK t : t = [op |-> "save", from |-> m.from, todo |-> Handles(d), wait |-> {}]
  OBVIOUS
<1>6. PICK r : r = [actor[d] EXCEPT !.task = t]
  OBVIOUS
<1>7. actor' = [actor EXCEPT ![d] = r] /\ client' = client
  BY <1>2, <1>4, <1>5, <1>6 DEF SaveIfDirty, NoAnswer
<1>8. r.life = "running" /\ r.task = t /\ r.dirty = actor[d].dirty /\ r.state = actor[d].state
      /\ r.dirty \in BOOLEAN
  BY <1>3, <1>6 DEF RecordOK
<1>9. Steady
  BY <1>1, QuietSaveIfDirty DEF Quiet
<1>10. ~Put(Head(box[d])) /\ BoxesGo(d) /\ \A f \in Dir : f # d => box'[f] = box[f]
  BY <1>1, <1>2, <1>3, TakeGoes DEF Put
<1>11. CASE d # Root
  <2>1. Inner(box[d])
    BY <1>1, <1>11 DEF NoneEnds
  <2>2. 1 \in DOMAIN box[d] /\ box[d][1] = m
    BY <1>2, <1>3
  <2>3. m.from \in Dir
    BY <1>3, <2>1, <2>2 DEF Inner
  <2>4. r.task.op # "shutdown" /\ r.task.from \in Dir
    BY <1>5, <1>8, <2>3
  <2> QED
    BY <1>1, <1>7, <1>8, <1>9, <1>10, <1>11, <2>4, LiveOwn
<1>12. CASE d = Root
  <2>1. actor'[Root] = r /\ \A f \in Dir : f # Root => actor'[f] = actor[f]
    BY <1>1, <1>7, <1>12 DEF Shapes, ActorsOK
  <2>2. \A f \in Dir : Runner(f, actor'[f])
    BY <1>1, <1>5, <1>8, <2>1 DEF NoneEnds, Runner
  <2>3. Clean(actor', rootFile')
    BY <1>1, <1>8, <1>12, <2>1 DEF Clean
  <2>4. \A x \in Dir : Seen'[x] = Seen[x] /\ Seen[x] \in Nat
    BY <1>1, <1>9, SeenIsPut, VisibleSteady
  <2>5. Rising
    BY <2>4 DEF Rising
  <2>6. Lands(d)
    BY <1>10 DEF Lands, PutOf
  <2>7. Saving(actor', box', client')
    <3> SUFFICES ASSUME Asking(actor'[Root].task), NEW x \in Dir
                 PROVE  Due(actor', box', x, client'[actor'[Root].task.from].need[x])
      BY DEF Saving
    <3>1. Asking(Head(box[Root])) /\ actor'[Root].task.from = Head(box[Root]).from
      BY <1>2, <1>3, <1>5, <1>8, <1>12, <2>1 DEF Asking
    <3>2. PICK n : n = client[Head(box[Root]).from].need[x]
      OBVIOUS
    <3>3. /\ t.todo = Handles(Root) /\ actor'[Root].task = t /\ actor'[Root].state = actor[Root].state
          /\ \A f \in Dir \ {Root} : actor'[f] = actor[f] /\ box'[f] = box[f]
      BY <1>5, <1>8, <1>10, <1>12, <2>1
    <3>4. Due(actor', box', x, n)
      BY <1>3, <1>12, <3>1, <3>2, <3>3, HeldIsDue
    <3> QED
      BY <1>7, <3>1, <3>2, <3>4
  <2> QED
    BY <1>1, <1>10, <2>2, <2>3, <2>5, <2>6, <2>7, LiveStep
<1> QED
  BY <1>11, <1>12

\* A child that has nothing to save answers at once: what it has is in the root.
LEMMA LiveSaveSkip ==
    ASSUME Standing, Shapes', Match', NEW d \in Dir, SaveIfDirty(d), ~actor[d].dirty, d # Root
    PROVE  LiveOn
<1>1. /\ Shapes /\ Tree /\ Order /\ Asked /\ Dirt(actor, box)
      /\ NoneEnds(actor, box) /\ Clean(actor, rootFile) /\ Root \in Dir
      /\ ActorStep(d) /\ rootFile' = rootFile
  BY TreeAssumption DEF Standing, Live, ActorStep, SaveIfDirty
<1>2. PICK m : m = Head(box[d])
  OBVIOUS
<1>3. /\ Receives(d, {"save"}) /\ actor[d].life = "running" /\ actor[d].task = Idle
      /\ box[d] # <<>> /\ m.op = "save" /\ m \in Messages /\ box' = Take(d)
      /\ box[d] \in Seq(Messages) /\ RecordOK(actor[d], Known, Messages)
  BY <1>1, <1>2, Taking DEF SaveIfDirty
<1>4. ~(actor[d].dirty \/ IsRoot(d)) /\ d \in Kids /\ Parent[d] = Root
  BY <1>1, <1>3, OnlyRoot, RootKnown
<1>5. 1 \in DOMAIN box[d] /\ box[d][1] = m
  BY <1>2, <1>3
<1>6. Inner(box[d])
  BY <1>1 DEF NoneEnds
<1>7. Request(m) /\ Request(box[d][1])
  BY <1>3, <1>5, <1>6 DEF Inner, Request
<1>8. /\ OneRequest(box[d]) /\ m.from = Root /\ InSave(actor, d)
  BY <1>1, <1>4, <1>5, <1>7 DEF Asked, AskedAt, FromParent, Requested
<1>9. actor[Root].task.op = "save" /\ d \in actor[Root].task.wait /\ d \notin actor[Root].task.todo
  BY <1>4, <1>8 DEF InSave
<1>10. actor' = ToParent(actor, Root, d, NoHash) /\ client' = client
  <2>1. Arm(actor[d]) = actor[d]
    BY <1>1, ArmQuiet DEF Dirt, OwnQuiet
  <2>2. actor' = ToParent([actor EXCEPT ![d] = Arm(@)], m.from, d, NoHash) /\ client' = client
    BY <1>2, <1>4 DEF SaveIfDirty, NoAnswer
  <2>3. [actor EXCEPT ![d] = Arm(@)] = actor
    BY <1>1, <2>1 DEF Shapes, ActorsOK
  <2> QED
    BY <1>8, <2>2, <2>3
<1>11. ActorsOK(actor, Known, Messages)
  BY <1>1 DEF Shapes
<1>12. AnswerTo(actor, actor', Root, d, NoHash)
  BY <1>10, <1>11, ToParentFacts
<1>13. LessWait(actor[Root].task, actor'[Root].task, d)
  BY <1>1, <1>10, <1>11, TasksToParent
<1>14. /\ \A f \in Dir : f # Root => actor'[f] = actor[f]
       /\ actor'[Root].life = actor[Root].life /\ actor'[Root].dirty = actor[Root].dirty
       /\ actor'[Root].state = actor[Root].state /\ actor'[Root].task.op = "save"
       /\ actor'[Root].task.from = actor[Root].task.from
       /\ actor'[Root].task.todo = actor[Root].task.todo
       /\ actor[Root].task.wait \ {d} \subseteq actor'[Root].task.wait
  BY <1>1, <1>9, <1>12, <1>13 DEF AnswerTo, LessWait
<1>15. Steady
  BY <1>1, QuietSaveIfDirty DEF Quiet
<1>16. ~Put(Head(box[d])) /\ BoxesGo(d) /\ \A f \in Dir : f # d => box'[f] = box[f]
  BY <1>1, <1>2, <1>3, TakeGoes DEF Put
<1>17. \A f \in Dir : Runner(f, actor'[f])
  BY <1>1, <1>14 DEF NoneEnds, Runner
<1>18. Clean(actor', rootFile')
  BY <1>1, <1>14 DEF Clean
<1>19. \A x \in Dir : Seen'[x] = Seen[x] /\ Seen[x] \in Nat
  BY <1>1, <1>15, SeenIsPut, VisibleSteady
<1>20. Rising
  BY <1>19 DEF Rising
<1>21. Lands(d)
  BY <1>16 DEF Lands, PutOf
<1>22. ASSUME NEW x \in Dir, NEW n \in Nat, Due(actor, box, x, n) PROVE Due(actor', box', x, n)
  <2>1. CASE Noted(actor[Root].state, x, n)
    BY <1>14, <2>1 DEF Due
  <2>2. ASSUME NEW e \in Up[x] \cap Kids, PendingAt(actor[Root].task, actor[e], box[e], e, x, n)
        PROVE  Due(actor', box', x, n)
    <3>1. e \in Dir /\ e # Root
      BY RootKnown
    <3>2. CASE e # d
      <4>1. actor'[e] = actor[e] /\ box'[e] = box[e]
        BY <1>14, <1>16, <3>1, <3>2
      <4>2. PendingAt(actor'[Root].task, actor'[e], box'[e], e, x, n)
        BY <1>14, <2>2, <3>2, <4>1 DEF PendingAt
      <4> QED
        BY <4>2 DEF Due
    <3>3. CASE e = d
      <4>1. ~PutAhead(box[d], x, n)
        BY <1>2, <1>3, <1>7, <1>8, AheadTail
      <4>2. actor[d].state.files[x] >= n
        BY <1>9, <2>2, <3>3, <4>1 DEF PendingAt
      <4>3. actor[Root].state.dirs[d] = actor[d].state
        BY <1>1, <1>3 DEF Clean
      <4>4. Noted(actor'[Root].state, x, n)
        BY <1>14, <2>2, <3>3, <4>2, <4>3 DEF Noted
      <4> QED
        BY <4>4 DEF Due
    <3> QED
      BY <3>2, <3>3
  <2> QED
    BY <1>22, <2>1, <2>2 DEF Due
<1>23. SaveGoesOn
  BY <1>9, <1>14, <1>22 DEF SaveGoesOn, Asking
<1> QED
  BY <1>1, <1>16, <1>17, <1>18, <1>20, <1>21, <1>23, SavingOn, LiveStep

LEMMA LiveAskChild ==
    ASSUME Standing, Shapes', Match', NEW d \in Dir, NEW e \in Dir, AskChild(d, e)
    PROVE  LiveOn
<1>1. /\ Shapes /\ Tree /\ Order /\ Asked
      /\ NoneEnds(actor, box) /\ Clean(actor, rootFile) /\ Root \in Dir
      /\ ActorStep(d) /\ rootFile' = rootFile
  BY TreeAssumption DEF Standing, Live, ActorStep, AskChild
<1>2. PICK t : t = actor[d].task
  OBVIOUS
<1>3. PICK r : /\ actor' = [actor EXCEPT ![d] = r]
               /\ r.life = actor[d].life /\ r.dirty = actor[d].dirty
               /\ r.task.op = t.op /\ r.task.from = t.from /\ r.task.todo = t.todo \ {e}
               /\ \/ box' = box /\ actor[e].life = "stopped" /\ r.task.wait = t.wait
                  \/ /\ box' = [box EXCEPT ![e] = Append(@, Msg(t.op, e, 0, d))]
                     /\ r.task.wait = t.wait \cup {e}
  BY <1>1, <1>2, AskChildFacts
<1>4. t.op = "save" /\ e \in t.todo
  BY <1>1, <1>2, AskChildFacts DEF NoneEnds
<1>5. PICK m : m = Msg(t.op, e, 0, d)
  OBVIOUS
<1>6. m.op = "save" /\ m.from = d /\ Request(m)
  BY <1>4, <1>5 DEF Msg, Request
<1>7. box' = [box EXCEPT ![e] = Append(@, m)] /\ r.task.wait = t.wait \cup {e}
  BY <1>1, <1>3, <1>5 DEF NoneEnds
<1>8. box'[e] = Append(box[e], m) /\ \A f \in Dir : f # e => box'[f] = box[f]
  BY <1>1, <1>7 DEF Shapes
<1>9. \A f \in Dir : BoxKept(f)
  BY <1>6, <1>8 DEF BoxKept
<1>10. BoxesGo(d) /\ ~Took(d) /\ Steady
  BY <1>1, <1>9, KeptNotTook, QuietAskChild DEF BoxesGo, Quiet
<1>11. r.life # "stopped" /\ r.task.op # "shutdown" /\ r.dirty \in BOOLEAN
  BY <1>1, <1>3, <1>4 DEF NoneEnds, Shapes, ActorsOK, RecordOK
<1>12. CASE d # Root
  <2>1. r.task.from \in Dir
    BY <1>1, <1>2, <1>3, <1>4, <1>12 DEF NoneEnds
  <2> QED
    BY <1>1, <1>3, <1>10, <1>11, <1>12, <2>1, LiveOwn
<1>13. CASE d = Root
  <2>1. actor'[Root] = r /\ \A f \in Dir : f # Root => actor'[f] = actor[f]
    BY <1>1, <1>3, <1>13 DEF Shapes, ActorsOK
  <2>2. \A f \in Dir : Runner(f, actor'[f])
    BY <1>1, <1>11, <2>1 DEF NoneEnds, Runner
  <2>3. Clean(actor', rootFile')
    <3>1. \A f \in Dir : actor'[f].dirty = actor[f].dirty
      BY <1>3, <1>13, <2>1
    <3> QED
      BY <1>1, <1>10, <3>1 DEF Clean, Steady
  <2>4. \A x \in Dir : Seen'[x] = Seen[x] /\ Seen[x] \in Nat
    BY <1>1, <1>10, SeenIsPut, VisibleSteady
  <2>5. Rising /\ Lands(d)
    BY <1>10, <2>4 DEF Rising, Lands
  <2>6. ASSUME NEW x \in Dir, NEW n \in Nat, NEW f \in Up[x] \cap Kids,
               PendingAt(actor[Root].task, actor[f], box[f], f, x, n)
        PROVE  PendingAt(actor'[Root].task, actor'[f], box'[f], f, x, n)
    <3>1. f \in Dir /\ f # Root
      BY RootKnown
    <3>2. actor'[f] = actor[f] /\ actor'[Root].task = r.task /\ actor[Root].task = t
      BY <1>2, <1>13, <2>1, <3>1
    <3>3. CASE f # e
      BY <1>3, <1>7, <1>8, <2>6, <3>1, <3>2, <3>3 DEF PendingAt
    <3>4. CASE f = e
      <4>1. box[e] \in Seq(Messages)
        BY <1>1 DEF Shapes
      <4>2. /\ PutIn(box[e], x, n) => PutAhead(box'[e], x, n)
            /\ PutAhead(box[e], x, n) => PutAhead(box'[e], x, n)
        BY <1>6, <1>8, <4>1, AheadAppend
      <4> QED
        BY <1>7, <2>6, <3>2, <3>4, <4>2 DEF PendingAt
    <3> QED
      BY <3>3, <3>4
  <2>7. actor'[Root].state = actor[Root].state
    BY <1>1, <1>10 DEF Steady
  <2>8. \A x \in Dir : \A n \in Nat : Due(actor, box, x, n) => Due(actor', box', x, n)
    BY <2>6, <2>7 DEF Due
  <2>9. SaveGoesOn
    BY <1>2, <1>3, <1>13, <2>1, <2>8 DEF SaveGoesOn, Asking
  <2> QED
    BY <1>1, <1>10, <2>2, <2>3, <2>5, <2>9, SavingOn, LiveStep
<1> QED
  BY <1>12, <1>13

-----------------------------------------------------------------------------
\* The end of a save without errors and without autosave.
LEMMA SavedCalmly ==
    ASSUME Standing, NEW d \in Dir, SaveDone(d)
    PROVE  LET a == [actor[d] EXCEPT !.task = Idle, !.dirty = FALSE] IN
           /\ actor[d].task.op = "save" /\ actor[d].task.todo = {} /\ actor[d].task.wait = {}
           /\ actor[d].life = "running" /\ RecordOK(actor[d], Known, Messages)
           /\ actor[d].state # NoHash
           /\ a.task = Idle /\ a.dirty = FALSE /\ a.life = "running" /\ a.state = actor[d].state
           /\ actor' = ToParent([actor EXCEPT ![d] = a], actor[d].task.from, d,
                                IF actor[d].dirty THEN actor[d].state ELSE NoHash)
           /\ rootFile' = IF actor[d].dirty /\ IsRoot(d) THEN actor[d].state ELSE rootFile
           /\ actor[d].dirty => actor[d].state \in stored'
           /\ box' = box
<1>1. /\ Shapes /\ Tree /\ Dirt(actor, box)
  BY DEF Standing
<1>2. actor[d].task.op = "save" /\ actor[d].task.todo = {} /\ actor[d].task.wait = {} /\ box' = box
  BY DEF SaveDone, ChildrenDone
<1>3. RecordOK(actor[d], Known, Messages) /\ actor[d].state # NoHash
  BY <1>1, <1>2, Busy
<1>4. actor[d].life = "running"
  BY <1>1, <1>2, NotRunning
<1>5. PICK a : a = [actor[d] EXCEPT !.task = Idle, !.dirty = FALSE]
  OBVIOUS
<1>6. a.task = Idle /\ a.dirty = FALSE /\ a.life = "running" /\ a.state = actor[d].state /\ a.auto = FALSE
  BY <1>1, <1>3, <1>4, <1>5 DEF RecordOK, Dirt, OwnQuiet
<1>7. PICK r : r = [actor[d] EXCEPT !.task = Idle]
  OBVIOUS
<1>8. r.dirty = actor[d].dirty /\ r.state = actor[d].state /\ r.dirty \in BOOLEAN
  BY <1>3, <1>7 DEF RecordOK
<1>9. Arm([r EXCEPT !.dirty = FALSE]) = a
  <2>1. [r EXCEPT !.dirty = FALSE] = a
    BY <1>3, <1>5, <1>7 DEF RecordOK
  <2> QED
    BY <1>6, <2>1, ArmQuiet
<1>10. PICK ok \in IF r.dirty THEN Outcome ELSE {TRUE} :
          /\ Persist(d, ok /\ r.dirty)
          /\ actor' = ToParent([actor EXCEPT ![d] = Arm([r EXCEPT !.dirty = @ /\ ~ok])],
                               actor[d].task.from, d, IF ok /\ r.dirty THEN r.state ELSE NoHash)
  BY <1>7 DEF SaveDone
<1>11. ok = TRUE
  BY <1>10, RootKnown
<1>12. [r EXCEPT !.dirty = @ /\ ~ok] = [r EXCEPT !.dirty = FALSE]
  BY <1>11
<1>13. /\ actor' = ToParent([actor EXCEPT ![d] = a], actor[d].task.from, d,
                            IF actor[d].dirty THEN actor[d].state ELSE NoHash)
  BY <1>8, <1>9, <1>10, <1>11, <1>12
<1>14. /\ rootFile' = IF actor[d].dirty /\ IsRoot(d) THEN actor[d].state ELSE rootFile
       /\ actor[d].dirty => actor[d].state \in stored'
  BY <1>8, <1>10, <1>11 DEF Persist
<1> QED
  BY <1>2, <1>3, <1>4, <1>5, <1>6, <1>13, <1>14

\* The root has saved: the file is what the root has.
LEMMA RootSaved ==
    ASSUME Standing, SaveDone(Root)
    PROVE  /\ rootFile' = actor[Root].state /\ actor[Root].task.todo = {} /\ actor[Root].task.wait = {}
           /\ \E r : /\ actor' = [actor EXCEPT ![Root] = r]
                     /\ r.task = Idle /\ r.life = "running" /\ r.state = actor[Root].state
<1>1. Shapes /\ Tree /\ Asked /\ Clean(actor, rootFile) /\ Root \in Dir
  BY TreeAssumption DEF Standing, Live
<1>2. PICK a : a = [actor[Root] EXCEPT !.task = Idle, !.dirty = FALSE]
  OBVIOUS
<1>3. /\ actor[Root].task.op = "save" /\ actor[Root].task.todo = {} /\ actor[Root].task.wait = {}
      /\ actor[Root].life = "running"
      /\ a.task = Idle /\ a.life = "running" /\ a.state = actor[Root].state
      /\ actor' = ToParent([actor EXCEPT ![Root] = a], actor[Root].task.from, Root,
                           IF actor[Root].dirty THEN actor[Root].state ELSE NoHash)
      /\ rootFile' = IF actor[Root].dirty /\ IsRoot(Root) THEN actor[Root].state ELSE rootFile
  BY <1>1, <1>2, SavedCalmly
<1>4. actor[Root].task.from \notin Dir
  BY <1>1, <1>3 DEF Asked, AskedAt, Saves
<1>5. actor' = [actor EXCEPT ![Root] = a]
  BY <1>3, <1>4 DEF ToParent
<1>6. rootFile' = actor[Root].state
  BY <1>1, <1>3, OnlyRoot DEF Clean
<1> QED
  BY <1>3, <1>5, <1>6

LEMMA LiveRootSaved ==
    ASSUME Standing, Shapes', Match', SaveDone(Root)
    PROVE  LiveOn
<1>1. /\ Shapes /\ Tree /\ Order /\ NoneEnds(actor, box) /\ Clean(actor, rootFile) /\ Root \in Dir
      /\ ActorStep(Root) /\ box' = box
  BY TreeAssumption DEF Standing, Live, ActorStep, SaveDone
<1>2. PICK r : /\ actor' = [actor EXCEPT ![Root] = r]
               /\ r.task = Idle /\ r.life = "running" /\ r.state = actor[Root].state
  BY RootSaved
<1>3. rootFile' = actor[Root].state
  BY RootSaved
<1>4. actor'[Root] = r /\ \A f \in Dir : f # Root => actor'[f] = actor[f]
  BY <1>1, <1>2 DEF Shapes, ActorsOK
<1>5. \A f \in Dir : Runner(f, actor'[f])
  BY <1>1, <1>2, <1>4 DEF NoneEnds, Runner, Idle
<1>6. Clean(actor', rootFile')
  BY <1>1, <1>2, <1>3, <1>4 DEF Clean
<1>7. actor[Root].life # "none"
  BY <1>1, OnlyRoot DEF Tree, ActorTree, ActorFits
<1>8. Steady
  BY <1>1, <1>2, <1>4, <1>7 DEF Steady
<1>9. \A x \in Dir : Seen'[x] = Seen[x] /\ Seen[x] \in Nat
  BY <1>1, <1>8, SeenIsPut, VisibleSteady
<1>10. BoxesGo(Root) /\ ~Took(Root)
  BY <1>1, SameGoes, KeptNotTook DEF BoxKept
<1>11. Rising /\ Lands(Root)
  BY <1>9, <1>10 DEF Rising, Lands
<1>12. SaveGoesOn
  BY <1>2, <1>4 DEF SaveGoesOn, Asking, Idle
<1> QED
  BY <1>1, <1>5, <1>6, <1>10, <1>11, <1>12, SavingOn, LiveStep

\* A parent notes the hash of a child.
LEMMA HashNoted ==
    ASSUME NEW acts, NEW S, NEW M, ActorsOK(acts, S, M), NEW p \in Dir, NEW d \in Dir, NEW h \in S,
           h # NoHash, acts[p].state # NoHash, d \in DOMAIN acts[p].state.dirs,
           acts[p].task.op = "save",
           NEW new, new = ToParent(acts, p, d, h)
    PROVE  /\ new[p].state.files = acts[p].state.files
           /\ new[p].state.dirs = [acts[p].state.dirs EXCEPT ![d] = h]
           /\ new[p].dirty = (acts[p].dirty \/ acts[p].state.dirs[d] # h)
           /\ acts[p].state.dirs[d] = h => new[p].state = acts[p].state
<1>1. PICK q, t : q = acts[p] /\ t = [q.task EXCEPT !.wait = @ \ {d}]
  OBVIOUS
<1>2. /\ q = [life |-> q.life, up |-> q.up, state |-> q.state, dirty |-> q.dirty,
              timer |-> q.timer, auto |-> q.auto, task |-> q.task]
      /\ Snap(q.state, S)
  BY <1>1 DEF ActorsOK, RecordOK
<1>3. PICK r : r = [q EXCEPT !.task.wait = @ \ {d}]
  OBVIOUS
<1>4. r.state = q.state /\ r.dirty = q.dirty
  BY <1>2, <1>3
<1>5. PICK s : s = q.state
  OBVIOUS
<1>6. /\ s = [files |-> s.files, dirs |-> s.dirs] /\ d \in DOMAIN s.dirs
      /\ s.dirs \in [DOMAIN s.dirs -> S]
  BY <1>1, <1>2, <1>5 DEF Snap, Snapshot
<1>7. new[p] = [r EXCEPT !.dirty = @ \/ r.state.dirs[d] # h, !.state.dirs[d] = h]
  <2>1. acts = [f \in Dir |-> acts[f]]
    BY DEF ActorsOK
  <2>2. new = [acts EXCEPT ![p] = [r EXCEPT !.dirty = @ \/ r.state.dirs[d] # h, !.state.dirs[d] = h]]
    BY <1>1, <1>3, <1>4 DEF ToParent
  <2> QED
    BY <2>1, <2>2
<1>8. r = [life |-> r.life, up |-> r.up, state |-> r.state, dirty |-> r.dirty,
           timer |-> r.timer, auto |-> r.auto, task |-> r.task]
  BY <1>2, <1>3
<1>9. PICK v : v = [s EXCEPT !.dirs[d] = h]
  OBVIOUS
<1>10. new[p].state = v /\ new[p].dirty = (r.dirty \/ r.state.dirs[d] # h)
  BY <1>4, <1>5, <1>7, <1>8, <1>9
<1>11. v.files = s.files /\ v.dirs = [s.dirs EXCEPT ![d] = h]
       /\ v = [files |-> s.files, dirs |-> [s.dirs EXCEPT ![d] = h]]
  BY <1>6, <1>9
<1>12. s.dirs[d] = h => [s.dirs EXCEPT ![d] = h] = s.dirs
  BY <1>6
<1> QED
  BY <1>1, <1>4, <1>5, <1>6, <1>10, <1>11, <1>12

-----------------------------------------------------------------------------
LEMMA KidSaved ==
    ASSUME Standing, NEW d \in Dir, d # Root, SaveDone(d)
    PROVE  /\ d \in Kids /\ actor[Root].task.op = "save" /\ d \notin actor[Root].task.todo
           /\ ~Requested(box[d]) /\ rootFile' = rootFile /\ box' = box /\ actor[d].life = "running"
           /\ actor'[d].task = Idle /\ actor'[d].life = "running" /\ actor'[d].state = actor[d].state
           /\ \A f \in Dir : f # d /\ f # Root => actor'[f] = actor[f]
           /\ actor'[Root].life = actor[Root].life
           /\ actor'[Root].task.op = "save" /\ actor'[Root].task.from = actor[Root].task.from
           /\ actor'[Root].task.todo = actor[Root].task.todo
           /\ actor[Root].task.wait \ {d} \subseteq actor'[Root].task.wait
           /\ actor'[Root].state.files = actor[Root].state.files
           /\ actor'[Root].state.dirs = [actor[Root].state.dirs EXCEPT ![d] = actor[d].state]
           /\ actor'[Root].dirty = (actor[Root].dirty \/ actor[Root].state.dirs[d] # actor[d].state)
           /\ actor[Root].state.dirs[d] = actor[d].state => actor'[Root].state = actor[Root].state
<1>1. /\ Shapes /\ Tree /\ Asked /\ Dirt(actor, box) /\ NoneEnds(actor, box) /\ Root \in Dir
      /\ actor[Root].state # NoHash /\ Top(actor[Root].state)
  BY RootKnown DEF Standing, Live
<1>2. PICK a : a = [actor[d] EXCEPT !.task = Idle, !.dirty = FALSE]
  OBVIOUS
<1>3. /\ actor[d].task.op = "save" /\ actor[d].life = "running"
      /\ RecordOK(actor[d], Known, Messages) /\ actor[d].state # NoHash
      /\ a.task = Idle /\ a.dirty = FALSE /\ a.life = "running" /\ a.state = actor[d].state
      /\ actor' = ToParent([actor EXCEPT ![d] = a], actor[d].task.from, d,
                           IF actor[d].dirty THEN actor[d].state ELSE NoHash)
      /\ rootFile' = IF actor[d].dirty /\ IsRoot(d) THEN actor[d].state ELSE rootFile
      /\ actor[d].dirty => actor[d].state \in stored'
      /\ box' = box
  BY <1>2, SavedCalmly
<1>4. actor[d].dirty
  BY <1>1, <1>3 DEF Dirt, OwnQuiet
<1>5. d \in Kids /\ Parent[d] = Root /\ ~IsRoot(d)
  BY <1>1, <1>3, RootKnown, OnlyRoot
<1>6. Saves(actor[d])
  BY <1>1, <1>3 DEF NoneEnds, Saves
<1>7. actor[d].task.from = Root /\ InSave(actor, d) /\ ~Requested(box[d])
  BY <1>1, <1>5, <1>6 DEF Asked, AskedAt
<1>8. actor[Root].task.op = "save" /\ d \notin actor[Root].task.todo
  BY <1>5, <1>7 DEF InSave
<1>9. PICK h : h = actor[d].state
  OBVIOUS
<1>10. PICK acts : acts = [actor EXCEPT ![d] = a]
  OBVIOUS
<1>11. actor' = ToParent(acts, Root, d, h)
  BY <1>3, <1>4, <1>7, <1>9, <1>10
<1>12. acts[d] = a /\ \A f \in Dir : f # d => acts[f] = actor[f]
  BY <1>1, <1>10 DEF Shapes, ActorsOK
<1>13. h \in Known' /\ h # NoHash
  BY <1>3, <1>4, <1>9 DEF Known
<1>14. ActorsOK(acts, Known', Messages')
  <2>1. ActorsOK(actor, Known', Messages')
    BY <1>1, SaveDoneFacts
  <2>2. RecordOK(actor[d], Known', Messages')
    BY <2>1 DEF ActorsOK
  <2>3. PICK r : r = [actor[d] EXCEPT !.task = Idle]
    OBVIOUS
  <2>4. RecordOK(r, Known', Messages')
    BY <2>2, <2>3, IdleOK
  <2>5. RecordOK([r EXCEPT !.dirty = FALSE], Known', Messages')
    BY <2>4, DirtyOK
  <2>6. [r EXCEPT !.dirty = FALSE] = a
    BY <1>2, <2>2, <2>3 DEF RecordOK
  <2> QED
    BY <1>10, <2>1, <2>5, <2>6, ReplaceOK
<1>15. AnswerTo(acts, actor', Root, d, h)
  BY <1>11, <1>13, <1>14, ToParentFacts
<1>16. LessWait(acts[Root].task, actor'[Root].task, d)
  BY <1>1, <1>11, <1>13, <1>14, TasksToParent
<1>17. acts[Root] = actor[Root]
  BY <1>1, <1>12
<1>18. d \in DOMAIN actor[Root].state.dirs
  BY <1>1, <1>5 DEF Top
<1>19. /\ actor'[Root].state.files = actor[Root].state.files
       /\ actor'[Root].state.dirs = [actor[Root].state.dirs EXCEPT ![d] = h]
       /\ actor'[Root].dirty = (actor[Root].dirty \/ actor[Root].state.dirs[d] # h)
       /\ actor[Root].state.dirs[d] = h => actor'[Root].state = actor[Root].state
  BY <1>1, <1>8, <1>11, <1>13, <1>14, <1>17, <1>18, HashNoted
<1>20. /\ actor'[Root].life = actor[Root].life
       /\ actor'[Root].task.op = "save" /\ actor'[Root].task.from = actor[Root].task.from
       /\ actor'[Root].task.todo = actor[Root].task.todo
       /\ actor[Root].task.wait \ {d} \subseteq actor'[Root].task.wait
  BY <1>1, <1>8, <1>15, <1>16, <1>17 DEF AnswerTo, LessWait
<1>21. actor'[d] = a /\ \A f \in Dir : f # d /\ f # Root => actor'[f] = actor[f]
  BY <1>12, <1>15 DEF AnswerTo
<1> QED
  BY <1>3, <1>5, <1>7, <1>8, <1>9, <1>19, <1>20, <1>21

LEMMA LiveKidSaved ==
    ASSUME Standing, Shapes', Match', NEW d \in Dir, d # Root, SaveDone(d)
    PROVE  LiveOn
<1>1. /\ Shapes /\ Tree /\ Order /\ Grow(actor, rootFile)
      /\ NoneEnds(actor, box) /\ Clean(actor, rootFile) /\ Root \in Dir
      /\ ActorStep(d) /\ Top(actor[Root].state)
      /\ \A e \in Kids : actor[Root].state.dirs[e].files \in [Dir -> Nat]
      /\ Kids \subseteq Dir \ {Root} /\ \A e \in Kids : Parent[e] = Root
  BY RootKnown DEF Standing, Live, ActorStep
<1>2. /\ d \in Kids /\ actor[Root].task.op = "save" /\ d \notin actor[Root].task.todo
      /\ ~Requested(box[d]) /\ rootFile' = rootFile /\ box' = box /\ actor[d].life = "running"
      /\ actor'[d].task = Idle /\ actor'[d].life = "running" /\ actor'[d].state = actor[d].state
      /\ \A f \in Dir : f # d /\ f # Root => actor'[f] = actor[f]
      /\ actor'[Root].life = actor[Root].life
      /\ actor'[Root].task.op = "save" /\ actor'[Root].task.from = actor[Root].task.from
      /\ actor'[Root].task.todo = actor[Root].task.todo
      /\ actor[Root].task.wait \ {d} \subseteq actor'[Root].task.wait
      /\ actor'[Root].state.files = actor[Root].state.files
      /\ actor'[Root].state.dirs = [actor[Root].state.dirs EXCEPT ![d] = actor[d].state]
      /\ actor'[Root].dirty = (actor[Root].dirty \/ actor[Root].state.dirs[d] # actor[d].state)
      /\ actor[Root].state.dirs[d] = actor[d].state => actor'[Root].state = actor[Root].state
  BY KidSaved
<1>3. \A f \in Dir : Runner(f, actor'[f])
  BY <1>1, <1>2 DEF NoneEnds, Runner, Idle
<1>4. /\ actor'[Root].state.dirs[d] = actor[d].state
      /\ \A e \in Kids : e # d => actor'[Root].state.dirs[e] = actor[Root].state.dirs[e]
  <2>1. PICK D, h : D = actor[Root].state.dirs /\ h = actor[d].state
    OBVIOUS
  <2>2. D = [e \in Kids |-> D[e]]
    <3>1. RecordOK(actor[Root], Known, Messages)
      BY <1>1 DEF Shapes, ActorsOK
    <3>2. Snap(actor[Root].state, Known)
      BY <3>1, RootKnown DEF RecordOK
    <3>3. DOMAIN D = Kids
      BY <1>1, <2>1 DEF Top
    <3> QED
      BY <2>1, <3>2, <3>3 DEF Snap
  <2>3. actor'[Root].state.dirs = [D EXCEPT ![d] = h]
    BY <1>2, <2>1
  <2> QED
    BY <1>2, <2>1, <2>2, <2>3
<1>5. Clean(actor', rootFile')
  <2>1. ~actor'[Root].dirty => rootFile' = actor'[Root].state
    BY <1>1, <1>2 DEF Clean
  <2>2. ASSUME NEW f \in Dir \ {Root}, actor'[f].life # "none", ~actor'[f].dirty
        PROVE  actor'[Root].state.dirs[f] = actor'[f].state
    <3>1. CASE f = d
      BY <1>2, <1>4, <3>1
    <3>2. CASE f # d
      <4>1. actor'[f] = actor[f] /\ f \in Kids
        BY <1>2, <2>2, <3>2, RootKnown
      <4> QED
        BY <1>1, <1>4, <2>2, <3>2, <4>1 DEF Clean
    <3> QED
      BY <3>1, <3>2
  <2> QED
    BY <2>1, <2>2 DEF Clean
<1>6. \A x \in Dir : Seen'[x] = Seen[x] /\ Seen[x] \in Nat
  <2>1. actor[d].life # "none"
    BY <1>2
  <2>2. \A x \in Dir : Visible(x)' = Visible(x)
    BY <1>1, <2>1, SaveDoneEnters, VisibleSteady, VisibleEntered DEF Quiet
  <2> QED
    BY <1>1, <2>2, SeenIsPut
<1>7. BoxesGo(d) /\ ~Took(d)
  BY <1>1, <1>2, SameGoes, KeptNotTook DEF BoxKept
<1>8. Rising /\ Lands(d)
  BY <1>6, <1>7 DEF Rising, Lands
<1>9. ASSUME NEW x \in Dir, NEW n \in Nat, d \in Up[x], actor[d].state.files[x] >= n
      PROVE  Due(actor', box', x, n)
  <2>1. Noted(actor'[Root].state, x, n)
    BY <1>2, <1>4, <1>9 DEF Noted
  <2> QED
    BY <2>1 DEF Due
<1>10. \A x \in Dir : /\ actor[Root].state.dirs[d].files[x] \in Nat
                      /\ actor[d].state.files[x] \in Nat
                      /\ actor[Root].state.dirs[d].files[x] <= actor[d].state.files[x]
  <2>1. Leq(actor[Root].state.dirs[d], actor[d].state)
    <3>1. d \in Dir \ {Root} /\ actor[d].life # "none" /\ Parent[d] = Root
      BY <1>1, <1>2
    <3> QED
      BY <1>1, <3>1 DEF Grow
  <2>2. Behind(actor[d].state, box, next) /\ actor[d].state # NoHash
    BY <1>1, <1>2 DEF Order, OrderIn, Pool, Grow
  <2> QED
    BY <1>1, <1>2, <2>1, <2>2, LeqDown DEF Behind
<1>11. ASSUME NEW x \in Dir, NEW n \in Nat, Due(actor, box, x, n) PROVE Due(actor', box', x, n)
  <2>1. CASE Up[x] \cap Kids = {} /\ actor[Root].state.files[x] >= n
    BY <1>2, <2>1 DEF Due, Noted
  <2>2. ASSUME NEW e \in Up[x] \cap Kids, actor[Root].state.dirs[e].files[x] >= n
        PROVE  Due(actor', box', x, n)
    <3>1. CASE e = d
      <4>1. PICK i, j : i = actor[Root].state.dirs[d].files[x] /\ j = actor[d].state.files[x]
        OBVIOUS
      <4>2. i \in Nat /\ j \in Nat /\ i <= j /\ i >= n
        BY <1>10, <2>2, <3>1, <4>1
      <4>3. j >= n
        BY <4>2
      <4> QED
        BY <1>9, <3>1, <4>1, <4>3
    <3>2. CASE e # d
      BY <1>4, <2>2, <3>2 DEF Due, Noted
    <3> QED
      BY <3>1, <3>2
  <2>3. ASSUME NEW e \in Up[x] \cap Kids, PendingAt(actor[Root].task, actor[e], box[e], e, x, n)
        PROVE  Due(actor', box', x, n)
    <3>1. CASE e = d
      <4>1. ~PutAhead(box[d], x, n)
        BY <1>2 DEF PutAhead, Requested
      <4>2. actor[d].state.files[x] >= n
        BY <1>2, <2>3, <3>1, <4>1 DEF PendingAt
      <4> QED
        BY <1>9, <3>1, <4>2
    <3>2. CASE e # d
      <4>1. actor'[e] = actor[e] /\ box'[e] = box[e]
        BY <1>1, <1>2, <3>2
      <4>2. PendingAt(actor'[Root].task, actor'[e], box'[e], e, x, n)
        BY <1>2, <2>3, <3>2, <4>1 DEF PendingAt
      <4> QED
        BY <4>2 DEF Due
    <3> QED
      BY <3>1, <3>2
  <2> QED
    BY <1>11, <2>1, <2>2, <2>3 DEF Due, Noted
<1>12. SaveGoesOn
  BY <1>2, <1>11 DEF SaveGoesOn, Asking
<1> QED
  BY <1>1, <1>3, <1>5, <1>7, <1>8, <1>12, SavingOn, LiveStep

\* Whatever an actor does, unless the root begins to end.
LEMMA LiveActor ==
    ASSUME Standing, Shapes', Match', NEW d \in Dir, ActorStep(d), ~Ends(actor')
    PROVE  LiveOn
<1>1. /\ Shapes /\ Tree /\ PlainUse /\ Plain(actor, box) /\ NoneEnds(actor, box) /\ Root \in Dir
  BY TreeAssumption DEF Standing, Live
<1>2. ~BeginShutdown(d)
  <2> SUFFICES ASSUME BeginShutdown(d) PROVE FALSE
    OBVIOUS
  <2>1. d # Root
    BY <1>1, MovesBeginShutdown DEF Ends
  <2>2. Inner(box[d])
    BY <1>1, <2>1 DEF NoneEnds
  <2>3. Receives(d, {"shutdown"})
    BY DEF BeginShutdown
  <2>4. box[d] # <<>> /\ box[d] \in Seq(Messages) /\ Head(box[d]).op = "shutdown"
    BY <1>1, <2>3, Taking
  <2>5. 1 \in DOMAIN box[d] /\ box[d][1] = Head(box[d])
    BY <2>4
  <2> QED
    BY <2>2, <2>4, <2>5 DEF Inner
<1>3. ~Stop(d)
  BY <1>1 DEF Stop, ChildrenDone, NoneEnds
<1>4. ~Orphan(d)
  <2> SUFFICES ASSUME Orphan(d) PROVE FALSE
    OBVIOUS
  <2>1. d # Root
    BY <1>1, MovesOrphan DEF Ends
  <2>2. actor[d].life = "running" /\ (~IsRoot(d) => actor[actor[d].up].life = "stopped")
    BY DEF Orphan, Free
  <2>3. ~IsRoot(d) /\ actor[d].up = Parent[d] /\ Parent[d] \in Dir
    BY <1>1, <2>1, <2>2, OnlyRoot
  <2> QED
    BY <1>1, <2>2, <2>3 DEF NoneEnds
<1>5. ~Publish(d) /\ ~CreateDirAt(d) /\ ~UpdateDirRefHash(d) /\ ~AutosaveTick(d) /\ ~SetAutosave(d)
  BY <1>1, NotPlain
<1>6. CASE FileOp(d)
  <2>1. Head(box[d]).op = "file_get" \/ Put(Head(box[d]))
    BY <1>1, <1>6, FileOpFiles
  <2> QED
    BY <1>6, <2>1, LiveFileGet, LiveFilePut
<1>7. CASE SaveIfDirty(d)
  BY <1>7, LiveSaveStart, LiveSaveSkip
<1>8. CASE SaveDone(d)
  BY <1>8, LiveRootSaved, LiveKidSaved
<1>9. CASE \E e \in Dir : AskChild(d, e)
  BY <1>9, LiveAskChild
<1> QED
  BY <1>2, <1>3, <1>4, <1>5, <1>6, <1>7, <1>8, <1>9, LiveLoad, LiveForward, LiveTell,
     LiveChildIsDirty DEF ActorStep

-----------------------------------------------------------------------------
(* The clients.                                                             *)

LEMMA LiveFresh ==
    ASSUME NEW file, NEW cl, NEW v
    PROVE  Live(FreshActors(file), [d \in Dir |-> <<>>], file, cl, v)
<1>1. PICK acts, b : acts = FreshActors(file) /\ b = [d \in Dir |-> <<>>]
  OBVIOUS
<1>2. /\ Root \in Dir /\ acts[Root].state = file
      /\ \A f \in Dir \ {Root} : acts[f].life = "none"
      /\ \A f \in Dir : acts[f].life \in {"none", "loading"} /\ acts[f].task.op = "idle"
  BY <1>1, TreeAssumption DEF FreshActors, Spawn, NotOpen, Idle
<1>3. \A f \in Dir : DOMAIN b[f] = {}
  BY <1>1
<1>4. NoneEnds(acts, b)
  BY <1>2, <1>3 DEF NoneEnds, Inner
<1>5. Clean(acts, file)
  BY <1>2 DEF Clean
<1>6. Called(b, cl, v)
  BY <1>2, <1>3 DEF Called
<1>7. Saving(acts, b, cl)
  BY <1>2 DEF Saving, Asking
<1> QED
  BY <1>1, <1>4, <1>5, <1>6, <1>7 DEF Live

LEMMA SeenSame ==
    ASSUME Shapes, Shapes', Tree, actor' = actor
    PROVE  Seen' = Seen
<1>1. \A x \in Dir : Visible(x)' = Visible(x)
  BY SameUnseen DEF Unseen
<1> QED
  BY <1>1 DEF Seen

LEMMA LiveSame ==
    ASSUME Standing, Shapes', UNCHANGED <<actor, box, rootFile, client>>
    PROVE  LiveOn
<1>1. Shapes /\ Tree /\ Live(actor, box, rootFile, client, Seen)
  BY DEF Standing
<1>2. Seen' = Seen
  BY <1>1, SeenSame
<1> QED
  BY <1>1, <1>2 DEF LiveOn

\* A client posts a message: what a save needs is there when it is called.
LEMMA LivePosted ==
    ASSUME Standing, Shapes', Safe, NEW m, actor' = actor, rootFile' = rootFile,
           box' = [box EXCEPT ![Root] = Append(@, m)],
           \A k \in Client : client[k].op = "save" => client'[k] = client[k],
           m.op = "save" /\ m.from \in Client => client'[m.from].need = acked
    PROVE  LiveOn
<1>1. /\ Shapes /\ Tree /\ Match /\ Root \in Dir
      /\ NoneEnds(actor, box) /\ Clean(actor, rootFile) /\ Called(box, client, Seen)
      /\ Saving(actor, box, client)
  BY TreeAssumption DEF Standing, Live
<1>2. Seen' = Seen
  BY <1>1, SeenSame
<1>3. box'[Root] = Append(box[Root], m) /\ \A f \in Dir : f # Root => box'[f] = box[f]
  BY <1>1 DEF Shapes
<1>4. NoneEnds(actor', box')
  BY <1>1, <1>3 DEF NoneEnds
<1>5. Clean(actor', rootFile')
  BY <1>1
<1>6. box[Root] \in Seq(Messages)
  BY <1>1 DEF Shapes
<1>7. \A x, n : Elsewhere(box, x, n) => Elsewhere(box', x, n)
  BY <1>3 DEF Elsewhere
<1>8. Called(box', client', Seen')
  <2> SUFFICES ASSUME NEW i \in DOMAIN box'[Root], Asking(box'[Root][i]), NEW x \in Dir
               PROVE  Held(box', i, x, Seen, client'[box'[Root][i].from].need[x])
    BY <1>2 DEF Called
  <2>1. CASE i \in DOMAIN box[Root]
    <3>1. box'[Root][i] = box[Root][i]
      BY <1>3, <1>6, <2>1, AppendFacts
    <3>2. PICK c \in Client : c = box[Root][i].from
      BY <3>1 DEF Asking
    <3>3. client[c].op = "save"
      <4>1. Fitted(box[Root], client)
        BY <1>1 DEF Match, MatchIn
      <4>2. PICK u : u = box[Root][i]
        OBVIOUS
      <4>3. u.op = "save" /\ u.from = c
        BY <3>1, <3>2, <4>2 DEF Asking
      <4>4. client[c].op = u.op
        BY <2>1, <3>2, <4>1, <4>2 DEF Fitted, Fitting
      <4> QED
        BY <4>3, <4>4
    <3>4. client'[c] = client[c]
      BY <3>3
    <3>5. PICK n : n = client[c].need[x]
      OBVIOUS
    <3>6. Held(box, i, x, Seen, n)
      BY <1>1, <2>1, <3>1, <3>2, <3>5 DEF Called
    <3>7. PutBefore(box[Root], i, x, n) => PutBefore(box'[Root], i, x, n)
      <4>1. \A j \in DOMAIN box[Root] :
               PutBefore(box[Root], j, x, n) => PutBefore(Append(box[Root], m), j, x, n)
        BY <1>6, AheadAppend
      <4> QED
        BY <1>3, <2>1, <4>1
    <3>8. Held(box', i, x, Seen, n)
      BY <1>7, <3>6, <3>7 DEF Held
    <3> QED
      BY <3>1, <3>2, <3>4, <3>5, <3>8
  <2>2. CASE i = Len(box[Root]) + 1
    <3>1. box'[Root][i] = m
      BY <1>3, <1>6, <2>2, AppendFacts
    <3>2. client'[m.from].need = acked
      BY <3>1 DEF Asking
    <3>3. PICK n : n = acked[x]
      OBVIOUS
    <3>4. CASE Visible(x) >= n
      <4>1. Seen[x] >= n
        BY <3>4 DEF Seen
      <4> QED
        BY <3>1, <3>2, <3>3, <4>1 DEF Held
    <3>5. ASSUME NEW k, OnItsWay(box, x, k), k >= n PROVE Held(box', i, x, Seen, n)
      <4>1. PICK a \in Dir : InPuts(box[a], x, k)
        BY <3>5 DEF OnItsWay
      <4>2. PutIn(box[a], x, n)
        BY <3>5, <4>1 DEF InPuts, PutIn, PutOf
      <4>3. CASE a = Root
        <5>1. PutBefore(box'[Root], i, x, n)
          BY <1>3, <1>6, <2>2, <4>2, <4>3, AheadAppend
        <5> QED
          BY <5>1 DEF Held
      <4>4. CASE a # Root
        <5>1. Elsewhere(box, x, n)
          BY <4>2, <4>4 DEF Elsewhere
        <5> QED
          BY <1>7, <5>1 DEF Held
      <4> QED
        BY <4>3, <4>4
    <3>6. Visible(x) >= n \/ \E k : OnItsWay(box, x, k) /\ k >= n
      BY <3>3 DEF Safe
    <3> QED
      BY <3>1, <3>2, <3>3, <3>4, <3>5, <3>6
  <2> QED
    BY <1>3, <1>6, <2>1, <2>2, AppendFacts
<1>9. Saving(actor', box', client')
  <2> SUFFICES ASSUME Asking(actor[Root].task), NEW x \in Dir
               PROVE  Due(actor, box', x, client'[actor[Root].task.from].need[x])
    BY DEF Saving
  <2>1. PICK c \in Client : c = actor[Root].task.from
    BY DEF Asking
  <2>2. client[c].op = "save"
    <3>1. Works(actor, Root, c)
      BY <2>1 DEF Works, Asking
    <3>2. client[c].op = Does(actor[Root].task)
      BY <1>1, <3>1 DEF Match, MatchIn
    <3> QED
      BY <3>2 DEF Does, Asking
  <2>3. client'[c] = client[c]
    BY <2>2
  <2>4. PICK n : n = client[c].need[x]
    OBVIOUS
  <2>5. Due(actor, box, x, n)
    BY <1>1, <2>1, <2>4 DEF Saving
  <2>6. \A e \in Kids : box'[e] = box[e]
    BY <1>1, <1>3, KidsFacts
  <2>7. Due(actor, box', x, n)
    BY <2>5, <2>6 DEF Due
  <2> QED
    BY <2>1, <2>3, <2>4, <2>7
<1> QED
  BY <1>4, <1>5, <1>8, <1>9 DEF LiveOn, Live

LEMMA LiveCall ==
    ASSUME Standing, Shapes', Safe, client = [k \in Client |-> client[k]],
           NEW c \in Client, NEW op, NEW d, NEW arg, Call(c, op, d, arg)
    PROVE  LiveOn
<1>1. PICK m, q : /\ m = Msg(op, d, arg, c)
                  /\ q = [op |-> op, dir |-> d, arg |-> arg, need |-> acked]
  OBVIOUS
<1>2. /\ client[c] = NoCall /\ actor' = actor /\ rootFile' = rootFile
      /\ box' = [box EXCEPT ![Root] = Append(@, m)] /\ client' = [client EXCEPT ![c] = q]
  BY <1>1 DEF Call, Post
<1>3. m.from = c /\ q.need = acked /\ client[c].op # "save"
  BY <1>1, <1>2 DEF Msg, NoCall
<1>4. client'[c] = q /\ \A k \in Client : k # c => client'[k] = client[k]
  BY <1>2
<1> QED
  BY <1>2, <1>3, <1>4, LivePosted

LEMMA LiveClient ==
    ASSUME Standing, Shapes', Safe, Owing, ClientStep
    PROVE  LiveOn
<1>0. client = [k \in Client |-> client[k]]
  BY DEF Owing
<1>1. ASSUME NEW c \in Client, NEW op, NEW d, NEW arg, Call(c, op, d, arg) PROVE LiveOn
  BY <1>0, <1>1, LiveCall
<1>2. ASSUME NEW op, NEW d, NEW arg, Post(op, d, arg, None), client' = client PROVE LiveOn
  <2>1. PICK m : m = Msg(op, d, arg, None)
    OBVIOUS
  <2>2. m.from = None /\ None \notin Client
    BY <2>1, TreeAssumption DEF Msg
  <2>3. actor' = actor /\ rootFile' = rootFile /\ box' = [box EXCEPT ![Root] = Append(@, m)]
    BY <1>2, <2>1 DEF Post
  <2> QED
    BY <1>2, <2>2, <2>3, LivePosted
<1>3. ASSUME NEW d, FilePut(d) PROVE LiveOn
  BY <1>2, <1>3 DEF FilePut
<1>4. CASE WithAutosave
  BY <1>2, <1>4 DEF WithAutosave
<1>5. CASE Drop
  BY <1>5, LiveSame DEF Drop
<1>6. CASE Crash
  <2>1. Live(FreshActors(rootFile), [d \in Dir |-> <<>>], rootFile, client', Seen')
    BY LiveFresh
  <2> QED
    BY <1>6, <2>1 DEF Crash, LiveOn
<1>7. ASSUME NEW c \in Client, NEW d, FilePutSync(c, d) PROVE LiveOn
  BY <1>1, <1>7 DEF FilePutSync
<1>8. ASSUME NEW c \in Client, NEW d, FileGet(c, d) \/ CreateDir(c, d) PROVE LiveOn
  BY <1>1, <1>8 DEF FileGet, CreateDir
<1>9. ASSUME NEW c \in Client, Save(c) \/ Shutdown(c) PROVE LiveOn
  BY <1>1, <1>9 DEF Save, Shutdown
<1> QED
  BY <1>3, <1>4, <1>5, <1>6, <1>7, <1>8, <1>9 DEF ClientStep

LEMMA NeedsNext ==
    ASSUME Needs(client), Counted, Owing, [Next]_vars
    PROVE  Needs(client')
<1>0. client = [k \in Client |-> client[k]] /\ acked \in [Dir -> Nat]
  BY DEF Owing, Counted
<1>1. ASSUME NEW c \in Client, NEW op, NEW d, NEW arg, Call(c, op, d, arg) PROVE Needs(client')
  <2>1. PICK q : q = [op |-> op, dir |-> d, arg |-> arg, need |-> acked]
    OBVIOUS
  <2>2. client' = [client EXCEPT ![c] = q] /\ q.need = acked
    BY <1>1, <2>1 DEF Call
  <2>3. client'[c] = q /\ \A k \in Client : k # c => client'[k] = client[k]
    BY <1>0, <2>2
  <2> QED
    BY <1>0, <2>2, <2>3 DEF Needs
<1>2. ASSUME client' = client PROVE Needs(client')
  BY <1>2
<1>3. CASE ClientStep
  <2>1. ASSUME NEW c \in Client, NEW d,
               FilePutSync(c, d) \/ FileGet(c, d) \/ CreateDir(c, d)
        PROVE  Needs(client')
    BY <1>1, <2>1 DEF FilePutSync, FileGet, CreateDir
  <2>2. ASSUME NEW c \in Client, Save(c) \/ Shutdown(c) PROVE Needs(client')
    BY <1>1, <2>2 DEF Save, Shutdown
  <2>3. ASSUME NEW d, FilePut(d) PROVE Needs(client')
    BY <1>2, <2>3 DEF FilePut
  <2>4. CASE WithAutosave \/ Drop
    BY <1>2, <2>4 DEF WithAutosave, Drop
  <2>5. CASE Crash
    BY <2>5 DEF Crash, Needs, NoCall
  <2> QED
    BY <1>3, <2>1, <2>2, <2>3, <2>4, <2>5 DEF ClientStep
<1>4. ASSUME NEW d \in Dir, ActorStep(d) \/ Fire(d) PROVE Needs(client')
  BY <1>4, ClientsKept DEF Needs, NoCall
<1>5. CASE UNCHANGED vars
  BY <1>2, <1>5 DEF vars
<1> QED
  BY <1>3, <1>4, <1>5 DEF Next

-----------------------------------------------------------------------------
(* What saves have promised.                                                *)

Promised(file, k) == k \in [Dir -> Nat] /\ \A x \in Dir : Noted(file, x, k[x])

Numbered(s) ==
    s.files \in [Dir -> Nat] /\ \A e \in Kids : s.dirs[e].files \in [Dir -> Nat]

LEMMA NotedLater ==
    ASSUME NEW s, NEW t, Leq(s, t), DOMAIN s.dirs = Kids, Numbered(s), Numbered(t),
           NEW x \in Dir, NEW n \in Nat, Noted(s, x, n)
    PROVE  Noted(t, x, n)
<1>1. /\ s.files[x] <= t.files[x]
      /\ \A e \in Kids : Leq(s.dirs[e], t.dirs[e])
  BY LeqDown
<1>2. \A e \in Kids : s.dirs[e].files[x] <= t.dirs[e].files[x]
  BY <1>1, LeqDown
<1>3. CASE Up[x] \cap Kids = {} /\ s.files[x] >= n
  <2>1. PICK i, j : i = s.files[x] /\ j = t.files[x]
    OBVIOUS
  <2>2. i \in Nat /\ j \in Nat /\ i <= j /\ i >= n
    BY <1>1, <1>3, <2>1 DEF Numbered
  <2>3. j >= n
    BY <2>2
  <2> QED
    BY <1>3, <2>1, <2>3 DEF Noted
<1>4. ASSUME NEW e \in Up[x] \cap Kids, s.dirs[e].files[x] >= n PROVE Noted(t, x, n)
  <2>1. PICK i, j : i = s.dirs[e].files[x] /\ j = t.dirs[e].files[x]
    OBVIOUS
  <2>2. i \in Nat /\ j \in Nat /\ i <= j /\ i >= n
    BY <1>2, <1>4, <2>1 DEF Numbered
  <2>3. j >= n
    BY <2>2
  <2> QED
    BY <2>1, <2>3 DEF Noted
<1> QED
  BY <1>3, <1>4 DEF Noted

LEMMA FileNumbered ==
    ASSUME Shapes, Order, WithoutCreate, Top(rootFile)
    PROVE  Numbered(rootFile)
<1>1. rootFile \in Pool /\ rootFile # NoHash
  BY SnapIsNoHash DEF Pool, Shapes, StoredOK
<1> QED
  BY <1>1, FlatEntries DEF Numbered

LEMMA PromisedFirst ==
    ASSUME Shapes, Order, WithoutCreate, Top(rootFile)
    PROVE  Promised(rootFile, NoFiles)
<1>1. Numbered(rootFile)
  BY FileNumbered
<1>2. NoFiles \in [Dir -> Nat] /\ \A x \in Dir : NoFiles[x] = 0
  BY DEF NoFiles
<1>3. ASSUME NEW x \in Dir PROVE Noted(rootFile, x, 0)
  <2>1. rootFile.files[x] \in Nat /\ \A e \in Kids : rootFile.dirs[e].files[x] \in Nat
    BY <1>1 DEF Numbered
  <2>2. rootFile.files[x] >= 0 /\ \A e \in Kids : rootFile.dirs[e].files[x] >= 0
    BY <2>1
  <2> QED
    BY <2>2 DEF Noted
<1> QED
  BY <1>2, <1>3 DEF Promised

\* What a save has promised stays in the root file.
LEMMA PromisedKept ==
    ASSUME Shapes, Tree, Order, WithoutCreate, Flat(actor, rootFile), Grow(actor, rootFile),
           SavesOnly, Promised(rootFile, kept)
    PROVE  Promised(rootFile', kept)
<1>1. Leq(rootFile, rootFile') /\ (rootFile' = rootFile \/ rootFile' = actor[Root].state)
  BY StillWhole, GrowFacts
<1>2. Top(rootFile) /\ Top(actor[Root].state)
  BY DEF Flat
<1>3. Numbered(rootFile)
  BY <1>2, FileNumbered
<1>4. Numbered(actor[Root].state)
  <2>1. actor[Root].state \in Pool /\ actor[Root].state # NoHash
    BY TreeAssumption, GrowFacts DEF Pool
  <2> QED
    BY <1>2, <2>1, FlatEntries DEF Numbered
<1>5. Numbered(rootFile') /\ DOMAIN rootFile.dirs = Kids
  BY <1>1, <1>2, <1>3, <1>4 DEF Top
<1>6. ASSUME NEW x \in Dir PROVE Noted(rootFile', x, kept[x])
  <2>1. kept[x] \in Nat /\ Noted(rootFile, x, kept[x])
    BY DEF Promised
  <2> QED
    BY <1>1, <1>3, <1>5, <2>1, NotedLater
<1> QED
  BY <1>6 DEF Promised

\* The root answers a save: the file has all that the client had been told of.
LEMMA PromisedSaved ==
    ASSUME Standing, SaveDone(Root), NEW c \in Client, c = actor[Root].task.from,
           client[c].op = "save", kept' = Merge(kept, client[c].need),
           Promised(rootFile', kept)
    PROVE  Promised(rootFile', kept')
<1>1. Saving(actor, box, client) /\ Needs(client)
  BY DEF Standing, Live
<1>2. PICK need : need = client[c].need
  OBVIOUS
<1>3. need \in [Dir -> Nat] /\ kept \in [Dir -> Nat] /\ kept' = Merge(kept, need)
  BY <1>1, <1>2 DEF Needs, Promised
<1>4. rootFile' = actor[Root].state /\ actor[Root].task.todo = {} /\ actor[Root].task.wait = {}
  BY RootSaved
<1>5. Asking(actor[Root].task)
  BY DEF Asking, SaveDone, ChildrenDone
<1>6. ASSUME NEW x \in Dir PROVE Noted(rootFile', x, need[x])
  <2>1. Due(actor, box, x, need[x])
    BY <1>1, <1>2, <1>5 DEF Saving
  <2> QED
    BY <1>4, <2>1 DEF Due, PendingAt
<1>7. kept' \in [Dir -> Nat]
  BY <1>3 DEF Merge
<1>8. ASSUME NEW x \in Dir PROVE Noted(rootFile', x, kept'[x])
  <2>1. kept'[x] = kept[x] \/ kept'[x] = need[x]
    BY <1>3 DEF Merge
  <2> QED
    BY <1>6, <2>1 DEF Promised
<1> QED
  BY <1>7, <1>8 DEF Promised

-----------------------------------------------------------------------------
LEMMA DirtAlways == Spec => [](ParentsExist /\ Calm => Dirt(actor, box))
<1> DEFINE I == ParentsExist /\ Calm => Dirt(actor, box)
<1>1. Init => I
  BY DirtInit
<1>2. Shapes /\ (ParentsExist => Tree) /\ (ParentsExist => Asked) /\ I /\ [Next]_vars => I'
  <2>1. [Next]_vars => (ParentsExist' <=> ParentsExist) /\ (Calm' <=> Calm)
    BY ConfigStays DEF ParentsExist, Calm, WithoutAutosave
  <2>2. Dirt(actor, box)' <=> Dirt(actor', box')
    BY DEF Dirt, OwnQuiet, DirtAt, NoTicks, Tells, MarkIn, Covers
  <2> QED
    BY <2>1, <2>2, DirtNext
<1> HIDE DEF I
<1>3. Spec => []I
  BY <1>1, <1>2, ShapesCorrect, TreeCorrect, AskedCorrect, PTL DEF Spec
<1> QED
  BY <1>3 DEF I

LEMMA KeptAlways == Spec => [](ParentsExist => Kept)
<1>1. Shapes /\ Shapes' /\ (ParentsExist => Tree) /\ (Sound => Order) /\ (ParentsExist => Owing)
      /\ (ParentsExist => Match) /\ (ParentsExist => Kept) /\ [Next]_vars
      => (ParentsExist => Kept)'
  <2>1. [Next]_vars => (ParentsExist' <=> ParentsExist)
    BY ConfigStays DEF ParentsExist
  <2>2. ParentsExist => Sound
    BY DEF Sound
  <2> QED
    BY <2>1, <2>2, KeptNext
<1> QED
  BY <1>1, KeptInit, ShapesCorrect, TreeCorrect, OrderCorrect, OwingAlways, MatchAlways,
     PTL DEF Spec

LEMMA FlatStays == ASSUME [Next]_vars PROVE (FlatUse' <=> FlatUse) /\ Kids' = Kids
BY ConfigStays DEF FlatUse, WithoutAutosave, WithoutCreate, OneLevel, Kids

LEMMA FlatAlways == Spec => [](FlatUse => Flat(actor, rootFile) /\ FromAbove(actor))
<1> DEFINE I == FlatUse => Flat(actor, rootFile) /\ FromAbove(actor)
           O == Sound => Order
           T == Sound => Tree
           P == PlainUse => Plain(actor, box)
<1>1. Init => I
  <2> SUFFICES ASSUME Init, FlatUse PROVE Flat(actor, rootFile) /\ FromAbove(actor)
    OBVIOUS
  <2>1. Flat(actor, rootFile)
    BY FlatInit DEF FlatUse
  <2>2. FromAbove(FreshActors(rootFile))
    <3>1. PICK acts : acts = FreshActors(rootFile)
      OBVIOUS
    <3>2. \A f \in Dir : acts[f].task.op = "idle"
      BY <3>1 DEF FreshActors, Spawn, NotOpen, Idle
    <3> QED
      BY <3>1, <3>2 DEF FromAbove
  <2> QED
    BY <2>1, <2>2 DEF Init
<1>2. Shapes /\ O /\ T /\ P /\ I /\ [Next]_vars => I'
  <2> SUFFICES ASSUME Shapes, O, T, P, I, [Next]_vars, FlatUse'
               PROVE  Flat(actor, rootFile)' /\ FromAbove(actor)'
    OBVIOUS
  <2>1. FlatUse /\ Kids' = Kids
    BY FlatStays
  <2>2. PlainUse /\ Sound
    BY <2>1, FlatUses
  <2>3. Order /\ Tree /\ Plain(actor, box) /\ Flat(actor, rootFile) /\ FromAbove(actor)
    BY <2>1, <2>2
  <2>4. Flat(actor', rootFile') /\ FromAbove(actor')
    BY <2>2, <2>3, FlatNext, FromAboveNext
  <2>5. Flat(actor, rootFile)' <=> Flat(actor', rootFile')
    BY <2>1 DEF Flat, Top, Leaf
  <2>6. FromAbove(actor)' <=> FromAbove(actor')
    BY DEF FromAbove
  <2> QED
    BY <2>4, <2>5, <2>6
<1>3. (Spec => []O) /\ (Spec => []T) /\ (Spec => []P)
  BY OrderCorrect, TreeAlways, PlainAlways
<1> HIDE DEF I, O, T, P
<1>4. Spec => []I
  BY <1>1, <1>2, <1>3, ShapesCorrect, PTL DEF Spec
<1> QED
  BY <1>4 DEF I

-----------------------------------------------------------------------------
(***************************************************************************)
(* A save is durable in a tree of one level: the invariant.                *)
(***************************************************************************)
Durable ==
    /\ Needs(client)
    /\ ~Ends(actor) => Live(actor, box, rootFile, client, Seen)
    /\ Promised(rootFile, kept)

\* What is known of the state otherwise.
Settled ==
    /\ Shapes /\ Tree /\ Order /\ Asked /\ Match /\ Owing /\ Kept
    /\ PlainUse /\ WithoutCreate
    /\ Plain(actor, box) /\ Dirt(actor, box) /\ Flat(actor, rootFile) /\ Grow(actor, rootFile)
    /\ FromAbove(actor)

LEMMA LiveNext ==
    ASSUME FlatUse, Settled, Durable, Shapes', Match', [Next]_vars, ~Ends(actor')
    PROVE  LiveOn
<1>1. /\ Shapes /\ Tree /\ Owing /\ Kept /\ PlainUse /\ Plain(actor, box)
  BY DEF Settled
<1>2. CASE Ends(actor)
  <2>1. ~UNCHANGED actor
    BY <1>2
  <2>2. \A d \in Dir : ~(ActorStep(d) \/ Fire(d))
    BY <1>1, <1>2, EndsStay
  <2>3. CASE Crash
    <3>1. Live(FreshActors(rootFile), [d \in Dir |-> <<>>], rootFile, client', Seen')
      BY LiveFresh
    <3> QED
      BY <2>3, <3>1 DEF Crash, LiveOn
  <2>4. ~Drop /\ \A op, d, arg, from : ~Post(op, d, arg, from)
    BY <2>1 DEF Drop, Post
  <2>5. ClientStep => Crash
    BY <2>4 DEF ClientStep, FilePutSync, FileGet, CreateDir, FilePut, Save,
       Shutdown, WithAutosave, Call
  <2> QED
    BY <2>1, <2>2, <2>3, <2>5 DEF Next, vars
<1>3. CASE ~Ends(actor)
  <2>1. Standing /\ Runs
    BY <1>3 DEF Standing, Settled, Durable, Live, NoneEnds, Runs
  <2>2. Safe
    BY <1>1, <2>1 DEF Kept
  <2>3. CASE ClientStep
    BY <1>1, <2>1, <2>2, <2>3, LiveClient
  <2>4. ASSUME NEW d \in Dir, ActorStep(d) PROVE LiveOn
    BY <2>1, <2>4, LiveActor
  <2>5. ASSUME NEW d \in Dir, Fire(d) PROVE LiveOn
    BY <1>1, <2>5, NotPlain
  <2>6. CASE UNCHANGED vars
    BY <2>1, <2>6, LiveSame DEF vars
  <2> QED
    BY <2>3, <2>4, <2>5, <2>6 DEF Next
<1> QED
  BY <1>2, <1>3

LEMMA PromisedNext ==
    ASSUME FlatUse, Settled, Durable, [Next]_vars
    PROVE  Promised(rootFile', kept')
<1>1. /\ Shapes /\ Tree /\ Order /\ Match /\ PlainUse /\ WithoutCreate /\ Plain(actor, box)
      /\ Flat(actor, rootFile) /\ Grow(actor, rootFile) /\ FromAbove(actor)
      /\ Promised(rootFile, kept)
  BY DEF Settled, Durable
<1>2. Promised(rootFile', kept)
  BY <1>1, GrowNext, PromisedKept
<1>3. CASE kept' = kept
  BY <1>2, <1>3
<1>4. CASE ClientStep \/ UNCHANGED vars
  <2>1. \A op, d, arg, from : Post(op, d, arg, from) => kept' = kept
    BY DEF Post
  <2>2. kept' = kept
    BY <1>4, <2>1 DEF ClientStep, FilePutSync, FileGet, CreateDir, FilePut, Save,
       Shutdown, WithAutosave, Call, Drop, Crash, vars
  <2> QED
    BY <1>3, <2>2
<1>5. ASSUME NEW d \in Dir, ActorStep(d) \/ Fire(d) PROVE Promised(rootFile', kept')
  <2>1. ~config.errors
    BY DEF FlatUse
  <2>2. PICK c : c = actor[Root].task.from
    OBVIOUS
  <2>3. CASE /\ SaveDone(Root) /\ c \in Client /\ client[c].op = "save"
             /\ kept' = Merge(kept, client[c].need)
    <3>1. actor[Root].task.op = "save" /\ Root \in Dir
      BY <2>3, TreeAssumption DEF SaveDone, ChildrenDone
    <3>2. actor[Root].life = "running"
      BY <1>1, <3>1, NotRunning
    <3>3. ~Ends(actor)
      BY <3>1, <3>2 DEF Ends
    <3>4. Standing
      BY <3>3 DEF Standing, Settled, Durable
    <3> QED
      BY <1>2, <2>2, <2>3, <3>4, PromisedSaved
  <2> QED
    BY <1>1, <1>3, <1>5, <2>1, <2>2, <2>3, KeptMoves
<1> QED
  BY <1>4, <1>5 DEF Next

LEMMA SettledAlways == Spec => [](FlatUse => Settled)
<1> DEFINE A == (ParentsExist => Owing) /\ (ParentsExist => Match) /\ (ParentsExist => Kept)
           B == (ParentsExist => Asked) /\ (ParentsExist /\ Calm => Dirt(actor, box))
           C == (Sound => Order) /\ (Sound => Tree)
           D == (PlainUse => Plain(actor, box)) /\ (PlainUse => Grow(actor, rootFile))
           E == FlatUse => Flat(actor, rootFile) /\ FromAbove(actor)
<1>1. Shapes /\ A /\ B /\ C /\ D /\ E => (FlatUse => Settled)
  <2> SUFFICES ASSUME Shapes, A, B, C, D, E, FlatUse PROVE Settled
    OBVIOUS
  <2>1. PlainUse /\ Sound /\ ParentsExist /\ WithoutCreate /\ Calm
    BY FlatUses
  <2> QED
    BY <2>1 DEF Settled
<1>2. Spec => []A
  BY OwingAlways, MatchAlways, KeptAlways, PTL
<1>3. Spec => []B
  BY AskedCorrect, DirtAlways, PTL
<1>4. Spec => []C
  BY OrderCorrect, TreeAlways, PTL
<1>5. Spec => []D
  BY PlainAlways, GrowAlways, PTL
<1>6. Spec => []E
  BY FlatAlways
<1> HIDE DEF A, B, C, D, E
<1> QED
  BY <1>1, <1>2, <1>3, <1>4, <1>5, <1>6, ShapesCorrect, PTL

LEMMA DurableInit == ASSUME Init, Shapes, Order, FlatUse, Flat(actor, rootFile) PROVE Durable
<1>1. /\ actor = FreshActors(rootFile) /\ box = [d \in Dir |-> <<>>]
      /\ client = [c \in Client |-> NoCall] /\ kept = NoFiles
  BY DEF Init
<1>2. Live(actor, box, rootFile, client, Seen)
  BY <1>1, LiveFresh
<1>3. Needs(client)
  BY <1>1 DEF Needs, NoCall
<1>4. Promised(rootFile, kept)
  BY <1>1, PromisedFirst DEF Flat, FlatUse
<1> QED
  BY <1>2, <1>3, <1>4 DEF Durable

LEMMA LivePrimed ==
    ASSUME Kids' = Kids, LiveOn
    PROVE  Live(actor, box, rootFile, client, Seen)'
<1>1. /\ NoneEnds(actor', box') /\ Clean(actor', rootFile') /\ Called(box', client', Seen')
      /\ Saving(actor', box', client')
  BY DEF LiveOn, Live
<1>2. NoneEnds(actor, box)'
  BY <1>1 DEF NoneEnds, Inner
<1>3. Clean(actor, rootFile)'
  BY <1>1 DEF Clean
<1>4. Called(box, client, Seen)'
  BY <1>1 DEF Called, Asking, Held, PutBefore, Elsewhere, PutIn, PutOf, Put
<1>5. Saving(actor, box, client)'
  BY <1>1 DEF Saving, Asking, Due, Noted, PendingAt, PutAhead, PutBefore, PutIn, PutOf, Put, Request
<1> QED
  BY <1>2, <1>3, <1>4, <1>5 DEF Live

\* Every put that was accepted before a save was called is in the root file when the save
\* has returned Ok, and stays there: a process that opens the root reads it or a later one.
\* For any number of directories below the root, without autosave and create_dir, while the
\* blob store does its work, with any interleaving of the actors and any crash (FS5::save,
\* actor.rs, SaveIfDirty).
THEOREM SaveIsDurableCorrect == Spec => []SaveIsDurable
<1> DEFINE S == FlatUse => Settled
           I == FlatUse => Durable
<1>1. S /\ Init => I
  BY DurableInit DEF Settled
<1>2. S /\ S' /\ I /\ [Next]_vars => I'
  <2> SUFFICES ASSUME S, S', I, [Next]_vars, FlatUse' PROVE Durable'
    OBVIOUS
  <2>1. FlatUse /\ Kids' = Kids
    BY FlatStays
  <2>2. Settled /\ Durable /\ Settled'
    BY <2>1
  <2>3. Shapes' /\ Match'
    BY <2>2 DEF Settled
  <2>4. Needs(client')
    BY <2>2, NeedsNext DEF Durable, Settled, Kept
  <2>5. ~Ends(actor') => LiveOn
    BY <2>1, <2>2, <2>3, LiveNext
  <2>6. Promised(rootFile', kept')
    BY <2>1, <2>2, PromisedNext
  <2>7. Needs(client)'
    BY <2>4 DEF Needs
  <2>8. ~Ends(actor)' => Live(actor, box, rootFile, client, Seen)'
    BY <2>1, <2>5, LivePrimed DEF Ends
  <2>9. Promised(rootFile, kept)'
    BY <2>1, <2>6 DEF Promised, Noted
  <2> QED
    BY <2>7, <2>8, <2>9 DEF Durable
<1>3. S /\ I => SaveIsDurable
  <2> SUFFICES ASSUME FlatUse, Settled, Durable, NEW x \in Dir
               PROVE  Persisted(x) >= kept[x]
    BY DEF SaveIsDurable, FlatUse
  <2> QED
    BY NotedPersists DEF Settled, Durable, Promised, Flat
<1>4. Spec => []S
  BY SettledAlways
<1> HIDE DEF S, I
<1> QED
  BY <1>1, <1>2, <1>3, <1>4, PTL DEF Spec
==============================================================================
