---------------------------- MODULE Registry_proofs ----------------------------
(***************************************************************************)
(* Proofs about the registries.  Registry: a backend holds the best        *)
(* message it was sent, and backends that were sent the same agree.        *)
(* MultiRegistry: its calls take no step on a backend that Registry does   *)
(* not have, so that this holds behind any number of concurrent callers,   *)
(* whatever fails, and what is acknowledged is replicated and read back.   *)
(* StoreRegistry: with one writer it implements Registry.                  *)
(***************************************************************************)
EXTENDS MultiRegistry, StoreRegistry, FiniteSetTheorems, TLAPS

\* A call that a backend still has to answer is a set of a message or a delete.
PendingCalls ==
    /\ config \in Configs
    /\ \A c \in Client :
        wait[c] # {} => req[c] \in [op : {"set"}, msg : Message] \cup [op : {"delete"}]
    /\ wait \in [Client -> SUBSET Nat]
    /\ req \in [Client -> [op : {"set"}, msg : Message] \cup [op : {"get", "delete"}] \cup {None}]

LEMMA SameMessages == R!Message = Message
  BY DEF Message, R!Message, MessageType, R!MessageType

-----------------------------------------------------------------------------
(***************************************************************************)
(* The registry by itself: any set of keys, revisions, hashes, backends    *)
(* and messages, which arrive in any order, any number of times or never.  *)
(***************************************************************************)
\* The fields the order looks at are natural numbers.
LEMMA RowFields ==
    ASSUME NEW a \in R!Message
    PROVE  a.revision \in Nat /\ a.hash \in Nat
  BY OrderAssumption DEF OrderAssumption, R!Message

\* A message is not the absence of one.
LEMMA RowIsSome ==
    ASSUME NEW a \in R!Message
    PROVE  a # None
  BY SameMessages, NoneAssumption DEF NoneAssumption

\* The conflict order is a strict order on messages whose incomparable pairs
\* are exactly the pairs equal for ordering purposes (order.rs, Ord::cmp).
LEMMA GreaterIsStrictOrder ==
    ASSUME NEW a \in R!Message, NEW b \in R!Message, NEW c \in R!Message
    PROVE  /\ ~ R!Greater(a, a)
           /\ R!Greater(a, b) => ~ R!Greater(b, a)
           /\ R!Greater(a, b) /\ R!Greater(b, c) => R!Greater(a, c)
           /\ R!Greater(a, b) \/ R!Greater(b, a) \/ R!SameOrder(a, b)
  <1>1. /\ a.revision \in Nat /\ a.hash \in Nat
        /\ b.revision \in Nat /\ b.hash \in Nat
        /\ c.revision \in Nat /\ c.hash \in Nat
    BY RowFields
  <1> QED
    BY <1>1 DEF R!Greater, R!SameOrder

\* Replacing an entry by a greater message keeps it at least as good as
\* everything the old entry was at least as good as.
LEMMA AtLeastMonotone ==
    ASSUME NEW a \in R!Message, NEW b \in R!Message, NEW c \in R!Message,
           R!AtLeast(b, c), R!Greater(a, b)
    PROVE  R!AtLeast(a, c)
  <1>1. /\ a.revision \in Nat /\ a.hash \in Nat
        /\ b.revision \in Nat /\ b.hash \in Nat
        /\ c.revision \in Nat /\ c.hash \in Nat
    BY RowFields
  <1>2. a # None
    BY RowIsSome
  <1> QED
    BY <1>1, <1>2 DEF R!Greater, R!SameOrder, R!AtLeast

\* A message that should_store turns away is not better than the entry.
LEMMA RejectedIsNotBetter ==
    ASSUME NEW m \in R!Message, NEW e \in R!OptMessage, ~ R!ShouldStore(m, e)
    PROVE  e \in R!Message /\ R!AtLeast(e, m)
  <1>1. e \in R!Message /\ ~ R!Greater(m, e)
    BY DEF R!ShouldStore, R!OptMessage
  <1> QED
    BY <1>1, GreaterIsStrictOrder, RowIsSome DEF R!AtLeast

\* Every state of the registry is well typed.
THEOREM RegistryTypeCorrect == R!Spec => []R!TypeOK
  <1>1. R!Init => R!TypeOK
    BY DEF R!Init, R!TypeOK, R!OptMessage
  <1>2. R!TypeOK /\ [R!Next]_(R!vars) => R!TypeOK'
    <2> SUFFICES ASSUME R!TypeOK, [R!Next]_(R!vars) PROVE R!TypeOK'
      OBVIOUS
    <2>1. ASSUME NEW b \in AllBackends, NEW m \in R!Message, R!Set(b, m) PROVE R!TypeOK'
      <3>1. m.key \in Key /\ m \in R!OptMessage
        BY DEF R!Message, R!OptMessage
      <3> QED
        BY <2>1, <3>1 DEF R!Set, R!TypeOK
    <2>2. ASSUME NEW b \in AllBackends, NEW k \in Key, R!Delete(b, k) PROVE R!TypeOK'
      BY <2>2 DEF R!Delete, R!TypeOK, R!OptMessage
    <2>3. CASE UNCHANGED R!vars
      BY <2>3 DEF R!vars, R!TypeOK
    <2> QED
      BY <2>1, <2>2, <2>3 DEF R!Next
  <1> QED
    BY <1>1, <1>2, PTL DEF R!Spec

\* The entry of one key of one backend is the best message received since
\* its last unconditional write: the part of EntryIsBest about b and k.
BestAt(b, k) ==
    /\ since[b][k] = {} <=> table[b][k] = None
    /\ since[b][k] # {} =>
          /\ table[b][k] \in since[b][k]
          /\ \A m \in since[b][k] : R!AtLeast(table[b][k], m)

LEMMA EntryIsBestStep ==
    ASSUME R!TypeOK, R!EntryIsBest, [R!Next]_(R!vars)
    PROVE  R!EntryIsBest'
  <1> SUFFICES ASSUME NEW b \in AllBackends, NEW k \in Key PROVE BestAt(b, k)'
    BY DEF R!EntryIsBest, BestAt
  <1>0. BestAt(b, k)
    BY DEF R!EntryIsBest, BestAt
  <1>1. ASSUME NEW c \in AllBackends, NEW m \in R!Message, R!Set(c, m)
        PROVE  BestAt(b, k)'
    <2>1. CASE b # c \/ k # m.key
      <3>1. table'[b][k] = table[b][k] /\ since'[b][k] = since[b][k]
        BY <1>1, <2>1 DEF R!Set, R!TypeOK, R!Message
      <3> QED
        BY <1>0, <3>1 DEF BestAt
    <2>2. CASE b = c /\ k = m.key
      <3> DEFINE e == table[b][k]
      <3>a. m.key \in Key
        BY DEF R!Message
      <3>e. e \in R!OptMessage /\ since[b][k] \subseteq R!Message
        BY DEF R!TypeOK
      <3>s. since'[b][k] = IF m.type = "Stream" THEN {m} ELSE since[b][k] \cup {m}
        BY <1>1, <2>2, <3>a DEF R!Set, R!TypeOK
      <3>m. R!AtLeast(m, m) /\ m # None
        BY RowIsSome DEF R!AtLeast, R!SameOrder
      <3>1. CASE R!ShouldStore(m, e)
        <4>1. table'[b][k] = m
          BY <1>1, <2>2, <3>1, <3>a DEF R!Set, R!TypeOK
        <4>2. CASE m.type = "Stream" \/ e = None
          <5>1. since'[b][k] = {m}
            BY <4>2, <3>s, <1>0 DEF BestAt
          <5> QED
            BY <5>1, <4>1, <3>m DEF BestAt
        <4>3. CASE m.type # "Stream" /\ e # None
          <5>1. R!Greater(m, e) /\ e \in R!Message
            BY <4>3, <3>1, <3>e DEF R!ShouldStore, R!OptMessage
          <5>2. \A n \in since[b][k] : R!AtLeast(m, n)
            BY <5>1, <1>0, <3>e, <4>3, AtLeastMonotone DEF BestAt
          <5>3. since'[b][k] = since[b][k] \cup {m}
            BY <4>3, <3>s
          <5> QED
            BY <5>2, <5>3, <4>1, <3>m DEF BestAt
        <4> QED
          BY <4>2, <4>3
      <3>2. CASE ~ R!ShouldStore(m, e)
        <4>1. table'[b][k] = e
          BY <1>1, <2>2, <3>2 DEF R!Set
        <4>2. e \in R!Message /\ R!AtLeast(e, m) /\ m.type # "Stream"
          BY <3>2, <3>e, RejectedIsNotBetter DEF R!ShouldStore
        <4>3. since'[b][k] = since[b][k] \cup {m}
          BY <4>2, <3>s
        <4>4. e # None /\ since[b][k] # {}
          BY <4>2, <1>0, RowIsSome DEF BestAt
        <4> QED
          BY <4>1, <4>2, <4>3, <4>4, <1>0 DEF BestAt
      <3> QED
        BY <3>1, <3>2
    <2> QED
      BY <2>1, <2>2
  <1>2. ASSUME NEW c \in AllBackends, NEW j \in Key, R!Delete(c, j)
        PROVE  BestAt(b, k)'
    BY <1>0, <1>2 DEF R!Delete, R!TypeOK, BestAt
  <1>3. CASE UNCHANGED R!vars
    BY <1>0, <1>3 DEF R!vars, BestAt
  <1> QED
    BY <1>1, <1>2, <1>3 DEF R!Next

\* However the messages arrive, a backend holds the best one it was sent
\* since the row was last deleted or overwritten by a Stream message.
THEOREM RegistryEntryIsBest == R!Spec => []R!EntryIsBest
  <1>1. R!Init => R!EntryIsBest
    BY DEF R!Init, R!EntryIsBest
  <1>2. R!TypeOK /\ R!EntryIsBest /\ [R!Next]_(R!vars) => R!EntryIsBest'
    BY EntryIsBestStep
  <1> QED
    BY <1>1, <1>2, RegistryTypeCorrect, PTL DEF R!Spec

\* Backends that received the same messages agree on revision and hash: the
\* "Eventual Consistency" claim of stream/types/mod.rs.
THEOREM RegistryConverged == R!Spec => []R!Converged
  <1>1. R!TypeOK /\ R!EntryIsBest => R!Converged
    <2> SUFFICES ASSUME R!TypeOK, R!EntryIsBest,
                        NEW a \in AllBackends, NEW b \in AllBackends, NEW k \in Key,
                        since[a][k] = since[b][k], since[a][k] # {}
                 PROVE  R!SameOrder(table[a][k], table[b][k])
      BY DEF R!Converged
    <2>1. /\ table[a][k] \in since[a][k] /\ table[b][k] \in since[a][k]
          /\ R!AtLeast(table[a][k], table[b][k])
          /\ R!AtLeast(table[b][k], table[a][k])
      BY DEF R!EntryIsBest
    <2>2. table[a][k] \in R!Message /\ table[b][k] \in R!Message
      BY <2>1 DEF R!TypeOK
    <2> QED
      BY <2>1, <2>2, GreaterIsStrictOrder DEF R!AtLeast, R!SameOrder
  <1> QED
    BY <1>1, RegistryTypeCorrect, RegistryEntryIsBest, PTL
-----------------------------------------------------------------------------
(***************************************************************************)
(* The calls on the backends are steps of a registry.                      *)
(***************************************************************************)
LEMMA KeyIsThere == TheKey \in Key
  BY MultiAssumption DEF MultiAssumption, TheKey

\* The backends of the configuration in use, and what is published there.
LEMMA ConfigFacts ==
    ASSUME config \in Configs
    PROVE  Backend \subseteq AllBackends /\ Published \subseteq Message /\ Backend \subseteq Nat
  <1>1. config \in Config /\ config.n \in Nat /\ config.published \subseteq Message
    BY MultiAssumption DEF MultiAssumption, Config
  <1> QED
    BY <1>1 DEF Backend, AllBackends, Published

LEMMA PendingStep ==
    ASSUME PendingCalls, [Next]_vars
    PROVE  PendingCalls'
  <1>0. Published \subseteq Message /\ Backend \subseteq Nat
    BY ConfigFacts DEF PendingCalls
  <1>1. ASSUME NEW c \in Client, NEW m \in Published, CallSet(c, m) PROVE PendingCalls'
    BY <1>0, <1>1 DEF CallSet, Begin, PendingCalls
  <1>2. ASSUME NEW c \in Client, CallGet(c) PROVE PendingCalls'
    BY <1>2, CallAssumption DEF CallAssumption, CallGet, Begin, PendingCalls
  <1>3. ASSUME NEW c \in Client, CallDelete(c) PROVE PendingCalls'
    BY <1>0, <1>3 DEF CallDelete, Begin, PendingCalls
  <1>4. ASSUME NEW c \in Client, NEW b \in Backend, WriteOk(c, b) PROVE PendingCalls'
    BY <1>4 DEF WriteOk, MayAnswer, PendingCalls
  <1>5. ASSUME NEW c \in Client, NEW b \in Backend, WriteError(c, b) PROVE PendingCalls'
    BY <1>5 DEF WriteError, MayAnswer, Return, PendingCalls
  <1>6. ASSUME NEW c \in Client, WriteDone(c) PROVE PendingCalls'
    BY <1>6 DEF WriteDone, Return, PendingCalls
  <1>7. ASSUME NEW c \in Client, GetNext(c) PROVE PendingCalls'
    BY <1>7 DEF GetNext, Return, AskNext, PendingCalls
  <1>8. ASSUME NEW c \in Client, GetError(c) PROVE PendingCalls'
    BY <1>8 DEF GetError, Return, AskNext, PendingCalls
  <1>9. CASE UNCHANGED vars
    BY <1>9 DEF vars, PendingCalls
  <1> QED
    BY <1>1, <1>2, <1>3, <1>4, <1>5, <1>6, <1>7, <1>8, <1>9 DEF Next

\* What a backend does for a call is a set or a delete of a registry.
LEMMA ApplyIsRegistryStep ==
    ASSUME PendingCalls, NEW c \in Client, NEW b \in Backend, MayAnswer(c, b), Apply(c, b)
    PROVE  R!Next
  <1>1. b \in AllBackends
    BY ConfigFacts DEF PendingCalls
  <1>2. req[c] \in [op : {"set"}, msg : Message] \cup [op : {"delete"}]
    BY DEF MayAnswer, PendingCalls
  <1>3. CASE req[c].op = "delete"
    BY <1>1, <1>3, KeyIsThere DEF Apply, R!Next
  <1>4. CASE req[c].op # "delete"
    <2>1. req[c].msg \in Message
      BY <1>2, <1>4
    <2>2. R!Set(b, req[c].msg)
      BY <1>4 DEF Apply
    <2> QED
      BY <1>1, <2>1, <2>2, SameMessages DEF R!Next
  <1> QED
    BY <1>3, <1>4

LEMMA BackendStep ==
    ASSUME PendingCalls, [Next]_vars
    PROVE  [R!Next]_(R!vars)
  <1>1. ASSUME NEW c \in Client, NEW b \in Backend, WriteOk(c, b) \/ WriteError(c, b)
        PROVE  [R!Next]_(R!vars)
    BY <1>1, ApplyIsRegistryStep DEF WriteOk, WriteError, R!vars
  <1>2. ASSUME NEW c \in Client,
               \/ \E m \in Published : CallSet(c, m)
               \/ CallGet(c) \/ CallDelete(c) \/ WriteDone(c) \/ GetNext(c) \/ GetError(c)
        PROVE  UNCHANGED R!vars
    BY <1>2 DEF CallSet, CallGet, CallDelete, Begin, WriteDone, GetNext, GetError, R!vars
  <1>3. CASE UNCHANGED vars
    BY <1>3 DEF vars, R!vars
  <1> QED
    BY <1>1, <1>2, <1>3 DEF Next

\* The backends of a MultiRegistry or TeeRegistry are registries: whatever callers
\* do at the same time and whatever fails, each row changes only as Registry says.
THEOREM BackendsAreRegistries == Spec => R!Spec
  <1>1. Init => PendingCalls
    BY DEF Init, PendingCalls
  <1>2. PendingCalls /\ [Next]_vars => PendingCalls'
    BY PendingStep
  <1>3. Init => R!Init
    BY DEF Init
  <1>4. PendingCalls /\ [Next]_vars => [R!Next]_(R!vars)
    BY BackendStep
  <1> QED
    BY <1>1, <1>2, <1>3, <1>4, PTL DEF Spec, R!Spec

\* However callers and failures interleave, every backend holds the best message
\* that it was asked to store since the row was last overwritten.
THEOREM EntryIsBestCorrect == Spec => []EntryIsBest
  BY BackendsAreRegistries, RegistryEntryIsBest, PTL DEF EntryIsBest

\* Backends that were asked to store the same messages hold the same one.
THEOREM ConvergedCorrect == Spec => []Converged
  BY BackendsAreRegistries, RegistryConverged, PTL DEF Converged
-----------------------------------------------------------------------------
(***************************************************************************)
(* Types.                                                                  *)
(***************************************************************************)
Types ==
    /\ config \in Configs
    /\ req \in [Client -> Call \cup {None}]
    /\ wait \in [Client -> SUBSET Backend]
    /\ oks \in [Client -> SUBSET Backend]
    /\ at \in [Client -> 1..(config.n + 1)]
    /\ ret \in [Client -> Result \cup {None}]
    /\ calls \in [Client -> 0..MaxCalls]
    /\ acked \subseteq Published
    /\ clean \in [Client -> BOOLEAN]
    /\ floor \in [Client -> SUBSET Published]
    /\ failed \in [Client -> BOOLEAN]

LEMMA TablesAreTyped == Spec => []R!TypeOK
  BY BackendsAreRegistries, RegistryTypeCorrect, PTL

LEMMA EntryType ==
    ASSUME Types, R!TypeOK, NEW b \in Backend
    PROVE  entry[b] = table[b][TheKey] /\ entry[b] \in OptMessage
  <1>1. b \in AllBackends
    BY ConfigFacts DEF Types
  <1>2. R!OptMessage = OptMessage
    BY SameMessages DEF OptMessage, R!OptMessage
  <1> QED
    BY <1>1, <1>2, KeyIsThere DEF entry, R!Get, R!TypeOK

LEMMA ConfigStays ==
    ASSUME [Next]_vars
    PROVE  UNCHANGED config /\ Backend' = Backend /\ Published' = Published /\ Call' = Call
  <1>1. UNCHANGED config
    BY DEF Next, vars, CallSet, CallGet, CallDelete, Begin, WriteOk, WriteError, Return,
           WriteDone, GetNext, GetError, AskNext
  <1> QED
    BY <1>1 DEF Backend, Published, Call

\* Only a set is counted on once it returns.
CleanIsSet == \A c \in Client : clean[c] => Is(c, "set")

LEMMA TypesStep ==
    ASSUME Types, R!TypeOK, CleanIsSet, [Next]_vars
    PROVE  Types'
  <1>1. UNCHANGED config /\ Backend' = Backend /\ Published' = Published /\ Call' = Call
    BY ConfigStays
  <1>2. config.n \in Nat \ {0} /\ MaxCalls \in Nat
    BY MultiAssumption DEF MultiAssumption, Config, Types
  <1>3. ASSUME NEW c \in Client, NEW m \in Published, CallSet(c, m) PROVE Types'
    <2>1. [op |-> "set", msg |-> m] \in Call
      BY DEF Call
    <2>2. \A d \in Client : clean'[d] \in BOOLEAN
      BY <1>3 DEF CallSet, Forget, Types
    <2>3. clean' \in [Client -> BOOLEAN]
      BY <1>3, <2>2 DEF CallSet, Forget, Types
    <2>4. acked' \subseteq Published /\ floor' \in [Client -> SUBSET Published]
      BY <1>3 DEF CallSet, Forget, Types
    <2>5. /\ req' \in [Client -> Call \cup {None}]
          /\ wait' \in [Client -> SUBSET Backend]
          /\ ret' \in [Client -> Result \cup {None}]
      BY <1>3, <2>1 DEF CallSet, Begin, Types
    <2>6. calls' \in [Client -> 0..MaxCalls]
      BY <1>2, <1>3 DEF CallSet, Begin, Types
    <2>7. UNCHANGED <<oks, at, failed>>
      BY <1>3 DEF CallSet, Begin
    <2> QED
      BY <1>1, <2>3, <2>4, <2>5, <2>6, <2>7 DEF Types
  <1>4. ASSUME NEW c \in Client, CallGet(c) PROVE Types'
    BY <1>1, <1>2, <1>4 DEF CallGet, Begin, Types, Call
  <1>5. ASSUME NEW c \in Client, CallDelete(c) PROVE Types'
    BY <1>1, <1>2, <1>5 DEF CallDelete, Forget, Begin, Types, Call
  <1>6. ASSUME NEW c \in Client, NEW r \in Result, Return(c, r), acked' \subseteq Published
        PROVE  Types'
    BY <1>1, <1>2, <1>6 DEF Return, Types
  <1>7. Unit \in Result /\ Err \in Result /\ \A e \in OptMessage : Entry(e) \in Result
    BY DEF Unit, Err, Entry, Result
  <1>8. ASSUME NEW c \in Client, NEW b \in Backend, WriteOk(c, b) PROVE Types'
    BY <1>1, <1>8 DEF WriteOk, Types
  <1>9. ASSUME NEW c \in Client, NEW b \in Backend, WriteError(c, b) PROVE Types'
    <2>1. CASE config.tee
      BY <1>6, <1>7, <1>9, <2>1 DEF WriteError, Types
    <2>2. CASE ~config.tee
      BY <1>1, <1>9, <2>2 DEF WriteError, Types
    <2> QED
      BY <2>1, <2>2
  <1>10. ASSUME NEW c \in Client, WriteDone(c) PROVE Types'
    <2>1. clean[c] => req[c].msg \in Published
      BY DEF CleanIsSet, Is, Types, Call
    <2>2. acked' \subseteq Published
      BY <1>10, <2>1 DEF WriteDone, Types
    <2> QED
      BY <1>6, <1>7, <1>10, <2>2 DEF WriteDone
  <1>11. ASSUME NEW c \in Client, NEW f \in BOOLEAN, at[c] <= config.n, AskNext(c, f), UNCHANGED acked
         PROVE  Types'
    BY <1>1, <1>2, <1>11 DEF AskNext, Types
  <1>12. ASSUME NEW c \in Client, GetNext(c) PROVE Types'
    <2>1. ASSUME at[c] <= config.n PROVE entry[at[c]] \in OptMessage
      BY <1>2, <2>1, EntryType DEF Types, Backend
    <2>2. None \in OptMessage /\ acked' \subseteq Published
      BY <1>12 DEF OptMessage, GetNext, Types
    <2> QED
      BY <1>6, <1>7, <1>11, <1>12, <2>1, <2>2 DEF GetNext
  <1>13. ASSUME NEW c \in Client, GetError(c) PROVE Types'
    BY <1>6, <1>7, <1>11, <1>13 DEF GetError, Types
  <1>14. CASE UNCHANGED vars
    BY <1>1, <1>14 DEF vars, Types
  <1> QED
    BY <1>3, <1>4, <1>5, <1>8, <1>9, <1>10, <1>12, <1>13, <1>14 DEF Next
-----------------------------------------------------------------------------
(***************************************************************************)
(* Acknowledged messages.                                                  *)
(***************************************************************************)
\* The backends that hold m or better.
Holds(m) == {b \in Backend : AtLeast(entry[b], m)}

\* While a delete or a Stream message is on its way nobody counts on anything.
Forgotten ==
    Overwriting => acked = {} /\ \A c \in Client : ~clean[c] /\ floor[c] = {}

\* What a set that will be counted on has stored is there.
OksHold ==
    \A c \in Client :
        /\ req[c] = None => oks[c] = {}
        /\ Is(c, "get") => oks[c] = {}
        /\ clean[c] => oks[c] \subseteq Holds(req[c].msg)

\* If all backends are needed they all hold what a get has to see, and the get
\* is still at the first one.
GetSees ==
    config.need = config.n =>
        \A c \in Client :
            /\ \A m \in floor[c] : Backend \subseteq Holds(m)
            /\ ~Is(c, "get") => at[c] = 1
            /\ Is(c, "get") /\ ~failed[c] /\ floor[c] # {} => at[c] = 1

IInv ==
    /\ Types
    /\ R!TypeOK
    /\ PendingCalls
    /\ CleanIsSet
    /\ Forgotten
    /\ OksHold
    /\ AckedIsReplicated
    /\ GetSees

\* Storing m keeps whatever the entry was at least as good as, and m.
LEMMA StoringIsMonotone ==
    ASSUME NEW m \in Message, NEW e \in OptMessage, m.type # "Stream"
    PROVE  /\ AtLeast(IF ShouldStore(m, e) THEN m ELSE e, m)
           /\ \A x \in Message : AtLeast(e, x) => AtLeast(IF ShouldStore(m, e) THEN m ELSE e, x)
  <1>1. \A x \in Message : x.revision \in Nat /\ x.hash \in Nat /\ x # None
    BY OrderAssumption, NoneAssumption DEF OrderAssumption, NoneAssumption, Message
  <1>2. CASE e = None
    BY <1>1, <1>2 DEF ShouldStore, AtLeast, SameOrder
  <1>3. CASE e \in Message
    BY <1>1, <1>3 DEF ShouldStore, AtLeast, SameOrder, Greater
  <1> QED
    BY <1>2, <1>3 DEF OptMessage

\* A step of a backend loses nothing unless it is one of an overwriting call.
LEMMA AnswerIsMonotone ==
    ASSUME Types, R!TypeOK, PendingCalls, [Next]_vars, NEW c \in Client, NEW b \in Backend,
           MayAnswer(c, b), Apply(c, b), ~Overwrites(c)
    PROVE  /\ req[c].msg \in Message /\ AtLeast(entry'[b], req[c].msg)
           /\ \A x \in Message : Holds(x) \subseteq Holds(x)'
  <1> DEFINE m == req[c]
             x0 == m.msg
  <1>1. m \in [op : {"set"}, msg : Message] \cup [op : {"delete"}]
    BY DEF MayAnswer, PendingCalls
  <1>2. m # None
    BY <1>1, CallAssumption DEF CallAssumption
  <1>3. m.op = "set" /\ x0 \in Message /\ x0.type # "Stream"
    BY <1>1, <1>2 DEF Overwrites, Is
  <1>4. R!Set(b, x0)
    BY <1>3 DEF Apply
  <1>5. b \in AllBackends /\ x0.key = TheKey /\ TheKey \in Key
    <2>1. x0 \in Published
      BY <1>2, <1>3 DEF Types, Call
    <2>2. \A x \in Published : x.key = TheKey
      BY MultiAssumption DEF MultiAssumption, Config, Types, Published
    <2> QED
      BY <2>1, <2>2, ConfigFacts, KeyIsThere DEF Types
  <1>6. Backend' = Backend
    BY ConfigStays
  <1>7. \A a \in Backend : entry'[a] = table'[a][TheKey]
    BY <1>6 DEF entry, R!Get
  <1>8. \A a \in Backend : entry[a] = table[a][TheKey] /\ entry[a] \in OptMessage
    BY EntryType
  <1>9. R!ShouldStore(x0, entry[b]) <=> ShouldStore(x0, entry[b])
    BY DEF R!ShouldStore, ShouldStore, R!Greater, Greater
  <1>10. entry'[b] = IF ShouldStore(x0, entry[b]) THEN x0 ELSE entry[b]
    BY <1>4, <1>5, <1>7, <1>8, <1>9 DEF R!Set, R!TypeOK
  <1>11. \A a \in Backend : a # b => entry'[a] = entry[a]
    BY <1>4, <1>5, <1>7, <1>8 DEF R!Set, R!TypeOK
  <1> HIDE DEF m, x0
  <1>12. AtLeast(entry'[b], x0)
    BY <1>3, <1>8, <1>10, StoringIsMonotone
  <1>13. \A x \in Message : AtLeast(entry[b], x) => AtLeast(entry'[b], x)
    BY <1>3, <1>8, <1>10, StoringIsMonotone
  <1> QED
    BY <1>3, <1>6, <1>11, <1>12, <1>13 DEF Holds, m, x0

LEMMA BackendSets ==
    ASSUME config \in Configs
    PROVE  /\ \A S \in SUBSET Backend : Cardinality(S) \in Nat
           /\ \A S, T \in SUBSET Backend : S \subseteq T => Cardinality(S) <= Cardinality(T)
           /\ \A S \in SUBSET Backend : Cardinality(S) >= config.n => S = Backend
  <1>1. config.n \in Nat
    BY MultiAssumption DEF MultiAssumption, Config
  <1>2. IsFiniteSet(Backend) /\ Cardinality(Backend) = config.n
    <2> DEFINE n == config.n
    <2>1. 1 \in Int /\ n \in Int
      BY <1>1
    <2> HIDE DEF n
    <2>2. IsFiniteSet(1..n) /\ Cardinality(1..n) = IF 1 > n THEN 0 ELSE n - 1 + 1
      BY <2>1, FS_Interval
    <2>3. (IF 1 > n THEN 0 ELSE n - 1 + 1) = n
      BY <1>1 DEF n
    <2> QED
      BY <2>2, <2>3 DEF Backend, n
  <1>3. \A S \in SUBSET Backend : IsFiniteSet(S) /\ Cardinality(S) \in Nat
    BY <1>2, FS_Subset, FS_CardinalityType
  <1>4. \A S, T \in SUBSET Backend : S \subseteq T => Cardinality(S) <= Cardinality(T)
    BY <1>3, FS_Subset
  <1>5. ASSUME NEW S \in SUBSET Backend, Cardinality(S) >= config.n PROVE S = Backend
    <2>1. Cardinality(S) <= Cardinality(Backend)
      BY <1>4
    <2>2. Cardinality(S) = Cardinality(Backend)
      BY <1>1, <1>2, <1>3, <1>5, <2>1
    <2> QED
      BY <1>2, <2>2, FS_Subset
  <1> QED
    BY <1>3, <1>4, <1>5

\* The call of one client changes.
LEMMA OtherCalls ==
    ASSUME NEW c \in Client, NEW q, Types, req' = [req EXCEPT ![c] = q]
    PROVE  /\ req'[c] = q
           /\ \A d \in Client \ {c} : req'[d] = req[d]
           /\ \A d \in Client \ {c}, op \in {"set", "get", "delete"} : Is(d, op)' <=> Is(d, op)
           /\ Overwriting' => Overwriting \/ Overwrites(c)'
  <1>1. req'[c] = q /\ \A d \in Client \ {c} : req'[d] = req[d]
    BY DEF Types
  <1>2. \A d \in Client \ {c}, op \in {"set", "get", "delete"} : Is(d, op)' <=> Is(d, op)
    BY <1>1 DEF Is
  <1>3. \A d \in Client \ {c} : Overwrites(d)' <=> Overwrites(d)
    BY <1>1, <1>2 DEF Overwrites
  <1> QED
    BY <1>1, <1>2, <1>3 DEF Overwriting

LEMMA SameHolds ==
    ASSUME UNCHANGED <<table, config>>
    PROVE  /\ Backend' = Backend
           /\ \A m : Holds(m)' = Holds(m)
           /\ AckedIsReplicated /\ acked' \subseteq acked => AckedIsReplicated'
  BY DEF Holds, entry, R!Get, Backend, AckedIsReplicated

\* A set begins.
LEMMA CallSetStep ==
    ASSUME IInv, NEW c \in Client, NEW m \in Published, CallSet(c, m)
    PROVE  CleanIsSet' /\ Forgotten' /\ OksHold' /\ AckedIsReplicated' /\ GetSees'
  <1>1. /\ req[c] = None /\ req' = [req EXCEPT ![c] = [op |-> "set", msg |-> m]]
        /\ UNCHANGED <<config, table, failed, oks, at>>
    BY DEF CallSet, Begin
  <1>2. /\ Backend' = Backend /\ \A x : Holds(x)' = Holds(x)
        /\ acked' \subseteq acked => AckedIsReplicated'
    BY <1>1, SameHolds DEF IInv
  <1>3. m \in Message /\ [op |-> "set", msg |-> m] # None
    BY ConfigFacts, CallAssumption DEF IInv, Types, CallAssumption
  <1>4. Is(c, "set")' /\ ~Is(c, "get")' /\ ~Is(c, "get") /\ ~Is(c, "set")
        /\ (Overwrites(c)' <=> m.type = "Stream")
    BY <1>1, <1>3 DEF Is, Overwrites, IInv, Types
  <1>5. /\ \A d \in Client \ {c} : req'[d] = req[d]
        /\ \A d \in Client \ {c}, op \in {"set", "get", "delete"} : Is(d, op)' <=> Is(d, op)
        /\ Overwriting' => Overwriting \/ Overwrites(c)'
    BY <1>1, OtherCalls DEF IInv
  <1>6. ~clean[c] /\ oks[c] = {} /\ (config.need = config.n => at[c] = 1)
    BY <1>1, <1>4 DEF IInv, CleanIsSet, OksHold, GetSees
  <1>7. CASE m.type = "Stream"
    <2>1. acked' = {} /\ \A d \in Client : ~clean'[d] /\ floor'[d] = {}
      BY <1>7 DEF CallSet, Forget
    <2> QED
      BY <1>1, <1>2, <1>4, <1>5, <1>6, <2>1
         DEF IInv, CleanIsSet, Forgotten, OksHold, GetSees
  <1>8. CASE m.type # "Stream"
    <2>1. UNCHANGED <<acked, floor>> /\ clean' = [clean EXCEPT ![c] = ~Overwriting]
      BY <1>8 DEF CallSet
    <2>2. (clean'[c] <=> ~Overwriting) /\ \A d \in Client \ {c} : clean'[d] <=> clean[d]
      BY <2>1 DEF IInv, Types
    <2>3. CleanIsSet'
      BY <1>4, <1>5, <2>2 DEF IInv, CleanIsSet
    <2>4. Forgotten'
      BY <1>4, <1>5, <1>8, <2>1, <2>2 DEF IInv, Forgotten
    <2>5. OksHold'
      BY <1>1, <1>2, <1>4, <1>5, <1>6, <2>2 DEF IInv, OksHold
    <2>6. GetSees'
      BY <1>1, <1>2, <1>4, <1>5, <1>6, <2>1 DEF IInv, GetSees
    <2> QED
      BY <1>2, <2>1, <2>3, <2>4, <2>5, <2>6
  <1> QED
    BY <1>7, <1>8

\* A delete begins.
LEMMA CallDeleteStep ==
    ASSUME IInv, NEW c \in Client, CallDelete(c)
    PROVE  CleanIsSet' /\ Forgotten' /\ OksHold' /\ AckedIsReplicated' /\ GetSees'
  <1>1. /\ req[c] = None /\ req' = [req EXCEPT ![c] = [op |-> "delete"]]
        /\ UNCHANGED <<config, table, failed, oks, at>>
        /\ acked' = {} /\ \A d \in Client : ~clean'[d] /\ floor'[d] = {}
    BY DEF CallDelete, Begin, Forget
  <1>2. /\ Backend' = Backend /\ \A x : Holds(x)' = Holds(x)
        /\ AckedIsReplicated'
    BY <1>1, SameHolds DEF IInv
  <1>3. ~Is(c, "get")' /\ ~Is(c, "get")
    BY <1>1 DEF Is, IInv, Types
  <1>4. /\ \A d \in Client \ {c} : req'[d] = req[d]
        /\ \A d \in Client \ {c}, op \in {"set", "get", "delete"} : Is(d, op)' <=> Is(d, op)
    BY <1>1, OtherCalls DEF IInv
  <1> QED
    BY <1>1, <1>2, <1>3, <1>4 DEF IInv, CleanIsSet, Forgotten, OksHold, GetSees

\* A get begins.
LEMMA CallGetStep ==
    ASSUME IInv, NEW c \in Client, CallGet(c)
    PROVE  CleanIsSet' /\ Forgotten' /\ OksHold' /\ AckedIsReplicated' /\ GetSees'
  <1>1. /\ req[c] = None /\ req' = [req EXCEPT ![c] = [op |-> "get"]]
        /\ UNCHANGED <<config, table, failed, oks, at, acked, clean>>
        /\ floor' = [floor EXCEPT ![c] = acked]
    BY DEF CallGet, Begin
  <1>2. /\ Backend' = Backend /\ \A x : Holds(x)' = Holds(x)
        /\ AckedIsReplicated'
    BY <1>1, SameHolds DEF IInv
  <1>3. /\ ~Is(c, "get") /\ ~Is(c, "set") /\ ~Overwrites(c)'
    BY <1>1 DEF Is, Overwrites, IInv, Types
  <1>4. /\ \A d \in Client \ {c} : req'[d] = req[d]
        /\ \A d \in Client \ {c}, op \in {"set", "get", "delete"} : Is(d, op)' <=> Is(d, op)
        /\ Overwriting' => Overwriting
    BY <1>1, <1>3, OtherCalls DEF IInv
  <1>5. ~clean[c] /\ oks[c] = {} /\ (config.need = config.n => at[c] = 1)
    BY <1>1, <1>3 DEF IInv, CleanIsSet, OksHold, GetSees
  <1>6. floor'[c] = acked /\ \A d \in Client \ {c} : floor'[d] = floor[d]
    BY <1>1 DEF IInv, Types
  <1>7. config.need = config.n => \A m \in acked : Backend \subseteq Holds(m)
    <2> SUFFICES ASSUME config.need = config.n, NEW m \in acked PROVE Holds(m) = Backend
      OBVIOUS
    <2>1. Holds(m) \subseteq Backend /\ Cardinality(Holds(m)) >= config.n
      BY DEF IInv, AckedIsReplicated, Holds
    <2> QED
      BY <2>1, BackendSets DEF IInv, Types
  <1>8. CleanIsSet' /\ Forgotten' /\ OksHold'
    <2>1. CleanIsSet'
      BY <1>1, <1>4, <1>5 DEF IInv, CleanIsSet
    <2>2. Forgotten'
      BY <1>1, <1>4, <1>6 DEF IInv, Forgotten
    <2>3. OksHold'
      BY <1>1, <1>2, <1>4, <1>5 DEF IInv, OksHold
    <2> QED
      BY <2>1, <2>2, <2>3
  <1>9. GetSees'
    BY <1>1, <1>2, <1>4, <1>5, <1>6, <1>7 DEF IInv, GetSees
  <1> QED
    BY <1>2, <1>8, <1>9

\* A call of client c that overwrites nothing loses nothing when a backend answers,
\* and one that overwrites finds nothing that is counted on.
LEMMA AnswerKeeps ==
    ASSUME IInv, [Next]_vars, NEW c \in Client, NEW b \in Backend, MayAnswer(c, b),
           Apply(c, b) \/ UNCHANGED <<table, since>>
    PROVE  \/ acked = {} /\ \A d \in Client : ~clean[d] /\ floor[d] = {}
           \/ \A x \in Message : Holds(x) \subseteq Holds(x)'
  <1>1. CASE Overwrites(c)
    BY <1>1 DEF IInv, Forgotten, Overwriting
  <1>2. CASE ~Overwrites(c) /\ Apply(c, b)
    BY <1>2, AnswerIsMonotone DEF IInv
  <1>3. CASE UNCHANGED table
    BY <1>3, ConfigStays, SameHolds
  <1> QED
    BY <1>1, <1>2, <1>3

\* What is counted on stays when entries only get better.
LEMMA CountedOnStays ==
    ASSUME IInv, UNCHANGED config, UNCHANGED acked,
           \/ acked = {} /\ \A d \in Client : ~clean[d] /\ floor[d] = {}
           \/ \A x \in Message : Holds(x) \subseteq Holds(x)'
    PROVE  /\ Backend' = Backend
           /\ AckedIsReplicated'
           /\ config.need = config.n =>
                \A d \in Client : \A m \in floor[d] : Backend \subseteq Holds(m)'
           /\ \A d \in Client : clean[d] => oks[d] \subseteq Holds(req[d].msg)
                                         /\ req[d].msg \in Message
           /\ \A d \in Client : clean[d] =>
                \A x \in Message : Holds(x) \subseteq Holds(x)'
  <1>1. Backend' = Backend
    BY DEF Backend
  <1>2. Published \subseteq Message
    BY ConfigFacts DEF IInv, Types
  <1>3. acked \subseteq Message /\ \A d \in Client : floor[d] \subseteq Message
    BY <1>2 DEF IInv, Types
  <1>4. AckedIsReplicated'
    <2> SUFFICES ASSUME NEW m \in acked PROVE Cardinality(Holds(m)') >= config.need
      BY <1>1 DEF AckedIsReplicated, Holds
    <2>1. Holds(m) \subseteq Holds(m)'
      BY <1>3
    <2>2. Holds(m) \subseteq Backend /\ Holds(m)' \subseteq Backend
      BY <1>1 DEF Holds
    <2>3. Cardinality(Holds(m)) <= Cardinality(Holds(m)')
          /\ Cardinality(Holds(m)) \in Nat /\ Cardinality(Holds(m)') \in Nat
      BY <2>1, <2>2, BackendSets DEF IInv, Types
    <2>4. Cardinality(Holds(m)) >= config.need /\ config.need \in Nat
      BY MultiAssumption DEF MultiAssumption, Config, IInv, Types, AckedIsReplicated, Holds
    <2> QED
      BY <2>3, <2>4
  <1>5. config.need = config.n =>
            \A d \in Client : \A m \in floor[d] : Backend \subseteq Holds(m)'
    <2> SUFFICES ASSUME config.need = config.n, NEW d \in Client, NEW m \in floor[d]
                 PROVE  Backend \subseteq Holds(m)'
      OBVIOUS
    <2>1. Backend \subseteq Holds(m)
      BY DEF IInv, GetSees
    <2>2. Holds(m) \subseteq Holds(m)'
      BY <1>3
    <2> QED
      BY <2>1, <2>2
  <1>6. ASSUME NEW d \in Client, clean[d]
        PROVE  oks[d] \subseteq Holds(req[d].msg) /\ req[d].msg \in Message
    BY <1>2, <1>6 DEF IInv, OksHold, CleanIsSet, Is, Types, Call
  <1>7. \A d \in Client : clean[d] => \A x \in Message : Holds(x) \subseteq Holds(x)'
    OBVIOUS
  <1> QED
    BY <1>1, <1>4, <1>5, <1>6, <1>7

\* A backend answers Ok.
LEMMA WriteOkStep ==
    ASSUME IInv, NEW c \in Client, NEW b \in Backend, WriteOk(c, b), [Next]_vars
    PROVE  CleanIsSet' /\ Forgotten' /\ OksHold' /\ AckedIsReplicated' /\ GetSees'
  <1>1. /\ MayAnswer(c, b) /\ Apply(c, b)
        /\ oks' = [oks EXCEPT ![c] = @ \cup {b}]
        /\ UNCHANGED <<config, req, at, acked, clean, floor, failed>>
    BY DEF WriteOk
  <1>2. /\ Backend' = Backend /\ AckedIsReplicated'
        /\ config.need = config.n =>
               \A d \in Client : \A m \in floor[d] : Backend \subseteq Holds(m)'
        /\ \A d \in Client : clean[d] => oks[d] \subseteq Holds(req[d].msg)
                                        /\ req[d].msg \in Message
        /\ \A d \in Client : clean[d] => \A x \in Message : Holds(x) \subseteq Holds(x)'
    BY <1>1, AnswerKeeps, CountedOnStays
  <1>3. (\A d \in Client, op \in {"set", "get", "delete"} : Is(d, op)' <=> Is(d, op))
        /\ (Overwriting' <=> Overwriting)
    BY <1>1 DEF Is, Overwriting, Overwrites
  <1>4. CleanIsSet' /\ Forgotten'
    BY <1>1, <1>3 DEF IInv, CleanIsSet, Forgotten
  <1>5. GetSees'
    BY <1>1, <1>2, <1>3 DEF IInv, GetSees
  <1>6. req[c] # None /\ ~Is(c, "get")
    BY <1>1, CallAssumption DEF MayAnswer, IInv, PendingCalls, CallAssumption, Is
  <1>7. oks'[c] = oks[c] \cup {b} /\ \A d \in Client \ {c} : oks'[d] = oks[d]
    BY <1>1 DEF IInv, Types
  <1>8. ASSUME clean[c] PROVE AtLeast(entry'[b], req[c].msg)
    <2>1. ~Overwrites(c)
      BY <1>8 DEF IInv, Forgotten, Overwriting
    <2> QED
      BY <1>1, <2>1, AnswerIsMonotone DEF IInv
  <1>9. OksHold'
    <2>1. ASSUME NEW d \in Client, clean'[d] PROVE oks'[d] \subseteq Holds(req[d].msg)'
      <3>1. clean[d]
        BY <1>1, <2>1
      <3>2. oks[d] \subseteq Holds(req[d].msg)'
        BY <1>1, <1>2, <3>1 DEF Holds
      <3>3. CASE d = c
        BY <1>1, <1>2, <1>7, <1>8, <3>1, <3>2, <3>3 DEF Holds
      <3> QED
        BY <1>7, <3>2, <3>3
    <2>2. \A d \in Client : (req'[d] = None \/ Is(d, "get")') => oks'[d] = {}
      BY <1>1, <1>3, <1>6, <1>7 DEF IInv, OksHold
    <2> QED
      BY <2>1, <2>2 DEF OksHold
  <1> QED
    BY <1>2, <1>4, <1>5, <1>9

\* The call of c returns.
LEMMA ReturnStep ==
    ASSUME IInv, NEW c \in Client, NEW r, Return(c, r),
           AckedIsReplicated', acked' \subseteq Published, Overwriting => acked' = {},
           config.need = config.n =>
               \A d \in Client : \A m \in floor[d] : Backend \subseteq Holds(m)',
           \A d \in Client : clean[d] => \A x \in Message : Holds(x) \subseteq Holds(x)'
    PROVE  CleanIsSet' /\ Forgotten' /\ OksHold' /\ GetSees'
  <1>1. /\ req' = [req EXCEPT ![c] = None] /\ UNCHANGED config
        /\ req'[c] = None /\ oks'[c] = {} /\ at'[c] = 1 /\ ~clean'[c] /\ floor'[c] = {}
        /\ \A d \in Client \ {c} : /\ oks'[d] = oks[d] /\ at'[d] = at[d]
                                   /\ clean'[d] <=> clean[d]
                                   /\ floor'[d] = floor[d] /\ (failed'[d] <=> failed[d])
    BY DEF Return, IInv, Types
  <1>2. ~Overwrites(c)' /\ ~Is(c, "get")'
    BY <1>1 DEF Overwrites, Is
  <1>3. /\ \A d \in Client \ {c} : req'[d] = req[d]
        /\ \A d \in Client \ {c}, op \in {"set", "get", "delete"} : Is(d, op)' <=> Is(d, op)
        /\ Overwriting' => Overwriting
    BY <1>1, <1>2, OtherCalls DEF IInv
  <1>4. CleanIsSet' /\ Forgotten'
    <2>1. CleanIsSet'
      BY <1>1, <1>3 DEF IInv, CleanIsSet
    <2>2. Forgotten'
      BY <1>1, <1>3 DEF IInv, Forgotten
    <2> QED
      BY <2>1, <2>2
  <1>5. Backend' = Backend
    BY <1>1 DEF Backend
  <1>6. OksHold'
    <2>1. ASSUME NEW d \in Client, clean'[d] PROVE oks'[d] \subseteq Holds(req[d].msg)'
      <3>1. d # c /\ clean[d] /\ oks'[d] = oks[d]
        BY <1>1, <2>1
      <3>2. req[d].msg \in Message /\ req'[d] = req[d]
        BY <1>3, <3>1, ConfigFacts DEF IInv, CleanIsSet, Is, Types, Call
      <3>3. oks[d] \subseteq Holds(req[d].msg)
        BY <3>1 DEF IInv, OksHold
      <3> QED
        BY <3>1, <3>2, <3>3 DEF Holds
    <2>2. \A d \in Client : (req'[d] = None \/ Is(d, "get")') => oks'[d] = {}
      BY <1>1, <1>3 DEF IInv, OksHold
    <2> QED
      BY <2>1, <2>2 DEF OksHold
  <1>7. GetSees'
    BY <1>1, <1>2, <1>3, <1>5 DEF IInv, GetSees
  <1> QED
    BY <1>4, <1>6, <1>7

\* A backend fails.
LEMMA WriteErrorStep ==
    ASSUME IInv, NEW c \in Client, NEW b \in Backend, WriteError(c, b), [Next]_vars
    PROVE  CleanIsSet' /\ Forgotten' /\ OksHold' /\ AckedIsReplicated' /\ GetSees'
  <1>1. /\ MayAnswer(c, b) /\ (Apply(c, b) \/ UNCHANGED <<table, since>>)
        /\ UNCHANGED <<config, acked>>
    BY ConfigStays DEF WriteError
  <1>2. /\ Backend' = Backend /\ AckedIsReplicated'
        /\ config.need = config.n =>
               \A d \in Client : \A m \in floor[d] : Backend \subseteq Holds(m)'
        /\ \A d \in Client : clean[d] => oks[d] \subseteq Holds(req[d].msg)
                                        /\ req[d].msg \in Message
        /\ \A d \in Client : clean[d] => \A x \in Message : Holds(x) \subseteq Holds(x)'
    BY <1>1, AnswerKeeps, CountedOnStays
  <1>3. CASE config.tee
    <2>1. Return(c, Err)
      BY <1>3 DEF WriteError
    <2>2. acked' \subseteq Published /\ (Overwriting => acked' = {})
      BY <1>1 DEF IInv, Types, Forgotten
    <2> QED
      BY <1>2, <2>1, <2>2, ReturnStep
  <1>4. CASE ~config.tee
    <2>1. UNCHANGED <<req, oks, at, clean, floor, failed>>
      BY <1>4 DEF WriteError
    <2>2. (\A d \in Client, op \in {"set", "get", "delete"} : Is(d, op)' <=> Is(d, op))
          /\ (Overwriting' <=> Overwriting)
      BY <2>1 DEF Is, Overwriting, Overwrites
    <2>3. CleanIsSet' /\ Forgotten'
      BY <1>1, <2>1, <2>2 DEF IInv, CleanIsSet, Forgotten
    <2>4. GetSees'
      BY <1>1, <1>2, <2>1, <2>2 DEF IInv, GetSees
    <2>5. ASSUME NEW d \in Client, clean'[d] PROVE oks'[d] \subseteq Holds(req[d].msg)'
      BY <1>2, <2>1, <2>5 DEF Holds
    <2>6. OksHold'
      BY <2>1, <2>2, <2>5 DEF IInv, OksHold
    <2> QED
      BY <1>2, <2>3, <2>4, <2>6
  <1> QED
    BY <1>3, <1>4

\* A set or delete returns.
LEMMA WriteDoneStep ==
    ASSUME IInv, NEW c \in Client, WriteDone(c)
    PROVE  CleanIsSet' /\ Forgotten' /\ OksHold' /\ AckedIsReplicated' /\ GetSees'
  <1> DEFINE r == IF PolicyMet(c) THEN Unit ELSE Err
  <1>1. /\ Return(c, r)
        /\ acked' = IF PolicyMet(c) /\ clean[c] THEN acked \cup {req[c].msg} ELSE acked
        /\ UNCHANGED <<table, config>>
    BY DEF WriteDone, Return
  <1>2. Backend' = Backend /\ \A x : Holds(x)' = Holds(x)
    BY <1>1, SameHolds
  <1>3. clean[c] => req[c].msg \in Published /\ ~Overwriting
    BY DEF IInv, CleanIsSet, Is, Types, Call, Forgotten
  <1>4. acked' \subseteq Published /\ (Overwriting => acked' = {})
    BY <1>1, <1>3 DEF IInv, Types, Forgotten
  <1>5. AckedIsReplicated'
    <2> SUFFICES ASSUME NEW m \in acked' PROVE Cardinality(Holds(m)) >= config.need
      BY <1>1, <1>2 DEF AckedIsReplicated, Holds
    <2>1. CASE m \in acked
      BY <2>1 DEF IInv, AckedIsReplicated, Holds
    <2>2. CASE m \notin acked
      <3>1. m = req[c].msg /\ Cardinality(oks[c]) >= config.need /\ clean[c]
        BY <1>1, <2>2 DEF PolicyMet
      <3>2. oks[c] \subseteq Holds(m) /\ Holds(m) \subseteq Backend
        BY <3>1 DEF IInv, OksHold, Holds
      <3>3. Cardinality(oks[c]) <= Cardinality(Holds(m))
            /\ Cardinality(oks[c]) \in Nat /\ Cardinality(Holds(m)) \in Nat
        BY <3>2, BackendSets DEF IInv, Types
      <3>4. config.need \in Nat
        BY MultiAssumption DEF MultiAssumption, Config, IInv, Types
      <3> QED
        BY <3>1, <3>3, <3>4
    <2> QED
      BY <2>1, <2>2
  <1>6. config.need = config.n =>
            \A d \in Client : \A m \in floor[d] : Backend \subseteq Holds(m)'
    BY <1>2 DEF IInv, GetSees
  <1> QED
    BY <1>1, <1>2, <1>4, <1>5, <1>6, ReturnStep

\* A get asks the next backend.
LEMMA AskNextStep ==
    ASSUME IInv, NEW c \in Client, NEW f \in BOOLEAN, AskNext(c, f), UNCHANGED <<table, acked>>,
           Is(c, "get"), at[c] <= config.n, f \/ entry[at[c]] = None
    PROVE  CleanIsSet' /\ Forgotten' /\ OksHold' /\ AckedIsReplicated' /\ GetSees'
  <1>1. /\ at' = [at EXCEPT ![c] = @ + 1]
        /\ failed' = [failed EXCEPT ![c] = @ \/ f]
        /\ UNCHANGED <<config, req, oks, clean, floor>>
    BY DEF AskNext
  <1>2. Backend' = Backend /\ (\A x : Holds(x)' = Holds(x)) /\ AckedIsReplicated'
    BY <1>1, SameHolds DEF IInv
  <1>3. (\A d \in Client, op \in {"set", "get", "delete"} : Is(d, op)' <=> Is(d, op))
        /\ (Overwriting' <=> Overwriting)
    BY <1>1 DEF Is, Overwriting, Overwrites
  <1>4. CleanIsSet' /\ Forgotten' /\ OksHold'
    BY <1>1, <1>2, <1>3 DEF IInv, CleanIsSet, Forgotten, OksHold
  <1>5. \A d \in Client \ {c} : at'[d] = at[d] /\ (failed'[d] <=> failed[d])
    BY <1>1 DEF IInv, Types
  <1>6. failed'[c] <=> failed[c] \/ f
    BY <1>1 DEF IInv, Types
  <1>7. config.need = config.n /\ ~f => floor[c] = {}
    <2> SUFFICES ASSUME config.need = config.n, ~f, NEW m \in floor[c] PROVE FALSE
      OBVIOUS
    <2>1. at[c] \in Backend
      BY MultiAssumption DEF MultiAssumption, Config, IInv, Types, Backend
    <2>2. at[c] \in Holds(m)
      BY <2>1 DEF IInv, GetSees
    <2> QED
      BY <2>2 DEF Holds, AtLeast
  <1>8. GetSees'
    BY <1>1, <1>2, <1>3, <1>5, <1>6, <1>7 DEF IInv, GetSees
  <1> QED
    BY <1>2, <1>4, <1>8

\* A get meets an answer or a failure.
LEMMA GetStep ==
    ASSUME IInv, NEW c \in Client, GetNext(c) \/ GetError(c), [Next]_vars
    PROVE  CleanIsSet' /\ Forgotten' /\ OksHold' /\ AckedIsReplicated' /\ GetSees'
  <1>1. UNCHANGED <<config, table, acked>> /\ Is(c, "get")
    BY ConfigStays DEF GetNext, GetError
  <1>2. Backend' = Backend /\ (\A x : Holds(x)' = Holds(x)) /\ AckedIsReplicated'
    BY <1>1, SameHolds DEF IInv
  <1>3. ASSUME NEW r, Return(c, r)
        PROVE  CleanIsSet' /\ Forgotten' /\ OksHold' /\ GetSees'
    <2>1. acked' \subseteq Published /\ (Overwriting => acked' = {})
      BY <1>1 DEF IInv, Types, Forgotten
    <2>2. config.need = config.n =>
              \A d \in Client : \A m \in floor[d] : Backend \subseteq Holds(m)'
      BY <1>2 DEF IInv, GetSees
    <2> QED
      BY <1>2, <1>3, <2>1, <2>2, ReturnStep
  <1>4. \/ \E r : Return(c, r)
        \/ at[c] <= config.n /\ entry[at[c]] = None /\ AskNext(c, FALSE)
        \/ at[c] <= config.n /\ AskNext(c, TRUE)
    BY DEF GetNext, GetError
  <1> QED
    BY <1>1, <1>2, <1>3, <1>4, AskNextStep
-----------------------------------------------------------------------------
LEMMA Inductive ==
    /\ Init /\ R!TypeOK => IInv
    /\ IInv /\ [Next]_vars /\ R!TypeOK' => IInv'
  <1>1. ASSUME Init, R!TypeOK PROVE IInv
    <2>1. config.n \in Nat \ {0} /\ MaxCalls \in Nat /\ config \in Configs
      BY <1>1, MultiAssumption DEF MultiAssumption, Config, Init
    <2>2. Types
      BY <1>1, <2>1 DEF Init, Types
    <2>3. PendingCalls
      BY <1>1 DEF Init, PendingCalls
    <2>4. CleanIsSet /\ Forgotten /\ OksHold /\ AckedIsReplicated /\ GetSees
      BY <1>1 DEF Init, CleanIsSet, Forgotten, OksHold, AckedIsReplicated, GetSees, Is
    <2> QED
      BY <1>1, <2>2, <2>3, <2>4 DEF IInv
  <1>2. ASSUME IInv, [Next]_vars, (R!TypeOK)' PROVE IInv'
    <2>1. Types' /\ PendingCalls'
      BY <1>2, TypesStep, PendingStep DEF IInv
    <2>2. CASE UNCHANGED vars
      <3>1. UNCHANGED <<config, table, req, oks, at, acked, clean, floor, failed>>
        BY <2>2 DEF vars
      <3>2. Backend' = Backend /\ (\A x : Holds(x)' = Holds(x)) /\ AckedIsReplicated'
        BY <1>2, <3>1, SameHolds DEF IInv
      <3>3. (\A d \in Client, op \in {"set", "get", "delete"} : Is(d, op)' <=> Is(d, op))
            /\ (Overwriting' <=> Overwriting)
        BY <3>1 DEF Is, Overwriting, Overwrites
      <3>4. CleanIsSet' /\ Forgotten' /\ OksHold' /\ GetSees'
        BY <1>2, <3>1, <3>2, <3>3 DEF IInv, CleanIsSet, Forgotten, OksHold, GetSees
      <3> QED
        BY <1>2, <2>1, <3>2, <3>4 DEF IInv
    <2>3. CASE Next
      <3>1. CleanIsSet' /\ Forgotten' /\ OksHold' /\ AckedIsReplicated' /\ GetSees'
        BY <1>2, <2>3, CallSetStep, CallGetStep, CallDeleteStep, WriteOkStep, WriteErrorStep,
           WriteDoneStep, GetStep DEF Next
      <3> QED
        BY <1>2, <2>1, <3>1 DEF IInv
    <2> QED
      BY <1>2, <2>2, <2>3
  <1> QED
    BY <1>1, <1>2

LEMMA Invariance == Spec => []IInv
  <1>1. Init /\ R!TypeOK => IInv
    BY Inductive
  <1>2. IInv /\ [Next]_vars /\ R!TypeOK' => IInv'
    BY Inductive
  <1> QED
    BY <1>1, <1>2, TablesAreTyped, PTL DEF Spec

\* Every state of the callers and the backends is well typed.
THEOREM TypeCorrect == Spec => []TypeOK
  <1>1. IInv => TypeOK
    BY DEF IInv, Types, TypeOK
  <1> QED
    BY <1>1, Invariance, PTL

\* A message whose set was answered Ok is on as many backends as the WritePolicy
\* asks for, or a better one is, whatever other callers and failing backends do.
THEOREM AckedIsReplicatedCorrect == Spec => []AckedIsReplicated
  <1>1. IInv => AckedIsReplicated
    BY DEF IInv
  <1> QED
    BY <1>1, Invariance, PTL

\* Under WritePolicy::All, and from a tee, a get returns no less than what was
\* acknowledged when it began, unless a backend that it asked has failed.
THEOREM GetSeesAckedCorrect == Spec => GetSeesAcked
  <1> DEFINE Sees == \A c \in Client :
          /\ config.need = config.n
          /\ Is(c, "get") /\ req'[c] = None /\ ret'[c] # Err /\ ~failed[c]
          => \A m \in floor[c] : AtLeast(ret'[c].msg, m)
  <1>1. ASSUME IInv, [Next]_vars PROVE [Sees]_vars
    <2> SUFFICES ASSUME Next, NEW c \in Client, config.need = config.n, Is(c, "get"),
                        req'[c] = None, ret'[c] # Err, ~failed[c], NEW m \in floor[c]
                 PROVE  AtLeast(ret'[c].msg, m)
      BY <1>1
    <2>1. req[c] # None /\ req[c].op = "get"
      BY DEF Is
    <2>2. at[c] = 1 /\ 1 \in Backend /\ config.n \in Nat \ {0}
      BY <1>1, MultiAssumption DEF IInv, GetSees, Types, Backend, MultiAssumption, Config
    <2>3. AtLeast(entry[1], m) /\ entry[1] # None
      BY <1>1, <2>2 DEF IInv, GetSees, Holds, AtLeast
    <2>4. GetNext(c)
      <3>1. \A d \in Client : \A v : req' = [req EXCEPT ![d] = v] => d = c
        BY <1>1, <2>1 DEF IInv, Types
      <3>2. wait[c] = {}
        BY <1>1, <2>1 DEF IInv, PendingCalls
      <3>3. ~GetError(c)
        BY <1>1, <2>1 DEF GetError, Return, AskNext, IInv, Types
      <3>4. ASSUME NEW d \in Client, NEW q, Begin(d, q) PROVE FALSE
        BY <2>1, <3>1, <3>4 DEF Begin
      <3>5. ASSUME NEW d \in Client, NEW b \in Backend, WriteOk(d, b) \/ WriteError(d, b)
            PROVE  FALSE
        BY <2>1, <3>1, <3>2, <3>5 DEF WriteOk, WriteError, MayAnswer, Return
      <3>6. ASSUME NEW d \in Client, WriteDone(d) PROVE FALSE
        BY <2>1, <3>1, <3>6 DEF WriteDone, Return, Is
      <3>7. ASSUME NEW d \in Client, GetNext(d) \/ GetError(d) PROVE d = c
        BY <2>1, <3>1, <3>7 DEF GetNext, GetError, Return, AskNext
      <3> QED
        BY <3>3, <3>4, <3>5, <3>6, <3>7 DEF Next, CallSet, CallGet, CallDelete
    <2>5. Return(c, Entry(entry[1]))
      <3>1. ~AskNext(c, FALSE)
        BY <2>1 DEF AskNext
      <3>2. ~(at[c] > config.n)
        BY <2>2
      <3>3. Return(c, Entry(entry[at[c]]))
        BY <2>2, <2>3, <2>4, <3>1, <3>2 DEF GetNext
      <3> QED
        BY <2>2, <3>3
    <2>6. ret'[c] = Entry(entry[1])
      BY <1>1, <2>5 DEF Return, IInv, Types
    <2> QED
      BY <2>3, <2>6 DEF Entry
  <1>2. IInv /\ [Next]_vars => [Sees]_vars
    BY <1>1
  <1> QED
    BY <1>2, Invariance, PTL DEF Spec, GetSeesAcked

-----------------------------------------------------------------------------
(***************************************************************************)
(* A registry on a blob store: with one writer and reads that do not fail  *)
(* StoreRegistry implements Registry, and a file that can be read holds    *)
(* the best message it was sent, for any keys, messages, deletes and       *)
(* crashes.                                                                *)
(***************************************************************************)
\* One task uses the registry, and Store::open_read_bytes fails only on a file
\* that is not there.
Alone == (\A v, w \in Writer : v = w) /\ ~ReadErrors

\* A file is whole or Torn.
WholeOrTorn == \A k \in Key : file[k] \in {last[k], Torn}

\* What was read before the write still holds when it happens.
ReadIsFresh ==
    \A w \in Writer : call[w] # None => ShouldStore(call[w], last[call[w].key])

StoreInv == StoreTypeOK /\ WholeOrTorn /\ ReadIsFresh
-----------------------------------------------------------------------------
\* A read meets the last good contents, or an error that ends the call.
LEMMA ReadIsLast ==
    ASSUME Alone, StoreInv, NEW k \in Key, NEW e \in GetResults(k)
    PROVE  e = last[k]
  BY StoreAssumption DEF StoreAssumption, Alone, StoreInv, WholeOrTorn, GetResults

LEMMA StoreMessageKey ==
    ASSUME NEW m \in Message
    PROVE  m.key \in Key /\ m # None
  BY NoneAssumption DEF NoneAssumption, Message

LEMMA SetReadStep ==
    ASSUME Alone, StoreInv, NEW w \in Writer, NEW m \in Message, SetRead(w, m)
    PROVE  StoreInv' /\ ([Abs!Next]_(Abs!vars))
  <1>1. PICK e \in GetResults(m.key) :
            IF ShouldStore(m, e)
            THEN call' = [call EXCEPT ![w] = m] /\ UNCHANGED settled
            ELSE settled' = Settled(m) /\ UNCHANGED call
    BY DEF SetRead
  <1>2. e = last[m.key] /\ m.key \in Key
    BY ReadIsLast, StoreMessageKey
  <1>3. UNCHANGED <<file, fd, last>>
    BY DEF SetRead
  <1>4. CASE ShouldStore(m, e)
    <2>1. StoreInv'
      BY <1>1, <1>2, <1>3, <1>4
         DEF StoreInv, StoreTypeOK, WholeOrTorn, ReadIsFresh, OptMessage
    <2>2. UNCHANGED Abs!vars
      BY <1>1, <1>3, <1>4 DEF Abs!vars
    <2> QED
      BY <2>1, <2>2
  <1>5. CASE ~ShouldStore(m, e)
    <2>1. settled' = Settled(m) /\ UNCHANGED call
      BY <1>1, <1>5
    <2>2. StoreInv'
      BY <1>2, <1>3, <2>1 DEF StoreInv, StoreTypeOK, WholeOrTorn, ReadIsFresh, Settled
    <2>3. Abs!Set("store", m)
      BY <1>2, <1>3, <1>5, <2>1 DEF Abs!Set, Settled, StoreInv, StoreTypeOK,
         ShouldStore, Abs!ShouldStore, Greater, Abs!Greater
    <2>4. m \in Abs!Message
      BY DEF Message, Abs!Message, MessageType, Abs!MessageType
    <2> QED
      BY <2>2, <2>3, <2>4 DEF Abs!Next
  <1> QED
    BY <1>4, <1>5

LEMMA PutBeginStep ==
    ASSUME StoreInv, NEW w \in Writer, PutBegin(w)
    PROVE  StoreInv' /\ UNCHANGED Abs!vars
  <1>1. call[w].key \in Key
    BY StoreMessageKey DEF PutBegin, StoreInv, StoreTypeOK, OptMessage
  <1>2. StoreInv'
    BY <1>1 DEF PutBegin, StoreInv, StoreTypeOK, WholeOrTorn, ReadIsFresh
  <1> QED
    BY <1>2 DEF PutBegin, Abs!vars

LEMMA SetWriteStep ==
    ASSUME Alone, StoreInv, NEW w \in Writer, SetWrite(w)
    PROVE  StoreInv' /\ ([Abs!Next]_(Abs!vars))
  <1> DEFINE m == call[w]
  <1>1. m \in Message /\ m.key \in Key /\ m \in Abs!Message
    BY StoreMessageKey DEF SetWrite, StoreInv, StoreTypeOK, OptMessage,
                      Message, Abs!Message, MessageType, Abs!MessageType
  <1>2. call' = [call EXCEPT ![w] = None] /\ fd' = [fd EXCEPT ![w] = "closed"]
    BY DEF SetWrite
  <1>3. \A v \in Writer : call'[v] = None
    BY <1>2 DEF Alone, StoreInv, StoreTypeOK
  <1>4. CASE fd[w] = "unlinked"
    <2>1. UNCHANGED <<file, last, settled>>
      BY <1>4 DEF SetWrite
    <2>2. StoreInv'
      BY <1>2, <1>3, <2>1 DEF StoreInv, StoreTypeOK, WholeOrTorn, ReadIsFresh, OptMessage
    <2> QED
      BY <2>1, <2>2 DEF Abs!vars
  <1>5. CASE fd[w] # "unlinked"
    <2>1. /\ file' = [file EXCEPT ![m.key] = m]
          /\ last' = [last EXCEPT ![m.key] = m]
          /\ settled' = Settled(m)
      BY <1>5 DEF SetWrite
    <2>2. StoreInv'
      BY <1>1, <1>2, <1>3, <2>1
         DEF StoreInv, StoreTypeOK, WholeOrTorn, ReadIsFresh, OptMessage, Settled
    <2>3. ShouldStore(m, last[m.key])
      BY DEF SetWrite, StoreInv, ReadIsFresh
    <2> HIDE DEF m
    <2>4. Abs!Set("store", m)
      BY <1>1, <2>1, <2>3 DEF Abs!Set, Settled, StoreInv, StoreTypeOK,
         ShouldStore, Abs!ShouldStore, Greater, Abs!Greater
    <2> QED
      BY <1>1, <2>2, <2>4 DEF Abs!Next
  <1> QED
    BY <1>4, <1>5

LEMMA DeleteStep ==
    ASSUME StoreInv, NEW k \in Key, Delete(k)
    PROVE  StoreInv' /\ Abs!Next
  <1>1. StoreInv'
    BY DEF Delete, StoreInv, StoreTypeOK, WholeOrTorn, ReadIsFresh,
           OptMessage, ShouldStore
  <1>2. Abs!Delete("store", k)
    BY DEF Delete, Abs!Delete, StoreInv, StoreTypeOK
  <1> QED
    BY <1>1, <1>2 DEF Abs!Next

LEMMA StoreStep ==
    ASSUME Alone, StoreInv, [StoreNext]_storeVars
    PROVE  StoreInv' /\ ([Abs!Next]_(Abs!vars))
  <1>1. CASE Crash
    BY <1>1 DEF Crash, StoreInv, StoreTypeOK, WholeOrTorn, ReadIsFresh,
                OptMessage, Abs!vars
  <1>2. CASE UNCHANGED storeVars
    BY <1>2 DEF storeVars, StoreInv, StoreTypeOK, WholeOrTorn, ReadIsFresh, Abs!vars
  <1> QED
    BY <1>1, <1>2, SetReadStep, PutBeginStep, SetWriteStep, DeleteStep DEF StoreNext

LEMMA StoreStart ==
    ASSUME StoreInit
    PROVE  StoreInv /\ Abs!Init
  BY DEF StoreInit, StoreInv, StoreTypeOK, WholeOrTorn, ReadIsFresh,
         OptMessage, Abs!Init
-----------------------------------------------------------------------------
\* Every state of the registry is well typed.
THEOREM StoreTypeCorrect == Alone => (StoreSpec => []StoreTypeOK)
  <1> SUFFICES ASSUME Alone PROVE StoreSpec => []StoreTypeOK
    OBVIOUS
  <1>1. StoreInit => StoreInv
    BY StoreStart
  <1>2. StoreInv /\ [StoreNext]_storeVars => StoreInv'
    BY StoreStep
  <1>3. StoreInv => StoreTypeOK
    BY DEF StoreInv
  <1> QED
    BY <1>1, <1>2, <1>3, PTL DEF StoreSpec

\* A StoreRegistry with one writer is a registry: each set and delete takes
\* effect in one step, at the write of the file or not at all, whatever crashes.
THEOREM RefinesRegistry == Alone => (StoreSpec => ImplementsRegistry)
  <1> SUFFICES ASSUME Alone PROVE StoreSpec => ImplementsRegistry
    OBVIOUS
  <1>1. StoreInit => StoreInv /\ Abs!Init
    BY StoreStart
  <1>2. StoreInv /\ [StoreNext]_storeVars => StoreInv' /\ [Abs!Next]_(Abs!vars)
    BY StoreStep
  <1> QED
    BY <1>1, <1>2, PTL DEF StoreSpec, ImplementsRegistry, Abs!Spec

-----------------------------------------------------------------------------
\* The last good contents of a file are at least as good as every message that
\* was answered Ok since the last delete.
LastIsBest == \A k \in Key : \A m \in settled[k] : AtLeast(last[k], m)

\* A row stays the best one when it is replaced as should_store says.
LEMMA RowStaysBest ==
    ASSUME NEW m \in Message, NEW e \in OptMessage,
           NEW S \in SUBSET Message,
           \A n \in S : AtLeast(e, n)
    PROVE  /\ ShouldStore(m, e) =>
                \A n \in (IF m.type = "Stream" THEN {m} ELSE S \cup {m}) : AtLeast(m, n)
           /\ ~ShouldStore(m, e) =>
                m.type # "Stream" /\ \A n \in S \cup {m} : AtLeast(e, n)
  <1>1. \A a \in Message : a.revision \in Nat /\ a.hash \in Nat /\ a # None
    BY OrderAssumption, NoneAssumption DEF OrderAssumption, NoneAssumption, Message
  <1>2. e # None => e \in Message
    BY DEF OptMessage
  <1>3. ASSUME NEW n \in S, ShouldStore(m, e), m.type # "Stream" PROVE AtLeast(m, n)
    BY <1>1, <1>2, <1>3 DEF AtLeast, Greater, SameOrder, ShouldStore
  <1>4. AtLeast(m, m)
    BY <1>1 DEF AtLeast, SameOrder
  <1>5. ASSUME ~ShouldStore(m, e) PROVE AtLeast(e, m) /\ m.type # "Stream"
    BY <1>1, <1>2, <1>5 DEF AtLeast, Greater, SameOrder, ShouldStore
  <1> QED
    BY <1>3, <1>4, <1>5

LEMMA LastIsBestStep ==
    ASSUME Alone, StoreInv, LastIsBest, [StoreNext]_storeVars
    PROVE  LastIsBest'
  <1> SUFFICES ASSUME NEW k \in Key PROVE (\A m \in settled[k] : AtLeast(last[k], m))'
    BY DEF LastIsBest
  <1>0. /\ last[k] \in OptMessage /\ settled[k] \in SUBSET Message
        /\ \A m \in settled[k] : AtLeast(last[k], m)
    BY DEF StoreInv, StoreTypeOK, LastIsBest
  <1>1. ASSUME NEW w \in Writer, NEW m \in Message, SetRead(w, m)
        PROVE  \A n \in settled'[k] : AtLeast(last'[k], n)
    <2>1. PICK e \in GetResults(m.key) :
              IF ShouldStore(m, e) THEN UNCHANGED settled ELSE settled' = Settled(m)
      BY <1>1 DEF SetRead
    <2>2. e = last[m.key] /\ m.key \in Key /\ last' = last
      BY <1>1, ReadIsLast, StoreMessageKey DEF SetRead
    <2>3. CASE ~ShouldStore(m, e) /\ k = m.key
      <3>1. settled'[k] = IF m.type = "Stream" THEN {m} ELSE settled[k] \cup {m}
        BY <2>1, <2>2, <2>3 DEF Settled, StoreInv, StoreTypeOK
      <3>2. m.type # "Stream" /\ \A n \in settled[k] \cup {m} : AtLeast(e, n)
        BY <1>0, <2>2, <2>3, RowStaysBest
      <3> QED
        BY <2>2, <2>3, <3>1, <3>2
    <2>4. CASE ShouldStore(m, e) \/ k # m.key
      BY <1>0, <2>1, <2>2, <2>4 DEF Settled, StoreInv, StoreTypeOK
    <2> QED
      BY <2>3, <2>4
  <1>2. ASSUME NEW w \in Writer, SetWrite(w)
        PROVE  \A n \in settled'[k] : AtLeast(last'[k], n)
    <2> DEFINE m == call[w]
    <2>1. m \in Message /\ m.key \in Key /\ ShouldStore(m, last[m.key])
      BY <1>2, StoreMessageKey
         DEF SetWrite, StoreInv, StoreTypeOK, OptMessage, ReadIsFresh
    <2>2. \/ UNCHANGED <<last, settled>>
          \/ last' = [last EXCEPT ![m.key] = m] /\ settled' = Settled(m)
      BY <1>2 DEF SetWrite
    <2> HIDE DEF m
    <2>3. CASE UNCHANGED <<last, settled>> \/ k # m.key
      BY <1>0, <2>1, <2>2, <2>3 DEF Settled, StoreInv, StoreTypeOK
    <2>4. CASE last' = [last EXCEPT ![m.key] = m] /\ settled' = Settled(m) /\ k = m.key
      <3>1. settled'[k] = IF m.type = "Stream" THEN {m} ELSE settled[k] \cup {m}
        BY <2>1, <2>4 DEF Settled, StoreInv, StoreTypeOK
      <3>2. last'[k] = m
        BY <2>1, <2>4 DEF StoreInv, StoreTypeOK
      <3> QED
        BY <1>0, <2>1, <2>4, <3>1, <3>2, RowStaysBest
    <2> QED
      BY <2>2, <2>3, <2>4
  <1>3. ASSUME NEW j \in Key, Delete(j)
        PROVE  \A n \in settled'[k] : AtLeast(last'[k], n)
    BY <1>0, <1>3 DEF Delete, StoreInv, StoreTypeOK
  <1>4. CASE UNCHANGED <<last, settled>>
    BY <1>0, <1>4
  <1> QED
    BY <1>1, <1>2, <1>3, <1>4 DEF StoreNext, PutBegin, Crash, storeVars

\* A file that can be read holds an entry at least as good as every message that
\* was answered Ok since the last delete.
THEOREM TornOrBestCorrect == Alone => (StoreSpec => []TornOrBest)
  <1> SUFFICES ASSUME Alone PROVE StoreSpec => []TornOrBest
    OBVIOUS
  <1>1. StoreInit => StoreInv /\ LastIsBest
    BY StoreStart DEF StoreInit, LastIsBest
  <1>2. StoreInv /\ LastIsBest /\ [StoreNext]_storeVars => StoreInv' /\ LastIsBest'
    BY StoreStep, LastIsBestStep
  <1>3. StoreInv /\ LastIsBest => TornOrBest
    BY DEF StoreInv, WholeOrTorn, LastIsBest, TornOrBest
  <1> QED
    BY <1>1, <1>2, <1>3, PTL DEF StoreSpec
=============================================================================
