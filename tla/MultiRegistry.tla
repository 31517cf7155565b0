---------------------------- MODULE MultiRegistry ----------------------------
(***************************************************************************)
(* MultiRegistry and TeeRegistry (s5_registry/src/lib.rs): one RegistryApi *)
(* over several others.  A MultiRegistry sends every set and delete to all *)
(* backends at once, waits for all of them and counts the successes; a     *)
(* TeeRegistry goes from the local one to the remote one and stops at the  *)
(* first error.  Both read one backend after the other and return the      *)
(* first entry they find.                                                  *)
(*                                                                         *)
(* The keys of a registry are independent, so the calls are about one of   *)
(* them.  The backends are those of module Registry, whose set and delete  *)
(* are the steps of the calls here; they may fail, and a failed write may  *)
(* have been made (a remote backend whose answer is lost).                 *)
(***************************************************************************)
EXTENDS StreamMessage, FiniteSets, FiniteSetsExt

CONSTANTS
    Configs,       \* the registries that are configured
    Client,        \* concurrent callers
    MaxCalls       \* bound on the calls of each client

TheKey == CHOOSE k \in Key : TRUE

\* n backends, in the order they are read, and the successes that the
\* WritePolicy asks for, or a TeeRegistry; and the messages that are published.
Config == {c \in [n : Nat \ {0}, need : Nat, tee : BOOLEAN, published : SUBSET Message] :
            /\ c.tee => c.n = 2 /\ c.need = 2
            /\ \A m \in c.published : m.key = TheKey}

ASSUME MultiAssumption ==
    /\ Configs \subseteq Config
    /\ Key # {}
    /\ MaxCalls \in Nat

\* None stands for no call, so it is not one.
ASSUME CallAssumption ==
    None \notin [op : {"set"}, msg : Message] \cup [op : {"get", "delete"}]

VARIABLES
    config,   \* the registry that is used, which no step changes
    table,    \* the tables of the backends (Registry)
    since,    \* history: what each backend was asked to store (Registry)
    req,      \* the call of each client
    wait,     \* set, delete: the backends that have not answered
    oks,      \* set, delete: the backends that answered Ok
    at,       \* get: the backend to ask next
    ret,      \* the result of the last call
    calls,    \* calls made so far
    acked,    \* history: messages whose set returned Ok, none overwritten since
    clean,    \* history: no delete or Stream message ran since the client's set began
    floor,    \* history: acked when the client's get began
    failed    \* history: a backend failed to answer the client's get

AllBackends == UNION {1..c.n : c \in Configs}
Backend == 1..config.n

R == INSTANCE Registry WITH Backend <- AllBackends

Published == config.published
entry == [b \in Backend |-> R!Get(b, TheKey)]

vars == <<config, table, since, req, wait, oks, at, ret, calls, acked, clean, floor, failed>>

Call == [op : {"set"}, msg : Published] \cup [op : {"get", "delete"}]
Result == [ok : {"unit"}] \cup [ok : {"entry"}, msg : OptMessage] \cup [ok : {"err"}]

Unit == [ok |-> "unit"]
Entry(m) == [ok |-> "entry", msg |-> m]
Err == [ok |-> "err"]

TypeOK ==
    /\ config \in Configs
    /\ R!TypeOK
    /\ req \in [Client -> Call \cup {None}]
    /\ wait \in [Client -> SUBSET Backend]
    /\ oks \in [Client -> SUBSET Backend]
    /\ at \in [Client -> 1..(config.n + 1)]
    /\ ret \in [Client -> Result \cup {None}]
    /\ calls \in [Client -> 0..MaxCalls]
    /\ acked \subseteq Published
    /\ clean \in [Client -> BOOLEAN]
    /\ floor \in [Client -> SUBSET Published]
    /\ failed \in [Client -> BOOLEAN]

Init ==
    /\ config \in Configs
    /\ R!Init
    /\ req = [c \in Client |-> None]
    /\ wait = [c \in Client |-> {}]
    /\ oks = [c \in Client |-> {}]
    /\ at = [c \in Client |-> 1]
    /\ ret = [c \in Client |-> None]
    /\ calls = [c \in Client |-> 0]
    /\ acked = {}
    /\ clean = [c \in Client |-> FALSE]
    /\ floor = [c \in Client |-> {}]
    /\ failed = [c \in Client |-> FALSE]

Is(c, op) == req[c] # None /\ req[c].op = op

\* A Stream message is stored whatever is there, as a delete removes it.
Overwrites(c) == Is(c, "delete") \/ (Is(c, "set") /\ req[c].msg.type = "Stream")
Overwriting == \E c \in Client : Overwrites(c)

Begin(c, call) ==
    /\ req[c] = None
    /\ calls[c] < MaxCalls
    /\ calls' = [calls EXCEPT ![c] = @ + 1]
    /\ req' = [req EXCEPT ![c] = call]
    /\ ret' = [ret EXCEPT ![c] = None]
    /\ UNCHANGED <<config, table, since, failed>>

\* The call returns r.
Return(c, r) ==
    /\ ret' = [ret EXCEPT ![c] = r]
    /\ req' = [req EXCEPT ![c] = None]
    /\ wait' = [wait EXCEPT ![c] = {}]
    /\ oks' = [oks EXCEPT ![c] = {}]
    /\ at' = [at EXCEPT ![c] = 1]
    /\ clean' = [clean EXCEPT ![c] = FALSE]
    /\ floor' = [floor EXCEPT ![c] = {}]
    /\ failed' = [failed EXCEPT ![c] = FALSE]
    /\ UNCHANGED <<config, calls>>
-----------------------------------------------------------------------------
(***************************************************************************)
(* set and delete.                                                         *)
(***************************************************************************)
\* Nobody counts on an entry once a delete or a Stream message is on its way.
Forget ==
    /\ acked' = {}
    /\ clean' = [d \in Client |-> FALSE]
    /\ floor' = [d \in Client |-> {}]

CallSet(c, m) ==
    /\ Begin(c, [op |-> "set", msg |-> m])
    /\ wait' = [wait EXCEPT ![c] = Backend]
    /\ IF m.type = "Stream" THEN Forget
       ELSE clean' = [clean EXCEPT ![c] = ~Overwriting] /\ UNCHANGED <<acked, floor>>
    /\ UNCHANGED <<oks, at>>

CallDelete(c) ==
    /\ Begin(c, [op |-> "delete"])
    /\ wait' = [wait EXCEPT ![c] = Backend]
    /\ Forget
    /\ UNCHANGED <<oks, at>>

\* join_all lets the backends answer in any order, the tee goes from the
\* local one to the remote one.
MayAnswer(c, b) == b \in wait[c] /\ (config.tee => b = Min(wait[c]))

\* Broken variant of Apply: a set writes whatever is there.
ApplyUnchecked(c, b) ==
    IF req[c].op = "delete" THEN R!Delete(b, TheKey)
    ELSE /\ table' = [table EXCEPT ![b][TheKey] = req[c].msg]
         /\ since' = [since EXCEPT ![b][TheKey] = @ \cup {req[c].msg}]

\* What backend b does: RegistryApi::set or delete.
Apply(c, b) ==
    IF req[c].op = "delete" THEN R!Delete(b, TheKey) ELSE R!Set(b, req[c].msg)

WriteOk(c, b) ==
    /\ MayAnswer(c, b)
    /\ Apply(c, b)
    /\ wait' = [wait EXCEPT ![c] = @ \ {b}]
    /\ oks' = [oks EXCEPT ![c] = @ \cup {b}]
    /\ UNCHANGED <<config, req, at, ret, calls, acked, clean, floor, failed>>

\* A backend fails.  The tee returns the error at once.
WriteError(c, b) ==
    /\ MayAnswer(c, b)
    /\ Apply(c, b) \/ UNCHANGED <<table, since>>
    /\ IF config.tee THEN Return(c, Err)
       ELSE /\ wait' = [wait EXCEPT ![c] = @ \ {b}]
            /\ UNCHANGED <<config, req, oks, at, ret, calls, clean, floor, failed>>
    /\ UNCHANGED acked

\* Broken variant of PolicyMet: one success too few is enough.
PolicyAlmostMet(c) == Cardinality(oks[c]) + 1 >= config.need

\* All: every backend; Any: one; Quorum(n): n.
PolicyMet(c) == Cardinality(oks[c]) >= config.need

\* All have answered.
WriteDone(c) ==
    /\ Is(c, "set") \/ Is(c, "delete")
    /\ wait[c] = {}
    /\ Return(c, IF PolicyMet(c) THEN Unit ELSE Err)
    /\ acked' = IF PolicyMet(c) /\ clean[c] THEN acked \cup {req[c].msg} ELSE acked
    /\ UNCHANGED <<table, since>>
-----------------------------------------------------------------------------
(***************************************************************************)
(* get.                                                                    *)
(***************************************************************************)
CallGet(c) ==
    /\ Begin(c, [op |-> "get"])
    /\ floor' = [floor EXCEPT ![c] = acked]
    /\ UNCHANGED <<wait, oks, at, acked, clean>>

\* Whether the backend asked has failed.
AskNext(c, failure) ==
    /\ at' = [at EXCEPT ![c] = @ + 1]
    /\ failed' = [failed EXCEPT ![c] = @ \/ failure]
    /\ UNCHANGED <<config, req, wait, oks, ret, calls, clean, floor>>

\* The next backend answers, or none is left.
GetNext(c) ==
    /\ Is(c, "get")
    /\ \/ at[c] > config.n /\ Return(c, Entry(None))
       \/ at[c] <= config.n /\ entry[at[c]] = None /\ AskNext(c, FALSE)
       \/ at[c] <= config.n /\ entry[at[c]] # None /\ Return(c, Entry(entry[at[c]]))
    /\ UNCHANGED <<table, since, acked>>

\* The next backend fails: a MultiRegistry goes on, the tee returns the error.
GetError(c) ==
    /\ Is(c, "get") /\ at[c] <= config.n
    /\ IF config.tee THEN Return(c, Err) ELSE AskNext(c, TRUE)
    /\ UNCHANGED <<table, since, acked>>

Next ==
    \E c \in Client :
        \/ \E m \in Published : CallSet(c, m)
        \/ CallGet(c)
        \/ CallDelete(c)
        \/ \E b \in Backend : WriteOk(c, b)
        \/ \E b \in Backend : WriteError(c, b)
        \/ WriteDone(c)
        \/ GetNext(c)
        \/ GetError(c)

Spec == Init /\ [][Next]_vars
-----------------------------------------------------------------------------
(***************************************************************************)
(* Properties.                                                             *)
(***************************************************************************)

\* What the backends promise one by one (Registry): each holds the best message it
\* was sent since the last unconditional write, and two that were sent the same
\* messages agree on revision and hash.
EntryIsBest == R!EntryIsBest
Converged == R!Converged

\* An acknowledged message is on as many backends as the policy asks for, or
\* a better one is, whatever other clients publish and whatever fails
\* afterwards.
AckedIsReplicated ==
    \A m \in acked : Cardinality({b \in Backend : AtLeast(entry[b], m)}) >= config.need

\* RegistryApi::get "Retrieves the latest entry for a given key": under the
\* policy All, and from a tee, a get that begins after a set returned Ok
\* returns that message or a better one, unless a backend it asked has failed.
GetSeesAcked ==
    [][\A c \in Client :
          /\ config.need = config.n
          /\ Is(c, "get") /\ req'[c] = None /\ ret'[c] # Err /\ ~failed[c]
          => \A m \in floor[c] : AtLeast(ret'[c].msg, m)]_vars
=============================================================================
