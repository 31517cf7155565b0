------------------------------- MODULE Registry -------------------------------
(***************************************************************************)
(* The registry that keeps one entry per key: RedbRegistry (one write      *)
(* transaction per call) and MemoryRegistry (one write-lock critical       *)
(* section per call), each reached directly or through a RegistryServer.   *)
(* Several backends hold copies of the same key space; messages reach them *)
(* in any order, any number of times, or never.                            *)
(*                                                                         *)
(* since[b][k] is a history variable: the messages backend b was asked to  *)
(* store under k since the entry was last written unconditionally (by a    *)
(* delete, or by a Stream message, which should_store always admits).      *)
(***************************************************************************)
EXTENDS StreamMessage

CONSTANT Backend

VARIABLES table, since

vars == <<table, since>>

TypeOK ==
    /\ table \in [Backend -> [Key -> OptMessage]]
    /\ since \in [Backend -> [Key -> SUBSET Message]]

Init ==
    /\ table = [b \in Backend |-> [k \in Key |-> None]]
    /\ since = [b \in Backend |-> [k \in Key |-> {}]]

\* RegistryApi::get
Get(b, k) == table[b][k]

\* RegistryApi::set: read, should_store and insert under one transaction.
Set(b, m) ==
    /\ table' = IF ShouldStore(m, table[b][m.key])
                THEN [table EXCEPT ![b][m.key] = m]
                ELSE table
    /\ since' = [since EXCEPT ![b][m.key] =
                    IF m.type = "Stream" THEN {m} ELSE @ \cup {m}]

\* Broken variant of Delete: the row survives.
DeleteKeepsRow(b, k) ==
    /\ UNCHANGED table
    /\ since' = [since EXCEPT ![b][k] = {}]

\* RegistryApi::delete: the row goes, whatever its revision.
Delete(b, k) ==
    /\ table' = [table EXCEPT ![b][k] = None]
    /\ since' = [since EXCEPT ![b][k] = {}]

Next ==
    \E b \in Backend :
        \/ \E m \in Message : Set(b, m)
        \/ \E k \in Key : Delete(b, k)

Spec == Init /\ [][Next]_vars
-----------------------------------------------------------------------------
(***************************************************************************)
(* Properties.                                                             *)
(***************************************************************************)

\* The stored entry is one of the messages received since the last
\* unconditional write, and none of those beats it (should_store with the
\* order of order.rs): nothing better than the entry was ever turned away.
EntryIsBest ==
    \A b \in Backend, k \in Key :
        /\ since[b][k] = {} <=> table[b][k] = None
        /\ since[b][k] # {} =>
              /\ table[b][k] \in since[b][k]
              /\ \A m \in since[b][k] : AtLeast(table[b][k], m)

\* "Eventual Consistency" of stream/types/mod.rs: two backends that received
\* the same messages, in whatever order and however often, hold entries of
\* the same revision and payload hash.
Converged ==
    \A a, b \in Backend, k \in Key :
        since[a][k] = since[b][k] /\ since[a][k] # {}
            => SameOrder(table[a][k], table[b][k])
=============================================================================
