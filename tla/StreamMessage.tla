---------------------------- MODULE StreamMessage ----------------------------
(***************************************************************************)
(* The registry entry of s5_core (stream/types/mod.rs) and its conflict    *)
(* order (stream/types/order.rs).  A message carries a type, a key, a      *)
(* 64-bit revision and the BLAKE3 hash of its payload.  Hashes are 32-byte *)
(* arrays compared lexicographically: all that is used of them is that     *)
(* they are totally ordered, so they are natural numbers here.  Signatures *)
(* and inline payloads play no part in the order and are left out.         *)
(***************************************************************************)
EXTENDS Integers

CONSTANTS
    Key,        \* the StreamKeys in use
    Revision,   \* the u64 revisions in use
    Hash,       \* the payload hashes in use, ordered as numbers
    None        \* Option::None

ASSUME OrderAssumption ==
    /\ Revision \subseteq Nat
    /\ Hash \subseteq Nat

MessageType == {"Stream", "Registry"}

Message == [type : MessageType, key : Key, revision : Revision, hash : Hash]

ASSUME NoneAssumption == None \notin Message

\* Option<StreamMessage>
OptMessage == Message \cup {None}

\* Broken variant of Greater: the tie-break on the hash forgotten.
GreaterNoTieBreak(a, b) == a.revision > b.revision

\* Ord::cmp(a, b) = Greater: the higher revision, and on a tie the smaller hash.
Greater(a, b) ==
    \/ a.revision > b.revision
    \/ a.revision = b.revision /\ a.hash < b.hash

\* Ord::cmp(a, b) = Equal: "identical for ordering purposes".
SameOrder(a, b) == a.revision = b.revision /\ a.hash = b.hash

\* StreamMessage::should_store(m, existing)
ShouldStore(m, existing) ==
    \/ m.type = "Stream"
    \/ existing = None
    \/ Greater(m, existing)

\* existing is at least as good as m: storing m again would change nothing.
AtLeast(existing, m) ==
    existing # None /\ (Greater(existing, m) \/ SameOrder(existing, m))
=============================================================================
