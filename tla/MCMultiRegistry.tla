--------------------------- MODULE MCMultiRegistry ---------------------------
(***************************************************************************)
(* Instances of MultiRegistry for TLC: one key, and messages with two      *)
(* revisions, two of them with the same one, and a message of a stream.    *)
(***************************************************************************)
EXTENDS MultiRegistry, TLC

CONSTANT k

M(type, r, h) == [type |-> type, key |-> k, revision |-> r, hash |-> h]
Old == M("Registry", 1, 1)
New == M("Registry", 2, 1)
Tie == M("Registry", 2, 2)
InStream == M("Stream", 1, 2)

\* The policies all, quorum:2 of three and any of two, and a tee.
MCConfigs ==
    {[n |-> 2, need |-> 2, tee |-> FALSE, published |-> {Old, New, Tie}],
     [n |-> 3, need |-> 2, tee |-> FALSE, published |-> {Old, New}],
     [n |-> 2, need |-> 1, tee |-> FALSE, published |-> {Tie, New, InStream}],
     [n |-> 2, need |-> 2, tee |-> TRUE, published |-> {Old, New, InStream}]}

\* The clients are alike.
Symmetry == Permutations(Client)
=============================================================================
