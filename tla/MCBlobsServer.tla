---------------------------- MODULE MCBlobsServer ----------------------------
(***************************************************************************)
(* Nodes for BlobsServer, each with its peers and what they call.          *)
(***************************************************************************)
EXTENDS BlobsServer, TLC

CONSTANTS p1, p2, p3, b1, b2, s1, s2, s3

\* p1 has an entry of its own, p2 the wildcard's, both upload to s1; p3's
\* entry names a store that does not exist.
SharedCfg ==
    (p1 :> [uploads |-> s1, readable |-> <<s3, s2, s1>>])
        @@ (p3 :> [uploads |-> s3, readable |-> <<s1>>])
        @@ (Wildcard :> [uploads |-> s1, readable |-> <<s1>>])

\* p1 uploads to s1; no other peer is configured.
OneCfg == p1 :> [uploads |-> s1, readable |-> <<s2, s1>>]

NoLocal == [s \in Store |-> {}]

\* The node's own file system keeps b1 in s2.
SomeLocal == [s \in Store |-> IF s = s2 THEN {b1} ELSE {}]

NoCuts == [b \in Blob |-> {}]

\* A broken upload of b2 leaves b1 (b1 is the empty blob).
CutToEmpty == [b \in Blob |-> IF b = b2 THEN {b1} ELSE {}]

\* A peer has the node for itself; another one that is not configured calls too.
Own ==
    [peers |-> OneCfg,
     use |-> [local |-> NoLocal, callers |-> {p1, p2}, calls |-> CallName,
              on |-> {b1, b2}, cuts |-> NoCuts, errors |-> FALSE, crashes |-> 2]]

\* Three peers share the stores.
Shared ==
    [peers |-> SharedCfg,
     use |-> [local |-> NoLocal, callers |-> {p1, p2, p3}, calls |-> CallName,
              on |-> {b1}, cuts |-> NoCuts, errors |-> FALSE, crashes |-> 0]]

\* Two peers share the stores, and uploads break off.
Cut ==
    [peers |-> SharedCfg,
     use |-> [local |-> SomeLocal, callers |-> {p1, p2},
              calls |-> {"upload_bytes", "import_bytes", "delete_blob"},
              on |-> {b1, b2}, cuts |-> CutToEmpty, errors |-> FALSE, crashes |-> 0]]

\* Two peers share the stores, and everything fails.
Failing ==
    [peers |-> SharedCfg,
     use |-> [local |-> SomeLocal, callers |-> {p1, p2}, calls |-> CallName,
              on |-> {b1}, cuts |-> NoCuts, errors |-> TRUE, crashes |-> 1]]

MCConfigs == {Own, Shared, Cut, Failing}

\* Two peers upload and delete one blob, and nothing fails.
Race ==
    [peers |-> SharedCfg,
     use |-> [local |-> NoLocal, callers |-> {p1, p2},
              calls |-> {"upload_bytes", "delete_blob"},
              on |-> {b1}, cuts |-> NoCuts, errors |-> FALSE, crashes |-> 0]]

RaceConfigs == {Race}
=============================================================================
