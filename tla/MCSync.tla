-------------------------------- MODULE MCSync --------------------------------
(***************************************************************************)
(* Instances of Sync for TLC.  The keys are a, a/b, a/c and d.             *)
(***************************************************************************)
EXTENDS Sync

CONSTANTS n1, n2

MCFirst == <<1, 1, 1, 4>>
MCBucket == (0 :> <<0, 1, 0, 1>>) @@ (1 :> <<1, 0, 0, 0>>)

MCConfig(replicas, names, files, ops, stamps, threshold, nedits, nticks, nfaults) ==
    [replicas |-> replicas, names |-> names, files |-> files, ops |-> ops,
     stamps |-> stamps, threshold |-> threshold, edits |-> nedits, ticks |-> nticks,
     limit |-> 1, faults |-> nfaults]

\* One file system that is edited, sharded and restarted, and one that is listed;
\* two replicas that edit a key as a file, without and with a failure, or as a
\* directory, or as both; and two whose directories outgrow the threshold.
MCConfigs ==
    UNION {{MCConfig({n}, 1..4, {4}, {"put", "delete", "dir"}, {1}, 2, 3, 0, 2),
            MCConfig({n}, {1, 2, 4}, {1, 4}, {"put", "dir", "list"}, {1}, 2, 2, 0, 1)} : n \in {n1, n2}}
    \cup
    {MCConfig({n1, n2}, {1}, {}, {"put", "delete"}, {1, 2}, 9, 2, 5, 0),
     MCConfig({n1, n2}, {1}, {}, {"put"}, {1, 2}, 9, 2, 4, 1),
     MCConfig({n1, n2}, {1}, {}, {"dir"}, {1, 2}, 9, 2, 4, 0),
     MCConfig({n1, n2}, {1}, {1}, {"put", "dir"}, {1, 2}, 9, 2, 3, 0),
     MCConfig({n1, n2}, {1, 4}, {}, {"put"}, {1}, 2, 2, 3, 0)}

\* The replicas are interchangeable.
MCSymmetry == Permutations({n1, n2})
==============================================================================
