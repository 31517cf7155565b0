-------------------------------- MODULE MCGc --------------------------------
(***************************************************************************)
(* A root and two directory snapshots, of which the second may refer to    *)
(* the first, with at most one file each: live, with an older version, or  *)
(* deleted.  All combinations of references, index and keys are tried, so  *)
(* that directories are shared between head and snapshots, unreachable, or *)
(* reachable only through a snapshot.                                      *)
(***************************************************************************)
EXTENDS Gc

CONSTANTS c1, c2, c3

File(vs, t) == [versions |-> vs, tombstone |-> t]

\* A version that only a deleted file has is not in the store of some inputs.
FileSets ==
    {{}, {File(<<c1>>, FALSE)}, {File(<<c2, c1>>, FALSE)}, {File(<<c3, c3>>, TRUE)}}

Ref(h, k) == [hash |-> h, key |-> k]
Snapshot(files, dirs) == [files |-> files, dirs |-> dirs]

\* What is in the store, what is pinned, and which command it is.
Commands ==
    {[store |-> {c1, c2, c3}, pins |-> {}, verify |-> FALSE, dry_run |-> FALSE],
     [store |-> {c1, c3}, pins |-> {c1}, verify |-> FALSE, dry_run |-> FALSE],
     [store |-> {c1, c2, c3}, pins |-> {c1}, verify |-> FALSE, dry_run |-> TRUE],
     [store |-> {c1, c3}, pins |-> {}, verify |-> TRUE, dry_run |-> FALSE]}

\* The root refers to the snapshots in r0; snapshot 2 refers to snapshot 1
\* with its key, without one, or not at all.
MCInputs ==
    {[root |-> Snapshot(f0, {Ref(h, ks[h]) : h \in r0}),
      tree |-> <<Snapshot(f1, {}),
                 Snapshot(f2, CASE r2 = "own" -> {Ref(1, ks[1])}
                                [] r2 = "inherited" -> {Ref(1, None)}
                                [] r2 = "none" -> {})>>,
      sealed |-> ks, index |-> x,
      store |-> cmd.store, pins |-> cmd.pins, verify |-> cmd.verify,
      dry_run |-> cmd.dry_run] :
        f0 \in FileSets, f1 \in FileSets, f2 \in FileSets,
        r0 \in SUBSET {1, 2}, r2 \in {"own", "inherited", "none"},
        ks \in (Key \cup {None}) \X (Key \cup {None}),
        x \in SUBSET {1, 2}, cmd \in Commands}
=============================================================================
