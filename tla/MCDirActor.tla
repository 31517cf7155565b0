------------------------------ MODULE MCDirActor ------------------------------
(***************************************************************************)
(* Small trees for DirActor: "a" and "b" are directories in the root,      *)
(* "a/b" is one in "a", and "a//" stands for what the empty name in "a"    *)
(* denotes.                                                                *)
(***************************************************************************)
EXTENDS DirActor, TLC

MCDir == {"/", "a", "b", "a/b", "a//"}
MCParent == [d \in Dir \ {Root} |-> IF d \in {"a/b", "a//"} THEN "a" ELSE Root]
MCBlank == [d \in Dir |-> IF d = "a" THEN "a//" ELSE None]

\* The snapshots of a tree of empty directories.
EmptyTree(exists) ==
    LET tree[d \in Dir] == Snapshot(NoFiles, [e \in ChildrenIn(exists, d) |-> tree[e]]) IN tree

\* Everything: failures, a crash, autosave, shutdown, a directory that is created.
Everything ==
    [dirs |-> {"/", "a"}, exists |-> {"/"}, ops |-> Ops, capacity |-> 2,
     calls |-> 4, crashes |-> 1, errors |-> TRUE]

\* Puts that race with the creation of the directory they lead into.
Creating ==
    [dirs |-> {"/", "a", "a/b"}, exists |-> {"/", "a"},
     ops |-> {"file_put", "file_put_sync", "file_get", "create_dir", "save"},
     capacity |-> 3, calls |-> 4, crashes |-> 0, errors |-> FALSE]

\* The same directory is created again.
Again ==
    [dirs |-> {"/", "a", "a//"}, exists |-> {"/"},
     ops |-> {"file_put_sync", "create_dir", "save"},
     capacity |-> 3, calls |-> 4, crashes |-> 0, errors |-> FALSE]

\* Puts and saves of two clients in two directories, and a crash.
Saving ==
    [dirs |-> {"/", "a", "b"}, exists |-> {"/", "a", "b"},
     ops |-> {"file_put", "file_put_sync", "save"},
     capacity |-> 3, calls |-> 4, crashes |-> 1, errors |-> FALSE]

\* Saves of a directory two levels down, with and without failures.
Nested(errors) ==
    [dirs |-> {"/", "a", "a/b"}, exists |-> {"/", "a", "a/b"},
     ops |-> {"file_put", "save"},
     capacity |-> 2, calls |-> 4, crashes |-> 1, errors |-> errors]

SafetyConfigs == {Everything, Creating, Again, Saving, Nested(FALSE), Nested(TRUE)}

\* Autosave of a directory two levels down.
Autosaving ==
    [dirs |-> {"/", "a", "a/b"}, exists |-> {"/", "a", "a/b"},
     ops |-> {"file_put_sync", "with_autosave"},
     capacity |-> 2, calls |-> 3, crashes |-> 0, errors |-> FALSE]

\* Calls of two clients, with failures and a shutdown, and mailboxes that are
\* never full.
Returning ==
    [dirs |-> {"/", "a", "b"}, exists |-> {"/", "a"},
     ops |-> {"file_put_sync", "create_dir", "save", "shutdown"},
     capacity |-> 5, calls |-> 3, crashes |-> 0, errors |-> TRUE]

LivenessConfigs == {Autosaving, Returning}

MCInitial == [exists \in {k.exists : k \in SafetyConfigs \cup LivenessConfigs} |-> EmptyTree(exists)]

\* The clients are alike.
Symmetry == Permutations(Client)
==============================================================================
