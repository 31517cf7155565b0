------------------------------- MODULE RootFs --------------------------------
(***************************************************************************)
(* The FS5 root as its callers see it: a tree of directories and files and *)
(* what a reopened root starts from.  The entries of the root's own        *)
(* snapshot are written by every save.  Those of other directories are     *)
(* written by actors of their own, of which the root has a hash that may   *)
(* be late, old or missing (DirActor has the steps between them).          *)
(***************************************************************************)
EXTENDS BlobStore

VARIABLES
    tree,       \* The directories and files of the open root
    saved,      \* What a restart finds
    past,       \* What the process had in other directories, and what it began with
    alive       \* Whether the process that has the root open runs

fsVars == <<tree, saved, past, alive>>

\* A path is the sequence of its components.
Parent(path) == SubSeq(path, 1, Len(path) - 1)
Below(path, d) == Len(d) < Len(path) /\ SubSeq(path, 1, Len(d)) = d

\* Directories, files, and the directories that cannot be read: their references
\* were saved before they had a hash.
NoTree == [dirs |-> {}, lost |-> {}, files |-> Empty]

\* A file reference: what a file holds, its length, its modification time, and
\* where to find it other than under its hash.
FileRef(hash, length, time) == [hash |-> hash, size |-> length, time |-> time, locations |-> <<>>]

\* Whether a path is an entry of the root's own snapshot: it has one component, or it
\* is a key of several that lies in no directory (config.few: there are never more
\* than FS5_PROMOTION_THRESHOLD such keys below one name, which would promote it to
\* a directory).  A snapshot never reaches MAX_DIR_BYTES_BEFORE_SHARD.
Own(t, path) ==
    \/ Len(path) <= 1
    \/ config.few /\ \A d \in t.dirs : ~Below(path, d)

\* The versions of files that a tree has in other directories.
Elsewhere(t) == {<<x, t.files[x]>> : x \in {y \in DOMAIN t.files : ~Own(t, y)}}

\* The actor of a directory that cannot be read has ended, and everything below it
\* is refused.
Reachable(path) == \A d \in tree.lost : ~Below(path, d)
Readable(dir) == dir \notin tree.lost /\ Reachable(dir)

file_exists(path) == path \in DOMAIN tree.files
file_get(path) == tree.files[path]

file_put(path, ref) ==
    /\ tree' = [tree EXCEPT !.files = With(@, path, ref)]
    /\ past' = IF Own(tree, path) THEN past ELSE [past EXCEPT !.files = @ \cup {<<path, ref>>}]

\* The tombstone that remains is no file to file_get.
file_delete(path) ==
    /\ tree' = [tree EXCEPT !.files = Without(@, path)]
    /\ past' = past

\* The files below a new directory move into it.  A directory that exists stays as
\* it is.
create_dir(path) ==
    /\ tree' = [tree EXCEPT !.dirs = @ \cup {path}]
    /\ past' = [past EXCEPT !.files = @ \cup Elsewhere(tree')]

\* What a save may write for the files of other directories: any version they had,
\* or none.  A directory that has just saved itself answers with no hash while that
\* hash is on its way; one that comes after a later save takes its directory back;
\* and the failed save of a directory is only logged.
Late == {v \in past.files : ~Own(tree, v[1])}

\* A directory that this process has made may be saved before its first hash has
\* come.  Those of a client are found by a registry key instead.
NoHashYet == IF config.mode = "client" THEN {} ELSE tree.dirs \ past.dirs

\* save_if_dirty of the root.
save ==
    \E late \in SUBSET Late, zero \in SUBSET NoHashYet,
       missing \in SUBSET {d \in tree.dirs \ past.dirs : Len(d) > 1} :
        /\ \A v \in late, d \in zero \cup tree.lost : ~Below(v[1], d)
        /\ saved' = [dirs |-> tree.dirs \ missing,
                     lost |-> tree.lost \cup zero,
                     files |-> [x \in {y \in DOMAIN tree.files : Own(tree, y)} \cup {v[1] : v \in late} |->
                                   IF Own(tree, x) THEN tree.files[x]
                                   ELSE (CHOOSE v \in late : v[1] = x)[2]]]

\* The entries of one directory.
export_merged_snapshot_at(path) ==
    [dirs |-> {d \in tree.dirs : Parent(d) = path},
     files |-> [f \in {x \in DOMAIN tree.files : Parent(x) = path} |-> tree.files[f]]]

\* The timer of with_autosave may fire at any time.
AutoSave ==
    /\ alive
    /\ save
    /\ UNCHANGED <<tree, past, alive>>

\* A process opens root t.
Opened(t) ==
    /\ tree' = t
    /\ past' = [dirs |-> t.dirs, files |-> Elsewhere(t)]

\* The root is loaded from what was saved before.
FsInit(t) ==
    /\ tree = t
    /\ saved = t
    /\ past = [dirs |-> t.dirs, files |-> Elsewhere(t)]
    /\ alive = TRUE
==============================================================================
