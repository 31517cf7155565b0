---------------------------- MODULE StoreRegistry ----------------------------
(***************************************************************************)
(* StoreRegistry (registries/store): a registry kept as one file per key   *)
(* in a Store.  Its set is a read followed by a write, with no lock and no *)
(* transaction around them, and its read takes every error for "no entry". *)
(*                                                                         *)
(* Store::put_bytes is atomic for the in-memory store and the object       *)
(* stores; LocalStore truncates the file and then writes it, so that a     *)
(* reader, or a crash, can meet a Torn file, which does not deserialize.   *)
(* A put may happen either way here.                                       *)
(***************************************************************************)
EXTENDS StreamMessage

CONSTANTS
    Writer,       \* tasks that call the registry concurrently
    Torn,         \* the contents of a file cut short
    ReadErrors    \* TRUE iff Store::open_read_bytes may fail on a good file

ASSUME StoreAssumption ==
    /\ ReadErrors \in BOOLEAN
    /\ Torn \notin OptMessage

VARIABLES
    file,    \* the file of each key
    call,    \* the set in progress of each writer: its message, or None
    fd,      \* the file a writer inside LocalStore's put_bytes has truncated
    last,    \* history: the last good contents of the file
    settled  \* history: the messages answered Ok since the last delete

storeVars == <<file, call, fd, last, settled>>

StoreTypeOK ==
    /\ file \in [Key -> OptMessage \cup {Torn}]
    /\ call \in [Writer -> OptMessage]
    /\ fd \in [Writer -> {"closed", "open", "unlinked"}]
    /\ last \in [Key -> OptMessage]
    /\ settled \in [Key -> SUBSET Message]

StoreInit ==
    /\ file = [k \in Key |-> None] /\ last = file
    /\ call = [w \in Writer |-> None]
    /\ fd = [w \in Writer |-> "closed"]
    /\ settled = [k \in Key |-> {}]

\* What StoreRegistry::get may return: the entry, or None on any read error.
\* A Torn file is read without error and fails to deserialize: get returns
\* Err, which is no element of this set.
GetResults(k) ==
    {e \in OptMessage : e = file[k] \/ (ReadErrors /\ e = None)}

\* m is answered: the bookkeeping of Registry!Set.
Settled(m) ==
    [settled EXCEPT ![m.key] = IF m.type = "Stream" THEN {m} ELSE @ \cup {m}]

\* Broken variant of SetRead: the should_store test is skipped.
SetReadUnchecked(w, m) ==
    /\ call[w] = None
    /\ GetResults(m.key) # {}
    /\ call' = [call EXCEPT ![w] = m]
    /\ UNCHANGED <<file, fd, last, settled>>

\* set, first half: read the entry and test should_store.  A message that
\* loses is answered Ok at once; one that wins is written later, whatever
\* happened to the file in between.
SetRead(w, m) ==
    /\ call[w] = None
    /\ \E existing \in GetResults(m.key) :
          IF ShouldStore(m, existing)
          THEN call' = [call EXCEPT ![w] = m] /\ UNCHANGED settled
          ELSE settled' = Settled(m) /\ UNCHANGED call
    /\ UNCHANGED <<file, fd, last>>

\* put_bytes of LocalStore, first half: File::create truncates.
PutBegin(w) ==
    /\ call[w] # None
    /\ fd[w] = "closed"
    /\ fd' = [fd EXCEPT ![w] = "open"]
    /\ file' = [file EXCEPT ![call[w].key] = Torn]
    /\ UNCHANGED <<call, last, settled>>

\* put_bytes completes and set answers Ok.  If the file was deleted since it
\* was opened the bytes go nowhere: the set counts as ordered before the
\* delete.
SetWrite(w) ==
    /\ call[w] # None
    /\ IF fd[w] = "unlinked"
       THEN UNCHANGED <<file, last, settled>>
       ELSE /\ file' = [file EXCEPT ![call[w].key] = call[w]]
            /\ last' = [last EXCEPT ![call[w].key] = call[w]]
            /\ settled' = Settled(call[w])
    /\ call' = [call EXCEPT ![w] = None]
    /\ fd' = [fd EXCEPT ![w] = "closed"]

\* delete: Store::delete removes the file; a missing file is no error.
Delete(k) ==
    /\ file' = [file EXCEPT ![k] = None]
    /\ last' = [last EXCEPT ![k] = None]
    /\ settled' = [settled EXCEPT ![k] = {}]
    /\ fd' = [w \in Writer |-> IF fd[w] = "open" /\ call[w].key = k
                               THEN "unlinked" ELSE fd[w]]
    /\ UNCHANGED call

\* The process dies; the files stay as they are.
Crash ==
    /\ \E w \in Writer : call[w] # None
    /\ call' = [w \in Writer |-> None]
    /\ fd' = [w \in Writer |-> "closed"]
    /\ UNCHANGED <<file, last, settled>>

StoreNext ==
    \/ \E w \in Writer :
          \/ \E m \in Message : SetRead(w, m)
          \/ PutBegin(w)
          \/ SetWrite(w)
    \/ \E k \in Key : Delete(k)
    \/ Crash

StoreSpec == StoreInit /\ [][StoreNext]_storeVars
-----------------------------------------------------------------------------
(***************************************************************************)
(* Properties.                                                             *)
(***************************************************************************)

\* The registry of Registry.tla with this store as its only backend.  A Torn
\* file stands for the entry it had, which nobody can read any more.
Abs == INSTANCE Registry WITH
    Backend <- {"store"},
    table <- [b \in {"store"} |-> last],
    since <- [b \in {"store"} |-> settled]

\* With one writer and reads that do not fail StoreRegistry is a registry:
\* every set and delete takes effect as one step of Registry, at the write
\* or not at all, whatever crashes and deletes come in between.
ImplementsRegistry == Abs!Spec

\* With one writer, whatever the crashes: a readable file holds an entry at
\* least as good as every message answered Ok since the last delete; the only
\* other possibility is a Torn file, left by a crash inside put_bytes or
\* still being written.
TornOrBest ==
    \A k \in Key : \A m \in settled[k] :
        file[k] = Torn \/ AtLeast(file[k], m)
=============================================================================
