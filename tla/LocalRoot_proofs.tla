--------------------------- MODULE LocalRoot_proofs ---------------------------
(***************************************************************************)
(* The properties of LocalRoot for any number of clients, names, states    *)
(* and crashes.                                                            *)
(*                                                                         *)
(* The properties speak of the times between two messages.  The inductive  *)
(* invariant adds what is true inside a handler: which message it works    *)
(* on, what is imported but not yet recorded, and which pin is missing or  *)
(* left over until its next step.                                          *)
(***************************************************************************)
EXTENDS LocalRoot, TLAPS

CreateCall == [op : {"create_snapshot"}, saved : BOOLEAN]
DeleteCall == [op : {"delete_snapshot"}, name : Name]

\* What the actor works on: a step of a handler has the message it belongs
\* to, except in the save after a shutdown.
Jobs ==
    /\ pc \in {"idle", "down"} => job = None
    /\ pc \in CreateSteps => job \in Client /\ req[job] \in CreateCall
    /\ pc \in DeleteSteps => job \in Client /\ req[job] \in DeleteCall
    /\ pc \in SaveSteps => job = None \/ req[job] \in Call

\* Nothing is recorded before it is imported.
Stored ==
    /\ RecordedIsStored
    /\ pc \in {"unpin", "pin", "rename"} => state \in meta
    /\ pc \in {"insert", "pin_snapshot"} => rootHash \in meta

\* States only grow, from the acknowledged one over the one on disk to the
\* one in memory, and without the dirty flag the last two are the same.
Durable ==
    /\ acked <= rootFile /\ rootFile <= state /\ state < fresh
    /\ pc # "down" /\ ~dirty => state = rootFile

\* The head is pinned except between the unpin of a save and its rename.
Head ==
    /\ pc = "rename" => state \in heads
    /\ "fault" \notin upset /\ pc \notin {"pin", "rename"} =>
          rootFile = Empty \/ rootFile \in heads

\* current_hash is what the next save has to unpin.
Previous ==
    upset \subseteq {"shared"} =>
        /\ pc = "pin" => heads = {}
        /\ pc = "rename" => heads \subseteq {state} /\ current = state
        /\ pc \notin {"pin", "rename"} => heads \subseteq {rootFile}
        /\ pc \notin {"pin", "rename", "down"} => current = rootFile

Listed == {index[n] : n \in Name} \ {None}

\* The pins of the snapshots follow the index by one step.
Snapshots ==
    /\ pc = "pin_snapshot" => rootHash \in Listed
    /\ upset \subseteq {"unsaved"} =>
          /\ Listed \subseteq snapPins \cup (IF pc = "pin_snapshot" THEN {rootHash} ELSE {})
          /\ pc = "unpin_snapshot" => rootHash \notin Listed
    /\ "fault" \notin upset =>
          snapPins \subseteq Listed \cup (IF pc = "unpin_snapshot" THEN {rootHash} ELSE {})

IInv == TypeOK /\ Jobs /\ Stored /\ Durable /\ Head /\ Previous /\ Snapshots

\* The answer to a client leaves the other calls alone.
LEMMA AnswerFacts ==
    ASSUME req \in [Client -> Call \cup {None}], NEW c \in Client, req[c] \in Call,
           NEW r, Answer(c, r)
    PROVE  /\ req' \in [Client -> Call \cup {None}]
           /\ \A d \in Client \ {c} : req'[d] = req[d]
  <1>1. ASSUME req[c].op = "create_snapshot"
        PROVE  [req[c] EXCEPT !.saved = TRUE] \in Call
    BY <1>1 DEF Call
  <1> QED
    BY <1>1 DEF Answer

\* Every step keeps the types: what is pinned or recorded is a state, and a
\* call that is answered was a call.
LEMMA TypeStep ==
    ASSUME LocalRootAssumption, NoneAssumption, TypeOK, Jobs, Stored, Next
    PROVE  TypeOK'
  <1>1. ASSUME NEW c \in Client, ClientStep(c) PROVE TypeOK'
    <2>1. PICK call \in Call \cup {None} : req' = [req EXCEPT ![c] = call]
      BY <1>1 DEF ClientStep, CallSimple, CallCreate, CallDelete, Send, Closed, Call
    <2>2. req' \in [Client -> Call \cup {None}]
      BY <2>1 DEF TypeOK
    <2>3. UNCHANGED <<disk, actor, pc, job, fresh, crashes, acked, upset>>
      BY <1>1 DEF ClientStep, CallSimple, CallCreate, CallDelete, Send, Closed
    <2> QED
      BY <2>2, <2>3 DEF disk, actor, TypeOK
  <1>2. ASSUME NEW c \in Client, Put(c) PROVE TypeOK'
    <2>1. c \in Client /\ req[c] \in Call /\ Answer(c, "ok")
      BY <1>2 DEF Put, Has, TypeOK
    <2>2. req' \in [Client -> Call \cup {None}]
      BY <2>1, AnswerFacts DEF TypeOK
    <2> QED
      BY <1>2, <2>2 DEF Put, disk, TypeOK, State, Empty
  <1>3. ASSUME NEW c \in Client, SaveIfDirty(c) PROVE TypeOK'
    <2>1. CASE ~dirty
      <3>1. c \in Client /\ req[c] \in Call /\ Answer(c, "ok")
        BY <1>3, <2>1 DEF SaveIfDirty, Has, TypeOK
      <3>2. req' \in [Client -> Call \cup {None}]
        BY <3>1, AnswerFacts DEF TypeOK
      <3> QED
        BY <1>3, <2>1, <3>2 DEF SaveIfDirty, disk, actor, TypeOK
    <2>2. CASE dirty
      BY <1>3, <2>2 DEF SaveIfDirty, disk, actor, TypeOK, SaveSteps
    <2> QED
      BY <2>1, <2>2
  <1>4. ASSUME NEW c \in Client, CreateSnapshot(c) PROVE TypeOK'
    BY <1>4 DEF CreateSnapshot, Begin, disk, actor, TypeOK, CreateSteps
  <1>5. ASSUME NEW c \in Client, DeleteSnapshot(c) PROVE TypeOK'
    <2>1. CASE index[req[c].name] = None
      <3>1. c \in Client /\ req[c] \in Call /\ Answer(c, "ok")
        BY <1>5, <2>1 DEF DeleteSnapshot, Has, TypeOK
      <3>2. req' \in [Client -> Call \cup {None}]
        BY <3>1, AnswerFacts DEF TypeOK
      <3> QED
        BY <1>5, <2>1, <3>2 DEF DeleteSnapshot, disk, actor, TypeOK
    <2>2. CASE index[req[c].name] # None
      BY <1>5, <2>2 DEF DeleteSnapshot, Begin, disk, actor, TypeOK, DeleteSteps
    <2> QED
      BY <2>1, <2>2
  <1>6. ASSUME NEW c \in Client, Shutdown(c) PROVE TypeOK'
    <2>1. CASE ~dirty
      <3>1. c \in Client /\ req[c] \in Call /\ Answer(c, "ok")
        BY <1>6, <2>1 DEF Shutdown, Has, TypeOK
      <3>2. req' \in [Client -> Call \cup {None}]
        BY <3>1, AnswerFacts DEF TypeOK
      <3> QED
        BY <1>6, <2>1, <3>2 DEF Shutdown, disk, actor, TypeOK
    <2>2. CASE dirty
      BY <1>6, <2>2 DEF Shutdown, disk, actor, TypeOK, SaveSteps
    <2> QED
      BY <2>1, <2>2
  <1>7. CASE Import
    BY <1>7 DEF Import, Go, actor, TypeOK, SaveSteps
  <1>8. CASE UnpinPrevious
    BY <1>8 DEF UnpinPrevious, Go, Upset, TypeOK, SaveSteps
  <1>9. CASE PinHead
    BY <1>9 DEF PinHead, Go, TypeOK, SaveSteps
  <1>10. CASE Rename
    <2>1. CASE job # None
      <3>1. job \in Client /\ req[job] \in Call /\ Answer(job, "ok")
        BY <1>10, <2>1 DEF Rename, SaveDone, Done, Jobs, TypeOK, SaveSteps
      <3>2. req' \in [Client -> Call \cup {None}]
        BY <3>1, AnswerFacts DEF TypeOK
      <3> QED
        BY <1>10, <2>1, <3>2 DEF Rename, SaveDone, Done, TypeOK, SaveSteps
    <2>2. CASE job = None
      BY <1>10, <2>2 DEF Rename, SaveDone, TypeOK
    <2> QED
      BY <2>1, <2>2
  <1>11. CASE SaveError
    <2>1. PICK r \in {"ok", "err"} : job # None => Answer(job, r)
      BY <1>11 DEF SaveError, SaveDone, Done
    <2>2. CASE job # None
      <3>1. job \in Client /\ req[job] \in Call /\ Answer(job, r)
        BY <1>11, <2>1, <2>2 DEF SaveError, Jobs, TypeOK, SaveSteps
      <3>2. req' \in [Client -> Call \cup {None}]
        BY <3>1, AnswerFacts DEF TypeOK
      <3> QED
        BY <1>11, <2>2, <3>2 DEF SaveError, SaveDone, Done, Upset, disk, TypeOK,
           SaveSteps
    <2>3. CASE job = None
      BY <1>11, <2>3 DEF SaveError, SaveDone, Upset, disk, TypeOK
    <2> QED
      BY <2>2, <2>3
  <1>12. CASE ExportSnapshotHash
    BY <1>12 DEF ExportSnapshotHash, Go, Upset, TypeOK, CreateSteps
  <1>13. ASSUME NEW n \in Name, InsertSnapshot(n) PROVE TypeOK'
    BY <1>13 DEF InsertSnapshot, Go, actor, TypeOK, CreateSteps
  <1>14. CASE PinSnapshot
    <2>1. job \in Client /\ req[job] \in Call /\ Answer(job, "ok")
      BY <1>14 DEF PinSnapshot, Done, Jobs, TypeOK, Call, CreateCall, DeleteCall,
         SaveSteps
    <2>2. req' \in [Client -> Call \cup {None}]
      BY <2>1, AnswerFacts DEF TypeOK
    <2> QED
      BY <1>14, <2>2 DEF PinSnapshot, Done, Stored, actor, TypeOK
  <1>15. CASE CreateError
    <2>1. job \in Client /\ req[job] \in Call /\ Answer(job, "err")
      BY <1>15 DEF CreateError, Done, Jobs, Call, CreateCall
    <2>2. req' \in [Client -> Call \cup {None}]
      BY <2>1, AnswerFacts DEF TypeOK
    <2> QED
      BY <1>15, <2>2 DEF CreateError, Done, Upset, disk, actor, TypeOK
  <1>16. CASE RemoveSnapshot
    BY <1>16 DEF RemoveSnapshot, Go, Upset, Jobs, DeleteCall, TypeOK, DeleteSteps
  <1>17. CASE UnpinSnapshot
    <2>1. job \in Client /\ req[job] \in Call /\ Answer(job, "ok")
      BY <1>17 DEF UnpinSnapshot, Done, Jobs, TypeOK, Call, CreateCall, DeleteCall,
         SaveSteps
    <2>2. req' \in [Client -> Call \cup {None}]
      BY <2>1, AnswerFacts DEF TypeOK
    <2> QED
      BY <1>17, <2>2 DEF UnpinSnapshot, Done, Upset, actor, TypeOK
  <1>18. CASE DeleteError
    <2>1. job \in Client /\ req[job] \in Call /\ Answer(job, "err")
      BY <1>18 DEF DeleteError, Done, Jobs, TypeOK, Call, CreateCall, DeleteCall,
         SaveSteps
    <2>2. req' \in [Client -> Call \cup {None}]
      BY <2>1, AnswerFacts DEF TypeOK
    <2> QED
      BY <1>18, <2>2 DEF DeleteError, Done, Upset, disk, actor, TypeOK
  <1>19. CASE Exit
    BY <1>19 DEF Exit, Upset, disk, actor, TypeOK
  <1>20. CASE Crash
    BY <1>20 DEF Crash, Upset, disk, actor, TypeOK
  <1>21. CASE Open
    BY <1>21 DEF Open, disk, TypeOK
  <1> QED
    BY <1>1, <1>2, <1>3, <1>4, <1>5, <1>6, <1>7, <1>8, <1>9, <1>10, <1>11, <1>12, <1>13,
       <1>14, <1>15, <1>16, <1>17, <1>18, <1>19, <1>20, <1>21 DEF Next, ActorStep,
       Receive

\* Whatever the clients send, the actor keeps the message it works on until it
\* has answered it.
LEMMA JobsStep ==
    ASSUME LocalRootAssumption, NoneAssumption, TypeOK, Jobs, Next
    PROVE  Jobs'
  <1>1. ASSUME NEW c \in Client, ClientStep(c) PROVE Jobs'
    BY <1>1 DEF ClientStep, CallSimple, CallCreate, CallDelete, Send, Closed, Jobs,
       TypeOK, Call, CreateCall, DeleteCall
  <1>2. ASSUME NEW c \in Client, Put(c) PROVE Jobs'
    BY <1>2 DEF Put, Has, Jobs
  <1>3. ASSUME NEW c \in Client, SaveIfDirty(c) PROVE Jobs'
    BY <1>3 DEF SaveIfDirty, Has, Jobs, TypeOK, CreateSteps, DeleteSteps
  <1>4. ASSUME NEW c \in Client, CreateSnapshot(c) PROVE Jobs'
    BY <1>4 DEF CreateSnapshot, Has, Begin, Jobs, TypeOK, Call, CreateCall, DeleteSteps
  <1>5. ASSUME NEW c \in Client, DeleteSnapshot(c) PROVE Jobs'
    BY <1>5 DEF DeleteSnapshot, Has, Begin, Jobs, TypeOK, Call, DeleteCall, CreateSteps
  <1>6. ASSUME NEW c \in Client, Shutdown(c) PROVE Jobs'
    BY <1>6 DEF Shutdown, Has, Jobs, TypeOK, CreateSteps, DeleteSteps
  <1>7. CASE Import
    BY <1>7 DEF Import, Go, Jobs, TypeOK, CreateSteps, DeleteSteps
  <1>8. CASE UnpinPrevious
    BY <1>8 DEF UnpinPrevious, Go, Jobs, TypeOK, CreateSteps, DeleteSteps
  <1>9. CASE PinHead
    BY <1>9 DEF PinHead, Go, Jobs, TypeOK, CreateSteps, DeleteSteps
  <1>10. CASE Rename
    BY <1>10 DEF Rename, SaveDone, Done, Jobs, CreateSteps, DeleteSteps
  <1>11. CASE SaveError
    BY <1>11 DEF SaveError, SaveDone, Done, Jobs, CreateSteps, DeleteSteps
  <1>12. CASE ExportSnapshotHash
    BY <1>12 DEF ExportSnapshotHash, Go, Jobs, TypeOK, SaveSteps, DeleteSteps
  <1>13. ASSUME NEW n \in Name, InsertSnapshot(n) PROVE Jobs'
    BY <1>13 DEF InsertSnapshot, Go, Jobs, TypeOK, SaveSteps, DeleteSteps
  <1>14. CASE PinSnapshot
    BY <1>14 DEF PinSnapshot, Done, Jobs, CreateSteps, DeleteSteps
  <1>15. CASE CreateError
    BY <1>15 DEF CreateError, Done, Jobs, CreateSteps, DeleteSteps
  <1>16. CASE RemoveSnapshot
    BY <1>16 DEF RemoveSnapshot, Go, Jobs, TypeOK, SaveSteps, CreateSteps
  <1>17. CASE UnpinSnapshot
    BY <1>17 DEF UnpinSnapshot, Done, Jobs, CreateSteps, DeleteSteps
  <1>18. CASE DeleteError
    BY <1>18 DEF DeleteError, Done, Jobs, CreateSteps, DeleteSteps
  <1>19. CASE Exit
    BY <1>19 DEF Exit, Jobs, CreateSteps, DeleteSteps
  <1>20. CASE Crash
    BY <1>20 DEF Crash, Jobs, CreateSteps, DeleteSteps
  <1>21. CASE Open
    BY <1>21 DEF Open, Jobs, CreateSteps, DeleteSteps
  <1> QED
    BY <1>1, <1>2, <1>3, <1>4, <1>5, <1>6, <1>7, <1>8, <1>9, <1>10, <1>11, <1>12, <1>13,
       <1>14, <1>15, <1>16, <1>17, <1>18, <1>19, <1>20, <1>21 DEF Next, ActorStep,
       Receive

\* Every step records only what the meta store holds, and nothing leaves it.
LEMMA StoredStep ==
    ASSUME LocalRootAssumption, NoneAssumption, TypeOK, Stored, Next
    PROVE  Stored'
  <1>1. ASSUME NEW c \in Client, ClientStep(c) PROVE Stored'
    BY <1>1 DEF ClientStep, CallSimple, CallCreate, CallDelete, Send, Closed, disk,
       actor, Stored, RecordedIsStored
  <1>2. ASSUME NEW c \in Client, Put(c) PROVE Stored'
    BY <1>2 DEF Put, Has, disk, Stored, RecordedIsStored
  <1>3. ASSUME NEW c \in Client, SaveIfDirty(c) PROVE Stored'
    BY <1>3 DEF SaveIfDirty, Has, disk, Stored, RecordedIsStored
  <1>4. ASSUME NEW c \in Client, CreateSnapshot(c) PROVE Stored'
    BY <1>4 DEF CreateSnapshot, Begin, disk, Stored, RecordedIsStored
  <1>5. ASSUME NEW c \in Client, DeleteSnapshot(c) PROVE Stored'
    BY <1>5 DEF DeleteSnapshot, Has, Begin, disk, Stored, RecordedIsStored
  <1>6. ASSUME NEW c \in Client, Shutdown(c) PROVE Stored'
    BY <1>6 DEF Shutdown, disk, Stored, RecordedIsStored
  <1>7. CASE Import
    BY <1>7 DEF Import, Go, actor, Stored, RecordedIsStored
  <1>8. CASE UnpinPrevious
    BY <1>8 DEF UnpinPrevious, Go, Stored, RecordedIsStored
  <1>9. CASE PinHead
    BY <1>9 DEF PinHead, Go, Stored, RecordedIsStored
  <1>10. CASE Rename
    BY <1>10 DEF Rename, SaveDone, Done, Stored, RecordedIsStored
  <1>11. CASE SaveError
    BY <1>11 DEF SaveError, SaveDone, Done, disk, Stored, RecordedIsStored
  <1>12. CASE ExportSnapshotHash
    BY <1>12 DEF ExportSnapshotHash, Stored, RecordedIsStored
  <1>13. ASSUME NEW n \in Name, InsertSnapshot(n) PROVE Stored'
    BY <1>13 DEF InsertSnapshot, Go, actor, Stored, RecordedIsStored
  <1>14. CASE PinSnapshot
    BY <1>14 DEF PinSnapshot, Done, Stored, RecordedIsStored
  <1>15. CASE CreateError
    BY <1>15 DEF CreateError, Done, disk, Stored, RecordedIsStored
  <1>16. CASE RemoveSnapshot
    BY <1>16 DEF RemoveSnapshot, Go, Stored, RecordedIsStored
  <1>17. CASE UnpinSnapshot
    BY <1>17 DEF UnpinSnapshot, Done, Stored, RecordedIsStored
  <1>18. CASE DeleteError
    BY <1>18 DEF DeleteError, Done, disk, Stored, RecordedIsStored
  <1>19. CASE Exit
    BY <1>19 DEF Exit, disk, Stored, RecordedIsStored
  <1>20. CASE Crash
    BY <1>20 DEF Crash, disk, Stored, RecordedIsStored
  <1>21. CASE Open
    BY <1>21 DEF Open, disk, Stored, RecordedIsStored
  <1> QED
    BY <1>1, <1>2, <1>3, <1>4, <1>5, <1>6, <1>7, <1>8, <1>9, <1>10, <1>11, <1>12, <1>13,
       <1>14, <1>15, <1>16, <1>17, <1>18, <1>19, <1>20, <1>21 DEF Next, ActorStep,
       Receive

\* A save answers Ok only after the rename of what it acknowledges, and no
\* step puts an older state on disk.
LEMMA DurableStep ==
    ASSUME LocalRootAssumption, NoneAssumption, TypeOK, Durable, Next
    PROVE  Durable'
  <1>1. ASSUME NEW c \in Client, ClientStep(c) PROVE Durable'
    BY <1>1 DEF ClientStep, CallSimple, CallCreate, CallDelete, Send, Closed, disk,
       actor, Durable
  <1>2. ASSUME NEW c \in Client, Put(c) PROVE Durable'
    BY <1>2 DEF Put, disk, Durable, TypeOK, State
  <1>3. ASSUME NEW c \in Client, SaveIfDirty(c) PROVE Durable'
    BY <1>3 DEF SaveIfDirty, Has, disk, actor, Durable
  <1>4. ASSUME NEW c \in Client, CreateSnapshot(c) PROVE Durable'
    BY <1>4 DEF CreateSnapshot, Has, Begin, disk, actor, Durable
  <1>5. ASSUME NEW c \in Client, DeleteSnapshot(c) PROVE Durable'
    BY <1>5 DEF DeleteSnapshot, Has, Begin, disk, actor, Durable
  <1>6. ASSUME NEW c \in Client, Shutdown(c) PROVE Durable'
    BY <1>6 DEF Shutdown, disk, actor, Durable
  <1>7. CASE Import
    BY <1>7 DEF Import, actor, Durable
  <1>8. CASE UnpinPrevious
    BY <1>8 DEF UnpinPrevious, Durable
  <1>9. CASE PinHead
    BY <1>9 DEF PinHead, Durable
  <1>10. CASE Rename
    BY <1>10 DEF Rename, SaveDone, Durable, TypeOK, State
  <1>11. CASE SaveError
    BY <1>11 DEF SaveError, SaveDone, disk, Durable
  <1>12. CASE ExportSnapshotHash
    BY <1>12 DEF ExportSnapshotHash, Durable
  <1>13. ASSUME NEW n \in Name, InsertSnapshot(n) PROVE Durable'
    BY <1>13 DEF InsertSnapshot, actor, Durable
  <1>14. CASE PinSnapshot
    BY <1>14 DEF PinSnapshot, actor, Durable
  <1>15. CASE CreateError
    BY <1>15 DEF CreateError, disk, actor, Durable, CreateSteps
  <1>16. CASE RemoveSnapshot
    BY <1>16 DEF RemoveSnapshot, Durable
  <1>17. CASE UnpinSnapshot
    BY <1>17 DEF UnpinSnapshot, actor, Durable
  <1>18. CASE DeleteError
    BY <1>18 DEF DeleteError, disk, actor, Durable
  <1>19. CASE Exit
    BY <1>19 DEF Exit, disk, actor, Durable
  <1>20. CASE Crash
    BY <1>20 DEF Crash, disk, actor, Durable
  <1>21. CASE Open
    BY <1>21 DEF Open, disk, Durable, TypeOK, State
  <1> QED
    BY <1>1, <1>2, <1>3, <1>4, <1>5, <1>6, <1>7, <1>8, <1>9, <1>10, <1>11, <1>12, <1>13,
       <1>14, <1>15, <1>16, <1>17, <1>18, <1>19, <1>20, <1>21 DEF Next, ActorStep,
       Receive

\* Without a fault, a save that unpins the head also pins the next one.
LEMMA HeadStep ==
    ASSUME LocalRootAssumption, NoneAssumption, TypeOK, Head, Next
    PROVE  Head'
  <1>1. ASSUME NEW c \in Client, ClientStep(c) PROVE Head'
    BY <1>1 DEF ClientStep, CallSimple, CallCreate, CallDelete, Send, Closed, disk,
       actor, Head
  <1>2. ASSUME NEW c \in Client, Put(c) PROVE Head'
    BY <1>2 DEF Put, Has, disk, Head
  <1>3. ASSUME NEW c \in Client, SaveIfDirty(c) PROVE Head'
    BY <1>3 DEF SaveIfDirty, Has, disk, Head
  <1>4. ASSUME NEW c \in Client, CreateSnapshot(c) PROVE Head'
    BY <1>4 DEF CreateSnapshot, Has, Begin, disk, Head
  <1>5. ASSUME NEW c \in Client, DeleteSnapshot(c) PROVE Head'
    BY <1>5 DEF DeleteSnapshot, Has, Begin, disk, Head
  <1>6. ASSUME NEW c \in Client, Shutdown(c) PROVE Head'
    BY <1>6 DEF Shutdown, Has, disk, Head
  <1>7. CASE Import
    BY <1>7 DEF Import, Go, Head
  <1>8. CASE UnpinPrevious
    BY <1>8 DEF UnpinPrevious, Go, Head
  <1>9. CASE PinHead
    BY <1>9 DEF PinHead, Go, Head
  <1>10. CASE Rename
    BY <1>10 DEF Rename, SaveDone, Head
  <1>11. CASE SaveError
    BY <1>11 DEF SaveError, SaveDone, Done, Upset, Head
  <1>12. CASE ExportSnapshotHash
    BY <1>12 DEF ExportSnapshotHash, Go, Upset, Head
  <1>13. ASSUME NEW n \in Name, InsertSnapshot(n) PROVE Head'
    BY <1>13 DEF InsertSnapshot, Go, Head
  <1>14. CASE PinSnapshot
    BY <1>14 DEF PinSnapshot, Done, Head
  <1>15. CASE CreateError
    BY <1>15 DEF CreateError, Done, Upset, Head
  <1>16. CASE RemoveSnapshot
    BY <1>16 DEF RemoveSnapshot, Go, Upset, Head
  <1>17. CASE UnpinSnapshot
    BY <1>17 DEF UnpinSnapshot, Done, Upset, Head
  <1>18. CASE DeleteError
    BY <1>18 DEF DeleteError, Done, Upset, Head
  <1>19. CASE Exit
    BY <1>19 DEF Exit, Upset, Head
  <1>20. CASE Crash
    BY <1>20 DEF Crash, Upset, Head
  <1>21. CASE Open
    BY <1>21 DEF Open, disk, Head
  <1> QED
    BY <1>1, <1>2, <1>3, <1>4, <1>5, <1>6, <1>7, <1>8, <1>9, <1>10, <1>11, <1>12, <1>13,
       <1>14, <1>15, <1>16, <1>17, <1>18, <1>19, <1>20, <1>21 DEF Next, ActorStep,
       Receive

\* Without a fault and without a snapshot of an unsaved state, every save
\* unpins the head before it pins the next one.
LEMMA PreviousStep ==
    ASSUME LocalRootAssumption, NoneAssumption, TypeOK, Previous, Next
    PROVE  Previous'
  <1>1. ASSUME NEW c \in Client, ClientStep(c) PROVE Previous'
    BY <1>1 DEF ClientStep, CallSimple, CallCreate, CallDelete, Send, Closed, disk,
       actor, Previous
  <1>2. ASSUME NEW c \in Client, Put(c) PROVE Previous'
    BY <1>2 DEF Put, Has, disk, Previous
  <1>3. ASSUME NEW c \in Client, SaveIfDirty(c) PROVE Previous'
    BY <1>3 DEF SaveIfDirty, Has, disk, actor, Previous
  <1>4. ASSUME NEW c \in Client, CreateSnapshot(c) PROVE Previous'
    BY <1>4 DEF CreateSnapshot, Has, Begin, disk, actor, Previous
  <1>5. ASSUME NEW c \in Client, DeleteSnapshot(c) PROVE Previous'
    BY <1>5 DEF DeleteSnapshot, Has, Begin, disk, actor, Previous
  <1>6. ASSUME NEW c \in Client, Shutdown(c) PROVE Previous'
    BY <1>6 DEF Shutdown, Has, disk, actor, Previous
  <1>7. CASE Import
    BY <1>7 DEF Import, Go, actor, Previous
  <1>8. CASE UnpinPrevious
    BY <1>8 DEF UnpinPrevious, Go, Upset, Previous
  <1>9. CASE PinHead
    BY <1>9 DEF PinHead, Go, Previous
  <1>10. CASE Rename
    BY <1>10 DEF Rename, SaveDone, Done, Previous
  <1>11. CASE SaveError
    BY <1>11 DEF SaveError, Upset, Previous
  <1>12. CASE ExportSnapshotHash
    BY <1>12 DEF ExportSnapshotHash, Go, Upset, Previous, TypeOK
  <1>13. ASSUME NEW n \in Name, InsertSnapshot(n) PROVE Previous'
    BY <1>13 DEF InsertSnapshot, Go, actor, Previous
  <1>14. CASE PinSnapshot
    BY <1>14 DEF PinSnapshot, Done, actor, Previous
  <1>15. CASE CreateError
    BY <1>15 DEF CreateError, Upset, Previous
  <1>16. CASE RemoveSnapshot
    BY <1>16 DEF RemoveSnapshot, Go, Upset, Previous
  <1>17. CASE UnpinSnapshot
    BY <1>17 DEF UnpinSnapshot, Done, Upset, actor, Previous
  <1>18. CASE DeleteError
    BY <1>18 DEF DeleteError, Upset, Previous
  <1>19. CASE Exit
    BY <1>19 DEF Exit, Upset, Previous
  <1>20. CASE Crash
    BY <1>20 DEF Crash, Upset, Previous
  <1>21. CASE Open
    BY <1>21 DEF Open, disk, Previous
  <1> QED
    BY <1>1, <1>2, <1>3, <1>4, <1>5, <1>6, <1>7, <1>8, <1>9, <1>10, <1>11, <1>12, <1>13,
       <1>14, <1>15, <1>16, <1>17, <1>18, <1>19, <1>20, <1>21 DEF Next, ActorStep,
       Receive

\* The steps of create_snapshot and delete_snapshot keep the index and the
\* LocalFsSnapshot pins together.
LEMMA SnapshotsStep ==
    ASSUME LocalRootAssumption, NoneAssumption, TypeOK, Jobs, Stored, Snapshots, Next
    PROVE  Snapshots'
  <1>1. ASSUME NEW c \in Client, ClientStep(c) PROVE Snapshots'
    BY <1>1 DEF ClientStep, CallSimple, CallCreate, CallDelete, Send, Closed, disk,
       actor, Snapshots, Listed
  <1>2. ASSUME NEW c \in Client, Put(c) PROVE Snapshots'
    BY <1>2 DEF Put, disk, Snapshots, Listed
  <1>3. ASSUME NEW c \in Client, SaveIfDirty(c) PROVE Snapshots'
    BY <1>3 DEF SaveIfDirty, Has, disk, Snapshots, Listed
  <1>4. ASSUME NEW c \in Client, CreateSnapshot(c) PROVE Snapshots'
    BY <1>4 DEF CreateSnapshot, Has, Begin, disk, Snapshots, Listed
  <1>5. ASSUME NEW c \in Client, DeleteSnapshot(c) PROVE Snapshots'
    BY <1>5 DEF DeleteSnapshot, Has, Begin, disk, Snapshots, Listed
  <1>6. ASSUME NEW c \in Client, Shutdown(c) PROVE Snapshots'
    BY <1>6 DEF Shutdown, Has, disk, Snapshots, Listed
  <1>7. CASE Import
    BY <1>7 DEF Import, Go, Snapshots, Listed
  <1>8. CASE UnpinPrevious
    BY <1>8 DEF UnpinPrevious, Go, Upset, Snapshots, Listed
  <1>9. CASE PinHead
    BY <1>9 DEF PinHead, Go, Snapshots, Listed
  <1>10. CASE Rename
    BY <1>10 DEF Rename, SaveDone, Done, Snapshots, Listed
  <1>11. CASE SaveError
    BY <1>11 DEF SaveError, SaveDone, Done, Upset, Snapshots
  <1>12. CASE ExportSnapshotHash
    BY <1>12 DEF ExportSnapshotHash, Go, Upset, Snapshots, Listed
  <1>13. ASSUME NEW n \in Name, InsertSnapshot(n) PROVE Snapshots'
    <2>1. rootHash # None
      BY <1>13 DEF InsertSnapshot, Stored, TypeOK, State, Empty
    <2>2. Listed' = Listed \cup {rootHash}
      BY <1>13, <2>1 DEF InsertSnapshot, Listed, TypeOK
    <2> QED
      BY <1>13, <2>2 DEF InsertSnapshot, Go, actor, Snapshots
  <1>14. CASE PinSnapshot
    BY <1>14 DEF PinSnapshot, Done, Snapshots, Listed
  <1>15. CASE CreateError
    BY <1>15 DEF CreateError, Done, Upset, Snapshots
  <1>16. CASE RemoveSnapshot
    BY <1>16 DEF RemoveSnapshot, Go, Upset, Snapshots, Listed, TypeOK
  <1>17. CASE UnpinSnapshot
    BY <1>17 DEF UnpinSnapshot, Done, Upset, Snapshots, Listed
  <1>18. CASE DeleteError
    BY <1>18 DEF DeleteError, Done, Upset, Snapshots
  <1>19. CASE Exit
    BY <1>19 DEF Exit, Upset, Snapshots
  <1>20. CASE Crash
    BY <1>20 DEF Crash, Upset, Snapshots
  <1>21. CASE Open
    BY <1>21 DEF Open, disk, Snapshots, Listed
  <1> QED
    BY <1>1, <1>2, <1>3, <1>4, <1>5, <1>6, <1>7, <1>8, <1>9, <1>10, <1>11, <1>12, <1>13,
       <1>14, <1>15, <1>16, <1>17, <1>18, <1>19, <1>20, <1>21 DEF Next, ActorStep,
       Receive

-----------------------------------------------------------------------------
\* The invariant holds in the state that open_local_root leaves.
LEMMA InitIInv ==
    ASSUME LocalRootAssumption
    PROVE  Init => IInv
  <1> SUFFICES ASSUME Init PROVE IInv
    OBVIOUS
  <1> USE DEF Init, Empty
  <1>1. TypeOK
    <2>1. 0 \in State /\ 1 \in 1..(MaxState + 1) /\ 0 \in 0..MaxCrashes
      BY DEF State
    <2> QED
      BY <2>1 DEF TypeOK
  <1>2. Listed = {}
    BY DEF Listed
  <1>3. Jobs /\ Durable /\ Head /\ Previous
    BY DEF Jobs, Durable, Head, Previous, CreateSteps, DeleteSteps
  <1>4. Stored
    BY DEF Stored, RecordedIsStored
  <1>5. Snapshots
    BY <1>2 DEF Snapshots
  <1> QED
    BY <1>1, <1>3, <1>4, <1>5 DEF IInv

\* The invariant is inductive.
LEMMA NextIInv ==
    ASSUME LocalRootAssumption, NoneAssumption
    PROVE  IInv /\ [Next]_vars => IInv'
  <1> SUFFICES ASSUME IInv, [Next]_vars PROVE IInv'
    OBVIOUS
  <1>1. CASE Next
    BY <1>1, TypeStep, JobsStep, StoredStep, DurableStep, HeadStep, PreviousStep,
       SnapshotsStep DEF IInv
  <1>2. CASE UNCHANGED vars
    BY <1>2 DEF vars, disk, actor, IInv, TypeOK, Jobs, Stored, RecordedIsStored,
       Durable, Head, Previous, Snapshots, Listed
  <1> QED
    BY <1>1, <1>2

\* The invariant of the root directory, for any constants.
THEOREM Invariant == Spec => []IInv
  <1>1. Init => IInv
    BY InitIInv, LocalRootAssumption
  <1>2. IInv /\ [Next]_vars => IInv'
    BY NextIInv, LocalRootAssumption, NoneAssumption
  <1> QED
    BY <1>1, <1>2, PTL DEF Spec

\* Every field of the root actor and of its files keeps its type.
THEOREM TypeCorrect == Spec => []TypeOK
  <1>1. IInv => TypeOK
    BY DEF IInv
  <1> QED
    BY <1>1, Invariant, PTL

\* A hash that the index lists or a pin names is in the meta store, whatever
\* fails and whenever the process ends.
THEOREM RecordedIsStoredCorrect == Spec => []RecordedIsStored
  <1>1. IInv => RecordedIsStored
    BY DEF IInv, Stored
  <1> QED
    BY <1>1, Invariant, PTL

\* What a save answered Ok for is on disk, through any number of crashes.
THEOREM AckedIsOnDiskCorrect == Spec => []AckedIsOnDisk
  <1>1. IInv => AckedIsOnDisk
    BY DEF IInv, Durable, AckedIsOnDisk
  <1> QED
    BY <1>1, Invariant, PTL

\* The root on disk is pinned as LocalFsHead between two messages, as long as
\* no call failed and the process did not end inside a save.
THEOREM HeadIsPinnedCorrect == Spec => []HeadIsPinned
  <1>1. IInv => HeadIsPinned
    BY DEF IInv, Head, HeadIsPinned, Quiet
  <1> QED
    BY <1>1, Invariant, PTL

\* No other root is pinned as LocalFsHead, if moreover no snapshot was made of
\* a state that is not on disk.
THEOREM OnlyHeadIsPinnedCorrect == Spec => []OnlyHeadIsPinned
  <1>1. IInv => OnlyHeadIsPinned
    BY DEF IInv, Previous, OnlyHeadIsPinned, Quiet
  <1> QED
    BY <1>1, Invariant, PTL

\* Every listed snapshot is pinned as LocalFsSnapshot, until a call fails or
\* one of two snapshots of the same root is deleted.
THEOREM SnapshotsArePinnedCorrect == Spec => []SnapshotsArePinned
  <1>1. IInv => SnapshotsArePinned
    BY DEF IInv, Snapshots, Listed, SnapshotsArePinned, Quiet
  <1> QED
    BY <1>1, Invariant, PTL

\* Deleting snapshots leaves no LocalFsSnapshot pin behind, unless a call
\* failed.
THEOREM SnapshotPinsAreListedCorrect == Spec => []SnapshotPinsAreListed
  <1>1. IInv => SnapshotPinsAreListed
    BY DEF IInv, Snapshots, Listed, SnapshotPinsAreListed, Quiet
  <1> QED
    BY <1>1, Invariant, PTL

\* The head pin is on the root that is on disk and on nothing else, as far as
\* HeadIsPinned and OnlyHeadIsPinned say.
THEOREM HeadPinIsExactCorrect == Spec => []HeadPinIsExact
  <1>1. HeadIsPinned /\ OnlyHeadIsPinned => HeadPinIsExact
    BY DEF HeadPinIsExact
  <1> QED
    BY <1>1, HeadIsPinnedCorrect, OnlyHeadIsPinnedCorrect, PTL

\* The snapshot pins are those of the listed snapshots, as far as
\* SnapshotsArePinned and SnapshotPinsAreListed say.
THEOREM SnapshotPinsAreExactCorrect == Spec => []SnapshotPinsAreExact
  <1>1. SnapshotsArePinned /\ SnapshotPinsAreListed => SnapshotPinsAreExact
    BY DEF SnapshotPinsAreExact
  <1> QED
    BY <1>1, SnapshotsArePinnedCorrect, SnapshotPinsAreListedCorrect, PTL
===============================================================================
