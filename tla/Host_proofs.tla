----------------------------- MODULE Host_proofs ------------------------------
(***************************************************************************)
(* The blob store under everything that a process does with it, for any    *)
(* contents, stores, callers, failures and restarts.                       *)
(***************************************************************************)
EXTENDS HostInvariants, WellFoundedInduction, TLAPS

-----------------------------------------------------------------------------
\* The store.

\* A change of one family of one store.
LEMMA FamilyFacts ==
    ASSUME Shapes, NEW s \in Stores, NEW family \in Families, NEW g,
           objects' = [objects EXCEPT ![s][family] = g]
    PROVE  /\ DOMAIN objects' = Stores /\ DOMAIN objects'[s] = Families
           /\ \A t \in Stores \ {s} : objects'[t] = objects[t]
           /\ \A other \in Families \ {family} : objects'[s][other] = objects[s][other]
           /\ objects'[s][family] = g
  <1>1. objects' = [objects EXCEPT ![s] = [objects[s] EXCEPT ![family] = g]]
    OBVIOUS
  <1>2. objects'[s] = [objects[s] EXCEPT ![family] = g]
    BY <1>1 DEF Shapes
  <1> QED
    BY <1>1, <1>2 DEF Shapes

\* An object is put.
LEMMA PutFacts ==
    ASSUME Shapes, NEW s \in Stores, NEW family \in Families, NEW x, NEW c, Put(s, family, x, c)
    PROVE  /\ DOMAIN objects' = Stores /\ DOMAIN objects'[s] = Families
           /\ \A t \in Stores \ {s} : objects'[t] = objects[t]
           /\ \A other \in Families \ {family} : objects'[s][other] = objects[s][other]
           /\ DOMAIN objects'[s][family] = DOMAIN objects[s][family] \cup {x}
           /\ objects'[s][family][x] = c
           /\ \A z \in DOMAIN objects[s][family] \ {x} :
                 objects'[s][family][z] = objects[s][family][z]
  <1>1. objects' = [objects EXCEPT ![s][family] = With(objects[s][family], x, c)]
    BY DEF Put
  <1>2. /\ DOMAIN objects' = Stores /\ DOMAIN objects'[s] = Families
        /\ \A t \in Stores \ {s} : objects'[t] = objects[t]
        /\ \A other \in Families \ {family} : objects'[s][other] = objects[s][other]
        /\ objects'[s][family] = With(objects[s][family], x, c)
    BY <1>1, FamilyFacts
  <1>3. /\ DOMAIN With(objects[s][family], x, c) = DOMAIN objects[s][family] \cup {x}
        /\ With(objects[s][family], x, c)[x] = c
        /\ \A z \in DOMAIN objects[s][family] \ {x} :
              With(objects[s][family], x, c)[z] = objects[s][family][z]
    BY DEF With
  <1> QED
    BY <1>2, <1>3

\* An object is deleted.
Cut(s, family, x) == objects' = [objects EXCEPT ![s][family] = Without(@, x)]

LEMMA CutFacts ==
    ASSUME Shapes, NEW s \in Stores, NEW family \in Families, NEW x, Cut(s, family, x)
    PROVE  /\ DOMAIN objects' = Stores /\ DOMAIN objects'[s] = Families
           /\ \A t \in Stores \ {s} : objects'[t] = objects[t]
           /\ \A other \in Families \ {family} : objects'[s][other] = objects[s][other]
           /\ DOMAIN objects'[s][family] = DOMAIN objects[s][family] \ {x}
           /\ \A z \in DOMAIN objects[s][family] \ {x} :
                 objects'[s][family][z] = objects[s][family][z]
  <1>1. objects' = [objects EXCEPT ![s][family] = Without(objects[s][family], x)]
    BY DEF Cut
  <1>2. /\ DOMAIN objects' = Stores /\ DOMAIN objects'[s] = Families
        /\ \A t \in Stores \ {s} : objects'[t] = objects[t]
        /\ \A other \in Families \ {family} : objects'[s][other] = objects[s][other]
        /\ objects'[s][family] = Without(objects[s][family], x)
    BY <1>1, FamilyFacts
  <1> QED
    BY <1>2 DEF Without

\* A job goes on.
LEMMA GotoFacts ==
    ASSUME Shapes, NEW i \in DOMAIN jobs, NEW step \in StepName, Goto(i, step)
    PROVE  /\ DOMAIN jobs' = DOMAIN jobs
           /\ \A k \in DOMAIN jobs \ {i} : jobs'[k] = jobs[k]
           /\ jobs'[i].step = step /\ DOMAIN jobs'[i] = JobFields
           /\ jobs'[i].op = jobs[i].op /\ jobs'[i].store = jobs[i].store
           /\ jobs'[i].arg = jobs[i].arg /\ jobs'[i].hash = jobs[i].hash
  BY DEF Goto, Shapes, JobFields

\* The stores are those of the configuration.
LEMMA ConfigStays ==
    ASSUME config' = config
    PROVE  /\ Stores' = Stores
           /\ \A s : Kind(s)' = Kind(s)
           /\ \A h : HasOutboard(h)' = HasOutboard(h)
  BY DEF Stores, Kind, HasOutboard

LEMMA OthersOK ==
    ASSUME Shapes, NEW i, Others(i), NEW k \in DOMAIN jobs \ {i}, JobOK(k)
    PROVE  JobOK(k)'
  <1>1. jobs'[k] = jobs[k] /\ jobs[k].store \in Stores
    BY DEF Others, Shapes
  <1>2. /\ \A s : Kind(s)' = Kind(s)
        /\ \A h : HasOutboard(h)' = HasOutboard(h)
    BY ConfigStays DEF Others
  <1>3. k \in DOMAIN objects[jobs[k].store].tmp =>
          /\ k \in DOMAIN objects'[jobs[k].store].tmp
          /\ objects'[jobs[k].store].tmp[k] = objects[jobs[k].store].tmp[k]
    BY <1>1 DEF Others
  <1>4. /\ HasBlob(jobs[k].store, jobs[k].hash) => HasBlob(jobs[k].store, jobs[k].hash)'
        /\ HasObao(jobs[k].store, jobs[k].hash) => HasObao(jobs[k].store, jobs[k].hash)'
    BY <1>1 DEF Others
  <1>5. grown \subseteq grown' /\ removed \subseteq removed'
    BY DEF Others
  <1> QED
    BY <1>1, <1>2, <1>3, <1>4, <1>5 DEF JobOK

\* So only job i and the blobs that are written have to be looked at.
LEMMA StepOfJob ==
    ASSUME StoreInv, NEW i, Others(i), Shapes', BlobsStay,
           i \in DOMAIN jobs' => JobOK(i)', TempOK(i)'
    PROVE  StoreInv'
  <1>1. Stores' = Stores /\ config' = config /\ \A h : HasOutboard(h)' = HasOutboard(h)
    BY ConfigStays DEF Others
  <1>2. ASSUME NEW k \in DOMAIN jobs' PROVE JobOK(k)'
    <2>1. CASE k = i
      BY <1>2, <2>1
    <2>2. CASE k # i
      BY <1>2, <2>2, OthersOK DEF Others, StoreInv
    <2> QED
      BY <2>1, <2>2
  <1>3. ASSUME NEW k PROVE TempOK(k)'
    <2>1. CASE k # i
      <3>1. TempOK(k)
        BY DEF StoreInv
      <3> QED
        BY <1>1, <2>1, <3>1 DEF TempOK, Others
    <2> QED
      BY <2>1
  <1>4. BlobsAreWhole'
    <2> SUFFICES ASSUME NEW s \in Stores, NEW h \in DOMAIN objects'[s].blob3
                 PROVE  /\ h \notin grown' => objects'[s].blob3[h] = h
                        /\ HasOutboard(h) => HasObao(s, h)'
      BY <1>1 DEF BlobsAreWhole, list_hashes, contains_obao6, HasOutboard, HasObao
    <2>1. CASE h \in DOMAIN objects[s].blob3 /\ objects'[s].blob3[h] = objects[s].blob3[h]
      <3>1. /\ h \notin grown => objects[s].blob3[h] = h
            /\ HasOutboard(h) => HasObao(s, h)
        BY <2>1 DEF StoreInv, BlobsAreWhole, list_hashes, contains_obao6, HasObao
      <3>2. HasObao(s, h) => HasObao(s, h)'
        BY DEF Others
      <3> QED
        BY <2>1, <3>1, <3>2 DEF Others
    <2> QED
      BY <2>1 DEF BlobsStay
  <1> QED
    BY <1>2, <1>3, <1>4 DEF StoreInv

\* The other stores and families, when one family of one store changes.
LEMMA OthersOfFamily ==
    ASSUME Shapes, NEW i, config' = config,
           grown \subseteq grown', removed \subseteq removed', broken \subseteq broken',
           DOMAIN jobs' \ {i} = DOMAIN jobs \ {i},
           \A k \in DOMAIN jobs \ {i} : jobs'[k] = jobs[k],
           NEW s \in Stores,
           \A t \in Stores \ {s} : objects'[t] = objects[t],
           \A t \in Stores : /\ \A h : HasBlob(t, h) => HasBlob(t, h)'
                             /\ \A h : HasObao(t, h) => HasObao(t, h)',
           DOMAIN objects'[s].tmp \ {i} = DOMAIN objects[s].tmp \ {i},
           \A k \in DOMAIN objects[s].tmp \ {i} : objects'[s].tmp[k] = objects[s].tmp[k]
    PROVE  Others(i)
  BY DEF Others

\* Steps that leave the objects alone.
LEMMA MoveOn ==
    ASSUME StoreInv, NEW i \in DOMAIN jobs, UNCHANGED <<config, objects, grown, removed>>,
           broken \subseteq broken', DOMAIN jobs' = DOMAIN jobs,
           \A k \in DOMAIN jobs \ {i} : jobs'[k] = jobs[k],
           DOMAIN jobs'[i] = JobFields, jobs'[i].op = jobs[i].op,
           jobs'[i].store = jobs[i].store, jobs'[i].step \in StepName,
           JobOK(i)',
           jobs[i].step \in WithTemp => jobs'[i].step \in WithTemp \/ i \in broken'
    PROVE  StoreInv'
  <1>1. Stores' = Stores
    BY ConfigStays
  <1>2. Others(i)
    BY DEF Others, HasBlob, HasObao
  <1>3. Shapes'
    BY <1>1 DEF StoreInv, Shapes
  <1>4. BlobsStay
    BY DEF BlobsStay
  <1>5. TempOK(i)'
    BY <1>1 DEF StoreInv, TempOK
  <1> QED
    BY <1>2, <1>3, <1>4, <1>5, StepOfJob

LEMMA CheckExistsStep ==
    ASSUME StoreInv, NEW i, CheckExists(i), config' = config
    PROVE  StoreInv'
  <1>1. i \in DOMAIN jobs /\ Shapes /\ JobOK(i)
    BY DEF CheckExists, At, StoreInv
  <1>2. PICK step \in StepName :
          /\ Goto(i, step)
          /\ \/ /\ jobs[i].step = "exists0"
                /\ \/ step = "ok" /\ contains(jobs[i].store, jobs[i].hash)
                   \/ step = "temp"
                   \/ step = "put" /\ ~Kind(jobs[i].store).renames
             \/ /\ jobs[i].step = "exists"
                /\ \/ step = "discard" /\ contains(jobs[i].store, jobs[i].hash)
                   \/ step = "rename"
                   \/ step = "copy" /\ ~Kind(jobs[i].store).renames
    BY DEF CheckExists, At, AfterFirstCheck, AfterLastCheck, StepName
  <1>3. /\ DOMAIN jobs' = DOMAIN jobs
        /\ \A k \in DOMAIN jobs \ {i} : jobs'[k] = jobs[k]
        /\ jobs'[i].step = step /\ DOMAIN jobs'[i] = JobFields
        /\ jobs'[i].op = jobs[i].op /\ jobs'[i].store = jobs[i].store
        /\ jobs'[i].arg = jobs[i].arg /\ jobs'[i].hash = jobs[i].hash
    BY <1>1, <1>2, GotoFacts
  <1>4. UNCHANGED <<objects, grown, removed, broken>>
    BY DEF CheckExists
  <1>5. JobOK(i)'
    BY <1>1, <1>2, <1>3, <1>4, ConfigStays
       DEF JobOK, contains, HasBlob, HasObao, WithTemp, WithOutboard
  <1>6. jobs[i].step \in WithTemp => step \in WithTemp
    BY <1>2 DEF WithTemp
  <1> QED
    BY <1>1, <1>3, <1>4, <1>5, <1>6, MoveOn

LEMMA PutOutboardStep ==
    ASSUME StoreInv, NEW i, PutOutboard(i), config' = config
    PROVE  StoreInv'
  <1> DEFINE j == jobs[i]
  <1>1. i \in DOMAIN jobs /\ Shapes /\ JobOK(i) /\ j.store \in Stores
    BY DEF PutOutboard, At, StoreInv, Shapes
  <1>2. PICK step \in {"exists0", "exists"} :
          /\ Goto(i, step)
          /\ \/ j.step = "obao0" /\ step = "exists0"
             \/ j.step = "obao" /\ step = "exists"
    BY DEF PutOutboard, At
  <1>3. /\ DOMAIN jobs' = DOMAIN jobs
        /\ \A k \in DOMAIN jobs \ {i} : jobs'[k] = jobs[k]
        /\ jobs'[i].step = step /\ DOMAIN jobs'[i] = JobFields
        /\ jobs'[i].op = j.op /\ jobs'[i].store = j.store
        /\ jobs'[i].arg = j.arg /\ jobs'[i].hash = j.hash
    BY <1>1, <1>2, GotoFacts DEF StepName
  <1>4. /\ DOMAIN objects' = Stores /\ DOMAIN objects'[j.store] = Families
        /\ \A t \in Stores \ {j.store} : objects'[t] = objects[t]
        /\ objects'[j.store].blob3 = objects[j.store].blob3
        /\ objects'[j.store].tmp = objects[j.store].tmp
        /\ DOMAIN objects'[j.store].obao6 = DOMAIN objects[j.store].obao6 \cup {j.hash}
    <2>1. Put(j.store, "obao6", j.hash, TRUE)
      BY DEF PutOutboard
    <2> QED
      BY <1>1, <2>1, PutFacts, ZenonT(40) DEF Families
  <1>5. UNCHANGED <<grown, removed, broken>>
    BY DEF PutOutboard
  <1>6. Others(i)
    <2>1. \A s \in Stores : /\ \A h : HasBlob(s, h) => HasBlob(s, h)'
                            /\ \A h : HasObao(s, h) => HasObao(s, h)'
      BY <1>1, <1>3, <1>4, <1>5 DEF HasBlob, HasObao
    <2> QED
      BY <1>1, <1>3, <1>4, <1>5, <2>1, OthersOfFamily
  <1>7. Shapes'
    BY <1>1, <1>3, <1>4, ConfigStays DEF Shapes, StepName
  <1>8. BlobsStay
    BY <1>4 DEF BlobsStay
  <1>9. JobOK(i)'
    BY <1>1, <1>2, <1>3, <1>4, <1>5, ConfigStays
       DEF JobOK, HasObao, WithTemp, WithOutboard
  <1>10. TempOK(i)'
    BY <1>1, <1>2, <1>3, <1>4, <1>5, ConfigStays DEF TempOK, StoreInv, WithTemp
  <1> QED
    BY <1>6, <1>7, <1>8, <1>9, <1>10, StepOfJob

\* The steps that write the temporary object and go on, or break off.
LEMMA TempStep ==
    ASSUME StoreInv, NEW i \in DOMAIN jobs, jobs[i].step = "temp", config' = config,
           NEW c,
           \/ objects' = objects
           \/ objects' = [objects EXCEPT ![jobs[i].store].tmp = With(@, i, c)],
           removed' = removed, grown \subseteq grown', broken \subseteq broken',
           DOMAIN jobs' = DOMAIN jobs,
           \A k \in DOMAIN jobs \ {i} : jobs'[k] = jobs[k],
           DOMAIN jobs'[i] = JobFields, jobs'[i].op = jobs[i].op,
           jobs'[i].store = jobs[i].store, jobs'[i].arg = jobs[i].arg,
           \/ jobs'[i].step = "err" /\ i \in broken' /\ jobs'[i].hash = jobs[i].hash
           \/ /\ objects' = [objects EXCEPT ![jobs[i].store].tmp = With(@, i, c)]
              /\ jobs'[i].step = "check" \/ jobs'[i].step = Finalize(jobs'[i].hash)
              /\ jobs'[i].hash = c \/ jobs'[i].hash \in grown'
              /\ jobs[i].op \in {"bytes", "stream"} => jobs'[i].hash = jobs[i].arg
    PROVE  StoreInv'
  <1> DEFINE j == jobs[i]
  <1>1. Shapes /\ JobOK(i) /\ TempOK(i) /\ j.store \in Stores
    BY DEF StoreInv, Shapes
  <1>2. Stores' = Stores /\ \A h : HasOutboard(h)' = HasOutboard(h)
    BY ConfigStays
  <1>3. /\ DOMAIN objects' = Stores /\ DOMAIN objects'[j.store] = Families
        /\ \A t \in Stores \ {j.store} : objects'[t] = objects[t]
        /\ objects'[j.store].blob3 = objects[j.store].blob3
        /\ objects'[j.store].obao6 = objects[j.store].obao6
        /\ DOMAIN objects'[j.store].tmp \ {i} = DOMAIN objects[j.store].tmp \ {i}
        /\ \A k \in DOMAIN objects[j.store].tmp \ {i} :
              objects'[j.store].tmp[k] = objects[j.store].tmp[k]
    <2>1. CASE objects' = [objects EXCEPT ![j.store].tmp = With(@, i, c)]
      <3>1. Put(j.store, "tmp", i, c)
        BY <2>1 DEF Put
      <3> QED
        BY <1>1, <3>1, PutFacts DEF Families
    <2> QED
      BY <1>1, <2>1 DEF Shapes
  <1>4. jobs'[i].step # "err" =>
          i \in DOMAIN objects'[j.store].tmp /\ objects'[j.store].tmp[i] = c
    <2>1. CASE objects' = [objects EXCEPT ![j.store].tmp = With(@, i, c)]
      <3>1. Put(j.store, "tmp", i, c)
        BY <2>1 DEF Put
      <3> QED
        BY <1>1, <3>1, PutFacts DEF Families
    <2> QED
      BY <2>1
  <1>5. /\ jobs'[i].step \in {"err", "check", "obao", "exists"}
        /\ jobs'[i].step = "err" => i \in broken'
    BY DEF Finalize
  <1>6. Others(i)
    <2>1. \A s \in Stores : /\ \A h : HasBlob(s, h) => HasBlob(s, h)'
                            /\ \A h : HasObao(s, h) => HasObao(s, h)'
      BY <1>1, <1>3 DEF HasBlob, HasObao
    <2> QED
      BY <1>1, <1>3, <2>1, OthersOfFamily
  <1>7. Shapes'
    BY <1>1, <1>2, <1>3, <1>5 DEF Shapes, StepName
  <1>8. BlobsStay
    BY <1>3 DEF BlobsStay
  <1>9. JobOK(i)'
    BY <1>1, <1>2, <1>4, <1>5 DEF JobOK, WithTemp, WithOutboard, Finalize
  <1>10. TempOK(i)'
    <2> SUFFICES ASSUME NEW s \in Stores, i \in DOMAIN objects'[s].tmp, i \notin broken'
                 PROVE  i \in DOMAIN jobs' /\ jobs'[i].store = s /\ jobs'[i].step \in WithTemp
      BY <1>2 DEF TempOK
    <2>1. CASE s # j.store
      <3>1. i \in DOMAIN objects[s].tmp /\ i \notin broken
        BY <1>3, <2>1
      <3> QED
        BY <1>1, <2>1, <3>1 DEF TempOK
    <2>2. CASE s = j.store
      <3>1. jobs'[i].step \in WithTemp
        BY <1>5 DEF WithTemp
      <3> QED
        BY <2>2, <3>1
    <2> QED
      BY <2>1, <2>2
  <1> QED
    BY <1>6, <1>7, <1>8, <1>9, <1>10, StepOfJob

LEMMA PutTempStep ==
    ASSUME StoreInv, NEW i, PutTemp(i), config' = config
    PROVE  StoreInv'
  <1> DEFINE j == jobs[i]
  <1>1. i \in DOMAIN jobs /\ Shapes /\ j.step = "temp"
    BY DEF PutTemp, At, StoreInv
  <1>2. /\ DOMAIN jobs' = DOMAIN jobs
        /\ \A k \in DOMAIN jobs \ {i} : jobs'[k] = jobs[k]
        /\ DOMAIN jobs'[i] = JobFields /\ jobs'[i].hash = j.arg
        /\ jobs'[i].op = j.op /\ jobs'[i].store = j.store /\ jobs'[i].arg = j.arg
        /\ jobs'[i].step = "check" \/ jobs'[i].step = Finalize(j.arg)
    BY <1>1 DEF PutTemp, Shapes, JobFields
  <1>3. objects' = [objects EXCEPT ![j.store].tmp = With(@, i, j.arg)]
    BY DEF PutTemp, Put
  <1>4. UNCHANGED <<grown, removed, broken>>
    BY DEF PutTemp
  <1> HIDE DEF j
  <1> QED
    BY <1>1, <1>2, <1>3, <1>4, TempStep DEF j

LEMMA CheckStep ==
    ASSUME StoreInv, NEW i, compute_from_store(i), config' = config
    PROVE  StoreInv'
  <1> DEFINE j == jobs[i]
  <1>1. i \in DOMAIN jobs /\ Shapes /\ JobOK(i) /\ j.step = "check"
    BY DEF compute_from_store, At, StoreInv
  <1>2. PICK step \in {"obao", "exists", "err"} :
          /\ Goto(i, step)
          /\ step = "err" => i \in broken'
          /\ step = "exists" => ~HasOutboard(j.hash)
    BY DEF compute_from_store, Finalize
  <1>3. /\ DOMAIN jobs' = DOMAIN jobs
        /\ \A k \in DOMAIN jobs \ {i} : jobs'[k] = jobs[k]
        /\ jobs'[i].step = step /\ DOMAIN jobs'[i] = JobFields
        /\ jobs'[i].op = j.op /\ jobs'[i].store = j.store
        /\ jobs'[i].arg = j.arg /\ jobs'[i].hash = j.hash
    BY <1>1, <1>2, GotoFacts DEF StepName
  <1>4. UNCHANGED <<objects, grown, removed>> /\ broken \subseteq broken'
    BY DEF compute_from_store
  <1>5. JobOK(i)'
    BY <1>1, <1>2, <1>3, <1>4, ConfigStays DEF JobOK, WithTemp, WithOutboard
  <1>6. step \in WithTemp \/ i \in broken'
    BY <1>2 DEF WithTemp
  <1> QED
    BY <1>1, <1>2, <1>3, <1>4, <1>5, <1>6, MoveOn DEF StepName

LEMMA MetadataStep ==
    ASSUME StoreInv, NEW i, FileMetadata(i), config' = config
    PROVE  StoreInv'
  <1> DEFINE j == jobs[i]
  <1>1. i \in DOMAIN jobs /\ Shapes /\ JobOK(i) /\ j.step = "meta"
    BY DEF FileMetadata, At, StoreInv
  <1>2. /\ DOMAIN jobs' = DOMAIN jobs
        /\ \A k \in DOMAIN jobs \ {i} : jobs'[k] = jobs[k]
        /\ jobs'[i].step \in {"temp", "err"} /\ DOMAIN jobs'[i] = JobFields
        /\ jobs'[i].op = j.op /\ jobs'[i].store = j.store
        /\ jobs'[i].arg = j.arg /\ jobs'[i].hash = j.hash
    BY <1>1 DEF FileMetadata, Shapes, JobFields
  <1>3. UNCHANGED <<objects, grown, removed>> /\ broken \subseteq broken'
    BY DEF FileMetadata
  <1>4. JobOK(i)'
    BY <1>1, <1>2, <1>3, ConfigStays DEF JobOK, WithTemp, WithOutboard
  <1> QED
    BY <1>1, <1>2, <1>3, <1>4, MoveOn DEF StepName, WithTemp

LEMMA PutTempFileStep ==
    ASSUME StoreInv, NEW i, PutTempFile(i), config' = config
    PROVE  StoreInv'
  <1> DEFINE j == jobs[i]
             c == files[j.arg].data
             Wrote == objects' = [objects EXCEPT ![j.store].tmp = With(@, i, c)]
  <1>1. i \in DOMAIN jobs /\ Shapes /\ j.step = "temp" /\ j.op = "file"
    BY DEF PutTempFile, At, StoreInv
  <1>2. removed' = removed
    BY DEF PutTempFile
  <1>3. \/ /\ Goto(i, "err") /\ grown' = grown /\ broken' = broken \cup {i}
           /\ objects' = objects \/ Wrote
        \/ \E h : /\ jobs' = [jobs EXCEPT ![i].hash = h, ![i].step = Finalize(h)]
                  /\ Wrote /\ broken' = broken
                  /\ grown' = IF h = c THEN grown ELSE grown \cup {h}
    BY DEF PutTempFile, Put
  <1>4. CASE /\ Goto(i, "err") /\ grown' = grown /\ broken' = broken \cup {i}
             /\ objects' = objects \/ Wrote
    <2>1. /\ DOMAIN jobs' = DOMAIN jobs
          /\ \A k \in DOMAIN jobs \ {i} : jobs'[k] = jobs[k]
          /\ jobs'[i].step = "err" /\ DOMAIN jobs'[i] = JobFields
          /\ jobs'[i].op = j.op /\ jobs'[i].store = j.store
          /\ jobs'[i].arg = j.arg /\ jobs'[i].hash = j.hash
      BY <1>1, <1>4, GotoFacts DEF StepName
    <2> HIDE DEF c
    <2> QED
      BY <1>1, <1>2, <1>4, <2>1, TempStep
  <1>5. ASSUME NEW h, jobs' = [jobs EXCEPT ![i].hash = h, ![i].step = Finalize(h)],
               Wrote, broken' = broken, grown' = IF h = c THEN grown ELSE grown \cup {h}
        PROVE  StoreInv'
    <2>1. /\ DOMAIN jobs' = DOMAIN jobs
          /\ \A k \in DOMAIN jobs \ {i} : jobs'[k] = jobs[k]
          /\ jobs'[i].step = Finalize(h) /\ DOMAIN jobs'[i] = JobFields
          /\ jobs'[i].op = j.op /\ jobs'[i].store = j.store
          /\ jobs'[i].arg = j.arg /\ jobs'[i].hash = h
      BY <1>1, <1>5 DEF Shapes, JobFields
    <2> HIDE DEF c
    <2>2. grown \subseteq grown' /\ (h = c \/ h \in grown')
      BY <1>5
    <2> QED
      BY <1>1, <1>2, <1>5, <2>1, <2>2, TempStep
  <1> QED
    BY <1>3, <1>4, <1>5

\* A job ends; its temporary object is gone, or it is one that broke.
LEMMA EndOfJob ==
    ASSUME StoreInv, NEW i \in DOMAIN jobs, config' = config,
           grown' = grown, removed \subseteq removed', broken \subseteq broken',
           DOMAIN objects' = Stores, \A s \in Stores : DOMAIN objects'[s] = Families,
           DOMAIN jobs' = DOMAIN jobs,
           \A k \in DOMAIN jobs \ {i} : jobs'[k] = jobs[k],
           DOMAIN jobs'[i] = JobFields, jobs'[i].op = jobs[i].op,
           jobs'[i].store = jobs[i].store, jobs'[i].step \in StepName,
           Others(i), BlobsStay, JobOK(i)', TempOK(i)'
    PROVE  StoreInv'
  <1>1. Stores' = Stores
    BY ConfigStays
  <1>2. Shapes'
    BY <1>1 DEF StoreInv, Shapes
  <1> QED
    BY <1>2, StepOfJob

LEMMA DiscardStep ==
    ASSUME StoreInv, NEW i, Discard(i), config' = config
    PROVE  StoreInv'
  <1> DEFINE j == jobs[i]
  <1>1. i \in DOMAIN jobs /\ Shapes /\ JobOK(i) /\ TempOK(i) /\ j.step = "discard" /\ j.store \in Stores
    BY DEF Discard, At, StoreInv, Shapes
  <1>2. /\ DOMAIN jobs' = DOMAIN jobs
        /\ \A k \in DOMAIN jobs \ {i} : jobs'[k] = jobs[k]
        /\ jobs'[i].step = "ok" /\ DOMAIN jobs'[i] = JobFields
        /\ jobs'[i].op = j.op /\ jobs'[i].store = j.store
        /\ jobs'[i].arg = j.arg /\ jobs'[i].hash = j.hash
    <2>1. Goto(i, "ok")
      BY DEF Discard
    <2> QED
      BY <1>1, <2>1, GotoFacts DEF StepName
  <1>3. UNCHANGED <<grown, removed, broken>>
    BY DEF Discard
  <1>4. /\ DOMAIN objects' = Stores /\ DOMAIN objects'[j.store] = Families
        /\ \A t \in Stores \ {j.store} : objects'[t] = objects[t]
        /\ objects'[j.store].blob3 = objects[j.store].blob3
        /\ objects'[j.store].obao6 = objects[j.store].obao6
        /\ DOMAIN objects'[j.store].tmp = DOMAIN objects[j.store].tmp \ {i}
        /\ \A k \in DOMAIN objects[j.store].tmp \ {i} :
              objects'[j.store].tmp[k] = objects[j.store].tmp[k]
    <2>1. Cut(j.store, "tmp", i)
      BY DEF Discard, Cut
    <2> QED
      BY <1>1, <2>1, CutFacts DEF Families
  <1>6. Others(i)
    <2>1. \A s \in Stores : /\ \A h : HasBlob(s, h) => HasBlob(s, h)'
                            /\ \A h : HasObao(s, h) => HasObao(s, h)'
      BY <1>1, <1>2, <1>3, <1>4 DEF HasBlob, HasObao
    <2> QED
      BY <1>1, <1>2, <1>3, <1>4, <2>1, OthersOfFamily
  <1>7. BlobsStay
    BY <1>4 DEF BlobsStay
  <1>8. JobOK(i)'
    BY <1>1, <1>2, <1>3, <1>4 DEF JobOK, HasBlob, WithTemp, WithOutboard
  <1>9. TempOK(i)'
    BY <1>1, <1>2, <1>3, <1>4, ConfigStays DEF TempOK
  <1>10. \A s \in Stores : DOMAIN objects'[s] = Families
    BY <1>1, <1>4 DEF Shapes
  <1> QED
    BY <1>1, <1>2, <1>3, <1>4, <1>6, <1>7, <1>8, <1>9, <1>10, EndOfJob DEF StepName

LEMMA DeleteBlobStep ==
    ASSUME StoreInv, NEW i, DeleteBlob(i), config' = config
    PROVE  StoreInv'
  <1> DEFINE j == jobs[i]
  <1>1. i \in DOMAIN jobs /\ Shapes /\ JobOK(i) /\ TempOK(i) /\ j.step = "delete" /\ j.store \in Stores
    BY DEF DeleteBlob, At, StoreInv, Shapes
  <1>2. PICK step \in {"err", "delobao", "ok"} : Goto(i, step)
    BY DEF DeleteBlob
  <1>3. /\ DOMAIN jobs' = DOMAIN jobs
        /\ \A k \in DOMAIN jobs \ {i} : jobs'[k] = jobs[k]
        /\ jobs'[i].step = step /\ DOMAIN jobs'[i] = JobFields
        /\ jobs'[i].op = j.op /\ jobs'[i].store = j.store
        /\ jobs'[i].arg = j.arg /\ jobs'[i].hash = j.hash
    BY <1>1, <1>2, GotoFacts DEF StepName
  <1>4. UNCHANGED <<grown, broken>> /\ removed' = removed \cup {<<j.store, j.hash>>}
    BY DEF DeleteBlob
  <1>5. /\ DOMAIN objects' = Stores /\ DOMAIN objects'[j.store] = Families
        /\ \A t \in Stores \ {j.store} : objects'[t] = objects[t]
        /\ objects'[j.store].tmp = objects[j.store].tmp
        /\ objects'[j.store].obao6 = objects[j.store].obao6
        /\ DOMAIN objects'[j.store].blob3 = DOMAIN objects[j.store].blob3 \ {j.hash}
        /\ \A h \in DOMAIN objects[j.store].blob3 \ {j.hash} :
              objects'[j.store].blob3[h] = objects[j.store].blob3[h]
    <2>1. Cut(j.store, "blob3", j.hash)
      BY DEF DeleteBlob, Cut
    <2> QED
      BY <1>1, <2>1, CutFacts DEF Families
  <1>6. Others(i)
    <2>1. \A s \in Stores : /\ \A h : HasBlob(s, h) => HasBlob(s, h)'
                            /\ \A h : HasObao(s, h) => HasObao(s, h)'
      BY <1>4, <1>5 DEF HasBlob, HasObao
    <2> QED
      BY <1>1, <1>3, <1>4, <1>5, <2>1, OthersOfFamily
  <1>7. BlobsStay
    BY <1>5 DEF BlobsStay
  <1>8. JobOK(i)'
    BY <1>1, <1>2, <1>3, <1>4 DEF JobOK, WithTemp, WithOutboard
  <1>9. TempOK(i)'
    <2>1. \A s \in Stores : objects'[s].tmp = objects[s].tmp
      BY <1>5
    <2> QED
      BY <1>1, <1>3, <1>4, <2>1, ConfigStays DEF TempOK, WithTemp
  <1>10. \A s \in Stores : DOMAIN objects'[s] = Families
    BY <1>1, <1>5 DEF Shapes
  <1> QED
    BY <1>1, <1>2, <1>3, <1>4, <1>5, <1>6, <1>7, <1>8, <1>9, <1>10, EndOfJob DEF StepName

LEMMA DeleteOutboardStep ==
    ASSUME StoreInv, NEW i, DeleteOutboard(i), config' = config
    PROVE  StoreInv'
  <1> DEFINE j == jobs[i]
  <1>1. i \in DOMAIN jobs /\ Shapes /\ JobOK(i) /\ TempOK(i) /\ j.step = "delobao" /\ j.store \in Stores
    BY DEF DeleteOutboard, At, StoreInv, Shapes
  <1>2. Goto(i, "ok") /\ UNCHANGED <<grown, removed, broken>>
    BY DEF DeleteOutboard
  <1>3. /\ DOMAIN jobs' = DOMAIN jobs
        /\ \A k \in DOMAIN jobs \ {i} : jobs'[k] = jobs[k]
        /\ jobs'[i].step = "ok" /\ DOMAIN jobs'[i] = JobFields
        /\ jobs'[i].op = j.op /\ jobs'[i].store = j.store
        /\ jobs'[i].arg = j.arg /\ jobs'[i].hash = j.hash
    BY <1>1, <1>2, GotoFacts DEF StepName
  <1>4. /\ DOMAIN objects' = Stores /\ DOMAIN objects'[j.store] = Families
        /\ \A t \in Stores \ {j.store} : objects'[t] = objects[t]
        /\ objects'[j.store].tmp = objects[j.store].tmp
        /\ objects'[j.store].blob3 = objects[j.store].blob3
        /\ DOMAIN objects'[j.store].obao6 = DOMAIN objects[j.store].obao6 \ {j.hash}
    <2>1. Cut(j.store, "obao6", j.hash)
      BY DEF DeleteOutboard, Cut
    <2> QED
      BY <1>1, <2>1, CutFacts DEF Families
  <1>5. <<j.store, j.hash>> \in removed /\ j.op = "delete"
    BY <1>1 DEF JobOK
  <1>6. Others(i)
    <2>1. \A s \in Stores : /\ \A h : HasBlob(s, h) => HasBlob(s, h)'
                            /\ \A h : HasObao(s, h) => HasObao(s, h)'
      BY <1>2, <1>4, <1>5 DEF HasBlob, HasObao
    <2> QED
      BY <1>1, <1>2, <1>3, <1>4, <2>1, OthersOfFamily
  <1>7. BlobsStay
    BY <1>4 DEF BlobsStay
  <1>8. JobOK(i)'
    BY <1>1, <1>2, <1>3, <1>5 DEF JobOK, WithTemp, WithOutboard
  <1>9. TempOK(i)'
    <2>1. \A s \in Stores : objects'[s].tmp = objects[s].tmp
      BY <1>4
    <2> QED
      BY <1>1, <1>2, <1>3, <2>1, ConfigStays DEF TempOK, WithTemp
  <1>10. \A s \in Stores : DOMAIN objects'[s] = Families
    BY <1>1, <1>4 DEF Shapes
  <1> QED
    BY <1>1, <1>2, <1>3, <1>4, <1>6, <1>7, <1>8, <1>9, <1>10, EndOfJob DEF StepName

\* The job that may write under the name of a blob writes what belongs there.
LEMMA OwnContent ==
    ASSUME StoreInv, NEW i \in DOMAIN jobs, jobs[i].step \in {"put", "copy", "rename"}
    PROVE  /\ jobs[i].step = "put" => jobs[i].arg = jobs[i].hash
           /\ jobs[i].step \in {"copy", "rename"} =>
                 jobs[i].hash \in grown \/ objects[jobs[i].store].tmp[i] = jobs[i].hash
           /\ HasOutboard(jobs[i].hash) => HasObao(jobs[i].store, jobs[i].hash)
  BY DEF StoreInv, JobOK, WithTemp, WithOutboard

LEMMA PutBlobStep ==
    ASSUME StoreInv, NEW i, PutBlob(i), config' = config
    PROVE  StoreInv'
  <1> DEFINE j == jobs[i]
             c == IF j.step = "put" THEN j.arg ELSE objects[j.store].tmp[i]
  <1>1. i \in DOMAIN jobs /\ Shapes /\ JobOK(i) /\ TempOK(i) /\ j.step \in {"put", "copy"}
        /\ j.store \in Stores
    BY DEF PutBlob, At, StoreInv, Shapes
  <1>2. PICK step \in {"ok", "discard"} :
          /\ Goto(i, step)
          /\ step = IF j.step = "put" THEN "ok" ELSE "discard"
    BY DEF PutBlob
  <1>3. /\ DOMAIN jobs' = DOMAIN jobs
        /\ \A k \in DOMAIN jobs \ {i} : jobs'[k] = jobs[k]
        /\ jobs'[i].step = step /\ DOMAIN jobs'[i] = JobFields
        /\ jobs'[i].op = j.op /\ jobs'[i].store = j.store
        /\ jobs'[i].arg = j.arg /\ jobs'[i].hash = j.hash
    BY <1>1, <1>2, GotoFacts DEF StepName
  <1>4. UNCHANGED <<grown, removed, broken>> /\ Put(j.store, "blob3", j.hash, c)
    BY DEF PutBlob
  <1>5. /\ j.hash \in grown \/ c = j.hash
        /\ HasOutboard(j.hash) => HasObao(j.store, j.hash)
    BY <1>1, OwnContent
  <1> HIDE DEF c
  <1>6. /\ DOMAIN objects' = Stores /\ DOMAIN objects'[j.store] = Families
        /\ \A t \in Stores \ {j.store} : objects'[t] = objects[t]
        /\ objects'[j.store].tmp = objects[j.store].tmp
        /\ objects'[j.store].obao6 = objects[j.store].obao6
        /\ DOMAIN objects'[j.store].blob3 = DOMAIN objects[j.store].blob3 \cup {j.hash}
        /\ objects'[j.store].blob3[j.hash] = c
        /\ \A h \in DOMAIN objects[j.store].blob3 \ {j.hash} :
              objects'[j.store].blob3[h] = objects[j.store].blob3[h]
    BY <1>1, <1>4, PutFacts DEF Families
  <1>7. /\ \A s \in Stores : /\ \A h : HasBlob(s, h) => HasBlob(s, h)'
                             /\ \A h : HasObao(s, h) => HasObao(s, h)'
        /\ \A s, h : s = j.store /\ h = j.hash => HasBlob(s, h)'
    BY <1>4, <1>6 DEF HasBlob, HasObao
  <1>8. Others(i)
    BY <1>1, <1>3, <1>4, <1>6, <1>7, OthersOfFamily
  <1>9. BlobsStay
    <2> SUFFICES ASSUME NEW s \in Stores, NEW h \in DOMAIN objects'[s].blob3,
                        ~(h \in DOMAIN objects[s].blob3 /\ objects'[s].blob3[h] = objects[s].blob3[h])
                 PROVE  /\ h \in grown' \/ objects'[s].blob3[h] = h
                        /\ HasOutboard(h) => HasObao(s, h)'
      BY DEF BlobsStay
    <2>1. s = j.store /\ h = j.hash
      BY <1>6
    <2>2. HasOutboard(h) => HasObao(s, h)
      BY <1>5, <2>1
    <2>3. h \in grown' \/ objects'[s].blob3[h] = h
      BY <1>4, <1>5, <1>6, <2>1
    <2>4. HasObao(s, h) => HasObao(s, h)'
      BY <1>4, <1>6 DEF HasObao
    <2> QED
      BY <2>2, <2>3, <2>4
  <1>10. JobOK(i)'
    <2>1. objects'[j.store].tmp = objects[j.store].tmp
      BY <1>6
    <2> QED
      BY <1>1, <1>2, <1>3, <1>4, <1>7, <2>1 DEF JobOK, WithTemp, WithOutboard
  <1>11. TempOK(i)'
    <2>1. \A s \in Stores : objects'[s].tmp = objects[s].tmp
      BY <1>6
    <2>2. \A s \in Stores : i \in DOMAIN objects[s].tmp /\ i \notin broken => step = "discard"
      BY <1>1, <1>2 DEF TempOK, WithTemp
    <2> QED
      BY <1>1, <1>3, <1>4, <2>1, <2>2, ConfigStays DEF TempOK, WithTemp
  <1>12. \A s \in Stores : DOMAIN objects'[s] = Families
    BY <1>1, <1>6 DEF Shapes
  <1> QED
    BY <1>1, <1>2, <1>3, <1>4, <1>6, <1>8, <1>9, <1>10, <1>11, <1>12, EndOfJob DEF StepName

LEMMA RenameStep ==
    ASSUME StoreInv, NEW i, Rename(i), config' = config
    PROVE  StoreInv'
  <1> DEFINE j == jobs[i]
             c == objects[j.store].tmp[i]
  <1>1. i \in DOMAIN jobs /\ Shapes /\ JobOK(i) /\ TempOK(i) /\ j.step = "rename"
        /\ j.store \in Stores
    BY DEF Rename, At, StoreInv, Shapes
  <1>2. UNCHANGED <<grown, removed>> /\ broken \subseteq broken'
    BY DEF Rename
  <1>3. CASE objects' = objects /\ Goto(i, "err") /\ i \in broken'
    <2>1. /\ DOMAIN jobs' = DOMAIN jobs
          /\ \A k \in DOMAIN jobs \ {i} : jobs'[k] = jobs[k]
          /\ jobs'[i].step = "err" /\ DOMAIN jobs'[i] = JobFields
          /\ jobs'[i].op = j.op /\ jobs'[i].store = j.store
          /\ jobs'[i].arg = j.arg /\ jobs'[i].hash = j.hash
      BY <1>1, <1>3, GotoFacts DEF StepName
    <2>2. JobOK(i)'
      BY <1>1, <1>2, <2>1 DEF JobOK, WithTemp, WithOutboard
    <2> QED
      BY <1>1, <1>2, <1>3, <2>1, <2>2, MoveOn DEF StepName
  <1>4. CASE /\ objects' = [objects EXCEPT ![j.store].blob3 = With(@, j.hash, c),
                                           ![j.store].tmp = Without(@, i)]
             /\ Goto(i, "ok") /\ broken' = broken
    <2>1. /\ DOMAIN jobs' = DOMAIN jobs
          /\ \A k \in DOMAIN jobs \ {i} : jobs'[k] = jobs[k]
          /\ jobs'[i].step = "ok" /\ DOMAIN jobs'[i] = JobFields
          /\ jobs'[i].op = j.op /\ jobs'[i].store = j.store
          /\ jobs'[i].arg = j.arg /\ jobs'[i].hash = j.hash
      BY <1>1, <1>4, GotoFacts DEF StepName
    <2>2. /\ j.hash \in grown \/ c = j.hash
          /\ HasOutboard(j.hash) => HasObao(j.store, j.hash)
      BY <1>1, OwnContent
    <2> HIDE DEF c
    <2>3. /\ DOMAIN objects' = Stores /\ DOMAIN objects'[j.store] = Families
          /\ \A t \in Stores \ {j.store} : objects'[t] = objects[t]
          /\ objects'[j.store].obao6 = objects[j.store].obao6
          /\ objects'[j.store].blob3 = With(objects[j.store].blob3, j.hash, c)
          /\ objects'[j.store].tmp = Without(objects[j.store].tmp, i)
      <3>1. objects' = [objects EXCEPT ![j.store] =
                          [objects[j.store] EXCEPT !.blob3 = With(objects[j.store].blob3, j.hash, c),
                                                   !.tmp = Without(objects[j.store].tmp, i)]]
        BY <1>1, <1>4 DEF Shapes, Families
      <3>2. objects'[j.store] = [objects[j.store] EXCEPT !.blob3 = With(objects[j.store].blob3, j.hash, c),
                                                         !.tmp = Without(objects[j.store].tmp, i)]
        BY <1>1, <3>1 DEF Shapes
      <3> QED
        BY <1>1, <3>1, <3>2 DEF Shapes, Families
    <2>4. /\ DOMAIN objects'[j.store].blob3 = DOMAIN objects[j.store].blob3 \cup {j.hash}
          /\ objects'[j.store].blob3[j.hash] = c
          /\ \A h \in DOMAIN objects[j.store].blob3 \ {j.hash} :
                objects'[j.store].blob3[h] = objects[j.store].blob3[h]
      BY <2>3 DEF With
    <2>5. /\ DOMAIN objects'[j.store].tmp = DOMAIN objects[j.store].tmp \ {i}
          /\ \A k \in DOMAIN objects[j.store].tmp \ {i} :
                objects'[j.store].tmp[k] = objects[j.store].tmp[k]
      BY <2>3 DEF Without
    <2>6. Others(i)
      <3>1. \A s \in Stores : /\ \A h : HasBlob(s, h) => HasBlob(s, h)'
                              /\ \A h : HasObao(s, h) => HasObao(s, h)'
        BY <1>2, <2>3, <2>4 DEF HasBlob, HasObao
      <3> QED
        BY <1>1, <1>2, <2>1, <2>3, <2>5, <3>1, OthersOfFamily
    <2>7. BlobsStay
      <3> SUFFICES ASSUME NEW s \in Stores, NEW h \in DOMAIN objects'[s].blob3,
                          ~(h \in DOMAIN objects[s].blob3 /\ objects'[s].blob3[h] = objects[s].blob3[h])
                   PROVE  /\ h \in grown' \/ objects'[s].blob3[h] = h
                          /\ HasOutboard(h) => HasObao(s, h)'
        BY DEF BlobsStay
      <3>1. s = j.store /\ h = j.hash
        BY <2>3, <2>4
      <3>2. HasOutboard(h) => HasObao(s, h)
        BY <2>2, <3>1
      <3>3. h \in grown' \/ objects'[s].blob3[h] = h
        BY <1>2, <2>2, <2>4, <3>1
      <3>4. HasObao(s, h) => HasObao(s, h)'
        BY <1>2, <2>3 DEF HasObao
      <3> QED
        BY <3>2, <3>3, <3>4
    <2>8. JobOK(i)'
      <3>1. HasBlob(j.store, j.hash)'
        BY <2>1, <2>4 DEF HasBlob
      <3> QED
        BY <1>1, <1>2, <2>1, <3>1 DEF JobOK, WithTemp, WithOutboard
    <2>9. TempOK(i)'
      <3>1. \A s \in Stores : i \in DOMAIN objects'[s].tmp => i \in broken'
        BY <1>1, <1>4, <2>3, <2>5 DEF TempOK
      <3> QED
        BY <3>1, ConfigStays DEF TempOK
    <2>10. \A s \in Stores : DOMAIN objects'[s] = Families
      BY <1>1, <2>3 DEF Shapes
    <2> QED
      BY <1>1, <1>2, <1>4, <2>1, <2>3, <2>6, <2>7, <2>8, <2>9, <2>10, EndOfJob DEF StepName
  <1> QED
    BY <1>3, <1>4 DEF Rename

\* Blobs are put under their own names in stores that show them at once.
LEMMA ShownAtOnce ==
    ASSUME StoreInv, NEW i \in DOMAIN jobs, jobs[i].step \in {"put", "copy"}, NEW c
    PROVE  Parts(jobs[i].store, c) = {c}
  <1>1. config \in Configs /\ jobs[i].store \in Stores /\ ~Kind(jobs[i].store).renames
    BY DEF StoreInv, Shapes, JobOK
  <1>2. Kind(jobs[i].store) \in {LocalStore, MemoryStore, S3Store, SiaStore}
    BY <1>1, StoresAssumption DEF Kind, Stores
  <1>3. ~Kind(jobs[i].store).inPlace
    BY <1>1, <1>2 DEF LocalStore, MemoryStore, S3Store, SiaStore
  <1> QED
    BY <1>3 DEF Parts

\* What a call that is cut short leaves behind.
LEMMA InterruptedFacts ==
    ASSUME NEW i, objects' \in Interrupted(i)
    PROVE  \/ /\ jobs[i].step \in {"obao0", "obao"}
              /\ \E c : Put(jobs[i].store, "obao6", jobs[i].hash, c)
           \/ /\ jobs[i].step = "temp"
              /\ \E c : Put(jobs[i].store, "tmp", i, c)
           \/ /\ jobs[i].step \in {"put", "copy"}
              /\ \E c \in Parts(jobs[i].store, Content(i)) :
                    Put(jobs[i].store, "blob3", jobs[i].hash, c)
  BY DEF Interrupted, Put

\* The objects after one more has been put, or none.
LEMMA BreakFacts ==
    ASSUME StoreInv, NEW i, Break(i), config' = config, UNCHANGED <<grown, removed>>
    PROVE  /\ i \in DOMAIN jobs /\ broken' = broken \cup {i}
           /\ DOMAIN objects' = Stores /\ \A s \in Stores : DOMAIN objects'[s] = Families
           /\ \A s \in Stores :
                /\ \A h : HasBlob(s, h) => HasBlob(s, h)'
                /\ \A h : HasObao(s, h) => HasObao(s, h)'
                /\ DOMAIN objects'[s].tmp \ {i} = DOMAIN objects[s].tmp \ {i}
                /\ \A k \in DOMAIN objects[s].tmp \ {i} : objects'[s].tmp[k] = objects[s].tmp[k]
           /\ BlobsStay
  <1> DEFINE j == jobs[i]
  <1>1. i \in DOMAIN jobs /\ broken' = broken \cup {i} /\ Shapes /\ j.store \in Stores
    BY DEF Break, Running, StoreInv, Shapes
  <1>2. CASE objects' = objects
    BY <1>1, <1>2 DEF Shapes, HasBlob, HasObao, BlobsStay
  <1>3. ASSUME NEW c, Put(j.store, "obao6", j.hash, c)
        PROVE  /\ DOMAIN objects' = Stores /\ DOMAIN objects'[j.store] = Families
               /\ \A t \in Stores \ {j.store} : objects'[t] = objects[t]
               /\ objects'[j.store].blob3 = objects[j.store].blob3
               /\ objects'[j.store].tmp = objects[j.store].tmp
               /\ DOMAIN objects[j.store].obao6 \subseteq DOMAIN objects'[j.store].obao6
    BY <1>1, <1>3, PutFacts DEF Families
  <1>4. ASSUME NEW c, Put(j.store, "tmp", i, c)
        PROVE  /\ DOMAIN objects' = Stores /\ DOMAIN objects'[j.store] = Families
               /\ \A t \in Stores \ {j.store} : objects'[t] = objects[t]
               /\ objects'[j.store].blob3 = objects[j.store].blob3
               /\ objects'[j.store].obao6 = objects[j.store].obao6
               /\ DOMAIN objects'[j.store].tmp = DOMAIN objects[j.store].tmp \cup {i}
               /\ \A k \in DOMAIN objects[j.store].tmp \ {i} :
                     objects'[j.store].tmp[k] = objects[j.store].tmp[k]
    BY <1>1, <1>4, PutFacts DEF Families
  <1>5. ASSUME NEW c, Put(j.store, "blob3", j.hash, c)
        PROVE  /\ DOMAIN objects' = Stores /\ DOMAIN objects'[j.store] = Families
               /\ \A t \in Stores \ {j.store} : objects'[t] = objects[t]
               /\ objects'[j.store].tmp = objects[j.store].tmp
               /\ objects'[j.store].obao6 = objects[j.store].obao6
               /\ DOMAIN objects'[j.store].blob3 = DOMAIN objects[j.store].blob3 \cup {j.hash}
               /\ objects'[j.store].blob3[j.hash] = c
               /\ \A h \in DOMAIN objects[j.store].blob3 \ {j.hash} :
                     objects'[j.store].blob3[h] = objects[j.store].blob3[h]
    BY <1>1, <1>5, PutFacts DEF Families
  <1>6. CASE \E c : Put(j.store, "obao6", j.hash, c)
    BY <1>1, <1>3, <1>6 DEF Shapes, HasBlob, HasObao, BlobsStay
  <1>7. CASE \E c : Put(j.store, "tmp", i, c)
    BY <1>1, <1>4, <1>7 DEF Shapes, HasBlob, HasObao, BlobsStay
  <1>8. ASSUME j.step \in {"put", "copy"}, NEW c \in Parts(j.store, Content(i)),
               Put(j.store, "blob3", j.hash, c)
        PROVE  /\ DOMAIN objects' = Stores /\ \A s \in Stores : DOMAIN objects'[s] = Families
               /\ \A s \in Stores :
                    /\ \A h : HasBlob(s, h) => HasBlob(s, h)'
                    /\ \A h : HasObao(s, h) => HasObao(s, h)'
                    /\ DOMAIN objects'[s].tmp \ {i} = DOMAIN objects[s].tmp \ {i}
                    /\ \A k \in DOMAIN objects[s].tmp \ {i} : objects'[s].tmp[k] = objects[s].tmp[k]
               /\ BlobsStay
    <2>1. /\ DOMAIN objects' = Stores /\ DOMAIN objects'[j.store] = Families
          /\ \A t \in Stores \ {j.store} : objects'[t] = objects[t]
          /\ objects'[j.store].tmp = objects[j.store].tmp
          /\ objects'[j.store].obao6 = objects[j.store].obao6
          /\ DOMAIN objects'[j.store].blob3 = DOMAIN objects[j.store].blob3 \cup {j.hash}
          /\ objects'[j.store].blob3[j.hash] = c
          /\ \A h \in DOMAIN objects[j.store].blob3 \ {j.hash} :
                objects'[j.store].blob3[h] = objects[j.store].blob3[h]
      BY <1>5, <1>8
    <2>2. c = Content(i)
      BY <1>1, <1>8, ShownAtOnce
    <2>3. /\ j.hash \in grown \/ c = j.hash
          /\ HasOutboard(j.hash) => HasObao(j.store, j.hash)
      BY <1>1, <1>8, <2>2, OwnContent DEF Content
    <2>4. \A s \in Stores :
             /\ \A h : HasBlob(s, h) => HasBlob(s, h)'
             /\ \A h : HasObao(s, h) => HasObao(s, h)'
      BY <2>1 DEF HasBlob, HasObao
    <2>5. BlobsStay
      <3> SUFFICES ASSUME NEW s \in Stores, NEW h \in DOMAIN objects'[s].blob3,
                          ~(h \in DOMAIN objects[s].blob3 /\ objects'[s].blob3[h] = objects[s].blob3[h])
                   PROVE  /\ h \in grown' \/ objects'[s].blob3[h] = h
                          /\ HasOutboard(h) => HasObao(s, h)'
        BY DEF BlobsStay
      <3>1. s = j.store /\ h = j.hash
        BY <2>1
      <3>2. HasOutboard(h) => HasObao(s, h)
        BY <2>3, <3>1
      <3>3. h \in grown' \/ objects'[s].blob3[h] = h
        BY <2>1, <2>3, <3>1
      <3> QED
        BY <2>4, <3>2, <3>3
    <2>6. \A s \in Stores :
             /\ DOMAIN objects'[s].tmp \ {i} = DOMAIN objects[s].tmp \ {i}
             /\ \A k \in DOMAIN objects[s].tmp \ {i} : objects'[s].tmp[k] = objects[s].tmp[k]
      BY <2>1
    <2>7. \A s \in Stores : DOMAIN objects'[s] = Families
      BY <1>1, <2>1 DEF Shapes
    <2> QED
      BY <2>1, <2>4, <2>5, <2>6, <2>7
  <1>9. objects' = objects \/ objects' \in Interrupted(i)
    BY DEF Break
  <1> QED
    BY <1>1, <1>2, <1>6, <1>7, <1>8, <1>9, InterruptedFacts

LEMMA FailStepStep ==
    ASSUME StoreInv, NEW i, FailStep(i), config' = config
    PROVE  StoreInv'
  <1> DEFINE j == jobs[i]
  <1>1. UNCHANGED <<grown, removed>> /\ Break(i)
    BY DEF FailStep
  <1>2. /\ i \in DOMAIN jobs /\ broken' = broken \cup {i}
        /\ DOMAIN objects' = Stores /\ \A s \in Stores : DOMAIN objects'[s] = Families
        /\ \A s \in Stores :
             /\ \A h : HasBlob(s, h) => HasBlob(s, h)'
             /\ \A h : HasObao(s, h) => HasObao(s, h)'
             /\ DOMAIN objects'[s].tmp \ {i} = DOMAIN objects[s].tmp \ {i}
             /\ \A k \in DOMAIN objects[s].tmp \ {i} : objects'[s].tmp[k] = objects[s].tmp[k]
        /\ BlobsStay
    BY <1>1, BreakFacts
  <1>3. Shapes /\ JobOK(i)
    BY <1>2 DEF StoreInv
  <1>4. PICK step \in {"ok", "err"} : Goto(i, step) /\ (step = "ok" => j.step = "delobao")
    BY DEF FailStep
  <1>5. /\ DOMAIN jobs' = DOMAIN jobs
        /\ \A k \in DOMAIN jobs \ {i} : jobs'[k] = jobs[k]
        /\ jobs'[i].step = step /\ DOMAIN jobs'[i] = JobFields
        /\ jobs'[i].op = j.op /\ jobs'[i].store = j.store
        /\ jobs'[i].arg = j.arg /\ jobs'[i].hash = j.hash
    BY <1>2, <1>3, <1>4, GotoFacts DEF StepName
  <1>6. Others(i)
    BY <1>1, <1>2, <1>5 DEF Others
  <1>7. JobOK(i)'
    BY <1>3, <1>4, <1>5 DEF JobOK, WithTemp, WithOutboard
  <1>8. TempOK(i)'
    BY <1>2 DEF TempOK
  <1> QED
    BY <1>1, <1>2, <1>4, <1>5, <1>6, <1>7, <1>8, EndOfJob DEF StepName

\* A job that is no longer there has left no temporary object, or it broke.
LEMMA JobGone ==
    ASSUME StoreInv, NEW i, config' = config, jobs' = Without(jobs, i),
           Others(i), BlobsStay, DOMAIN objects' = Stores,
           \A s \in Stores : DOMAIN objects'[s] = Families,
           \A s \in Stores : i \in DOMAIN objects'[s].tmp => i \in broken'
    PROVE  StoreInv'
  <1>1. Stores' = Stores
    BY ConfigStays
  <1>2. DOMAIN jobs' = DOMAIN jobs \ {i} /\ \A k \in DOMAIN jobs \ {i} : jobs'[k] = jobs[k]
    BY DEF Without
  <1>3. Shapes'
    BY <1>1, <1>2 DEF StoreInv, Shapes
  <1>4. TempOK(i)'
    BY <1>1 DEF TempOK
  <1> QED
    BY <1>2, <1>3, <1>4, StepOfJob

LEMMA DropJobStep ==
    ASSUME StoreInv, NEW i, DropJob(i), config' = config
    PROVE  StoreInv'
  <1>1. UNCHANGED <<grown, removed>> /\ jobs' = Without(jobs, i)
    BY DEF DropJob
  <1>2. DOMAIN jobs' = DOMAIN jobs \ {i} /\ \A k \in DOMAIN jobs \ {i} : jobs'[k] = jobs[k]
    BY <1>1 DEF Without
  <1>3. CASE i \in Running
    <2>1. Break(i)
      BY <1>3 DEF DropJob
    <2>2. /\ i \in DOMAIN jobs /\ broken' = broken \cup {i}
          /\ DOMAIN objects' = Stores /\ \A s \in Stores : DOMAIN objects'[s] = Families
          /\ \A s \in Stores :
               /\ \A h : HasBlob(s, h) => HasBlob(s, h)'
               /\ \A h : HasObao(s, h) => HasObao(s, h)'
               /\ DOMAIN objects'[s].tmp \ {i} = DOMAIN objects[s].tmp \ {i}
               /\ \A k \in DOMAIN objects[s].tmp \ {i} : objects'[s].tmp[k] = objects[s].tmp[k]
          /\ BlobsStay
      BY <1>1, <2>1, BreakFacts
    <2>3. Others(i)
      BY <1>1, <1>2, <2>2 DEF Others
    <2> QED
      BY <1>1, <2>2, <2>3, JobGone
  <1>4. CASE i \notin Running
    <2>1. UNCHANGED <<objects, broken>>
      BY <1>4 DEF DropJob
    <2>2. Others(i)
      BY <1>1, <1>2, <2>1 DEF Others, HasBlob, HasObao
    <2>3. BlobsStay
      BY <2>1 DEF BlobsStay
    <2>4. \A s \in Stores : i \in DOMAIN objects[s].tmp => i \in broken
      BY <1>4 DEF StoreInv, TempOK, Running, WithTemp, Ended
    <2> QED
      BY <1>1, <2>1, <2>2, <2>3, <2>4, JobGone DEF StoreInv, Shapes
  <1> QED
    BY <1>3, <1>4

\* Whoever waits for a job takes its answer.
LEMMA StoreClose ==
    ASSUME StoreInv, NEW i, i \in DOMAIN jobs => jobs[i].step \in Ended,
           jobs' = Without(jobs, i), UNCHANGED <<config, objects, grown, removed, broken>>
    PROVE  StoreInv'
  <1>1. DOMAIN jobs' = DOMAIN jobs \ {i} /\ \A k \in DOMAIN jobs \ {i} : jobs'[k] = jobs[k]
    BY DEF Without
  <1>2. Others(i)
    BY <1>1 DEF Others, HasBlob, HasObao
  <1>3. BlobsStay
    BY DEF BlobsStay
  <1>4. \A s \in Stores : i \in DOMAIN objects[s].tmp => i \in broken
    BY DEF StoreInv, TempOK, WithTemp, Ended
  <1> QED
    BY <1>2, <1>3, <1>4, JobGone DEF StoreInv, Shapes

\* A job begins.
LEMMA StoreStart ==
    ASSUME StoreInv, NEW i, i \notin DOMAIN jobs, NEW op \in OpName, NEW s \in Stores, NEW arg,
           jobs' = With(jobs, i, NewJob(op, s, arg)),
           UNCHANGED <<config, objects, grown, removed, broken>>
    PROVE  StoreInv'
  <1>1. Stores' = Stores /\ \A h : HasOutboard(h)' = HasOutboard(h)
    BY ConfigStays
  <1>2. /\ DOMAIN jobs' = DOMAIN jobs \cup {i}
        /\ \A k \in DOMAIN jobs \ {i} : jobs'[k] = jobs[k]
        /\ jobs'[i] = NewJob(op, s, arg)
    BY DEF With
  <1>3. /\ DOMAIN jobs'[i] = JobFields
        /\ jobs'[i].op = op /\ jobs'[i].store = s /\ jobs'[i].arg = arg
        /\ op = "bytes" => /\ jobs'[i].hash = arg
                           /\ jobs'[i].step = IF HasOutboard(arg) THEN "obao0" ELSE "exists0"
        /\ op = "stream" => jobs'[i].step = "temp"
        /\ op = "file" => jobs'[i].step = "meta"
        /\ op = "delete" => jobs'[i].step = "delete"
    BY <1>2 DEF NewJob, JobFields, OpName
  <1>4. Others(i)
    BY <1>2 DEF Others, HasBlob, HasObao
  <1>5. BlobsStay
    BY DEF BlobsStay
  <1>6. Shapes'
    BY <1>1, <1>2, <1>3 DEF StoreInv, Shapes, OpName, StepName
  <1>7. JobOK(i)'
    BY <1>1, <1>3 DEF JobOK, OpName, WithTemp, WithOutboard
  <1>8. TempOK(i)'
    BY <1>1 DEF StoreInv, TempOK
  <1> QED
    BY <1>4, <1>5, <1>6, <1>7, <1>8, StepOfJob

LEMMA StoreSame ==
    ASSUME StoreInv, UNCHANGED <<config, objects, jobs, grown, removed, broken>>
    PROVE  StoreInv'
  BY ConfigStays DEF StoreInv, Shapes, JobOK, TempOK, HasBlob, HasObao,
     BlobsAreWhole, list_hashes, contains_obao6

LEMMA JobStepStep ==
    ASSUME StoreInv, NEW i, JobStep(i) \/ FailStep(i), config' = config
    PROVE  StoreInv'
  BY PutOutboardStep, CheckExistsStep, PutTempStep, CheckStep, MetadataStep, PutTempFileStep,
     RenameStep, PutBlobStep, DiscardStep, DeleteBlobStep, DeleteOutboardStep, FailStepStep
     DEF JobStep

\* What the store promises follows.
LEMMA StorePromises ==
    ASSUME StoreInv
    PROVE  BlobsAreWhole /\ ImportsAreClean
  <1>1. ASSUME NEW i \in DOMAIN jobs, jobs[i].op # "delete", jobs[i].step = "ok"
        PROVE  HasBlob(jobs[i].store, jobs[i].hash)
    BY <1>1 DEF StoreInv, JobOK
  <1>2. ASSUME NEW s \in Stores, NEW i \in DOMAIN objects[s].tmp
        PROVE  i \in Running \cup broken
    BY DEF StoreInv, TempOK, Running, WithTemp, Ended
  <1> QED
    BY <1>1, <1>2 DEF StoreInv, ImportsAreClean, HasBlob, contains

LEMMA StoreStarts ==
    ASSUME Init
    PROVE  StoreInv
  <1>1. config \in Configs /\ StoreInit
    BY DEF Init
  <1>2. DOMAIN jobs = {}
    BY <1>1 DEF StoreInit, Empty
  <1>3. /\ DOMAIN objects = Stores
        /\ \A s \in Stores :
             /\ DOMAIN objects[s] = Families
             /\ objects[s].blob3 = [h \in config.held[s] |-> h]
             /\ DOMAIN objects[s].obao6 = {x \in config.held[s] : HasOutboard(x)}
             /\ DOMAIN objects[s].tmp = {}
    BY <1>1 DEF StoreInit, NoObjects, Empty, Families
  <1>4. BlobsAreWhole
    <2> SUFFICES ASSUME NEW s \in Stores, NEW h \in config.held[s]
                 PROVE  /\ objects[s].blob3[h] = h
                        /\ HasOutboard(h) => contains_obao6(s, h)
      BY <1>3, ZenonT(40) DEF BlobsAreWhole, list_hashes
    <2>1. HasOutboard(h) => config.outboard
      BY DEF HasOutboard
    <2>2. HasOutboard(h) => h \in {x \in config.held[s] : HasOutboard(x)}
      BY Zenon
    <2>3. HasOutboard(h) => h \in DOMAIN objects[s].obao6
      BY <1>3, <2>2, Zenon
    <2>4. HasOutboard(h) => contains_obao6(s, h)
      BY <2>1, <2>3, Zenon DEF contains_obao6
    <2>5. objects[s].blob3[h] = h
      BY <1>3
    <2> QED
      BY <2>4, <2>5
  <1> QED
    BY <1>1, <1>2, <1>3, <1>4 DEF StoreInv, Shapes, TempOK

-----------------------------------------------------------------------------
(***************************************************************************)
(* What the parts of a process rely on when they use the store.            *)
(***************************************************************************)

\* A step of a job leaves the jobs what they are.
LEMMA JobsStay ==
    ASSUME StoreInv, NEW i, JobStep(i) \/ FailStep(i)
    PROVE  /\ i \in DOMAIN jobs /\ DOMAIN jobs' = DOMAIN jobs
           /\ \A k \in DOMAIN jobs :
                /\ jobs'[k].op = jobs[k].op /\ jobs'[k].store = jobs[k].store
                /\ jobs'[k].arg = jobs[k].arg
  <1>1. i \in DOMAIN jobs
    BY DEF JobStep, PutOutboard, CheckExists, PutTemp, compute_from_store, FileMetadata,
           PutTempFile, Rename, PutBlob, Discard, DeleteBlob, DeleteOutboard, FailStep, Break,
           At, Running
  <1>2. DOMAIN jobs[i] = JobFields
    BY <1>1 DEF StoreInv, Shapes
  <1>3. \/ \E step : Goto(i, step)
        \/ PutTemp(i)
        \/ FileMetadata(i)
        \/ \E h, step : jobs' = [jobs EXCEPT ![i].hash = h, ![i].step = step]
    BY DEF JobStep, PutOutboard, CheckExists, compute_from_store,
           PutTempFile, Rename, PutBlob, Discard, DeleteBlob, DeleteOutboard, FailStep
  <1>4. CASE \E step : Goto(i, step)
    BY <1>1, <1>2, <1>4 DEF Goto, JobFields
  <1>5. CASE PutTemp(i)
    BY <1>1, <1>2, <1>5 DEF PutTemp, JobFields
  <1>6. CASE FileMetadata(i)
    BY <1>1, <1>2, <1>6 DEF FileMetadata, JobFields
  <1>7. CASE \E h, step : jobs' = [jobs EXCEPT ![i].hash = h, ![i].step = step]
    BY <1>1, <1>2, <1>7 DEF JobFields
  <1> QED
    BY <1>3, <1>4, <1>5, <1>6, <1>7

\* Only a delete takes a blob away.
LEMMA BlobsGrowAt ==
    ASSUME StoreInv, NEW i \in DOMAIN jobs, config' = config,
           jobs[i].step \notin {"delete", "delobao"},
           JobStep(i) \/ FailStep(i) \/ DropJob(i)
    PROVE  /\ removed' = removed
           /\ \A s \in Stores : DOMAIN objects[s].blob3 \subseteq DOMAIN objects'[s].blob3
  <1> DEFINE j == jobs[i]
             Grow == \A s \in Stores : DOMAIN objects[s].blob3 \subseteq DOMAIN objects'[s].blob3
  <1>1. Shapes /\ JobOK(i) /\ j.store \in Stores /\ j.step \notin {"delete", "delobao"}
    BY DEF StoreInv, Shapes, JobOK
  <1>2. ASSUME NEW family \in Families, NEW x, NEW c, Put(j.store, family, x, c)
        PROVE  Grow
    BY <1>1, <1>2, PutFacts DEF Families
  <1>3. ASSUME Cut(j.store, "tmp", i) PROVE Grow
    BY <1>1, <1>3, CutFacts DEF Families
  <1>4. CASE PutOutboard(i)
    BY <1>2, <1>4 DEF PutOutboard, Families
  <1>5. CASE CheckExists(i) \/ compute_from_store(i) \/ FileMetadata(i)
    BY <1>5 DEF CheckExists, compute_from_store, FileMetadata
  <1>6. CASE PutTemp(i)
    BY <1>2, <1>6 DEF PutTemp, Families
  <1>7. CASE PutTempFile(i)
    BY <1>2, <1>7 DEF PutTempFile, Families
  <1>8. CASE Rename(i)
    <2>1. \/ objects' = objects
          \/ objects' = [objects EXCEPT ![j.store] =
                          [objects[j.store] EXCEPT
                              !.blob3 = With(objects[j.store].blob3, j.hash, objects[j.store].tmp[i]),
                              !.tmp = Without(objects[j.store].tmp, i)]]
      BY <1>1, <1>8 DEF Rename, Shapes, Families
    <2>2. \/ objects' = objects
          \/ /\ \A s \in Stores \ {j.store} : objects'[s] = objects[s]
             /\ objects'[j.store].blob3 = With(objects[j.store].blob3, j.hash, objects[j.store].tmp[i])
      BY <1>1, <2>1 DEF Shapes, Families
    <2>3. Grow
      BY <2>2 DEF With
    <2> QED
      BY <1>8, <2>3 DEF Rename
  <1>9. CASE PutBlob(i)
    BY <1>2, <1>9 DEF PutBlob, Families
  <1>10. CASE Discard(i)
    BY <1>3, <1>10 DEF Discard, Cut
  <1>11. CASE DeleteBlob(i) \/ DeleteOutboard(i)
    BY <1>1, <1>11 DEF DeleteBlob, DeleteOutboard, At
  <1>12. CASE FailStep(i) \/ DropJob(i)
    <2>1. removed' = removed /\ (Break(i) \/ objects' = objects)
      BY <1>12 DEF FailStep, DropJob
    <2>2. ASSUME Break(i) PROVE Grow
      <3>1. objects' = objects \/ objects' \in Interrupted(i)
        BY <2>2 DEF Break
      <3>2. \/ objects' = objects
            \/ \E family \in Families : \E x, c : Put(j.store, family, x, c)
        BY <3>1, InterruptedFacts DEF Families
      <3> QED
        BY <1>2, <3>2
    <2> QED
      BY <2>1, <2>2
  <1> QED
    BY <1>4, <1>5, <1>6, <1>7, <1>8, <1>9, <1>10, <1>11, <1>12 DEF JobStep

LEMMA BlobsGrow ==
    ASSUME StoreInv, NEW i \in DOMAIN jobs, config' = config, jobs[i].op # "delete",
           JobStep(i) \/ FailStep(i) \/ DropJob(i)
    PROVE  /\ removed' = removed
           /\ \A s \in Stores : DOMAIN objects[s].blob3 \subseteq DOMAIN objects'[s].blob3
  <1>1. jobs[i].step \notin {"delete", "delobao"}
    BY DEF StoreInv, JobOK
  <1> QED
    BY <1>1, BlobsGrowAt

-----------------------------------------------------------------------------
\* The parts together.

LEMMA ModeFacts ==
    ASSUME HostInv
    PROVE  /\ config \in Configs /\ config.dest \in Stores
           /\ Serving <=> ~Mode("store") /\ ~Mode("fetch")
           /\ Serving => DOMAIN config.calls = {}
           /\ \A i \in DOMAIN config.calls :
                i # 0 /\ config.calls[i].op \in OpName /\ config.calls[i].store \in Stores
  <1>1. config \in Configs
    BY DEF HostInv, StoreInv, Shapes
  <1>2. config.mode \in {"store", "fetch", "import", "mount", "client"}
    BY <1>1, HostAssumption
  <1>3. config.dest \in Stores
    BY <1>1, StoresAssumption DEF Stores
  <1>4. Serving <=> ~Mode("store") /\ ~Mode("fetch")
    BY <1>2 DEF Serving, Mode
  <1>5. Serving => DOMAIN config.calls = {}
    BY <1>1, HostAssumption DEF Serving
  <1>6. \A i \in DOMAIN config.calls :
            i # 0 /\ config.calls[i].op \in OpName /\ config.calls[i].store \in Stores
    BY <1>1, HostAssumption DEF OpName, Stores
  <1> QED
    BY <1>1, <1>3, <1>4, <1>5, <1>6

\* References stay stored while no blob is deleted; where one may be, there are none.
LEMMA RefsStay ==
    ASSUME HostInv, config' = config,
           \A s \in Stores : DOMAIN objects[s].blob3 \subseteq DOMAIN objects'[s].blob3
    PROVE  \A ref : RefStored(ref) => RefStored(ref)'
  <1>1. config.dest \in Stores
    BY ModeFacts
  <1> QED
    BY <1>1 DEF RefStored, contains

\* The versions of files in other directories are those of the tree.
LEMMA ElsewhereFacts ==
    ASSUME NEW t
    PROVE  \A v \in Elsewhere(t) :
              \E x \in DOMAIN t.files : v = <<x, t.files[x]>> /\ ~Own(t, x)
  BY DEF Elsewhere

LEMMA HostStarts ==
    ASSUME Init
    PROVE  HostInv
  <1>1. StoreInv
    BY StoreStarts
  <1>2. config \in Configs /\ DOMAIN jobs = {} /\ removed = {}
    BY DEF Init, StoreInit, Empty
  <1>3. FetchIds
    BY <1>2 DEF Init, FetchInit, NoFetch, FetchIds, FetchFields
  <1>4. ImportIds
    BY <1>2 DEF Init, ImportInit, Empty, ImportIds, RunFields
  <1>5. MountIds
    BY <1>2 DEF Init, FuseInit, Empty, Idle, MountIds, OpenFields, CallFields
  <1>6. ClientIds
    BY <1>2 DEF Init, ClientInit, Quiet, ClientIds, AskFields
  <1>7. Rooted
    <2>1. /\ tree = config.tree /\ saved = config.tree /\ DOMAIN tree = TreeFields
          /\ past = [dirs |-> tree.dirs, files |-> Elsewhere(tree)]
      BY <1>2, HostAssumption DEF Init, FsInit, TreeFields
    <2>2. \A path \in DOMAIN tree.files : tree.files[path].locations = <<>>
                                         /\ tree.files[path].hash \in config.held[config.dest]
      BY <1>2, <2>1, HostAssumption
    <2>3. DOMAIN objects[config.dest].blob3 = config.held[config.dest]
      <3>1. config.dest \in Stores
        BY <1>2, StoresAssumption DEF Stores
      <3> QED
        BY <3>1 DEF Init, StoreInit, NoObjects
    <2>4. \A path \in DOMAIN tree.files : RefStored(tree.files[path])
      BY <2>2, <2>3 DEF RefStored, contains
    <2>5. ~Serving => DOMAIN tree.files = {}
      BY <1>2, <2>1, HostAssumption DEF Serving
    <2>6. \A v \in past.files : \E x \in DOMAIN tree.files : v = <<x, tree.files[x]>>
      BY <2>1, ElsewhereFacts
    <2>7. \A v \in past.files : RefStored(v[2])
      BY <2>4, <2>6
    <2>8. DOMAIN past = PastFields /\ (~Serving => past.files = {})
      BY <2>1, <2>5, <2>6 DEF PastFields
    <2> QED
      BY <1>2, <2>1, <2>4, <2>5, <2>7, <2>8 DEF Rooted
  <1> QED
    BY <1>1, <1>3, <1>4, <1>5, <1>6, <1>7 DEF HostInv

\* What a client computes depends on nothing but the configuration.
LEMMA ClientStays ==
    ASSUME config' = config
    PROVE  /\ \A key, c : Encrypted(key, c)' = Encrypted(key, c)
           /\ \A c : Inline(c)' = Inline(c)
  BY DEF Encrypted, Inline

\* The root when it is left alone.
LEMMA RootStays ==
    ASSUME HostInv, config' = config, UNCHANGED <<tree, saved, past>>,
           Serving => /\ removed' = removed
                      /\ \A s \in Stores : DOMAIN objects[s].blob3 \subseteq DOMAIN objects'[s].blob3
                      /\ \A i \in DOMAIN jobs' : jobs'[i].op # "delete" /\ jobs'[i].store = config.dest
    PROVE  Rooted'
  <1>1. Serving' = Serving
    BY DEF Serving
  <1>2. CASE Serving
    <2>1. \A ref : RefStored(ref) => RefStored(ref)'
      BY <1>2, RefsStay
    <2>2. /\ \A path \in DOMAIN tree.files : RefStored(tree.files[path])'
          /\ \A path \in DOMAIN saved.files : RefStored(saved.files[path])'
          /\ \A v \in past.files : RefStored(v[2])'
      BY <2>1 DEF HostInv, Rooted
    <2> QED
      BY <1>1, <1>2, <2>2 DEF HostInv, Rooted
  <1>3. CASE ~Serving
    BY <1>1, <1>3 DEF HostInv, Rooted
  <1> QED
    BY <1>2, <1>3

\* The client while its jobs go on.
LEMMA ClientWaits ==
    ASSUME HostInv, ClientIds, Serving, UNCHANGED <<config, asks, asked, alive>>,
           DOMAIN jobs' = DOMAIN jobs,
           \A k \in DOMAIN jobs : jobs'[k].op = jobs[k].op /\ jobs'[k].arg = jobs[k].arg,
           \A s \in Stores : DOMAIN objects[s].blob3 \subseteq DOMAIN objects'[s].blob3
    PROVE  ClientIds'
  <1>1. config.dest \in Stores
    BY ModeFacts
  <1>2. \A h : contains(config.dest, h) => contains(config.dest, h)'
    BY <1>1 DEF contains
  <1>3. \A p : UploadId(p)' = UploadId(p)
    BY DEF UploadId
  <1> QED
    BY <1>2, <1>3, ClientStays DEF ClientIds

LEMMA JobMoves ==
    ASSUME HostInv, NEW i, JobStep(i) \/ FailStep(i),
           UNCHANGED <<config, files, fsVars, fetch, importVars, fuseVars, clientVars, crashes>>
    PROVE  HostInv'
  <1>1. StoreInv /\ StoreInv'
    BY JobStepStep DEF HostInv
  <1>2. /\ i \in DOMAIN jobs /\ DOMAIN jobs' = DOMAIN jobs
        /\ \A k \in DOMAIN jobs :
             /\ jobs'[k].op = jobs[k].op /\ jobs'[k].store = jobs[k].store
             /\ jobs'[k].arg = jobs[k].arg
    BY <1>1, JobsStay
  <1>3. Serving => /\ removed' = removed
                   /\ \A s \in Stores : DOMAIN objects[s].blob3 \subseteq DOMAIN objects'[s].blob3
    BY <1>1, <1>2, BlobsGrow DEF HostInv, Rooted
  <1>4. Rooted'
    BY <1>2, <1>3, RootStays DEF HostInv, Rooted, fsVars
  <1>5. FetchIds'
    BY <1>2 DEF HostInv, FetchIds, Mode
  <1>6. Mode("import") => ImportIds'
    BY <1>2 DEF HostInv, ImportIds, importVars, fsVars
  <1>7. Mode("mount") => MountIds'
    BY <1>2 DEF HostInv, MountIds, ReleaseId, fuseVars, fsVars
  <1>8. Mode("client") => ClientIds'
    <2>1. Mode("client") => Serving
      BY DEF Mode, Serving
    <2> QED
      BY <1>2, <1>3, <2>1, ClientWaits DEF HostInv, clientVars, fsVars
  <1> QED
    BY <1>1, <1>4, <1>5, <1>6, <1>7, <1>8 DEF HostInv, Mode

\* A caller of the store.
LEMMA CallMoves ==
    ASSUME HostInv, NEW i \in DOMAIN config.calls, Call(i),
           UNCHANGED <<config, files, fsVars, fetch, importVars, fuseVars, clientVars, crashes>>
    PROVE  HostInv'
  <1>1. /\ ~Serving /\ i # 0
        /\ config.calls[i].op \in OpName /\ config.calls[i].store \in Stores
    BY ModeFacts
  <1>2. /\ <<i, crashes>> \notin DOMAIN jobs
        /\ jobs' = With(jobs, <<i, crashes>>,
                        NewJob(config.calls[i].op, config.calls[i].store, config.calls[i].arg))
        /\ UNCHANGED <<objects, faults, grown, removed, broken>>
    BY DEF Call
  <1>3. StoreInv'
    BY <1>1, <1>2, StoreStart DEF HostInv
  <1>4. DOMAIN jobs' = DOMAIN jobs \cup {<<i, crashes>>}
    BY <1>2 DEF With
  <1>5. FetchIds'
    BY <1>1, <1>4 DEF HostInv, FetchIds, Mode
  <1>6. Rooted'
    BY <1>1, RootStays DEF fsVars
  <1> QED
    BY <1>1, <1>3, <1>5, <1>6 DEF HostInv, Mode, Serving

\* A fetch runs where nothing is served.
LEMMA FetchMoves ==
    ASSUME HostInv, Mode("fetch"), UNCHANGED config, UNCHANGED <<tree, saved, past>>,
           StoreInv', FetchIds'
    PROVE  HostInv'
  <1>1. ~Serving
    BY DEF Mode, Serving
  <1>2. Rooted'
    BY <1>1, RootStays
  <1> QED
    BY <1>1, <1>2 DEF HostInv, Mode, Serving

LEMMA FetchActionMoves ==
    ASSUME HostInv, FetchAction
    PROVE  HostInv'
  <1>1. UNCHANGED <<config, tree, saved, past>>
    BY DEF FetchAction, fsVars
  <1>2. /\ StoreInv /\ FetchIds /\ DOMAIN fetch = FetchFields
        /\ config.dest \in Stores
    BY ModeFacts DEF HostInv, FetchIds
  <1>3. Mode("fetch")
    <2>1. ~Mode("fetch") => fetch.step = "idle"
      BY <1>2 DEF FetchIds
    <2>2. FetchStep => fetch.step # "idle"
      BY DEF FetchStep, CheckDestination, AskSource, ReadSource, SourceError, StoreFetched
    <2> QED
      BY <2>1, <2>2 DEF FetchAction
  <1>4. ASSUME fetch.step # "store", fetch'.step # "store", DOMAIN fetch' = FetchFields,
               UNCHANGED <<objects, jobs, grown, removed, broken>>
        PROVE  HostInv'
    <2>1. StoreInv'
      BY <1>1, <1>2, <1>4, StoreSame
    <2>2. FetchIds'
      BY <1>1, <1>2, <1>3, <1>4 DEF FetchIds, Mode
    <2> QED
      BY <1>1, <1>3, <2>1, <2>2, FetchMoves
  <1>5. ASSUME NEW f, DOMAIN f = FetchFields
        PROVE  DOMAIN NextSource(f) = FetchFields /\ NextSource(f).step # "store"
    BY <1>5 DEF NextSource, Exhausted, FetchFields
  <1>6. DOMAIN SourceFails(fetch) = FetchFields /\ SourceFails(fetch).step # "store"
    BY <1>2, <1>5 DEF SourceFails
  <1>7. ASSUME NEW op, NEW h, StartFetch(op, h) PROVE HostInv'
    <2>1. fetch.step # "store" /\ fetch'.step # "store" /\ DOMAIN fetch' = FetchFields
      BY <1>7 DEF StartFetch, FetchEnded, FetchFields
    <2> QED
      BY <1>4, <1>7, <2>1 DEF StartFetch, storeVars
  <1>8. CASE CheckDestination
    <2>1. fetch.step # "store" /\ fetch'.step # "store" /\ DOMAIN fetch' = FetchFields
      BY <1>2, <1>8 DEF CheckDestination, FetchFields
    <2> QED
      BY <1>4, <1>8, <2>1 DEF CheckDestination
  <1>9. CASE AskSource
    <2>1. fetch.step # "store" /\ fetch'.step # "store" /\ DOMAIN fetch' = FetchFields
      <3>1. CASE fetch' = NextSource(fetch)
        BY <1>2, <1>5, <1>9, <3>1 DEF AskSource
      <3>2. CASE \E step \in {"yes", "read"} : fetch' = [fetch EXCEPT !.step = step]
        BY <1>2, <1>9, <3>2 DEF AskSource, FetchFields
      <3>3. CASE \E hid : fetch' = NextSource([fetch EXCEPT !.hid = hid])
        <4>1. PICK hid : fetch' = NextSource([fetch EXCEPT !.hid = hid])
          BY <3>3
        <4>2. DOMAIN [fetch EXCEPT !.hid = hid] = FetchFields
          BY <1>2
        <4> QED
          BY <1>5, <1>9, <4>1, <4>2 DEF AskSource
      <3> QED
        BY <1>9, <3>1, <3>2, <3>3 DEF AskSource
    <2> QED
      BY <1>4, <1>9, <2>1 DEF AskSource
  <1>10. CASE SourceError
    BY <1>4, <1>6, <1>10 DEF SourceError
  <1>11. CASE ReadSource /\ jobs' = jobs /\ fetch' = SourceFails(fetch)
    BY <1>4, <1>6, <1>11 DEF ReadSource
  <1>12. ASSUME NEW arg, jobs' = With(jobs, FetchId, NewJob("bytes", config.dest, arg)),
                NEW cut, fetch.step = "read", fetch' = [fetch EXCEPT !.step = "store", !.cut = cut],
                UNCHANGED <<objects, grown, removed, broken>>
         PROVE  HostInv'
    <2>1. FetchId \notin DOMAIN jobs
      BY <1>2, <1>3, <1>12 DEF FetchIds, FetchId
    <2>2. StoreInv'
      BY <1>1, <1>2, <1>12, <2>1, StoreStart DEF OpName
    <2>3. DOMAIN jobs' = DOMAIN jobs \cup {FetchId}
      BY <1>12 DEF With
    <2>4. DOMAIN fetch' = FetchFields /\ fetch'.n = fetch.n /\ fetch'.step = "store"
      BY <1>2, <1>12 DEF FetchFields
    <2>5. FetchIds'
      BY <1>1, <1>2, <1>3, <1>12, <2>3, <2>4 DEF FetchIds, FetchId, Mode
    <2> QED
      BY <1>1, <1>3, <2>2, <2>5, FetchMoves
  <1>13. CASE ReadSource /\ ~(jobs' = jobs /\ fetch' = SourceFails(fetch))
    <2>1. fetch.step = "read" /\ UNCHANGED <<objects, grown, removed, broken>>
      BY <1>13 DEF ReadSource
    <2>2. \E arg : Store(arg)
      BY <1>13 DEF ReadSource
    <2>3. \/ fetch' = [fetch EXCEPT !.step = "store"]
          \/ fetch' = [fetch EXCEPT !.step = "store", !.cut = TRUE]
      BY <1>13 DEF ReadSource
    <2>4. \E cut : fetch' = [fetch EXCEPT !.step = "store", !.cut = cut]
      <3>1. [fetch EXCEPT !.step = "store"] = [fetch EXCEPT !.step = "store", !.cut = fetch.cut]
        BY <1>2 DEF FetchFields
      <3> QED
        BY <2>3, <3>1
    <2> QED
      BY <1>12, <2>1, <2>2, <2>4 DEF Store
  <1>14. CASE StoreFetched
    <2>1. StoreInv'
      BY <1>1, <1>2, <1>14, StoreClose DEF StoreFetched
    <2>2. DOMAIN jobs' = DOMAIN jobs \ {FetchId}
      BY <1>14 DEF StoreFetched, Without
    <2>3. DOMAIN fetch' = FetchFields
      BY <1>2, <1>14 DEF StoreFetched, FetchFields
    <2>4. FetchIds'
      BY <1>1, <1>2, <1>3, <2>2, <2>3 DEF FetchIds, FetchId, Mode
    <2> QED
      BY <1>1, <1>3, <2>1, <2>4, FetchMoves
  <1> QED
    BY <1>7, <1>8, <1>9, <1>10, <1>11, <1>13, <1>14 DEF FetchAction, FetchStep

-----------------------------------------------------------------------------
(***************************************************************************)
(* The parts that serve a root.                                            *)
(***************************************************************************)
LEMMA ServeMoves ==
    ASSUME HostInv, Serving, UNCHANGED <<config, fetch>>, StoreInv', Rooted',
           Mode("import") => ImportIds', Mode("mount") => MountIds', Mode("client") => ClientIds'
    PROVE  HostInv'
  <1>1. ~Mode("fetch")
    BY DEF Mode, Serving
  <1>2. FetchIds'
    BY <1>1 DEF HostInv, FetchIds, Mode
  <1> QED
    BY <1>2 DEF HostInv, Mode

\* What a step may do to the root.
RootStep ==
    /\ DOMAIN tree' = TreeFields /\ DOMAIN saved' = TreeFields /\ DOMAIN past' = PastFields
    /\ \A path \in DOMAIN tree'.files : RefStored(tree'.files[path])
    /\ \A path \in DOMAIN saved'.files : RefStored(saved'.files[path])
    /\ \A v \in past'.files : RefStored(v[2])

LEMMA RootMoves ==
    ASSUME HostInv, Serving, RootStep, UNCHANGED <<config, objects, removed>>,
           \A i \in DOMAIN jobs' : jobs'[i].op # "delete" /\ jobs'[i].store = config.dest
    PROVE  Rooted'
  <1>1. Serving'
    BY DEF Serving
  <1>2. \A ref : RefStored(ref) => RefStored(ref)'
    BY DEF RefStored, contains
  <1>3. ASSUME NEW path \in DOMAIN tree'.files PROVE RefStored(tree.files[path])'
    BY <1>2 DEF RootStep
  <1>4. ASSUME NEW path \in DOMAIN saved'.files PROVE RefStored(saved.files[path])'
    BY <1>2 DEF RootStep
  <1>5. ASSUME NEW v \in past'.files PROVE RefStored(v[2])'
    BY <1>2, <1>5 DEF RootStep
  <1> QED
    BY <1>1, <1>3, <1>4, <1>5 DEF HostInv, Rooted, RootStep

\* What a save writes: the root's own entries as they are, and for other files some
\* version that they had.
LEMMA SaveFacts ==
    ASSUME save
    PROVE  /\ DOMAIN saved' = TreeFields
           /\ saved'.dirs \subseteq tree.dirs
           /\ \A x : Own(tree, x) => (x \in DOMAIN saved'.files <=> x \in DOMAIN tree.files)
           /\ \A x \in DOMAIN saved'.files :
                IF Own(tree, x) THEN x \in DOMAIN tree.files /\ saved'.files[x] = tree.files[x]
                ELSE \E v \in past.files : v[1] = x /\ saved'.files[x] = v[2]
  <1>1. PICK late \in SUBSET Late, zero \in SUBSET NoHashYet,
             missing \in SUBSET {d \in tree.dirs \ past.dirs : Len(d) > 1} :
            saved' = [dirs |-> tree.dirs \ missing, lost |-> tree.lost \cup zero,
                      files |-> [x \in {y \in DOMAIN tree.files : Own(tree, y)} \cup {v[1] : v \in late} |->
                                    IF Own(tree, x) THEN tree.files[x]
                                    ELSE (CHOOSE v \in late : v[1] = x)[2]]]
    BY DEF save
  <1>2. /\ DOMAIN saved' = TreeFields /\ saved'.dirs = tree.dirs \ missing
        /\ saved'.files = [x \in {y \in DOMAIN tree.files : Own(tree, y)} \cup {v[1] : v \in late} |->
                              IF Own(tree, x) THEN tree.files[x]
                              ELSE (CHOOSE v \in late : v[1] = x)[2]]
    BY <1>1 DEF TreeFields
  <1>3. \A v \in late : v \in past.files /\ ~Own(tree, v[1])
    BY DEF Late
  <1>4. ASSUME NEW x \in DOMAIN saved'.files
        PROVE  IF Own(tree, x) THEN x \in DOMAIN tree.files /\ saved'.files[x] = tree.files[x]
               ELSE \E v \in past.files : v[1] = x /\ saved'.files[x] = v[2]
    <2>1. CASE Own(tree, x)
      BY <1>2, <1>3, <1>4, <2>1
    <2>2. CASE ~Own(tree, x)
      <3>1. \E v \in late : v[1] = x
        BY <1>2, <1>4, <2>2
      <3>2. saved'.files[x] = (CHOOSE v \in late : v[1] = x)[2]
        BY <1>2, <1>4, <2>2
      <3> QED
        BY <1>3, <2>2, <3>1, <3>2
    <2> QED
      BY <2>1, <2>2
  <1>5. ASSUME NEW x, Own(tree, x) PROVE x \in DOMAIN saved'.files <=> x \in DOMAIN tree.files
    BY <1>2, <1>3, <1>5
  <1> QED
    BY <1>2, <1>4, <1>5

LEMMA RootIsLeft ==
    ASSUME HostInv, UNCHANGED <<tree, past>>, saved' = saved \/ save
    PROVE  RootStep
  <1>1. CASE save
    BY <1>1, SaveFacts DEF HostInv, Rooted, RootStep
  <1> QED
    BY <1>1 DEF HostInv, Rooted, RootStep

LEMMA FileIsPut ==
    ASSUME HostInv, NEW path, NEW ref, RefStored(ref), file_put(path, ref), saved' = saved
    PROVE  RootStep
  <1>1. /\ DOMAIN tree' = TreeFields
        /\ tree'.files = [x \in DOMAIN tree.files \cup {path} |->
                            IF x = path THEN ref ELSE tree.files[x]]
    BY DEF HostInv, Rooted, TreeFields, file_put, With
  <1>2. DOMAIN past' = PastFields /\ past'.files \subseteq past.files \cup {<<path, ref>>}
    BY DEF HostInv, Rooted, PastFields, file_put
  <1>3. \A v \in past'.files : RefStored(v[2])
    BY <1>2 DEF HostInv, Rooted
  <1> QED
    BY <1>1, <1>2, <1>3 DEF RootStep, HostInv, Rooted

LEMMA FileIsDeleted ==
    ASSUME HostInv, NEW path, file_delete(path), saved' = saved
    PROVE  RootStep
  <1>1. /\ DOMAIN tree' = TreeFields
        /\ tree'.files = [x \in DOMAIN tree.files \ {path} |-> tree.files[x]]
    BY DEF HostInv, Rooted, TreeFields, file_delete, Without
  <1> QED
    BY <1>1 DEF RootStep, HostInv, Rooted, file_delete

LEMMA DirIsMade ==
    ASSUME HostInv, NEW path, create_dir(path), saved' = saved
    PROVE  RootStep
  <1>1. DOMAIN tree' = TreeFields /\ tree'.files = tree.files
    BY DEF HostInv, Rooted, TreeFields, create_dir
  <1>2. DOMAIN past' = PastFields /\ past'.files = past.files \cup Elsewhere(tree')
    BY DEF HostInv, Rooted, PastFields, create_dir
  <1>3. \A v \in past'.files : v \in past.files \/ \E x \in DOMAIN tree.files : v = <<x, tree.files[x]>>
    BY <1>1, <1>2, ElsewhereFacts
  <1>4. \A v \in past'.files : RefStored(v[2])
    BY <1>3 DEF HostInv, Rooted
  <1> QED
    BY <1>1, <1>2, <1>4 DEF RootStep, HostInv, Rooted

\* A process starts with what was saved, or with nothing.
LEMMA RootIsOpened ==
    ASSUME HostInv, NEW t, t = saved \/ t = NoTree, Opened(t), saved' = saved
    PROVE  RootStep
  <1>1. DOMAIN NoTree = TreeFields /\ DOMAIN NoTree.files = {}
    BY DEF NoTree, TreeFields, Empty
  <1>2. tree' = t /\ DOMAIN past' = PastFields /\ past'.files = Elsewhere(t)
    BY DEF Opened, PastFields
  <1>3. \A x \in DOMAIN t.files : RefStored(t.files[x])
    BY <1>1 DEF HostInv, Rooted
  <1>4. \A v \in past'.files : RefStored(v[2])
    BY <1>2, <1>3, ElsewhereFacts
  <1> QED
    BY <1>1, <1>2, <1>3, <1>4 DEF RootStep, HostInv, Rooted

\* A reference to the blob of an import that has ended well.
LEMMA AnswerIsStored ==
    ASSUME HostInv, Serving, NEW i \in DOMAIN jobs, jobs[i].step = "ok"
    PROVE  contains(config.dest, jobs[i].hash)
  <1>1. HasBlob(jobs[i].store, jobs[i].hash)
    BY DEF HostInv, Rooted, StoreInv, JobOK
  <1> QED
    BY <1>1 DEF HostInv, Rooted, HasBlob, contains

LEMMA PlainRef ==
    ASSUME NEW hash, contains(config.dest, hash), NEW length, NEW time
    PROVE  RefStored(FileRef(hash, length, time))
  <1>1. /\ FileRef(hash, length, time).hash = hash
        /\ FileRef(hash, length, time).locations = <<>>
    BY DEF FileRef
  <1>2. DOMAIN FileRef(hash, length, time).locations = {}
    BY <1>1
  <1> QED
    BY <1>1, <1>2 DEF RefStored

\* The importer.

\* Steps of the importer that leave the store alone.
LEMMA ImportSame ==
    ASSUME HostInv, Mode("import"), RootStep, UNCHANGED <<config, fetch>>,
           UNCHANGED <<objects, jobs, grown, removed, broken>>, ImportIds'
    PROVE  HostInv'
  <1>1. Serving /\ ~Mode("mount") /\ ~Mode("client")
    BY DEF Mode, Serving
  <1>2. StoreInv'
    BY StoreSame DEF HostInv
  <1>3. Rooted'
    BY <1>1, RootMoves DEF HostInv, Rooted
  <1> QED
    BY <1>1, <1>2, <1>3, ServeMoves

\* A task that does not wait for the store moves on.
LEMMA TaskMoves ==
    ASSUME HostInv, Mode("import"), NEW t \in DOMAIN tasks, tasks[t].step # "import",
           DOMAIN tasks' = DOMAIN tasks, \A u \in DOMAIN tasks \ {t} : tasks'[u] = tasks[u],
           DOMAIN tasks'[t] = TaskFields, tasks'[t].step # "import",
           UNCHANGED <<run, fsVars, storeVars, config, fetch>>
    PROVE  HostInv'
  <1>1. ImportIds'
    BY DEF HostInv, ImportIds, storeVars, fsVars
  <1>2. RootStep
    BY RootIsLeft DEF fsVars
  <1> QED
    BY <1>1, <1>2, ImportSame DEF storeVars

LEMMA StepMoves ==
    ASSUME HostInv, Mode("import"), NEW t \in DOMAIN tasks, tasks[t].step # "import",
           NEW step, step # "import", Step(t, step),
           UNCHANGED <<run, fsVars, storeVars, config, fetch>>
    PROVE  HostInv'
  <1>1. DOMAIN tasks[t] = TaskFields
    BY DEF HostInv, ImportIds
  <1>2. /\ DOMAIN tasks' = DOMAIN tasks
        /\ \A u \in DOMAIN tasks \ {t} : tasks'[u] = tasks[u]
        /\ DOMAIN tasks'[t] = TaskFields /\ tasks'[t].step = step
    BY <1>1 DEF Step, TaskFields
  <1> QED
    BY <1>2, TaskMoves

\* A task starts an import.
LEMMA TaskImports ==
    ASSUME HostInv, Mode("import"), NEW t \in DOMAIN tasks, tasks[t].step # "import",
           DOMAIN tasks' = DOMAIN tasks, \A u \in DOMAIN tasks \ {t} : tasks'[u] = tasks[u],
           DOMAIN tasks'[t] = TaskFields, tasks'[t].step = "import",
           NEW op \in OpName, op # "delete", NEW arg,
           jobs' = With(jobs, t, NewJob(op, config.dest, arg)),
           UNCHANGED <<run, fsVars, objects, faults, grown, removed, broken, config, fetch>>
    PROVE  HostInv'
  <1>1. Serving /\ ~Mode("mount") /\ ~Mode("client") /\ ImportIds /\ config.dest \in Stores
    BY ModeFacts DEF Mode, Serving, HostInv
  <1>2. t \notin DOMAIN jobs
    BY <1>1 DEF ImportIds
  <1>3. StoreInv'
    BY <1>1, <1>2, StoreStart DEF HostInv
  <1>4. /\ DOMAIN jobs' = DOMAIN jobs \cup {t}
        /\ \A k \in DOMAIN jobs : jobs'[k] = jobs[k]
        /\ jobs'[t].op = op /\ jobs'[t].store = config.dest
    BY <1>2 DEF With, NewJob
  <1>5. ImportIds'
    BY <1>1, <1>4 DEF ImportIds, fsVars
  <1>6. Rooted'
    <2>1. RootStep
      BY RootIsLeft DEF fsVars
    <2>2. \A i \in DOMAIN jobs' : jobs'[i].op # "delete" /\ jobs'[i].store = config.dest
      BY <1>1, <1>4 DEF HostInv, Rooted
    <2> QED
      BY <1>1, <2>1, <2>2, RootMoves
  <1> QED
    BY <1>1, <1>3, <1>5, <1>6, ServeMoves

\* The command ends with an error.
LEMMA AbortMoves ==
    ASSUME HostInv, Mode("import"), Abort, UNCHANGED <<config, fetch>>,
           UNCHANGED <<objects, grown, removed, broken>>,
           \/ jobs' = jobs
           \/ \E t \in DOMAIN jobs : jobs[t].step \in Ended /\ jobs' = Without(jobs, t)
    PROVE  HostInv'
  <1>1. Serving /\ ~Mode("mount") /\ ~Mode("client") /\ ImportIds
    BY DEF Mode, Serving, HostInv
  <1>2. StoreInv'
    BY StoreSame, StoreClose DEF HostInv
  <1>3. DOMAIN jobs' \subseteq DOMAIN jobs /\ \A k \in DOMAIN jobs' : jobs'[k] = jobs[k]
    BY DEF Without
  <1>4. /\ DOMAIN run' = RunFields /\ run'.step = "failed" /\ tasks' = tasks
        /\ UNCHANGED <<tree, saved, past>> /\ alive' = FALSE
    BY <1>1 DEF Abort, ImportIds, RunFields
  <1>5. ImportIds'
    BY <1>1, <1>3, <1>4 DEF ImportIds
  <1>6. Rooted'
    BY <1>1, <1>3, <1>4, RootMoves, RootIsLeft DEF HostInv, Rooted
  <1> QED
    BY <1>1, <1>2, <1>5, <1>6, ServeMoves

LEMMA PutRefMoves ==
    ASSUME HostInv, Mode("import"), NEW t \in DOMAIN tasks, PutRef(t), UNCHANGED <<config, fetch>>
    PROVE  HostInv'
  <1>1. Serving /\ ~Mode("mount") /\ ~Mode("client") /\ ImportIds
    BY DEF Mode, Serving, HostInv
  <1>2. /\ alive /\ tasks[t].step = "import" /\ jobs[t].step \in Ended /\ jobs' = Without(jobs, t)
        /\ UNCHANGED <<objects, grown, removed, broken>>
    BY DEF PutRef, In
  <1>3. t \in DOMAIN jobs
    BY <1>1, <1>2 DEF ImportIds
  <1>4. CASE Abort
    BY <1>2, <1>3, <1>4, AbortMoves
  <1>5. ASSUME NEW length, NEW time, jobs[t].step = "ok",
               file_put(Key(Item(t)), FileRef(jobs[t].hash, length, time)),
               Step(t, "done"), UNCHANGED <<run, saved, alive>>
        PROVE  HostInv'
    <2>1. StoreInv'
      BY <1>2, StoreClose DEF HostInv
    <2>2. DOMAIN jobs' = DOMAIN jobs \ {t} /\ \A k \in DOMAIN jobs' : jobs'[k] = jobs[k]
      BY <1>2 DEF Without
    <2>3. RootStep
      <3>1. contains(config.dest, jobs[t].hash)
        BY <1>1, <1>3, <1>5, AnswerIsStored
      <3>2. RefStored(FileRef(jobs[t].hash, length, time))
        BY <3>1, PlainRef
      <3> QED
        BY <1>5, <3>2, FileIsPut
    <2>4. Rooted'
      BY <1>1, <1>2, <2>2, <2>3, RootMoves DEF HostInv, Rooted
    <2>5. /\ DOMAIN tasks' = DOMAIN tasks
          /\ \A u \in DOMAIN tasks \ {t} : tasks'[u] = tasks[u]
          /\ DOMAIN tasks'[t] = TaskFields /\ tasks'[t].step = "done"
      BY <1>1, <1>5 DEF Step, ImportIds, TaskFields
    <2>6. ImportIds'
      BY <1>1, <1>5, <2>2, <2>5 DEF ImportIds
    <2> QED
      BY <1>1, <2>1, <2>4, <2>6, ServeMoves
  <1> QED
    BY <1>4, <1>5 DEF PutRef, Imported

LEMMA GetRequestMoves ==
    ASSUME HostInv, Mode("import"), NEW t \in DOMAIN tasks, GetRequest(t), UNCHANGED <<config, fetch>>
    PROVE  HostInv'
  <1>1. ImportIds /\ tasks[t].step = "fetch" /\ UNCHANGED <<objects, faults, grown, removed, broken>>
    BY DEF Mode, HostInv, GetRequest, In
  <1>2. CASE Abort /\ jobs' = jobs
    BY <1>1, <1>2, AbortMoves
  <1>3. ASSUME NEW children,
               tasks' = [c \in DOMAIN tasks \cup children |->
                            IF c = t THEN [tasks[t] EXCEPT !.step = "links"]
                            ELSE IF c \in DOMAIN tasks THEN tasks[c] ELSE NewTask],
               UNCHANGED <<run, jobs, fsVars>>
        PROVE  HostInv'
    <2>1. /\ \A u \in DOMAIN tasks' : \/ u = t /\ tasks'[u] = [tasks[t] EXCEPT !.step = "links"]
                                      \/ u \in DOMAIN tasks \ {t} /\ tasks'[u] = tasks[u]
                                      \/ u \notin DOMAIN tasks /\ tasks'[u] = NewTask
          /\ DOMAIN tasks \subseteq DOMAIN tasks'
      BY <1>3
    <2>2. /\ DOMAIN [tasks[t] EXCEPT !.step = "links"] = TaskFields
          /\ [tasks[t] EXCEPT !.step = "links"].step = "links"
      BY <1>1 DEF ImportIds, TaskFields
    <2>3. DOMAIN NewTask = TaskFields /\ NewTask.step = "queued"
      BY DEF NewTask, TaskFields
    <2>4. run.step # "idle"
      BY <1>1 DEF ImportIds
    <2>5. ImportIds'
      <3>1. \A i \in DOMAIN jobs : i \in DOMAIN tasks \ {t} /\ tasks[i].step = "import"
        BY <1>1 DEF ImportIds
      <3>2. \A u \in DOMAIN tasks' : DOMAIN tasks'[u] = TaskFields
        BY <1>1, <2>1, <2>2, <2>3 DEF ImportIds
      <3>3. \A u \in DOMAIN tasks' : tasks'[u].step = "import" => u \in DOMAIN tasks /\ tasks[u].step = "import"
        BY <2>1, <2>2, <2>3
      <3>4. \A i \in DOMAIN jobs : tasks'[i] = tasks[i]
        BY <2>1, <3>1
      <3> QED
        BY <1>1, <1>3, <2>1, <2>4, <3>1, <3>2, <3>3, <3>4 DEF ImportIds, fsVars
    <2>6. RootStep
      BY <1>3, RootIsLeft DEF fsVars
    <2> QED
      BY <1>1, <1>3, <2>5, <2>6, ImportSame
  <1>4. ASSUME NEW time, NEW arg, tasks' = [tasks EXCEPT ![t] = [step |-> "import", time |-> time, size |-> 0]],
               jobs' = With(jobs, t, NewJob("stream", config.dest, arg)),
               UNCHANGED <<run, fsVars>>
        PROVE  HostInv'
    <2>1. /\ DOMAIN tasks' = DOMAIN tasks
          /\ \A u \in DOMAIN tasks \ {t} : tasks'[u] = tasks[u]
          /\ DOMAIN tasks'[t] = TaskFields /\ tasks'[t].step = "import"
      BY <1>4 DEF TaskFields
    <2>2. "stream" \in OpName
      BY DEF OpName
    <2> QED
      BY <1>1, <1>4, <2>1, <2>2, TaskImports
  <1> QED
    BY <1>2, <1>3, <1>4 DEF GetRequest

LEMMA ImportActionMoves ==
    ASSUME HostInv, ImportAction
    PROVE  HostInv'
  <1>1. Mode("import") /\ UNCHANGED <<config, fetch>> /\ ImportIds
    BY DEF ImportAction, HostInv
  <1>2. CASE StartRun
    <2>1. UNCHANGED <<storeVars, saved, alive>> /\ run.step = "idle"
      BY <1>2 DEF StartRun
    <2>2. DOMAIN jobs = {}
      BY <1>1, <2>1 DEF ImportIds
    <2>3. DOMAIN run' = RunFields /\ run'.step = "run"
      BY <1>2 DEF StartRun, RunFields
    <2>4. \A t \in DOMAIN tasks' : tasks'[t] = NewTask
      BY <1>2 DEF StartRun
    <2>5. DOMAIN NewTask = TaskFields /\ NewTask.step = "queued"
      BY DEF NewTask, TaskFields
    <2>6. ImportIds'
      BY <2>1, <2>2, <2>3, <2>4, <2>5 DEF ImportIds, storeVars
    <2>7. RootStep
      BY <1>2, <2>1, RootIsLeft, DirIsMade DEF StartRun
    <2> QED
      BY <1>1, <2>1, <2>6, <2>7, ImportSame DEF storeVars
  <1>3. CASE FinishRun
    <2>1. /\ UNCHANGED <<storeVars, tree, past>> /\ save /\ alive' = FALSE
          /\ \A t \in DOMAIN tasks : tasks[t].step = "done"
          /\ DOMAIN tasks' = {}
      BY <1>3 DEF FinishRun, Empty
    <2>2. DOMAIN jobs = {}
      BY <1>1, <2>1 DEF ImportIds
    <2>3. DOMAIN run' = RunFields
      BY <1>1, <1>3 DEF FinishRun, ImportIds
    <2>4. ImportIds'
      BY <2>1, <2>2, <2>3 DEF ImportIds, storeVars
    <2>5. RootStep
      BY <2>1, RootIsLeft
    <2> QED
      BY <1>1, <2>1, <2>4, <2>5, ImportSame DEF storeVars
  <1>4. ASSUME NEW x, NEW c, NEW up, Edit(x, c, up) PROVE HostInv'
    <2>1. UNCHANGED <<run, tasks, storeVars, fsVars>>
      BY <1>4 DEF Edit
    <2>2. ImportIds'
      BY <1>1, <2>1 DEF ImportIds, storeVars, fsVars
    <2>3. RootStep
      BY <2>1, RootIsLeft DEF fsVars
    <2> QED
      BY <1>1, <2>1, <2>2, <2>3, ImportSame DEF storeVars
  <1>5. ASSUME NEW t \in DOMAIN tasks, RequestFails(t) PROVE HostInv'
    BY <1>1, <1>5, AbortMoves DEF RequestFails
  <1>10. CASE SaveRunFails
    BY <1>1, <1>10, AbortMoves DEF SaveRunFails
  <1>6. ASSUME NEW t \in DOMAIN tasks,
               Acquire(t) \/ CompareUrl(t) \/ HeadRequest(t) \/ LinksDone(t)
        PROVE  HostInv'
    <2>1. \E step \in {"meta", "get", "head", "fetch", "done"} : Step(t, step)
      BY <1>6 DEF Acquire, CompareUrl, HeadRequest, LinksDone
    <2>2. UNCHANGED <<run, fsVars, storeVars>> /\ tasks[t].step # "import"
      BY <1>6 DEF Acquire, CompareUrl, HeadRequest, LinksDone, In
    <2> QED
      BY <1>1, <2>1, <2>2, StepMoves
  <1>7. ASSUME NEW t \in DOMAIN tasks, EntryMetadata(t) PROVE HostInv'
    <2>1. tasks[t].step = "meta" /\ UNCHANGED storeVars
      BY <1>7 DEF EntryMetadata, In
    <2>2. ASSUME NEW time, NEW length,
                 tasks' = [tasks EXCEPT ![t] = [step |-> "get", time |-> time, size |-> length]],
                 UNCHANGED <<run, fsVars>>
          PROVE  HostInv'
      <3>1. /\ DOMAIN tasks' = DOMAIN tasks
            /\ \A u \in DOMAIN tasks \ {t} : tasks'[u] = tasks[u]
            /\ DOMAIN tasks'[t] = TaskFields /\ tasks'[t].step = "get"
        BY <2>2 DEF TaskFields
      <3> QED
        BY <1>1, <2>1, <2>2, <3>1, TaskMoves
    <2>3. CASE Abort
      BY <1>1, <2>1, <2>3, AbortMoves DEF storeVars
    <2> QED
      BY <1>7, <2>2, <2>3 DEF EntryMetadata
  <1>8. ASSUME NEW t \in DOMAIN tasks, CompareEntry(t) PROVE HostInv'
    <2>1. /\ tasks[t].step = "get"
          /\ UNCHANGED <<run, fsVars, objects, faults, grown, removed, broken>>
      BY <1>8 DEF CompareEntry, In
    <2>2. CASE Step(t, "done") /\ UNCHANGED jobs
      BY <1>1, <2>1, <2>2, StepMoves DEF storeVars
    <2>3. CASE Step(t, "import") /\ jobs' = With(jobs, t, NewJob("file", config.dest, Item(t)))
      <3>1. /\ DOMAIN tasks' = DOMAIN tasks
            /\ \A u \in DOMAIN tasks \ {t} : tasks'[u] = tasks[u]
            /\ DOMAIN tasks'[t] = TaskFields /\ tasks'[t].step = "import"
        BY <1>1, <2>3 DEF Step, ImportIds, TaskFields
      <3>2. "file" \in OpName
        BY DEF OpName
      <3> QED
        BY <1>1, <2>1, <2>3, <3>1, <3>2, TaskImports
    <2> QED
      BY <1>8, <2>2, <2>3 DEF CompareEntry
  <1>9. CASE ImportStep
    BY <1>1, <1>3, <1>6, <1>7, <1>8, <1>9, PutRefMoves, GetRequestMoves DEF ImportStep
  <1> QED
    BY <1>2, <1>4, <1>5, <1>9, <1>10 DEF ImportAction

-----------------------------------------------------------------------------
\* The mount.

\* Steps of the mount that leave the store alone.
LEMMA MountSame ==
    ASSUME HostInv, Mode("mount"), RootStep, UNCHANGED <<config, fetch>>,
           UNCHANGED <<objects, jobs, grown, removed, broken>>, MountIds'
    PROVE  HostInv'
  <1>1. Serving /\ ~Mode("import") /\ ~Mode("client")
    BY DEF Mode, Serving
  <1>2. StoreInv'
    BY StoreSame DEF HostInv
  <1>3. Rooted'
    BY <1>1, RootMoves DEF HostInv, Rooted
  <1> QED
    BY <1>1, <1>2, <1>3, ServeMoves

\* A request that does not wait for the store moves on.
LEMMA RequestMoves ==
    ASSUME HostInv, Mode("mount"), NEW p \in config.callers, calls[p].step # "import",
           DOMAIN calls' = DOMAIN calls, \A q \in DOMAIN calls \ {p} : calls'[q] = calls[q],
           DOMAIN calls'[p] = CallFields, calls'[p].step # "import",
           RootStep, UNCHANGED <<open, alive, config, fetch>>,
           UNCHANGED <<objects, jobs, grown, removed, broken>>
    PROVE  HostInv'
  <1>1. MountIds'
    BY DEF HostInv, MountIds, ReleaseId
  <1> QED
    BY <1>1, MountSame

LEMMA CallForms ==
    ASSUME HostInv, Mode("mount"), NEW p \in config.callers
    PROVE  /\ DOMAIN calls = config.callers /\ DOMAIN calls[p] = CallFields
           /\ calls[p].op = "idle" => calls[p].step # "import"
           /\ DOMAIN Idle = CallFields /\ Idle.step = "idle"
           /\ End(p) =>
                /\ DOMAIN calls' = DOMAIN calls
                /\ \A q \in DOMAIN calls \ {p} : calls'[q] = calls[q]
                /\ DOMAIN calls'[p] = CallFields /\ calls'[p].step = "idle"
           /\ \A step : Then(p, step) =>
                /\ DOMAIN calls' = DOMAIN calls
                /\ \A q \in DOMAIN calls \ {p} : calls'[q] = calls[q]
                /\ DOMAIN calls'[p] = CallFields /\ calls'[p].step = step
  <1>1. DOMAIN calls = config.callers /\ DOMAIN calls[p] = CallFields
    BY DEF HostInv, MountIds
  <1>2. calls[p].op = "idle" => calls[p].step # "import"
    BY DEF HostInv, MountIds
  <1>3. DOMAIN Idle = CallFields /\ Idle.step = "idle"
    BY DEF Idle, CallFields
  <1>4. End(p) =>
          /\ DOMAIN calls' = DOMAIN calls
          /\ \A q \in DOMAIN calls \ {p} : calls'[q] = calls[q]
          /\ DOMAIN calls'[p] = CallFields /\ calls'[p].step = "idle"
    BY <1>1, <1>3 DEF End
  <1>5. \A step : Then(p, step) =>
          /\ DOMAIN calls' = DOMAIN calls
          /\ \A q \in DOMAIN calls \ {p} : calls'[q] = calls[q]
          /\ DOMAIN calls'[p] = CallFields /\ calls'[p].step = step
    BY <1>1 DEF Then, CallFields
  <1> QED
    BY <1>1, <1>2, <1>3, <1>4, <1>5

LEMMA BeginForms ==
    ASSUME HostInv, Mode("mount"), NEW p \in config.callers, NEW op, NEW path, NEW step, NEW fh,
           Begin(p, op, path, step, fh)
    PROVE  /\ DOMAIN calls' = DOMAIN calls
           /\ \A q \in DOMAIN calls \ {p} : calls'[q] = calls[q]
           /\ DOMAIN calls'[p] = CallFields /\ calls'[p].step = step /\ calls'[p].fh = fh
           /\ calls'[p].op = op /\ calls[p].step # "import" /\ alive
  <1>1. /\ DOMAIN [Idle EXCEPT !.op = op, !.path = path, !.step = step, !.fh = fh] = CallFields
        /\ [Idle EXCEPT !.op = op, !.path = path, !.step = step, !.fh = fh].step = step
        /\ [Idle EXCEPT !.op = op, !.path = path, !.step = step, !.fh = fh].fh = fh
        /\ [Idle EXCEPT !.op = op, !.path = path, !.step = step, !.fh = fh].op = op
    BY DEF Idle, CallFields
  <1>2. calls' = [calls EXCEPT ![p] = [Idle EXCEPT !.op = op, !.path = path, !.step = step, !.fh = fh]]
    BY DEF Begin
  <1> QED
    BY <1>1, <1>2, CallForms DEF Begin

\* The handles, when a file is created or written.
LEMMA CreateMoves ==
    ASSUME HostInv, Mode("mount"), NEW p \in config.callers, create(p), UNCHANGED <<config, fetch>>
    PROVE  HostInv'
  <1>1. MountIds
    BY DEF HostInv
  <1>2. /\ calls[p].step = "ensure" /\ End(p) /\ UNCHANGED <<storeVars, fsVars>>
        /\ open' = [next |-> open.next + 1,
                    files |-> With(open.files, open.next, [path |-> calls[p].path, buf |-> <<>>])]
    BY DEF create, On
  <1>3. /\ DOMAIN calls' = DOMAIN calls
        /\ \A q \in DOMAIN calls \ {p} : calls'[q] = calls[q]
        /\ DOMAIN calls'[p] = CallFields /\ calls'[p].step = "idle"
    BY <1>2, CallForms
  <1>4. /\ DOMAIN open' = OpenFields /\ open'.next = open.next + 1
        /\ DOMAIN open'.files = DOMAIN open.files \cup {open.next}
    BY <1>2 DEF OpenFields, With
  <1>5. open.next \in Nat /\ open'.next \in Nat
    BY <1>1, <1>4 DEF MountIds
  <1>6. \A fh \in Nat : fh < open.next => fh < open'.next /\ fh # open.next
    BY <1>4, <1>5
  <1>7. \A fh \in DOMAIN open'.files : fh \in Nat /\ fh < open'.next
    BY <1>1, <1>4, <1>5 DEF MountIds
  <1>8. \A q \in config.callers : calls'[q].step = "import" =>
          /\ q # p /\ calls'[q] = calls[q]
          /\ calls[q].fh \in Nat /\ calls[q].fh < open'.next /\ calls[q].fh \notin DOMAIN open'.files
    BY <1>1, <1>2, <1>3, <1>4, <1>6 DEF MountIds
  <1>9. MountIds'
    BY <1>1, <1>2, <1>3, <1>4, <1>5, <1>7, <1>8 DEF MountIds, ReleaseId, storeVars, fsVars
  <1>10. RootStep
    BY <1>2, RootIsLeft DEF fsVars
  <1> QED
    BY <1>2, <1>9, <1>10, MountSame DEF storeVars

LEMMA WriteMoves ==
    ASSUME HostInv, Mode("mount"), NEW fh \in DOMAIN open.files, NEW c, write(fh, c),
           UNCHANGED <<config, fetch>>
    PROVE  HostInv'
  <1>1. MountIds
    BY DEF HostInv
  <1>2. /\ DOMAIN open' = OpenFields /\ open'.next = open.next
        /\ DOMAIN open'.files = DOMAIN open.files
    BY <1>1 DEF write, MountIds, OpenFields
  <1>3. UNCHANGED <<calls, storeVars, fsVars>>
    BY DEF write
  <1>4. MountIds'
    BY <1>1, <1>2, <1>3 DEF MountIds, ReleaseId, storeVars, fsVars
  <1>5. RootStep
    BY <1>3, RootIsLeft DEF fsVars
  <1> QED
    BY <1>3, <1>4, <1>5, MountSame DEF storeVars

LEMMA ReleaseMoves ==
    ASSUME HostInv, Mode("mount"), NEW p \in config.callers, NEW fh \in DOMAIN open.files,
           release(p, fh), UNCHANGED <<config, fetch>>
    PROVE  HostInv'
  <1>1. Serving /\ ~Mode("import") /\ ~Mode("client") /\ MountIds /\ config.dest \in Stores
    BY ModeFacts DEF Mode, Serving, HostInv
  <1>2. /\ Begin(p, "release", open.files[fh].path, "import", fh)
        /\ open' = [open EXCEPT !.files = Without(@, fh)]
        /\ jobs' = With(jobs, ReleaseId(fh), NewJob("bytes", config.dest, open.files[fh].buf))
        /\ UNCHANGED <<objects, grown, removed, broken, fsVars>>
    BY DEF release
  <1>3. /\ DOMAIN calls' = DOMAIN calls
        /\ \A q \in DOMAIN calls \ {p} : calls'[q] = calls[q]
        /\ DOMAIN calls'[p] = CallFields /\ calls'[p].step = "import" /\ calls'[p].fh = fh
        /\ calls'[p].op = "release" /\ calls[p].step # "import"
    BY <1>2, BeginForms
  <1>4. /\ DOMAIN open' = OpenFields /\ open'.next = open.next
        /\ DOMAIN open'.files = DOMAIN open.files \ {fh}
    <2>1. open'.files = Without(open.files, fh)
      BY <1>1, <1>2 DEF MountIds, OpenFields
    <2> QED
      BY <1>1, <1>2, <2>1 DEF MountIds, OpenFields, Without
  <1>5. \A q \in config.callers : calls[q].step = "import" => calls[q].fh # fh
    BY <1>1 DEF MountIds
  <1>6. ReleaseId(fh) \notin DOMAIN jobs
    <2>1. \A f, g : ReleaseId(f) = ReleaseId(g) => f = g
      BY DEF ReleaseId
    <2> QED
      BY <1>1, <1>5, <2>1 DEF MountIds
  <1>7. StoreInv'
    BY <1>1, <1>2, <1>6, StoreStart DEF HostInv, OpName
  <1>8. /\ DOMAIN jobs' = DOMAIN jobs \cup {ReleaseId(fh)}
        /\ \A k \in DOMAIN jobs : jobs'[k] = jobs[k]
        /\ jobs'[ReleaseId(fh)].op = "bytes" /\ jobs'[ReleaseId(fh)].store = config.dest
    BY <1>2, <1>6 DEF With, NewJob
  <1>9. MountIds'
    <2>1. \A q \in config.callers : calls'[q].step = "import" =>
             /\ calls'[q].op = "release"
             /\ calls'[q].fh \in Nat /\ calls'[q].fh < open'.next /\ calls'[q].fh \notin DOMAIN open'.files
             /\ alive => ReleaseId(calls'[q].fh) \in DOMAIN jobs'
      <3> SUFFICES ASSUME NEW q \in config.callers, calls'[q].step = "import"
                   PROVE  /\ calls'[q].op = "release"
                          /\ calls'[q].fh \in Nat /\ calls'[q].fh < open'.next
                          /\ calls'[q].fh \notin DOMAIN open'.files
                          /\ alive => ReleaseId(calls'[q].fh) \in DOMAIN jobs'
        OBVIOUS
      <3>1. CASE q = p
        BY <1>1, <1>3, <1>4, <1>8, <3>1 DEF MountIds
      <3>2. CASE q # p
        <4>1. calls'[q] = calls[q]
          BY <1>1, <1>3, <3>2 DEF MountIds
        <4> QED
          BY <1>1, <1>4, <1>8, <4>1 DEF MountIds
      <3> QED
        BY <3>1, <3>2
    <2>2. \A q, r \in config.callers :
             q # r /\ calls'[q].step = "import" /\ calls'[r].step = "import" => calls'[q].fh # calls'[r].fh
      BY <1>1, <1>3, <1>5 DEF MountIds
    <2>3. \A i \in DOMAIN jobs' : \E q \in config.callers :
             calls'[q].step = "import" /\ i = ReleaseId(calls'[q].fh)
      <3> SUFFICES ASSUME NEW i \in DOMAIN jobs'
                   PROVE  \E q \in config.callers :
                             calls'[q].step = "import" /\ i = ReleaseId(calls'[q].fh)
        OBVIOUS
      <3>1. CASE i = ReleaseId(fh)
        BY <1>3, <3>1
      <3>2. CASE i \in DOMAIN jobs
        <4>1. PICK q \in config.callers : calls[q].step = "import" /\ i = ReleaseId(calls[q].fh)
          BY <1>1, <3>2 DEF MountIds
        <4>2. calls'[q] = calls[q]
          BY <1>1, <1>3, <4>1 DEF MountIds
        <4> QED
          BY <4>1, <4>2
      <3> QED
        BY <1>8, <3>1, <3>2
    <2>4. \A q \in config.callers : DOMAIN calls'[q] = CallFields
      BY <1>1, <1>3 DEF MountIds
    <2>5. \A f \in DOMAIN open'.files : f \in Nat /\ f < open'.next
      BY <1>1, <1>4 DEF MountIds
    <2>6. alive' = alive /\ DOMAIN calls' = config.callers /\ open'.next \in Nat
      BY <1>1, <1>2, <1>3, <1>4 DEF MountIds, fsVars
    <2> QED
      BY <1>4, <2>1, <2>2, <2>3, <2>4, <2>5, <2>6 DEF MountIds, ReleaseId
  <1>10. Rooted'
    <2>1. RootStep
      BY <1>2, RootIsLeft DEF fsVars
    <2>2. \A i \in DOMAIN jobs' : jobs'[i].op # "delete" /\ jobs'[i].store = config.dest
      BY <1>1, <1>8 DEF HostInv, Rooted
    <2> QED
      BY <1>1, <1>2, <2>1, <2>2, RootMoves
  <1> QED
    BY <1>1, <1>7, <1>9, <1>10, ServeMoves

LEMMA PutReleasedMoves ==
    ASSUME HostInv, Mode("mount"), NEW p \in config.callers, PutReleased(p),
           UNCHANGED <<config, fetch>>
    PROVE  HostInv'
  <1> DEFINE i == ReleaseId(calls[p].fh)
  <1>1. Serving /\ ~Mode("import") /\ ~Mode("client") /\ MountIds
    BY DEF Mode, Serving, HostInv
  <1>2. /\ alive /\ calls[p].step = "import" /\ jobs[i].step \in Ended
        /\ jobs' = Without(jobs, i)
        /\ UNCHANGED <<open, objects, grown, removed, broken>>
    BY DEF PutReleased, On
  <1>3. i \in DOMAIN jobs
    BY <1>1, <1>2 DEF MountIds
  <1>4. StoreInv'
    BY <1>2, StoreClose DEF HostInv
  <1>5. DOMAIN jobs' = DOMAIN jobs \ {i} /\ \A k \in DOMAIN jobs' : jobs'[k] = jobs[k]
    BY <1>2 DEF Without
  <1>6. /\ DOMAIN calls' = DOMAIN calls
        /\ \A q \in DOMAIN calls \ {p} : calls'[q] = calls[q]
        /\ DOMAIN calls'[p] = CallFields /\ calls'[p].step # "import"
    <2>1. CASE End(p)
      BY <2>1, CallForms
    <2>2. ASSUME NEW n, NEW length,
                 calls' = [calls EXCEPT ![p].step = "save", ![p].size = length, ![p].n = n]
          PROVE  /\ DOMAIN calls' = DOMAIN calls
                 /\ \A q \in DOMAIN calls \ {p} : calls'[q] = calls[q]
                 /\ DOMAIN calls'[p] = CallFields /\ calls'[p].step # "import"
      <3>1. DOMAIN calls = config.callers /\ DOMAIN calls[p] = CallFields
        BY CallForms
      <3> QED
        BY <2>2, <3>1 DEF CallFields
    <2> QED
      BY <2>1, <2>2 DEF PutReleased
  <1>7. RootStep /\ alive' = alive
    <2>1. CASE UNCHANGED fsVars
      BY <2>1, RootIsLeft DEF fsVars
    <2>2. ASSUME NEW length, jobs[i].step = "ok",
                 file_put(calls[p].path, FileRef(jobs[i].hash, length, 0)), UNCHANGED <<saved, alive>>
          PROVE  RootStep
      <3>1. contains(config.dest, jobs[i].hash)
        BY <1>1, <1>3, <2>2, AnswerIsStored
      <3>2. RefStored(FileRef(jobs[i].hash, length, 0))
        BY <3>1, PlainRef
      <3> QED
        BY <2>2, <3>2, FileIsPut
    <2> QED
      BY <2>1, <2>2 DEF PutReleased, fsVars
  <1>8. Rooted'
    <2>1. \A k \in DOMAIN jobs' : jobs'[k].op # "delete" /\ jobs'[k].store = config.dest
      BY <1>1, <1>5 DEF HostInv, Rooted
    <2> QED
      BY <1>1, <1>2, <1>7, <2>1, RootMoves
  <1>9. MountIds'
    <2>1. \A q \in config.callers : calls'[q].step = "import" => q # p /\ calls'[q] = calls[q]
      BY <1>1, <1>6 DEF MountIds
    <2>2. \A q \in config.callers \ {p} : calls[q].step = "import" =>
             ReleaseId(calls[q].fh) \in DOMAIN jobs'
      BY <1>1, <1>2, <1>5 DEF MountIds, ReleaseId
    <2>3. \A k \in DOMAIN jobs' : \E q \in config.callers :
             calls'[q].step = "import" /\ k = ReleaseId(calls'[q].fh)
      <3> SUFFICES ASSUME NEW k \in DOMAIN jobs'
                   PROVE  \E q \in config.callers :
                             calls'[q].step = "import" /\ k = ReleaseId(calls'[q].fh)
        OBVIOUS
      <3>1. PICK q \in config.callers : calls[q].step = "import" /\ k = ReleaseId(calls[q].fh)
        BY <1>1, <1>5 DEF MountIds
      <3>2. calls'[q] = calls[q]
        BY <1>1, <1>5, <1>6, <3>1 DEF MountIds
      <3> QED
        BY <3>1, <3>2
    <2>4. /\ DOMAIN calls' = config.callers
          /\ \A q \in config.callers : DOMAIN calls'[q] = CallFields
      BY <1>1, <1>6 DEF MountIds
    <2> QED
      BY <1>1, <1>2, <1>7, <2>1, <2>2, <2>3, <2>4 DEF MountIds, ReleaseId
  <1> QED
    BY <1>1, <1>4, <1>8, <1>9, ServeMoves

\* The steps that neither open a file nor wait for the store.
LEMMA FuseStepMoves ==
    ASSUME HostInv, Mode("mount"), NEW p \in config.callers, FuseStep(p), UNCHANGED <<config, fetch>>
    PROVE  HostInv'
  <1> DEFINE Plain ==
             /\ DOMAIN calls' = DOMAIN calls
             /\ \A q \in DOMAIN calls \ {p} : calls'[q] = calls[q]
             /\ DOMAIN calls'[p] = CallFields /\ calls'[p].step # "import"
  <1>1. DOMAIN calls = config.callers /\ DOMAIN calls[p] = CallFields
    BY CallForms
  <1>2. ASSUME End(p) \/ \E step \in {"ensure", "attr", "export", "save"} : Then(p, step)
        PROVE  Plain
    BY <1>2, CallForms
  <1>3. ASSUME NEW step, step # "import", NEW d, NEW dir,
               calls' = [calls EXCEPT ![p].step = step, ![p].at = d, ![p].dir = dir]
        PROVE  Plain
    BY <1>1, <1>3 DEF CallFields
  <1>4. ASSUME Plain, calls[p].step # "import", UNCHANGED <<open, fsVars>>,
               UNCHANGED <<objects, jobs, grown, removed, broken>>
        PROVE  HostInv'
    <2>1. RootStep
      BY <1>4, RootIsLeft DEF fsVars
    <2> QED
      BY <1>4, <2>1, RequestMoves DEF fsVars
  <1>5. CASE LoadDir(p)
    <2>1. Plain
      BY <1>2, <1>3, <1>5 DEF LoadDir
    <2> QED
      BY <1>4, <1>5, <2>1 DEF LoadDir, On, storeVars
  <1>6. CASE InsertDir(p)
    BY <1>2, <1>4, <1>6 DEF InsertDir, On, storeVars
  <1>7. CASE ReadAgain(p)
    <2>1. Plain
      BY <1>2, <1>3, <1>7 DEF ReadAgain
    <2> QED
      BY <1>4, <1>7, <2>1 DEF ReadAgain, On, storeVars
  <1>8. CASE Refresh(p)
    <2>1. Plain
      BY <1>2, <1>8 DEF Refresh
    <2> QED
      BY <1>4, <1>8, <2>1 DEF Refresh, On, storeVars
  <1>9. CASE CheckCached(p)
    <2>1. Plain
      BY <1>2, <1>9 DEF CheckCached
    <2> QED
      BY <1>4, <1>9, <2>1 DEF CheckCached, On, storeVars
  <1>10. CASE lookup(p)
    BY <1>2, <1>4, <1>10 DEF lookup, On, storeVars
  <1>11. CASE readdir(p)
    BY <1>2, <1>4, <1>11 DEF readdir, On, storeVars
  <1>12. CASE mkdir(p)
    <2>1. Plain
      BY <1>2, <1>12 DEF mkdir
    <2>2. RootStep
      BY <1>12, DirIsMade, RootIsLeft DEF mkdir
    <2> QED
      BY <1>12, <2>1, <2>2, RequestMoves DEF mkdir, On, storeVars
  <1>13. CASE SaveRoot(p)
    <2>1. Plain
      BY <1>2, <1>13 DEF SaveRoot
    <2>2. RootStep
      BY <1>13, RootIsLeft DEF SaveRoot, AfterPut
    <2> QED
      BY <1>13, <2>1, <2>2, RequestMoves DEF SaveRoot, On, storeVars
  <1>14. CASE SaveFails(p)
    BY <1>2, <1>4, <1>14 DEF SaveFails, On
  <1>15. CASE Answer(p)
    BY <1>2, <1>4, <1>15 DEF Answer, On, storeVars
  <1> QED
    BY <1>5, <1>6, <1>7, <1>8, <1>9, <1>10, <1>11, <1>12, <1>13, <1>14, <1>15,
       CreateMoves, PutReleasedMoves DEF FuseStep

LEMMA MountActionMoves ==
    ASSUME HostInv, MountAction
    PROVE  HostInv'
  <1>1. Mode("mount") /\ UNCHANGED <<config, fetch>>
    BY DEF MountAction
  <1>2. ASSUME NEW p \in config.callers, NEW op, NEW path, Request(p, op, path) PROVE HostInv'
    <2>1. \E step \in {"cached", "mkdir", "ensure"} : Begin(p, op, path, step, 0)
      BY <1>2 DEF Request
    <2>2. /\ DOMAIN calls' = DOMAIN calls
          /\ \A q \in DOMAIN calls \ {p} : calls'[q] = calls[q]
          /\ DOMAIN calls'[p] = CallFields /\ calls'[p].step # "import"
          /\ calls[p].step # "import"
      BY <1>1, <2>1, BeginForms
    <2>3. UNCHANGED <<open, storeVars, fsVars>>
      BY <1>2 DEF Request
    <2>4. RootStep
      BY <2>3, RootIsLeft DEF fsVars
    <2> QED
      BY <1>1, <2>2, <2>3, <2>4, RequestMoves DEF storeVars, fsVars
  <1> QED
    BY <1>1, <1>2, FuseStepMoves, ReleaseMoves, WriteMoves DEF MountAction

-----------------------------------------------------------------------------
\* The client.

\* Steps of the client that leave the store alone.
LEMMA ClientSame ==
    ASSUME HostInv, Mode("client"), RootStep, UNCHANGED <<config, fetch>>,
           UNCHANGED <<objects, jobs, grown, removed, broken>>, ClientIds'
    PROVE  HostInv'
  <1>1. Serving /\ ~Mode("import") /\ ~Mode("mount")
    BY DEF Mode, Serving
  <1>2. StoreInv'
    BY StoreSame DEF HostInv
  <1>3. Rooted'
    BY <1>1, RootMoves DEF HostInv, Rooted
  <1> QED
    BY <1>1, <1>2, <1>3, ServeMoves

\* What is kept for the other requests when request p changes.
LEMMA OtherAsks ==
    ASSUME HostInv, Mode("client"), NEW p \in config.clients, UNCHANGED <<config, objects, alive>>,
           asked' \in Nat, asked <= asked',
           DOMAIN asks' = DOMAIN asks, \A q \in DOMAIN asks \ {p} : asks'[q] = asks[q],
           DOMAIN asks'[p] = AskFields, asks'[p].id \in Nat, asks'[p].id <= asked',
           asks'[p].step \in {"send", "sent"} =>
              /\ asks'[p].op = "upload"
              /\ \A q \in config.clients \ {p} :
                    asks[q].step \in {"send", "sent"} => asks[q].id # asks'[p].id,
           alive /\ asks'[p].step = "sent" =>
              /\ UploadId(p)' \in DOMAIN jobs'
              /\ jobs'[UploadId(p)'].op = "stream"
              /\ jobs'[UploadId(p)'].arg = Encrypted(asks'[p].id, asks'[p].data),
           asks'[p].step = "put" /\ ~Inline(asks'[p].data) =>
              contains(config.dest, Encrypted(asks'[p].id, asks'[p].data)),
           \A q \in config.clients \ {p} : asks[q].step = "sent" /\ UploadId(q) \in DOMAIN jobs =>
              /\ UploadId(q) \in DOMAIN jobs' /\ jobs'[UploadId(q)] = jobs[UploadId(q)],
           \A i \in DOMAIN jobs' :
              \/ asks'[p].step = "sent" /\ i = UploadId(p)'
              \/ \E q \in config.clients \ {p} : asks[q].step = "sent" /\ i = UploadId(q)
    PROVE  ClientIds'
  <1>1. ClientIds
    BY DEF HostInv
  <1>2. \A q \in config.clients \ {p} : asks'[q] = asks[q] /\ UploadId(q)' = UploadId(q)
    BY <1>1 DEF ClientIds, UploadId
  <1>3. \A h : contains(config.dest, h)' <=> contains(config.dest, h)
    BY DEF contains
  <1>4. ASSUME NEW q \in config.clients
        PROVE  /\ DOMAIN asks'[q] = AskFields /\ asks'[q].id \in Nat /\ asks'[q].id <= asked'
               /\ asks'[q].step \in {"send", "sent"} => asks'[q].op = "upload"
    <2>1. CASE q = p
      BY <2>1
    <2>2. CASE q # p
      BY <1>1, <1>2, <2>2 DEF ClientIds
    <2> QED
      BY <2>1, <2>2
  <1>5. ASSUME NEW q \in config.clients, NEW r \in config.clients \ {q},
               asks'[q].step \in {"send", "sent"}, asks'[r].step \in {"send", "sent"}
        PROVE  asks'[r].id # asks'[q].id
    <2>1. CASE q = p
      BY <1>2, <1>5, <2>1
    <2>2. CASE r = p
      BY <1>2, <1>5, <2>2
    <2>3. CASE q # p /\ r # p
      BY <1>1, <1>2, <1>5, <2>3 DEF ClientIds
    <2> QED
      BY <2>1, <2>2, <2>3
  <1>6. ASSUME NEW q \in config.clients, alive, asks'[q].step = "sent"
        PROVE  /\ UploadId(q)' \in DOMAIN jobs'
               /\ jobs'[UploadId(q)'].op = "stream"
               /\ jobs'[UploadId(q)'].arg = Encrypted(asks'[q].id, asks'[q].data)
    <2>1. CASE q = p
      BY <1>6, <2>1
    <2>2. CASE q # p
      <3>1. /\ UploadId(q) \in DOMAIN jobs /\ jobs[UploadId(q)].op = "stream"
            /\ jobs[UploadId(q)].arg = Encrypted(asks[q].id, asks[q].data)
        BY <1>1, <1>2, <1>6, <2>2 DEF ClientIds
      <3> QED
        BY <1>2, <1>6, <2>2, <3>1
    <2> QED
      BY <2>1, <2>2
  <1>7. ASSUME NEW q \in config.clients, asks'[q].step = "put", ~Inline(asks'[q].data)
        PROVE  contains(config.dest, Encrypted(asks'[q].id, asks'[q].data))
    <2>1. CASE q = p
      BY <1>7, <2>1
    <2>2. CASE q # p
      BY <1>1, <1>2, <1>7, <2>2 DEF ClientIds
    <2> QED
      BY <2>1, <2>2
  <1>8. ASSUME NEW i \in DOMAIN jobs'
        PROVE  \E q \in config.clients : asks'[q].step = "sent" /\ i = UploadId(q)'
    <2>1. CASE asks'[p].step = "sent" /\ i = UploadId(p)'
      BY <2>1
    <2>2. ASSUME NEW q \in config.clients \ {p}, asks[q].step = "sent", i = UploadId(q)
          PROVE  asks'[q].step = "sent" /\ i = UploadId(q)'
      BY <1>2, <2>2
    <2> QED
      BY <2>1, <2>2
  <1>9. DOMAIN asks' = config.clients
    BY <1>1 DEF ClientIds
  <1> QED
    BY <1>3, <1>4, <1>5, <1>6, <1>7, <1>8, <1>9, ClientStays DEF ClientIds

\* A request that neither sends nor has just been answered moves on.
LEMMA AskMoves ==
    ASSUME HostInv, Mode("client"), NEW p \in config.clients, asks[p].step # "sent",
           DOMAIN asks' = DOMAIN asks, \A q \in DOMAIN asks \ {p} : asks'[q] = asks[q],
           DOMAIN asks'[p] = AskFields, asks'[p].id \in {0, asks[p].id},
           asks'[p].step \notin {"send", "sent", "put"},
           RootStep, UNCHANGED <<asked, alive, config, fetch>>,
           UNCHANGED <<objects, jobs, grown, removed, broken>>
    PROVE  HostInv'
  <1>1. ClientIds
    BY DEF HostInv
  <1>2. asked \in Nat /\ asked <= asked /\ asks'[p].id \in Nat /\ asks'[p].id <= asked
    BY <1>1 DEF ClientIds
  <1>3. \A i \in DOMAIN jobs : \E q \in config.clients \ {p} : asks[q].step = "sent" /\ i = UploadId(q)
    BY <1>1 DEF ClientIds
  <1>4. ClientIds'
    BY <1>2, <1>3, OtherAsks
  <1> QED
    BY <1>4, ClientSame

LEMMA AskForms ==
    ASSUME HostInv, Mode("client"), NEW p \in config.clients
    PROVE  /\ DOMAIN asks = config.clients /\ DOMAIN asks[p] = AskFields
           /\ DOMAIN Quiet = AskFields /\ Quiet.step = "idle" /\ Quiet.id = 0
           /\ Done(p) =>
                /\ DOMAIN asks' = DOMAIN asks
                /\ \A q \in DOMAIN asks \ {p} : asks'[q] = asks[q]
                /\ DOMAIN asks'[p] = AskFields /\ asks'[p].id = 0 /\ asks'[p].step = "idle"
           /\ \A step : Proceed(p, step) =>
                /\ DOMAIN asks' = DOMAIN asks
                /\ \A q \in DOMAIN asks \ {p} : asks'[q] = asks[q]
                /\ DOMAIN asks'[p] = AskFields /\ asks'[p].step = step
                /\ asks'[p].id = asks[p].id /\ asks'[p].data = asks[p].data
                /\ asks'[p].op = asks[p].op
  <1>1. DOMAIN asks = config.clients /\ DOMAIN asks[p] = AskFields
    BY DEF HostInv, ClientIds
  <1>2. DOMAIN Quiet = AskFields /\ Quiet.step = "idle" /\ Quiet.id = 0
    BY DEF Quiet, AskFields
  <1>3. Done(p) =>
          /\ DOMAIN asks' = DOMAIN asks
          /\ \A q \in DOMAIN asks \ {p} : asks'[q] = asks[q]
          /\ DOMAIN asks'[p] = AskFields /\ asks'[p].id = 0 /\ asks'[p].step = "idle"
    BY <1>1, <1>2 DEF Done
  <1>4. \A step : Proceed(p, step) =>
          /\ DOMAIN asks' = DOMAIN asks
          /\ \A q \in DOMAIN asks \ {p} : asks'[q] = asks[q]
          /\ DOMAIN asks'[p] = AskFields /\ asks'[p].step = step
          /\ asks'[p].id = asks[p].id /\ asks'[p].data = asks[p].data
          /\ asks'[p].op = asks[p].op
    BY <1>1 DEF Proceed, AskFields
  <1> QED
    BY <1>1, <1>2, <1>3, <1>4

LEMMA AskActionMoves ==
    ASSUME HostInv, Mode("client"), NEW p \in config.clients,
           NEW op \in {"upload", "download", "delete", "mkdir", "list"}, NEW path, NEW c,
           Ask(p, op, path, c), UNCHANGED <<config, fetch>>
    PROVE  HostInv'
  <1> DEFINE step == IF op = "upload" THEN IF Inline(c) THEN "put" ELSE "send" ELSE op
             r == [Quiet EXCEPT !.op = op, !.path = path, !.data = c, !.id = asked + 1,
                                !.since = answered, !.step = step]
  <1>1. ClientIds /\ DOMAIN asks = config.clients
    BY DEF HostInv, ClientIds
  <1>2. /\ asks[p].op = "idle" /\ asked' = asked + 1 /\ asks' = [asks EXCEPT ![p] = r]
        /\ UNCHANGED <<storeVars, fsVars>>
    BY DEF Ask
  <1>3. /\ DOMAIN r = AskFields /\ r.op = op /\ r.id = asked + 1 /\ r.step = step /\ r.data = c
    BY DEF Quiet, AskFields
  <1>4. /\ step \in {"send", "sent"} => op = "upload"
        /\ step # "sent"
        /\ step = "put" => Inline(c)
    OBVIOUS
  <1> HIDE DEF r, step
  <1>5. /\ DOMAIN asks' = DOMAIN asks /\ asks'[p] = r
        /\ \A q \in DOMAIN asks \ {p} : asks'[q] = asks[q]
    BY <1>1, <1>2
  <1>6. asked' \in Nat /\ asked <= asked' /\ r.id \in Nat /\ r.id <= asked'
    BY <1>1, <1>2, <1>3 DEF ClientIds
  <1>7. \A q \in config.clients : asks[q].id # r.id
    BY <1>1, <1>3 DEF ClientIds
  <1>8. asks[p].step # "sent"
    BY <1>1, <1>2 DEF ClientIds
  <1>9. \A i \in DOMAIN jobs : \E q \in config.clients \ {p} : asks[q].step = "sent" /\ i = UploadId(q)
    BY <1>1, <1>8 DEF ClientIds
  <1>10. ClientIds'
    <2>1. UNCHANGED <<config, objects, alive, jobs>>
      BY <1>2 DEF storeVars, fsVars
    <2>2. /\ DOMAIN asks'[p] = AskFields /\ asks'[p].id \in Nat /\ asks'[p].id <= asked'
          /\ asks'[p].step \in {"send", "sent"} =>
               /\ asks'[p].op = "upload"
               /\ \A q \in config.clients \ {p} :
                    asks[q].step \in {"send", "sent"} => asks[q].id # asks'[p].id
          /\ asks'[p].step # "sent"
          /\ asks'[p].step = "put" => Inline(asks'[p].data)
      BY <1>3, <1>4, <1>5, <1>6, <1>7
    <2> QED
      BY <1>5, <1>6, <1>9, <2>1, <2>2, OtherAsks
  <1>11. RootStep
    BY <1>2, RootIsLeft DEF fsVars
  <1> QED
    BY <1>2, <1>10, <1>11, ClientSame DEF storeVars

LEMMA SendMoves ==
    ASSUME HostInv, Mode("client"), NEW p \in config.clients, upload_encrypted_blob(p),
           UNCHANGED <<config, fetch>>
    PROVE  HostInv'
  <1> DEFINE arg == Encrypted(asks[p].id, asks[p].data)
             i == UploadId(p)
  <1>1. Serving /\ ~Mode("import") /\ ~Mode("mount") /\ ClientIds /\ config.dest \in Stores
    BY ModeFacts DEF Mode, Serving, HostInv
  <1>2. /\ asks[p].step = "send" /\ jobs' = With(jobs, i, NewJob("stream", config.dest, arg))
        /\ Proceed(p, "sent") /\ UNCHANGED <<asked, objects, grown, removed, broken, fsVars>>
    BY DEF upload_encrypted_blob, Doing
  <1>3. /\ DOMAIN asks' = DOMAIN asks /\ DOMAIN asks = config.clients
        /\ \A q \in DOMAIN asks \ {p} : asks'[q] = asks[q]
        /\ DOMAIN asks'[p] = AskFields /\ asks'[p].step = "sent"
        /\ asks'[p].id = asks[p].id /\ asks'[p].data = asks[p].data
        /\ asks'[p].op = asks[p].op
    BY <1>2, AskForms
  <1>4. \A q \in config.clients \ {p} : asks[q].step \in {"send", "sent"} => asks[q].id # asks[p].id
    BY <1>1, <1>2 DEF ClientIds
  <1>5. i \notin DOMAIN jobs
    BY <1>1, <1>2, <1>4 DEF ClientIds, UploadId
  <1> HIDE DEF arg
  <1>6. StoreInv'
    BY <1>1, <1>2, <1>5, StoreStart DEF HostInv, OpName
  <1>7. /\ DOMAIN jobs' = DOMAIN jobs \cup {i}
        /\ \A k \in DOMAIN jobs : jobs'[k] = jobs[k]
        /\ jobs'[i].op = "stream" /\ jobs'[i].store = config.dest /\ jobs'[i].arg = arg
    BY <1>2, <1>5 DEF With, NewJob
  <1>8. UploadId(p)' = i
    BY <1>3 DEF UploadId
  <1>9. ClientIds'
    <2>1. asked' \in Nat /\ asked <= asked' /\ asks'[p].id \in Nat /\ asks'[p].id <= asked'
      BY <1>1, <1>2, <1>3 DEF ClientIds
    <2>2. asks'[p].op = "upload"
      BY <1>1, <1>2, <1>3 DEF ClientIds
    <2>3. jobs'[UploadId(p)'].arg = Encrypted(asks'[p].id, asks'[p].data)
      BY <1>3, <1>7, <1>8 DEF arg
    <2>4. \A k \in DOMAIN jobs : \E q \in config.clients \ {p} : asks[q].step = "sent" /\ k = UploadId(q)
      BY <1>1, <1>2 DEF ClientIds
    <2> HIDE DEF i
    <2>5. UNCHANGED <<config, objects, alive>>
      BY <1>2 DEF fsVars
    <2> QED
      BY <1>3, <1>4, <1>7, <1>8, <2>1, <2>2, <2>3, <2>4, <2>5, OtherAsks
  <1>10. Rooted'
    <2>1. RootStep
      BY <1>2, RootIsLeft DEF fsVars
    <2>2. \A k \in DOMAIN jobs' : jobs'[k].op # "delete" /\ jobs'[k].store = config.dest
      BY <1>1, <1>7 DEF HostInv, Rooted
    <2> QED
      BY <1>1, <1>2, <2>1, <2>2, RootMoves
  <1> QED
    BY <1>1, <1>6, <1>9, <1>10, ServeMoves

LEMMA UploadAnswersMoves ==
    ASSUME HostInv, Mode("client"), NEW p \in config.clients, UploadAnswers(p),
           UNCHANGED <<config, fetch>>
    PROVE  HostInv'
  <1> DEFINE i == UploadId(p)
             h == Encrypted(asks[p].id, asks[p].data)
  <1>1. Serving /\ ~Mode("import") /\ ~Mode("mount") /\ ClientIds
    BY DEF Mode, Serving, HostInv
  <1>2. /\ alive /\ asks[p].step = "sent" /\ jobs[i].step \in Ended /\ jobs' = Without(jobs, i)
        /\ UNCHANGED <<asked, objects, grown, removed, broken, fsVars>>
        /\ (jobs[i].step = "ok" /\ Proceed(p, "put")) \/ Done(p)
    BY DEF UploadAnswers, Doing
  <1>3. i \in DOMAIN jobs /\ jobs[i].op = "stream" /\ jobs[i].arg = h
    BY <1>1, <1>2 DEF ClientIds
  <1>4. jobs[i].step = "ok" => contains(config.dest, h)
    <2>1. jobs[i].step = "ok" => jobs[i].hash = h
      BY <1>3 DEF HostInv, StoreInv, JobOK
    <2> QED
      BY <1>1, <1>3, <2>1, AnswerIsStored
  <1> HIDE DEF h
  <1>5. StoreInv'
    BY <1>2, StoreClose DEF HostInv
  <1>6. DOMAIN jobs' = DOMAIN jobs \ {i} /\ \A k \in DOMAIN jobs' : jobs'[k] = jobs[k]
    BY <1>2 DEF Without
  <1>7. /\ DOMAIN asks' = DOMAIN asks /\ DOMAIN asks = config.clients
        /\ \A q \in DOMAIN asks \ {p} : asks'[q] = asks[q]
        /\ DOMAIN asks'[p] = AskFields /\ asks'[p].id \in {0, asks[p].id}
        /\ \/ asks'[p].step = "idle"
           \/ /\ asks'[p].step = "put" /\ jobs[i].step = "ok"
              /\ asks'[p].id = asks[p].id /\ asks'[p].data = asks[p].data
    BY <1>2, AskForms
  <1>8. ClientIds'
    <2>1. asked' \in Nat /\ asked <= asked' /\ asks'[p].id \in Nat /\ asks'[p].id <= asked'
      BY <1>1, <1>2, <1>7 DEF ClientIds
    <2>2. asks'[p].step \notin {"send", "sent"}
      BY <1>7
    <2>3. asks'[p].step = "put" => contains(config.dest, Encrypted(asks'[p].id, asks'[p].data))
      BY <1>4, <1>7 DEF h
    <2>4. \A k \in DOMAIN jobs' : \E q \in config.clients \ {p} : asks[q].step = "sent" /\ k = UploadId(q)
      BY <1>1, <1>6 DEF ClientIds
    <2>5. \A q \in config.clients \ {p} : asks[q].step = "sent" /\ UploadId(q) \in DOMAIN jobs =>
             UploadId(q) \in DOMAIN jobs' /\ jobs'[UploadId(q)] = jobs[UploadId(q)]
      BY <1>1, <1>2, <1>6 DEF ClientIds, UploadId
    <2>6. UNCHANGED <<config, objects, alive>>
      BY <1>2 DEF fsVars
    <2> QED
      BY <1>7, <2>1, <2>2, <2>3, <2>4, <2>5, <2>6, OtherAsks
  <1>9. Rooted'
    <2>1. RootStep
      BY <1>2, RootIsLeft DEF fsVars
    <2>2. \A k \in DOMAIN jobs' : jobs'[k].op # "delete" /\ jobs'[k].store = config.dest
      BY <1>1, <1>6 DEF HostInv, Rooted
    <2> QED
      BY <1>1, <1>2, <2>1, <2>2, RootMoves
  <1> QED
    BY <1>1, <1>5, <1>8, <1>9, ServeMoves

\* The reference of an upload is put once its blob is stored.
LEMMA NewRefStored ==
    ASSUME NEW c, NEW id, ~Inline(c) => contains(config.dest, Encrypted(id, c))
    PROVE  RefStored(NewRef(c, id))
  <1> DEFINE loc == IF Inline(c) THEN [kind |-> "identity", data |-> c]
                    ELSE [kind |-> "encrypted", hash |-> Encrypted(id, c), key |-> id,
                          block |-> config.block]
  <1>1. NewRef(c, id).locations = <<loc>>
    BY DEF NewRef, FileRef
  <1>2. loc.kind = "encrypted" => ~Inline(c) /\ loc.hash = Encrypted(id, c)
    OBVIOUS
  <1> HIDE DEF loc
  <1>3. <<loc>> # <<>> /\ DOMAIN <<loc>> = {1} /\ <<loc>>[1] = loc
    OBVIOUS
  <1> QED
    BY <1>1, <1>2, <1>3 DEF RefStored

LEMMA ClientStepMoves ==
    ASSUME HostInv, Mode("client"), NEW p \in config.clients, ClientStep(p), UNCHANGED <<config, fetch>>
    PROVE  HostInv'
  <1> DEFINE Plain ==
             /\ DOMAIN asks' = DOMAIN asks
             /\ \A q \in DOMAIN asks \ {p} : asks'[q] = asks[q]
             /\ DOMAIN asks'[p] = AskFields /\ asks'[p].id \in {0, asks[p].id}
             /\ asks'[p].step \notin {"send", "sent", "put"}
  <1>1. DOMAIN asks = config.clients /\ DOMAIN asks[p] = AskFields /\ ClientIds
    BY AskForms DEF HostInv
  <1>2. ASSUME Done(p) \/ \E step \in {"save", "answer"} : Proceed(p, step)
        PROVE  Plain
    BY <1>2, AskForms
  <1>3. ASSUME NEW entry, Logged(p, entry) PROVE Plain
    BY <1>1, <1>3 DEF Logged, AskFields
  <1>4. ASSUME Plain, asks[p].step # "sent", UNCHANGED <<asked, fsVars>>,
               UNCHANGED <<objects, jobs, grown, removed, broken>>
        PROVE  HostInv'
    <2>1. RootStep
      BY <1>4, RootIsLeft DEF fsVars
    <2> QED
      BY <1>4, <2>1, AskMoves DEF fsVars
  <1>5. CASE PutUploaded(p)
    <2>1. ~Inline(asks[p].data) => contains(config.dest, Encrypted(asks[p].id, asks[p].data))
      BY <1>1, <1>5 DEF PutUploaded, Doing, ClientIds
    <2>2. RefStored(NewRef(asks[p].data, asks[p].id))
      BY <2>1, NewRefStored
    <2>3. RootStep
      BY <1>5, <2>2, FileIsPut DEF PutUploaded
    <2>4. Plain
      BY <1>3, <1>5 DEF PutUploaded
    <2> QED
      BY <1>5, <2>3, <2>4, AskMoves DEF PutUploaded, Doing, storeVars
  <1>6. CASE DeleteFile(p)
    <2>1. RootStep
      BY <1>6, FileIsDeleted DEF DeleteFile
    <2>2. Plain
      BY <1>3, <1>6 DEF DeleteFile
    <2> QED
      BY <1>6, <2>1, <2>2, AskMoves DEF DeleteFile, Doing, storeVars
  <1>7. CASE CreateDirectory(p)
    <2>1. RootStep
      BY <1>7, DirIsMade DEF CreateDirectory
    <2>2. Plain
      BY <1>2, <1>7 DEF CreateDirectory
    <2> QED
      BY <1>7, <2>1, <2>2, AskMoves DEF CreateDirectory, Doing, storeVars
  <1>8. CASE SaveAndAnswer(p)
    <2>1. RootStep
      BY <1>8, RootIsLeft DEF SaveAndAnswer, SaveRemote
    <2>2. Plain
      BY <1>2, <1>8 DEF SaveAndAnswer
    <2> QED
      BY <1>8, <2>1, <2>2, AskMoves DEF SaveAndAnswer, Doing, storeVars
  <1>9. CASE DownloadFile(p)
    <2>1. Plain
      BY <1>1, <1>9 DEF DownloadFile, AskFields
    <2> QED
      BY <1>4, <1>9, <2>1 DEF DownloadFile, Doing, storeVars
  <1>10. CASE ReadFile(p)
    <2>1. \/ Done(p)
          \/ \E result, cut : asks' = [asks EXCEPT ![p] = [@ EXCEPT !.result = result, !.cut = cut,
                                                                  !.step = "answer"]]
      BY <1>10 DEF ReadFile, Done
    <2>2. Plain
      BY <1>1, <1>2, <2>1 DEF AskFields
    <2> QED
      BY <1>4, <1>10, <2>2 DEF ReadFile, Doing
  <1>11. CASE ListDirectory(p)
    <2>1. PICK page : asks' = [asks EXCEPT ![p].names = page, ![p].step = "entries"]
      BY <1>11 DEF ListDirectory
    <2>2. Plain
      BY <1>1, <2>1 DEF AskFields
    <2> QED
      BY <1>4, <1>11, <2>2 DEF ListDirectory, Doing, storeVars
  <1>12. CASE ListEntry(p)
    <2>1. \/ Proceed(p, "answer")
          \/ \E names, found : asks' = [asks EXCEPT ![p].names = names, ![p].found = found]
      BY <1>12 DEF ListEntry
    <2>2. ASSUME NEW names, NEW found, asks' = [asks EXCEPT ![p].names = names, ![p].found = found]
          PROVE  Plain
      <3>1. asks[p].step = "entries"
        BY <1>12 DEF ListEntry, Doing
      <3> QED
        BY <1>1, <2>2, <3>1 DEF AskFields
    <2>3. Plain
      BY <1>2, <2>1, <2>2
    <2> QED
      BY <1>4, <1>12, <2>3 DEF ListEntry, Doing, storeVars
  <1>13. CASE Return(p)
    BY <1>2, <1>4, <1>13 DEF Return, Doing, storeVars
  <1>14. CASE RemoteFails(p)
    <2>1. RootStep
      BY <1>14, RootIsLeft DEF RemoteFails
    <2>2. Plain
      BY <1>2, <1>14 DEF RemoteFails
    <2> QED
      BY <1>14, <2>1, <2>2, AskMoves DEF RemoteFails, Doing
  <1>15. CASE RootIsGone(p)
    BY <1>2, <1>4, <1>15 DEF RootIsGone, Doing, storeVars
  <1> QED
    BY <1>5, <1>6, <1>7, <1>8, <1>9, <1>10, <1>11, <1>12, <1>13, <1>14, <1>15,
       SendMoves, UploadAnswersMoves DEF ClientStep

LEMMA ClientActionMoves ==
    ASSUME HostInv, ClientAction
    PROVE  HostInv'
  <1>1. Mode("client") /\ UNCHANGED <<config, fetch>> /\ ClientIds
    BY DEF ClientAction, HostInv
  <1>2. CASE disconnect \/ Disconnected \/ connect
    <2>1. UNCHANGED <<asks, asked, alive>> /\ UNCHANGED <<objects, jobs, grown, removed, broken>>
      BY <1>2 DEF disconnect, Disconnected, connect, storeVars, fsVars
    <2>2. RootStep
      <3>1. CASE disconnect \/ Disconnected
        BY <3>1, RootIsLeft DEF disconnect, Disconnected, SaveRemote, fsVars
      <3>2. CASE connect
        BY <3>2, RootIsOpened DEF connect
      <3> QED
        BY <1>2, <3>1, <3>2
    <2>3. Serving
      BY <1>1 DEF Mode, Serving
    <2>4. ClientIds'
      BY <1>1, <2>1, <2>3, ClientWaits
    <2> QED
      BY <1>1, <2>1, <2>2, <2>4, ClientSame
  <1> QED
    BY <1>1, <1>2, AskActionMoves, ClientStepMoves DEF ClientAction

\* The process itself.

LEMMA SaveActionMoves ==
    ASSUME HostInv, SaveAction
    PROVE  HostInv'
  <1>1. /\ UNCHANGED <<config, storeVars, fetch, importVars, fuseVars, clientVars, tree, past, alive>>
        /\ save
    BY DEF SaveAction, AutoSave
  <1>2. StoreInv' /\ FetchIds'
    BY <1>1, StoreSame DEF HostInv, FetchIds, Mode, storeVars
  <1>3. Mode("import") => ImportIds'
    BY <1>1 DEF HostInv, ImportIds, importVars, storeVars
  <1>4. Mode("mount") => MountIds'
    BY <1>1 DEF HostInv, MountIds, ReleaseId, fuseVars, storeVars
  <1>5. ~Mode("client")
    BY DEF SaveAction
  <1>6. Rooted'
    <2>1. CASE Serving
      <3>1. RootStep
        BY <1>1, RootIsLeft
      <3>2. UNCHANGED <<config, objects, removed, jobs>>
        BY <1>1 DEF storeVars
      <3> QED
        BY <2>1, <3>1, <3>2, RootMoves DEF HostInv, Rooted
    <2>2. CASE ~Serving
      <3>1. DOMAIN saved' = TreeFields /\ DOMAIN saved'.files = {}
        BY <1>1, <2>2, SaveFacts DEF HostInv, Rooted
      <3> QED
        BY <1>1, <2>2, <3>1 DEF HostInv, Rooted, Serving
    <2> QED
      BY <2>1, <2>2
  <1> QED
    BY <1>1, <1>2, <1>3, <1>4, <1>5, <1>6 DEF HostInv, Mode

LEMMA CrashMoves ==
    ASSUME HostInv, Crash
    PROVE  HostInv'
  <1>1. /\ UNCHANGED <<config, storeVars, fetch, importVars, fuseVars, clientVars, tree, saved, past>>
        /\ alive' = FALSE
    BY DEF Crash
  <1>2. StoreInv' /\ FetchIds'
    BY <1>1, StoreSame DEF HostInv, FetchIds, Mode, storeVars
  <1>3. Mode("import") => ImportIds'
    BY <1>1 DEF HostInv, ImportIds, importVars, storeVars
  <1>4. Mode("mount") => MountIds'
    BY <1>1 DEF HostInv, MountIds, ReleaseId, fuseVars, storeVars
  <1>5. Mode("client") => ClientIds'
    BY <1>1, ClientStays DEF HostInv, ClientIds, UploadId, contains, clientVars, storeVars
  <1>6. Rooted'
    BY <1>1, RootStays DEF HostInv, Rooted, storeVars
  <1> QED
    BY <1>1, <1>2, <1>3, <1>4, <1>5, <1>6 DEF HostInv, Mode

LEMMA DropMoves ==
    ASSUME HostInv, Drop
    PROVE  HostInv'
  <1>1. PICK i \in DOMAIN jobs : DropJob(i)
    BY DEF Drop
  <1>2. UNCHANGED <<config, fsVars, fetch, importVars, fuseVars, clientVars>> /\ ~alive
    BY DEF Drop
  <1>3. StoreInv'
    BY <1>1, <1>2, DropJobStep DEF HostInv
  <1>4. DOMAIN jobs' = DOMAIN jobs \ {i} /\ \A k \in DOMAIN jobs' : jobs'[k] = jobs[k]
    BY <1>1 DEF DropJob, Without
  <1>5. Serving => /\ removed' = removed
                   /\ \A s \in Stores : DOMAIN objects[s].blob3 \subseteq DOMAIN objects'[s].blob3
    BY <1>1, <1>2, BlobsGrow DEF HostInv, Rooted
  <1>6. FetchIds'
    BY <1>2, <1>4 DEF HostInv, FetchIds, Mode
  <1>7. Mode("import") => ImportIds'
    BY <1>2, <1>4 DEF HostInv, ImportIds, importVars, fsVars
  <1>8. Mode("mount") => MountIds'
    BY <1>2, <1>4 DEF HostInv, MountIds, ReleaseId, fuseVars, fsVars
  <1>9. Mode("client") => ClientIds'
    <2>1. Mode("client") => \A h : contains(config.dest, h) => contains(config.dest, h)'
      <3>1. config.dest \in Stores
        BY ModeFacts
      <3> QED
        BY <1>2, <1>5, <3>1 DEF contains, Mode, Serving
    <2>2. \A p : UploadId(p)' = UploadId(p)
      BY <1>2 DEF UploadId, clientVars
    <2> QED
      BY <1>2, <1>4, <2>1, <2>2, ClientStays DEF HostInv, ClientIds, clientVars, fsVars
  <1>10. Rooted'
    BY <1>2, <1>4, <1>5, RootStays DEF HostInv, Rooted, fsVars
  <1> QED
    BY <1>2, <1>3, <1>6, <1>7, <1>8, <1>9, <1>10 DEF HostInv, Mode

LEMMA RestartMoves ==
    ASSUME HostInv, Restart
    PROVE  HostInv'
  <1>1. /\ UNCHANGED <<config, storeVars, saved, asked>> /\ DOMAIN jobs = {} /\ Opened(saved)
        /\ run' = [run EXCEPT !.step = "idle"] /\ tasks' = Empty /\ fetch' = NoFetch(fetch.n)
        /\ open' = [open EXCEPT !.files = Empty]
        /\ calls' = [p \in config.callers |-> Idle] /\ asks' = [p \in config.clients |-> Quiet]
    BY DEF Restart
  <1>2. StoreInv'
    BY <1>1, StoreSame DEF HostInv, storeVars
  <1>3. FetchIds'
    BY <1>1 DEF FetchIds, NoFetch, FetchFields, storeVars
  <1>4. Mode("import") => ImportIds'
    BY <1>1 DEF HostInv, ImportIds, Empty, RunFields, storeVars
  <1>5. Mode("mount") => MountIds'
    <2>1. DOMAIN Idle = CallFields /\ Idle.step = "idle"
      BY DEF Idle, CallFields
    <2>2. ASSUME MountIds
          PROVE  DOMAIN open' = OpenFields /\ open'.next \in Nat /\ DOMAIN open'.files = {}
      BY <1>1, <2>2 DEF MountIds, OpenFields, Empty
    <2>3. /\ DOMAIN calls' = config.callers
          /\ \A p \in config.callers : DOMAIN calls'[p] = CallFields /\ calls'[p].step = "idle"
      BY <1>1, <2>1
    <2> QED
      BY <1>1, <2>2, <2>3 DEF HostInv, MountIds, storeVars
  <1>6. Mode("client") => ClientIds'
    <2>1. DOMAIN Quiet = AskFields /\ Quiet.step = "idle" /\ Quiet.id = 0
      BY DEF Quiet, AskFields
    <2>2. /\ DOMAIN asks' = config.clients
          /\ \A p \in config.clients :
                DOMAIN asks'[p] = AskFields /\ asks'[p].step = "idle" /\ asks'[p].id = 0
      BY <1>1, <2>1
    <2>3. ASSUME ClientIds PROVE asked \in Nat /\ 0 <= asked
      BY <2>3 DEF ClientIds
    <2> QED
      BY <1>1, <2>2, <2>3 DEF HostInv, ClientIds, storeVars
  <1>7. Rooted'
    <2>1. CASE Serving
      <3>1. RootStep
        BY <1>1, RootIsOpened
      <3>2. UNCHANGED <<config, objects, removed, jobs>>
        BY <1>1 DEF storeVars
      <3> QED
        BY <2>1, <3>1, <3>2, RootMoves DEF HostInv, Rooted
    <2>2. CASE ~Serving
      <3>1. tree' = saved /\ DOMAIN past' = PastFields /\ past'.files = {}
        BY <1>1, <2>2, ElsewhereFacts DEF HostInv, Rooted, Opened, PastFields
      <3> QED
        BY <1>1, <2>2, <3>1 DEF HostInv, Rooted, Serving
    <2> QED
      BY <2>1, <2>2
  <1> QED
    BY <1>1, <1>2, <1>3, <1>4, <1>5, <1>6, <1>7 DEF HostInv, Mode

LEMMA HostMoves ==
    ASSUME HostInv, [Next]_vars
    PROVE  HostInv'
  <1>1. CASE JobAction
    BY <1>1, CallMoves, JobMoves DEF JobAction
  <1>2. CASE UNCHANGED vars
    <2>1. /\ UNCHANGED <<config, objects, jobs, grown, removed, broken>>
          /\ UNCHANGED <<tree, saved, past, alive, fetch, run, tasks, open, calls, asks, asked>>
      BY <1>2 DEF vars, storeVars, fsVars, importVars, fuseVars, clientVars
    <2>2. StoreInv' /\ FetchIds'
      BY <2>1, StoreSame DEF HostInv, FetchIds, Mode
    <2>3. Mode("import") => ImportIds'
      BY <2>1 DEF HostInv, ImportIds
    <2>4. Mode("mount") => MountIds'
      BY <2>1 DEF HostInv, MountIds, ReleaseId
    <2>5. Mode("client") => ClientIds'
      BY <2>1, ClientStays DEF HostInv, ClientIds, UploadId, contains
    <2>6. Rooted'
      BY <2>1, RootStays DEF HostInv, Rooted
    <2> QED
      BY <2>1, <2>2, <2>3, <2>4, <2>5, <2>6 DEF HostInv, Mode
  <1> QED
    BY <1>1, <1>2, FetchActionMoves, ImportActionMoves, MountActionMoves, ClientActionMoves,
       SaveActionMoves, CrashMoves, DropMoves, RestartMoves DEF Next

LEMMA HostInvariant == Spec => []HostInv
  BY HostStarts, HostMoves, PTL DEF Spec

\* A blob under a hash has that hash, unless its file grew while import_file read
\* it, and a blob of more than a block has its outboard: for every store, every
\* mix of imports, deletes, fetches, releases and uploads, every failed call and
\* every crash.
THEOREM BlobsAreWholeCorrect == Spec => []BlobsAreWhole
  <1>1. HostInv => BlobsAreWhole
    BY StorePromises DEF HostInv
  <1> QED
    BY <1>1, HostInvariant, PTL

\* An import that has answered Ok has stored its blob, unless that was deleted, and
\* the temporary objects of finalize_import belong to imports that run or failed.
THEOREM ImportsAreCleanCorrect == Spec => []ImportsAreClean
  <1>1. HostInv => ImportsAreClean
    BY StorePromises DEF HostInv
  <1> QED
    BY <1>1, HostInvariant, PTL

\* The saved root, with which the next process starts, refers only to blobs that
\* are stored, for whatever the importer, the mount and the client put into it.
THEOREM RefsAreStoredCorrect == Spec => []RefsAreStored
  <1>1. HostInv => RefsAreStored
    BY DEF HostInv, Rooted, RefStored, RefsAreStored
  <1> QED
    BY <1>1, HostInvariant, PTL

-----------------------------------------------------------------------------
\* The fetcher.

LEMMA SourceFacts ==
    ASSUME HostInv
    PROVE  /\ Len(config.sources) \in Nat /\ DOMAIN config.sources = 1..Len(config.sources)
           /\ \A k \in DOMAIN config.sources : Source(k) \in Stores
           /\ \A h \in config.wanted : IsContent(h)
  <1>1. config \in Configs
    BY ModeFacts
  <1>2. config.sources \in Seq(Stores) /\ \A h \in config.wanted : IsContent(h)
    BY <1>1, HostAssumption DEF Stores
  <1> QED
    BY <1>2 DEF Source

\* A blob that was there is there, or it has been deleted.
LEMMA BlobsLast ==
    ASSUME StoreInv, NEW i \in DOMAIN jobs, config' = config,
           JobStep(i) \/ FailStep(i) \/ DropJob(i)
    PROVE  /\ removed \subseteq removed' /\ grown \subseteq grown'
           /\ \A s \in Stores : \A h : contains(s, h) => contains(s, h)' \/ <<s, h>> \in removed'
  <1> DEFINE j == jobs[i]
  <1>1. Shapes /\ JobOK(i) /\ j.store \in Stores /\ DOMAIN objects[j.store] = Families
        /\ DOMAIN objects = Stores
    BY DEF StoreInv, Shapes
  <1>2. removed \subseteq removed' /\ grown \subseteq grown'
    BY DEF JobStep, PutOutboard, CheckExists, PutTemp, compute_from_store, FileMetadata,
           PutTempFile, Rename, PutBlob, Discard, DeleteBlob, DeleteOutboard, FailStep, DropJob
  <1>3. CASE j.step \notin {"delete", "delobao"}
    <2>1. \A s \in Stores : DOMAIN objects[s].blob3 \subseteq DOMAIN objects'[s].blob3
      BY <1>3, BlobsGrowAt
    <2> QED
      BY <1>2, <2>1 DEF contains
  <1>4. CASE DeleteBlob(i)
    <2>1. /\ Cut(j.store, "blob3", j.hash) /\ removed' = removed \cup {<<j.store, j.hash>>}
      BY <1>4 DEF DeleteBlob, Cut
    <2>2. /\ \A s \in Stores \ {j.store} : objects'[s] = objects[s]
          /\ DOMAIN objects'[j.store].blob3 = DOMAIN objects[j.store].blob3 \ {j.hash}
      BY <1>1, <2>1 DEF Cut, Families, Without
    <2> QED
      BY <1>2, <2>1, <2>2 DEF contains
  <1>5. CASE DeleteOutboard(i)
    <2>1. Cut(j.store, "obao6", j.hash)
      BY <1>5 DEF DeleteOutboard, Cut
    <2>2. \A s \in Stores : objects'[s].blob3 = objects[s].blob3
      BY <1>1, <2>1 DEF Cut, Families
    <2> QED
      BY <1>2, <2>2 DEF contains
  <1>6. CASE j.step \in {"delete", "delobao"} /\ (FailStep(i) \/ DropJob(i))
    <2>1. Interrupted(i) = {}
      BY <1>6 DEF Interrupted
    <2>2. objects' = objects
      BY <1>6, <2>1 DEF FailStep, DropJob, Break
    <2> QED
      BY <1>2, <2>2 DEF contains
  <1>7. CASE j.step \in {"delete", "delobao"} /\ JobStep(i)
    <2>1. DeleteBlob(i) \/ DeleteOutboard(i)
      BY <1>7 DEF JobStep, PutOutboard, CheckExists, PutTemp, compute_from_store, FileMetadata,
                  PutTempFile, Rename, PutBlob, Discard, At
    <2> QED
      BY <1>4, <1>5, <2>1
  <1> QED
    BY <1>3, <1>6, <1>7

\* A step that leaves the fetch alone and loses no blob but those it deletes.
LEMMA FetchWaits ==
    ASSUME HostInv, FetchInv, UNCHANGED <<config, fetch>>, alive' => alive,
           removed \subseteq removed', grown \subseteq grown',
           \A s \in Stores : \A h : contains(s, h) => contains(s, h)' \/ <<s, h>> \in removed',
           alive' /\ FetchId \in DOMAIN jobs =>
             /\ FetchId \in DOMAIN jobs'
             /\ jobs'[FetchId].op = jobs[FetchId].op /\ jobs'[FetchId].store = jobs[FetchId].store
             /\ jobs'[FetchId].arg = jobs[FetchId].arg
    PROVE  FetchInv'
  <1>1. Lasting' \subseteq Lasting
    BY DEF Lasting, Source
  <1>2. /\ \A k \in DOMAIN config.sources : Source(k) \in Stores /\ Source(k)' = Source(k)
        /\ config.dest \in Stores /\ FetchId' = FetchId
    BY SourceFacts, ModeFacts DEF Source, FetchId
  <1>3. ASSUME NEW k \in Lasting' PROVE contains(Source(k), fetch.hash)'
    <2>1. /\ k \in Lasting /\ k \in DOMAIN config.sources /\ contains(Source(k), fetch.hash)
      BY <1>1, <1>3 DEF FetchInv, Lasting
    <2>2. contains(Source(k), fetch.hash)' \/ <<Source(k), fetch.hash>> \in removed'
      BY <1>2, <2>1
    <2> QED
      BY <1>3, <2>2, <1>2, <2>1 DEF Lasting
  <1>4. fetch.step = "ok" =>
          \/ contains(config.dest, fetch.hash)' \/ <<config.dest, fetch.hash>> \in removed'
          \/ fetch.hash \in grown'
          \/ fetch.cut
    BY <1>2 DEF FetchInv, FetchIsRight
  <1>5. FetchIsRight'
    BY <1>1, <1>4 DEF FetchInv, FetchIsRight, Lasting
  <1> QED
    BY <1>1, <1>2, <1>3, <1>5 DEF FetchInv, IsContent

LEMMA JobActionFetch ==
    ASSUME HostInv, FetchInv, Mode("fetch"), JobAction \/ Drop
    PROVE  FetchInv'
  <1>1. UNCHANGED <<config, fetch, alive>>
    BY DEF JobAction, Drop, fsVars
  <1>2. ASSUME NEW i \in DOMAIN config.calls, Call(i) PROVE FetchInv'
    <2>1. FetchId # <<i, crashes>>
      BY ModeFacts DEF FetchId
    <2>2. UNCHANGED <<objects, grown, removed>>
          /\ jobs' = With(jobs, <<i, crashes>>,
                          NewJob(config.calls[i].op, config.calls[i].store, config.calls[i].arg))
      BY <1>2 DEF Call
    <2>3. FetchId \in DOMAIN jobs => FetchId \in DOMAIN jobs' /\ jobs'[FetchId] = jobs[FetchId]
      BY <2>1, <2>2 DEF With
    <2> QED
      BY <1>1, <2>2, <2>3, FetchWaits DEF contains
  <1>3. ASSUME NEW i \in DOMAIN jobs, JobStep(i) \/ FailStep(i) PROVE FetchInv'
    <2>1. StoreInv
      BY DEF HostInv
    <2>2. /\ removed \subseteq removed' /\ grown \subseteq grown'
          /\ \A s \in Stores : \A h : contains(s, h) => contains(s, h)' \/ <<s, h>> \in removed'
      BY <1>1, <1>3, <2>1, BlobsLast
    <2>3. /\ DOMAIN jobs' = DOMAIN jobs
          /\ \A k \in DOMAIN jobs :
                /\ jobs'[k].op = jobs[k].op /\ jobs'[k].store = jobs[k].store
                /\ jobs'[k].arg = jobs[k].arg
      BY <1>3, <2>1, JobsStay
    <2> QED
      BY <1>1, <2>2, <2>3, FetchWaits
  <1>4. ASSUME ~alive, NEW i \in DOMAIN jobs, DropJob(i) PROVE FetchInv'
    <2>1. StoreInv
      BY DEF HostInv
    <2>2. /\ removed \subseteq removed' /\ grown \subseteq grown'
          /\ \A s \in Stores : \A h : contains(s, h) => contains(s, h)' \/ <<s, h>> \in removed'
      BY <1>1, <1>4, <2>1, BlobsLast
    <2> QED
      BY <1>1, <1>4, <2>2, FetchWaits
  <1> QED
    BY <1>2, <1>3, <1>4 DEF JobAction, Drop

\* What the fetcher does when it moves on to the next source.
LEMMA NextSourceFacts ==
    ASSUME HostInv, NEW f, DOMAIN f = FetchFields, f.k \in Nat
    PROVE  /\ NextSource(f).had = f.had /\ NextSource(f).errs = f.errs /\ NextSource(f).hid = f.hid
           /\ NextSource(f).hash = f.hash /\ NextSource(f).op = f.op
           /\ f.k < Len(config.sources) =>
                NextSource(f).k = f.k + 1 /\ NextSource(f).step = "ask"
           /\ ~(f.k < Len(config.sources)) =>
                /\ NextSource(f).step \in {"no", "notfound", "failed"}
                /\ NextSource(f).step = "notfound" => f.errs = {}
  BY DEF NextSource, Exhausted, FetchFields

\* The source that is passed over has failed, could not look, or has not kept the blob.
LEMMA FetchPasses ==
    ASSUME HostInv, FetchInv, fetch.step \in {"ask", "read"}, DOMAIN fetch = FetchFields,
           NEW f, DOMAIN f = FetchFields, f.k = fetch.k, f.had = fetch.had, f.hash = fetch.hash,
           fetch.errs \subseteq f.errs, fetch.hid \subseteq f.hid,
           fetch.k \in Lasting => fetch.k \in f.errs \cup f.hid,
           fetch' = NextSource(f), UNCHANGED <<config, objects, grown, removed>>
    PROVE  FetchInv'
  <1>1. /\ fetch.k \in Nat /\ \A k \in Lasting : k < fetch.k => k \in fetch.errs \cup fetch.hid
        /\ Lasting \subseteq fetch.had /\ fetch.had \subseteq DOMAIN config.sources
    BY DEF FetchInv, Lasting
  <1>2. /\ fetch'.had = fetch.had /\ fetch'.hash = fetch.hash /\ fetch'.errs = f.errs
        /\ fetch'.hid = f.hid
        /\ f.k < Len(config.sources) => fetch'.k = f.k + 1 /\ fetch'.step = "ask"
        /\ ~(f.k < Len(config.sources)) =>
                /\ fetch'.step \in {"no", "notfound", "failed"}
                /\ fetch'.step = "notfound" => f.errs = {}
    BY <1>1, NextSourceFacts
  <1>3. Lasting' = Lasting
    BY <1>2 DEF Lasting, Source
  <1>4. /\ Len(config.sources) \in Nat /\ DOMAIN config.sources = 1..Len(config.sources)
    BY SourceFacts
  <1>5. \A k \in Lasting : k < fetch.k + 1 => k \in f.errs \cup f.hid
    <2> SUFFICES ASSUME NEW k \in Lasting, k < fetch.k + 1 PROVE k \in f.errs \cup f.hid
      OBVIOUS
    <2>1. k \in Nat
      BY <1>1, <1>4
    <2>2. k < fetch.k \/ k = fetch.k
      BY <1>1, <2>1
    <2> QED
      BY <1>1, <2>2
  <1>6. ~(f.k < Len(config.sources)) => Lasting \subseteq f.errs \cup f.hid
    <2> SUFFICES ASSUME ~(fetch.k < Len(config.sources)), NEW k \in Lasting PROVE k \in f.errs \cup f.hid
      OBVIOUS
    <2>1. k \in Nat /\ k <= Len(config.sources)
      BY <1>1, <1>4
    <2>2. k < fetch.k + 1
      BY <1>1, <1>4, <2>1
    <2> QED
      BY <1>5, <2>2
  <1>7. \A k \in Lasting : contains(Source(k), fetch.hash)'
    BY <1>2 DEF FetchInv, Source, contains
  <1>8. FetchIsRight'
    <2>1. fetch'.step # "ok"
      BY <1>1, <1>2, <1>4
    <2>2. fetch'.step = "notfound" => Lasting \subseteq fetch'.hid
      BY <1>2, <1>6
    <2>3. fetch'.step \in {"failed", "no"} => Lasting \subseteq fetch'.errs \cup fetch'.hid
      BY <1>2, <1>6
    <2>4. Lasting' = {k \in fetch.had : <<Source(k), fetch.hash>> \notin removed}'
      BY DEF Lasting
    <2> QED
      BY <1>3, <2>1, <2>2, <2>3, <2>4 DEF FetchIsRight
  <1>9. fetch.k + 1 \in Nat /\ fetch'.step \notin {"have", "read", "store"}
    BY <1>1, <1>2, <1>4
  <1>10. fetch'.step = "ask" => fetch'.k = fetch.k + 1
    BY <1>2
  <1>11. IsContent(fetch.hash)'
    BY <1>2 DEF FetchInv, IsContent
  <1> QED
    BY <1>1, <1>2, <1>3, <1>5, <1>7, <1>8, <1>9, <1>10, <1>11 DEF FetchInv

LEMMA FetchActionFetch ==
    ASSUME HostInv, FetchInv, Mode("fetch"), FetchAction
    PROVE  FetchInv'
  <1>1. alive /\ UNCHANGED <<config, alive>> /\ DOMAIN fetch = FetchFields
    BY DEF FetchAction, fsVars, HostInv, FetchIds
  <1>2. /\ fetch.had \subseteq DOMAIN config.sources /\ IsContent(fetch.hash)
        /\ \A k \in Lasting : contains(Source(k), fetch.hash)
    BY DEF FetchInv
  <1>3. /\ Len(config.sources) \in Nat /\ DOMAIN config.sources = 1..Len(config.sources)
        /\ \A k \in DOMAIN config.sources : Source(k) \in Stores
        /\ \A h \in config.wanted : IsContent(h)
        /\ config.dest \in Stores
    BY SourceFacts, ModeFacts
  <1>4. ASSUME NEW op \in {"fetch"} \cup Asks, NEW h \in config.wanted, StartFetch(op, h)
        PROVE  FetchInv'
    <2>1. /\ fetch'.hash = h /\ fetch'.k = 1 /\ fetch'.step \in {"ask", "have"}
          /\ fetch'.had = {k \in DOMAIN config.sources : contains(Source(k), h)}
          /\ UNCHANGED <<objects, jobs, grown, removed>>
      BY <1>4 DEF StartFetch, storeVars
    <2>2. \A k \in Lasting' : contains(Source(k), fetch.hash)'
      BY <1>1, <2>1 DEF Lasting, contains, Source
    <2>3. \A k \in Lasting' : k \in DOMAIN config.sources /\ ~(k < 1)
      BY <1>3, <2>1 DEF Lasting
    <2>4. FetchIsRight'
      BY <2>1 DEF FetchIsRight
    <2>5. IsContent(fetch.hash)'
      BY <1>3, <2>1 DEF IsContent
    <2> QED
      BY <1>1, <2>1, <2>2, <2>3, <2>4, <2>5 DEF FetchInv
  <1>5. ASSUME NEW step, NEW cut,
               \/ fetch' = [fetch EXCEPT !.step = step] /\ cut = fetch.cut
               \/ fetch' = [fetch EXCEPT !.step = step, !.cut = cut],
               UNCHANGED <<objects, grown, removed>>
        PROVE  /\ fetch'.step = step /\ fetch'.had = fetch.had /\ fetch'.hash = fetch.hash
               /\ fetch'.k = fetch.k /\ fetch'.errs = fetch.errs /\ fetch'.op = fetch.op
               /\ fetch'.n = fetch.n /\ fetch'.hid = fetch.hid /\ fetch'.cut = cut
               /\ Lasting' = Lasting /\ IsContent(fetch.hash)'
               /\ \A k \in Lasting : contains(Source(k), fetch.hash)'
    <2>1. /\ fetch'.step = step /\ fetch'.had = fetch.had /\ fetch'.hash = fetch.hash
          /\ fetch'.k = fetch.k /\ fetch'.errs = fetch.errs /\ fetch'.op = fetch.op
          /\ fetch'.n = fetch.n /\ fetch'.hid = fetch.hid /\ fetch'.cut = cut
      BY <1>1, <1>5 DEF FetchFields
    <2>2. Lasting' = Lasting
      BY <1>1, <1>5, <2>1 DEF Lasting, Source
    <2>3. IsContent(fetch.hash)'
      BY <1>2, <2>1 DEF IsContent
    <2>4. \A k \in Lasting : contains(Source(k), fetch.hash)'
      BY <1>1, <1>2, <1>5, <2>1 DEF Source, contains
    <2> QED
      BY <2>1, <2>2, <2>3, <2>4
  <1>6. CASE CheckDestination
    <2>1. fetch.step = "have" /\ fetch.k = 1 /\ UNCHANGED <<objects, grown, removed>>
      BY <1>6 DEF CheckDestination, FetchInv
    <2>2. \E step : /\ fetch' = [fetch EXCEPT !.step = step]
                    /\ step = "ask" \/ (step = "ok" /\ contains(config.dest, fetch.hash))
      BY <1>6 DEF CheckDestination
    <2>3. PICK step : /\ fetch' = [fetch EXCEPT !.step = step]
                      /\ step = "ask" \/ (step = "ok" /\ contains(config.dest, fetch.hash))
      BY <2>2
    <2>4. /\ fetch'.step = step /\ fetch'.had = fetch.had /\ fetch'.hash = fetch.hash
          /\ fetch'.k = fetch.k /\ Lasting' = Lasting /\ IsContent(fetch.hash)'
          /\ \A k \in Lasting : contains(Source(k), fetch.hash)'
      BY <1>5, <2>1, <2>3
    <2>5. FetchIsRight'
      BY <1>1, <2>1, <2>3, <2>4 DEF FetchIsRight, contains
    <2>6. \A k \in Lasting : k \in DOMAIN config.sources /\ ~(k < 1)
      BY <1>2, <1>3 DEF Lasting
    <2> QED
      BY <1>1, <1>2, <2>1, <2>3, <2>4, <2>5, <2>6 DEF FetchInv
  <1>7. ASSUME fetch.step \in {"ask", "read"}, fetch.k \notin Lasting, fetch' = NextSource(fetch),
               UNCHANGED <<objects, grown, removed>>
        PROVE  FetchInv'
    BY <1>1, <1>7, FetchPasses
  <1>8. ASSUME fetch.step \in {"ask", "read"}, fetch' = SourceFails(fetch),
               UNCHANGED <<objects, grown, removed>>
        PROVE  FetchInv'
    <2> DEFINE f == [fetch EXCEPT !.errs = @ \cup {fetch.k}]
    <2>1. /\ DOMAIN f = FetchFields /\ f.k = fetch.k /\ f.had = fetch.had /\ f.hash = fetch.hash
          /\ fetch.errs \subseteq f.errs /\ fetch.k \in f.errs /\ f.hid = fetch.hid
      BY <1>1 DEF FetchFields
    <2>2. fetch' = NextSource(f)
      BY <1>8 DEF SourceFails
    <2> HIDE DEF f
    <2> QED
      BY <1>1, <1>8, <2>1, <2>2, FetchPasses
  <1>9. CASE AskSource
    <2>1. fetch.step = "ask" /\ UNCHANGED <<objects, grown, removed>>
      BY <1>9 DEF AskSource
    <2>2. Has(Source(fetch.k)) <=> contains(Source(fetch.k), fetch.hash)
      BY DEF Has, contains, list_hashes
    <2>3. CASE ~(fetch.k \in DOMAIN config.sources /\ Has(Source(fetch.k)))
      <3>1. fetch' = NextSource(fetch)
        BY <1>9, <2>3 DEF AskSource
      <3>2. fetch.k \notin Lasting
        BY <1>2, <2>2, <2>3 DEF Lasting
      <3> QED
        BY <1>7, <2>1, <3>1, <3>2
    <2>5. ASSUME fetch' = NextSource([fetch EXCEPT !.hid = @ \cup {fetch.k}]) PROVE FetchInv'
      <3> DEFINE f == [fetch EXCEPT !.hid = @ \cup {fetch.k}]
      <3>1. /\ DOMAIN f = FetchFields /\ f.k = fetch.k /\ f.had = fetch.had /\ f.hash = fetch.hash
            /\ f.errs = fetch.errs /\ fetch.hid \subseteq f.hid /\ fetch.k \in f.hid
        BY <1>1 DEF FetchFields
      <3>2. fetch' = NextSource(f)
        BY <2>5
      <3> HIDE DEF f
      <3> QED
        BY <1>1, <2>1, <3>1, <3>2, FetchPasses
    <2>4. ASSUME fetch.k \in DOMAIN config.sources, Has(Source(fetch.k)),
                 NEW step \in {"yes", "read"}, fetch' = [fetch EXCEPT !.step = step]
          PROVE  FetchInv'
      <3>1. step \in {"yes", "read"} /\ fetch' = [fetch EXCEPT !.step = step]
        BY <2>4
      <3>2. /\ fetch'.step = step /\ fetch'.had = fetch.had /\ fetch'.hash = fetch.hash
            /\ fetch'.k = fetch.k /\ fetch'.errs = fetch.errs /\ fetch'.hid = fetch.hid
            /\ Lasting' = Lasting /\ IsContent(fetch.hash)'
            /\ \A k \in Lasting : contains(Source(k), fetch.hash)'
        BY <1>5, <2>1, <3>1
      <3>3. FetchIsRight'
        BY <3>1, <3>2 DEF FetchIsRight
      <3>4. /\ fetch.k \in Nat /\ \A k \in Lasting : k < fetch.k => k \in fetch.errs \cup fetch.hid
        BY <2>1 DEF FetchInv
      <3> QED
        BY <1>1, <1>2, <2>4, <3>1, <3>2, <3>3, <3>4 DEF FetchInv
    <2> QED
      BY <1>9, <2>3, <2>4, <2>5 DEF AskSource
  <1>10. CASE SourceError
    BY <1>8, <1>10 DEF SourceError
  <1>11. CASE ReadSource
    <2>1. fetch.step = "read" /\ fetch.k \in DOMAIN config.sources
          /\ UNCHANGED <<objects, grown, removed>>
      BY <1>11 DEF ReadSource, FetchInv
    <2>2. CASE fetch' = SourceFails(fetch)
      BY <1>8, <2>1, <2>2
    <2> DEFINE arg == read_as_bytes(Source(fetch.k), fetch.hash, 0, size(Source(fetch.k), fetch.hash))
    <2>4. ASSUME NEW c, Store(c), fetch' = [fetch EXCEPT !.step = "store", !.cut = TRUE]
          PROVE  FetchInv'
      <3>1. /\ fetch'.step = "store" /\ fetch'.had = fetch.had /\ fetch'.hash = fetch.hash
            /\ fetch'.n = fetch.n /\ fetch'.cut = TRUE /\ Lasting' = Lasting /\ IsContent(fetch.hash)'
            /\ \A k \in Lasting : contains(Source(k), fetch.hash)'
        BY <1>5, <2>1, <2>4
      <3>2. /\ FetchId' = FetchId /\ FetchId \in DOMAIN jobs'
            /\ jobs'[FetchId].op = "bytes" /\ jobs'[FetchId].store = config.dest
        BY <2>4, <3>1 DEF FetchId, With, NewJob, Store
      <3>3. FetchIsRight'
        BY <3>1 DEF FetchIsRight
      <3> QED
        BY <1>1, <1>2, <2>1, <3>1, <3>2, <3>3 DEF FetchInv
    <2>3. CASE fetch' = [fetch EXCEPT !.step = "store"] /\ Store(arg)
               /\ contains(Source(fetch.k), fetch.hash)
      <3>1. /\ fetch'.step = "store" /\ fetch'.had = fetch.had /\ fetch'.hash = fetch.hash
            /\ fetch'.n = fetch.n /\ Lasting' = Lasting /\ IsContent(fetch.hash)'
            /\ \A k \in Lasting : contains(Source(k), fetch.hash)'
        BY <1>5, <2>1, <2>3
      <3>2. fetch.hash \in grown \/ objects[Source(fetch.k)].blob3[fetch.hash] = fetch.hash
        BY <1>3, <2>1, <2>3 DEF HostInv, StoreInv, BlobsAreWhole, list_hashes, contains
      <3>3. fetch.hash \in grown \/ arg = fetch.hash
        <4>1. ASSUME NEW c, IsContent(c) PROVE SubSeq(c, 1, Len(c)) = c
          BY <4>1 DEF IsContent
        <4>2. ASSUME NEW c, IsContent(c) PROVE Len(c) \in Nat
          BY <4>2 DEF IsContent
        <4> QED
          BY <1>2, <3>2, <4>1, <4>2 DEF read_as_bytes, size
      <3>4. /\ FetchId' = FetchId /\ FetchId \in DOMAIN jobs'
            /\ jobs'[FetchId].op = "bytes" /\ jobs'[FetchId].store = config.dest
            /\ jobs'[FetchId].arg = arg
        BY <2>3, <3>1 DEF FetchId, With, NewJob, Store
      <3>5. FetchIsRight'
        BY <3>1 DEF FetchIsRight
      <3> QED
        BY <1>1, <1>2, <2>1, <3>1, <3>3, <3>4, <3>5 DEF FetchInv
    <2> QED
      BY <1>11, <2>2, <2>3, <2>4 DEF ReadSource
  <1>12. CASE StoreFetched
    <2>1. fetch.step = "store" /\ UNCHANGED <<objects, grown, removed>>
          /\ jobs[FetchId].step \in {"ok", "err"}
          /\ fetch' = [fetch EXCEPT !.step = jobs[FetchId].step]
      BY <1>12 DEF StoreFetched, Ended
    <2>2. /\ FetchId \in DOMAIN jobs
          /\ jobs[FetchId].op = "bytes" /\ jobs[FetchId].store = config.dest
          /\ jobs[FetchId].arg = fetch.hash \/ fetch.hash \in grown \/ fetch.cut
      BY <1>1, <2>1 DEF FetchInv
    <2>3. /\ fetch'.step = jobs[FetchId].step /\ fetch'.had = fetch.had /\ fetch'.cut = fetch.cut
          /\ fetch'.hash = fetch.hash /\ Lasting' = Lasting /\ IsContent(fetch.hash)'
          /\ \A k \in Lasting : contains(Source(k), fetch.hash)'
      BY <1>5, <2>1
    <2>4. jobs[FetchId].step = "ok" =>
            \/ HasBlob(config.dest, fetch.hash) \/ fetch.hash \in grown \/ fetch.cut
      BY <2>2 DEF HostInv, StoreInv, JobOK
    <2>5. FetchIsRight'
      BY <1>1, <2>1, <2>3, <2>4 DEF FetchIsRight, HasBlob, contains
    <2> QED
      BY <1>1, <1>2, <2>1, <2>3, <2>5 DEF FetchInv
  <1> QED
    BY <1>4, <1>6, <1>9, <1>10, <1>11, <1>12 DEF FetchAction, FetchStep

\* No fetch, as at the start and after a restart.
LEMMA FetchStarts ==
    ASSUME NEW n, fetch = NoFetch(n)
    PROVE  FetchInv
  <1>1. /\ fetch.had = {} /\ fetch.hash = <<>> /\ fetch.step = "idle"
    BY DEF NoFetch
  <1>2. IsContent(<<>>)
    BY DEF IsContent
  <1> QED
    BY <1>1, <1>2 DEF FetchInv, FetchIsRight, Lasting

LEMMA FetchRestarts ==
    ASSUME NEW n, fetch' = NoFetch(n)
    PROVE  FetchInv'
  <1>1. /\ fetch'.had = {} /\ fetch'.hash = <<>> /\ fetch'.step = "idle"
    BY DEF NoFetch
  <1>2. IsContent(<<>>)
    BY DEF IsContent
  <1> QED
    BY <1>1, <1>2 DEF FetchInv, FetchIsRight, Lasting

LEMMA FetchInvMoves ==
    ASSUME HostInv, Mode("fetch") => FetchInv, [Next]_vars
    PROVE  (Mode("fetch") => FetchInv)'
  <1>1. config' = config /\ (Mode("fetch"))' = Mode("fetch")
    BY DEF Next, JobAction, FetchAction, ImportAction, MountAction, ClientAction, SaveAction,
           Crash, Drop, Restart, vars, Mode
  <1> SUFFICES ASSUME Mode("fetch") PROVE FetchInv'
    BY <1>1
  <1>2. FetchInv
    OBVIOUS
  <1>3. ~Mode("import") /\ ~Mode("mount") /\ ~Mode("client")
    BY DEF Mode
  <1>4. CASE JobAction \/ Drop
    BY <1>2, <1>4, JobActionFetch
  <1>5. CASE FetchAction
    BY <1>2, <1>5, FetchActionFetch
  <1>6. CASE SaveAction \/ Crash \/ UNCHANGED vars
    <2>1. UNCHANGED <<config, fetch, storeVars>> /\ (alive' => alive)
      BY <1>6 DEF SaveAction, AutoSave, Crash, vars, fsVars
    <2> QED
      BY <1>2, <2>1, FetchWaits DEF storeVars, contains
  <1>7. CASE Restart
    BY <1>7, FetchRestarts DEF Restart
  <1> QED
    BY <1>3, <1>4, <1>5, <1>6, <1>7 DEF Next, ImportAction, MountAction, ClientAction

LEMMA FetchIsRightCorrect == Spec => []FetchIsRight
  <1>1. Init => (Mode("fetch") => FetchInv)
    BY FetchStarts DEF Init, FetchInit
  <1>2. HostInv /\ (Mode("fetch") => FetchInv) /\ [Next]_vars => (Mode("fetch") => FetchInv)'
    BY FetchInvMoves
  <1>3. HostInv /\ (Mode("fetch") => FetchInv) => FetchIsRight
    <2>1. HostInv /\ ~Mode("fetch") => fetch.step = "idle"
      BY DEF HostInv, FetchIds
    <2>2. fetch.step = "idle" => FetchIsRight
      BY DEF FetchIsRight
    <2> QED
      BY <2>1, <2>2 DEF FetchInv
  <1> QED
    BY <1>1, <1>2, <1>3, HostInvariant, PTL DEF Spec

-----------------------------------------------------------------------------
(***************************************************************************)
(* Sequences.                                                              *)
(***************************************************************************)
LEMMA ContentFacts ==
    ASSUME NEW c, IsContent(c)
    PROVE  Len(c) \in Nat /\ DOMAIN c = 1..Len(c) /\ SubSeq(c, 1, Len(c)) = c
  BY DEF IsContent

LEMMA AppendFacts ==
    ASSUME NEW c, IsContent(c), NEW x
    PROVE  /\ IsContent(Append(c, x)) /\ Len(Append(c, x)) = Len(c) + 1
           /\ \A i \in 1..Len(c) : Append(c, x)[i] = c[i]
           /\ Append(c, x)[Len(c) + 1] = x
  <1> DEFINE S == {c[i] : i \in DOMAIN c} \cup {x}
             d == Append(c, x)
             T == {d[i] : i \in DOMAIN d}
  <1>1. c \in Seq(S)
    BY DEF IsContent
  <1>2. d \in Seq(S) /\ Len(d) = Len(c) + 1 /\ Len(c) \in Nat
    BY <1>1
  <1>3. (\A i \in 1..Len(c) : d[i] = c[i]) /\ d[Len(c) + 1] = x
    BY <1>1
  <1>4. d \in Seq(T)
    <2> HIDE DEF d
    <2>1. DOMAIN d = 1..Len(d) /\ d = [i \in 1..Len(d) |-> d[i]]
      BY <1>2
    <2>2. \A i \in 1..Len(d) : d[i] \in T
      BY <2>1
    <2> HIDE DEF T
    <2>3. d \in [1..Len(d) -> T] /\ Len(d) \in Nat
      BY <1>2, <2>1, <2>2
    <2> QED
      BY <2>3
  <1> QED
    BY <1>2, <1>3, <1>4 DEF IsContent

LEMMA ConcatFacts ==
    ASSUME NEW c, IsContent(c), NEW d, IsContent(d)
    PROVE  IsContent(c \o d)
  <1> DEFINE S == {c[i] : i \in DOMAIN c} \cup {d[i] : i \in DOMAIN d}
             e == c \o d
             T == {e[i] : i \in DOMAIN e}
  <1>1. c \in Seq(S) /\ d \in Seq(S)
    BY DEF IsContent
  <1>2. e \in Seq(S)
    BY <1>1
  <1>4. e \in Seq(T)
    <2> HIDE DEF e
    <2>1. DOMAIN e = 1..Len(e) /\ e = [i \in 1..Len(e) |-> e[i]] /\ Len(e) \in Nat
      BY <1>2
    <2>2. \A i \in 1..Len(e) : e[i] \in T
      BY <2>1
    <2> HIDE DEF T
    <2>3. e \in [1..Len(e) -> T] /\ Len(e) \in Nat
      BY <1>2, <2>1, <2>2
    <2> QED
      BY <2>3
  <1> QED
    BY <1>4 DEF IsContent

-----------------------------------------------------------------------------
\* The mount.

\* Only the import command has keys of several components in the root's own snapshot.
LEMMA OwnInMount ==
    ASSUME HostInv, Mode("mount")
    PROVE  \A t, path : Own(t, path) <=> Len(path) <= 1
  BY ModeFacts, HostAssumption DEF Own, Mode

\* A save writes the root's own entries.
LEMMA SaveKeeps ==
    ASSUME HostInv, Mode("mount"), MountInv, save, UNCHANGED <<tree, puts>>
    PROVE  /\ \A path, k : Holds(tree, path, k) => Kept(path, k)'
           /\ PlainFiles(saved)'
  <1>1. \A path, k : Holds(tree, path, k) => Kept(path, k)'
    BY SaveFacts, OwnInMount DEF Holds, Kept, IsContent
  <1>2. PlainFiles(saved)'
    BY SaveFacts DEF MountInv, PlainRoot, PlainFiles
  <1> QED
    BY <1>1, <1>2

LEMMA ReleasedFollows ==
    ASSUME HostInv, Mode("mount"), MountInv
    PROVE  ReleasedIsDurable
  <1> SUFFICES ASSUME NEW path \in DOMAIN floor
               PROVE  /\ Own(saved, path) =>
                            /\ path \in DOMAIN saved.files
                            /\ \E n \in floor[path]..Len(puts[path]) :
                                  saved.files[path].hash = puts[path][n]
                            /\ contains(config.dest, saved.files[path].hash)
                      /\ \E n \in floor[path]..Len(puts[path]) :
                            file_exists(path) /\ read(path, 0, file_get(path).size) = puts[path][n]
    BY DEF ReleasedIsDurable
  <1>1. Holds(tree, path, floor[path]) /\ Kept(path, floor[path])
    BY DEF MountInv, FloorInv
  <1>2. path \in DOMAIN tree.files /\ (Own(saved, path) => Holds(saved, path, floor[path]))
    BY <1>1, OwnInMount DEF Holds, Kept
  <1>3. /\ path \in DOMAIN saved.files => contains(config.dest, saved.files[path].hash)
        /\ contains(config.dest, tree.files[path].hash)
    BY <1>2 DEF HostInv, Rooted, RefStored, MountInv, PlainRoot, PlainFiles
  <1> DEFINE h == tree.files[path].hash
  <1>4. objects[config.dest].blob3[h] = h
    BY <1>3, ModeFacts DEF MountInv, HostInv, StoreInv, BlobsAreWhole, list_hashes, contains
  <1>5. IsContent(h) /\ tree.files[path].size = Len(h)
    BY <1>1 DEF Holds
  <1>6. Len(h) \in Nat /\ SubSeq(h, 1, Len(h)) = h
    BY <1>5, ContentFacts
  <1>7. read(path, 0, file_get(path).size) = h
    BY <1>4, <1>5, <1>6 DEF read, file_get, read_as_bytes
  <1> QED
    BY <1>1, <1>2, <1>3, <1>7 DEF Holds, file_exists

\* A step that loses no put from the open root, and none from the saved root that
\* the open one has as well.
LEMMA CallsStay ==
    ASSUME NEW c, CallInv(c),
           \A path, k : Holds(tree, path, k) => Holds(tree, path, k)',
           \A path, k : Holds(tree, path, k) /\ Kept(path, k) => Kept(path, k)'
    PROVE  CallInv(c)'
  BY DEF CallInv

LEMMA FloorStays ==
    ASSUME FloorInv, floor' = floor,
           \A path, k : Holds(tree, path, k) => Holds(tree, path, k)',
           \A path, k : Holds(tree, path, k) /\ Kept(path, k) => Kept(path, k)'
    PROVE  FloorInv'
  BY DEF FloorInv

\* What a request is after its step.
LEMMA ThenForms ==
    ASSUME HostInv, Mode("mount"), NEW p \in config.callers, NEW step, Then(p, step)
    PROVE  /\ \A q \in config.callers \ {p} : calls'[q] = calls[q]
           /\ calls'[p].step = step /\ calls'[p].op = calls[p].op /\ calls'[p].path = calls[p].path
           /\ calls'[p].n = calls[p].n /\ calls'[p].at = calls[p].at /\ calls'[p].dir = calls[p].dir
           /\ calls'[p].size = calls[p].size /\ calls'[p].fh = calls[p].fh
  <1>1. DOMAIN calls = config.callers /\ DOMAIN calls[p] = CallFields
    BY CallForms
  <1> QED
    BY <1>1 DEF Then, CallFields

LEMMA EndForms ==
    ASSUME HostInv, Mode("mount"), NEW p \in config.callers, End(p)
    PROVE  /\ \A q \in config.callers \ {p} : calls'[q] = calls[q]
           /\ calls'[p].step = "idle" /\ calls'[p].op = "idle" /\ calls'[p] = Idle
  <1>1. DOMAIN calls = config.callers /\ DOMAIN calls[p] = CallFields
    BY CallForms
  <1> QED
    BY <1>1 DEF End, Idle

LEMMA ReadForms ==
    ASSUME HostInv, Mode("mount"), NEW p \in config.callers, NEW step, NEW d, NEW dir,
           calls' = [calls EXCEPT ![p].step = step, ![p].at = d, ![p].dir = dir]
    PROVE  /\ \A q \in config.callers \ {p} : calls'[q] = calls[q]
           /\ calls'[p].step = step /\ calls'[p].op = calls[p].op /\ calls'[p].path = calls[p].path
           /\ calls'[p].n = calls[p].n /\ calls'[p].at = d /\ calls'[p].dir = dir
           /\ calls'[p].size = calls[p].size
  <1>1. DOMAIN calls = config.callers /\ DOMAIN calls[p] = CallFields
    BY CallForms
  <1> QED
    BY <1>1 DEF CallFields

LEMMA MountStays ==
    ASSUME MountInv, config' = config, grown' = grown, floor' = floor, ByteJobs', OpenInv',
           \A path \in DOMAIN puts' : IsContent(puts'[path]),
           PlainRoot',
           \A path, k : Holds(tree, path, k) => Holds(tree, path, k)',
           \A path, k : Holds(tree, path, k) /\ Kept(path, k) => Kept(path, k)',
           \A q \in config.callers : calls'[q] = calls[q] \/ CallInv(calls[q])'
    PROVE  MountInv'
  <1>1. FloorInv'
    BY FloorStays DEF MountInv
  <1>2. \A q \in config.callers : calls'[q] = calls[q] => CallInv(calls[q])'
    BY CallsStay DEF MountInv
  <1>3. \A path \in DOMAIN puts' : IsContent(puts[path])'
    BY DEF IsContent
  <1> QED
    BY <1>1, <1>2, <1>3 DEF MountInv

\* A request that leaves the files of the open root as they are.
LEMMA RequestStays ==
    ASSUME HostInv, Mode("mount"), MountInv, NEW p \in config.callers,
           UNCHANGED <<config, jobs, grown, open, puts, floor>>,
           tree'.files = tree.files, saved' = saved \/ (save /\ tree' = tree),
           \A v \in past'.files : v \in past.files \/ \E x \in DOMAIN tree.files : v[2] = tree.files[x],
           \A q \in config.callers \ {p} : calls'[q] = calls[q], CallInv(calls[p])'
    PROVE  MountInv'
  <1>1. /\ \A path, k : Holds(tree, path, k) => Holds(tree, path, k)'
        /\ \A path, k : Holds(tree, path, k) /\ Kept(path, k) => Kept(path, k)'
    <2>1. CASE saved' = saved
      BY <2>1 DEF Holds, Kept, IsContent
    <2>2. CASE save /\ tree' = tree
      BY <2>2, SaveKeeps, ZenonT(40) DEF Holds, IsContent
    <2> QED
      BY <2>1, <2>2
  <1>2. PlainRoot'
    <2>1. PlainFiles(saved)'
      BY SaveKeeps DEF MountInv, PlainRoot, PlainFiles
    <2> QED
      BY <2>1 DEF MountInv, PlainRoot, PlainFiles
  <1>3. ByteJobs' /\ OpenInv' /\ \A path \in DOMAIN puts' : IsContent(puts'[path])
    BY DEF MountInv, ByteJobs, OpenInv
  <1> QED
    BY <1>1, <1>2, <1>3, MountStays

\* Requests that only read, and saves.
LEMMA ReadStepHolds ==
    ASSUME HostInv, Mode("mount"), MountInv, NEW p \in config.callers, config' = config,
           LoadDir(p) \/ InsertDir(p) \/ ReadAgain(p) \/ Refresh(p) \/ CheckCached(p)
             \/ lookup(p) \/ readdir(p) \/ mkdir(p) \/ SaveRoot(p) \/ SaveFails(p)
    PROVE  MountInv'
  <1> DEFINE Same == UNCHANGED <<jobs, grown, open, puts, floor>>
             Plain(steps) == /\ \A q \in config.callers \ {p} : calls'[q] = calls[q]
                             /\ calls'[p].step \in steps /\ calls'[p].op = calls[p].op
                             /\ calls'[p].path = calls[p].path /\ calls'[p].n = calls[p].n
  <1>1. CallInv(calls[p])
    BY DEF MountInv
  <1>2. ASSUME \A q \in config.callers \ {p} : calls'[q] = calls[q],
               calls'[p].step \in {"idle", "insert", "ensure"}, Same, UNCHANGED <<tree, saved, past>>
        PROVE  MountInv'
    <2>1. CallInv(calls[p])'
      BY <1>2 DEF CallInv
    <2> QED
      BY <1>2, <2>1, RequestStays
  <1>3. ASSUME End(p), Same, UNCHANGED <<tree, saved, past>> PROVE MountInv'
    BY <1>2, <1>3, EndForms
  <1>4. CASE LoadDir(p)
    <2>1. Same /\ UNCHANGED <<tree, saved, past>>
      BY <1>4 DEF LoadDir, storeVars, fsVars
    <2>2. CASE End(p)
      BY <1>3, <2>1, <2>2
    <2>3. CASE ~End(p)
      <3>1. PICK d, dir : calls' = [calls EXCEPT ![p].step = "insert", ![p].at = d, ![p].dir = dir]
        BY <1>4, <2>3 DEF LoadDir
      <3> QED
        BY <1>2, <2>1, <3>1, ReadForms, ZenonT(40)
    <2> QED
      BY <2>2, <2>3
  <1>5. CASE InsertDir(p)
    <2>1. Same /\ UNCHANGED <<tree, saved, past>> /\ Then(p, "ensure")
      BY <1>5 DEF InsertDir, storeVars, fsVars
    <2> QED
      BY <1>2, <2>1, ThenForms
  <1>6. CASE lookup(p) \/ readdir(p)
    BY <1>3, <1>6 DEF lookup, readdir, storeVars, fsVars
  <1>7. CASE SaveFails(p)
    BY <1>3, <1>7 DEF SaveFails, fsVars
  <1>8. CASE ReadAgain(p)
    <2>1. Same /\ UNCHANGED <<tree, saved, past>> /\ calls[p].step = "export"
      BY <1>8 DEF ReadAgain, storeVars, fsVars, On
    <2>2. CASE End(p)
      BY <1>3, <2>1, <2>2
    <2>3. CASE ~End(p)
      <3>1. PICK d, dir : calls' = [calls EXCEPT ![p].step = "refresh", ![p].at = d, ![p].dir = dir]
        BY <1>8, <2>3 DEF ReadAgain
      <3>2. Plain({"refresh"})
        BY <3>1, ReadForms
      <3>3. \A path, k : /\ Holds(tree, path, k) => Holds(tree, path, k)'
                         /\ Kept(path, k) => Kept(path, k)'
        BY <2>1 DEF Holds, Kept, IsContent
      <3>4. CallInv(calls[p])'
        BY <1>1, <2>1, <3>2, <3>3 DEF CallInv
      <3> QED
        BY <2>1, <3>2, <3>4, RequestStays
    <2> QED
      BY <2>2, <2>3
  <1>9. CASE Refresh(p)
    <2>1. Same /\ UNCHANGED <<tree, saved, past>> /\ calls[p].step = "refresh"
          /\ Then(p, IF calls[p].op = "readdir" THEN "ensure" ELSE "attr")
      BY <1>9 DEF Refresh, storeVars, fsVars, On
    <2>2. CASE calls[p].op = "readdir"
      <3>1. Then(p, "ensure")
        BY <2>1, <2>2
      <3> QED
        BY <1>2, <2>1, <3>1, ThenForms
    <2>3. CASE calls[p].op # "readdir"
      <3>1. Then(p, "attr")
        BY <2>1, <2>3
      <3>2. Plain({"attr"})
        BY <3>1, ThenForms
      <3>3. \A path, k : /\ Holds(tree, path, k) => Holds(tree, path, k)'
                         /\ Kept(path, k) => Kept(path, k)'
        BY <2>1 DEF Holds, Kept, IsContent
      <3>4. CallInv(calls[p])'
        BY <1>1, <2>1, <2>3, <3>2, <3>3 DEF CallInv
      <3> QED
        BY <2>1, <3>2, <3>4, RequestStays
    <2> QED
      BY <2>2, <2>3
  <1>10. CASE CheckCached(p)
    <2>1. Same /\ UNCHANGED <<tree, saved, past>> /\ calls[p].step = "cached"
          /\ (Then(p, "ensure") \/ Then(p, "export"))
      BY <1>10 DEF CheckCached, storeVars, fsVars, On
    <2>2. CASE Then(p, "ensure")
      BY <1>2, <2>1, <2>2, ThenForms
    <2>3. CASE Then(p, "export")
      <3>1. Plain({"export"})
        BY <2>3, ThenForms
      <3>2. CallInv(calls[p])'
        BY <1>1, <2>1, <3>1 DEF CallInv
      <3> QED
        BY <2>1, <3>1, <3>2, RequestStays
    <2> QED
      BY <2>1, <2>2, <2>3
  <1>11. CASE mkdir(p)
    <2>1. Same /\ saved' = saved /\ calls[p].step = "mkdir"
      BY <1>11 DEF mkdir, storeVars, On
    <2>2. CASE End(p) /\ UNCHANGED <<tree, past>>
      BY <1>3, <2>1, <2>2
    <2>3. CASE Then(p, "save") /\ create_dir(calls[p].path)
      <3>1. tree'.files = tree.files /\ past'.files = past.files \cup Elsewhere(tree')
        BY <2>3 DEF create_dir, HostInv, Rooted, TreeFields, PastFields
      <3>2. Plain({"save"})
        BY <2>3, ThenForms
      <3>3. CallInv(calls[p])'
        BY <1>1, <2>1, <3>2 DEF CallInv
      <3>4. \A v \in past'.files : v \in past.files \/ \E x \in DOMAIN tree.files : v[2] = tree.files[x]
        BY <3>1, ElsewhereFacts
      <3> QED
        BY <2>1, <3>1, <3>2, <3>3, <3>4, RequestStays
    <2> QED
      BY <1>11, <2>2, <2>3 DEF mkdir
  <1>12. CASE SaveRoot(p)
    <2>1. Same /\ save /\ UNCHANGED <<tree, past>> /\ calls[p].step = "save" /\ Then(p, "export")
      BY <1>12 DEF SaveRoot, AfterPut, storeVars, On
    <2>2. Plain({"export"})
      BY <2>1, ThenForms
    <2>3. \A path, k : Holds(tree, path, k) => Holds(tree, path, k)' /\ Kept(path, k)'
      BY <2>1, SaveKeeps DEF Holds, IsContent
    <2>4. CallInv(calls[p])'
      BY <1>1, <2>1, <2>2, <2>3 DEF CallInv
    <2> QED
      BY <2>1, <2>2, <2>4, RequestStays
  <1> QED
    BY <1>4, <1>5, <1>6, <1>7, <1>8, <1>9, <1>10, <1>11, <1>12

LEMMA AnswerHolds ==
    ASSUME HostInv, Mode("mount"), MountInv, NEW p \in config.callers, config' = config, Answer(p)
    PROVE  MountInv'
  <1> DEFINE c == calls[p]
  <1>1. /\ c.step = "attr" /\ End(p) /\ UNCHANGED <<jobs, grown, open, puts, tree, saved, past>>
        /\ floor' = IF c.op = "mkdir" THEN floor
                    ELSE With(floor, c.path, IF c.path \in DOMAIN floor /\ floor[c.path] > c.n
                                             THEN floor[c.path] ELSE c.n)
    BY DEF Answer, On, storeVars, fsVars
  <1>2. CallInv(c) /\ FloorInv
    BY DEF MountInv
  <1>3. c.op # "mkdir" => Holds(tree, c.path, c.n) /\ Kept(c.path, c.n)
    BY <1>1, <1>2 DEF CallInv
  <1>4. \A path \in DOMAIN floor' :
            Holds(tree, path, floor'[path]) /\ Kept(path, floor'[path])
    <2>1. CASE c.op = "mkdir"
      BY <1>1, <1>2, <2>1 DEF FloorInv
    <2>2. CASE c.op # "mkdir"
      BY <1>1, <1>2, <1>3, <2>2 DEF FloorInv, With
    <2> QED
      BY <2>1, <2>2
  <1>5. FloorInv'
    BY <1>1, <1>4 DEF FloorInv, Holds, Kept
  <1>6. \A path, k : Holds(tree, path, k) => Holds(tree, path, k)'
    BY <1>1 DEF Holds
  <1>7. \A path, k : Kept(path, k) => Kept(path, k)'
    BY <1>1 DEF Holds, Kept
  <1>8. CallInv(calls[p])' /\ \A q \in config.callers \ {p} : calls'[q] = calls[q]
    BY <1>1, EndForms DEF CallInv
  <1>9. ASSUME NEW q \in config.callers \ {p} PROVE CallInv(calls[q])'
    <2>1. CallInv(calls[q])
      BY DEF MountInv
    <2> QED
      BY <1>6, <1>7, <1>8, <2>1, CallsStay
  <1>10. PlainRoot' /\ ByteJobs' /\ OpenInv'
    BY <1>1 DEF MountInv, PlainRoot, PlainFiles, ByteJobs, OpenInv
  <1> QED
    BY <1>1, <1>5, <1>8, <1>9, <1>10 DEF MountInv

\* What has been put at x.
Earlier(x) == IF x \in DOMAIN puts THEN puts[x] ELSE <<>>

\* A file is put at x: nothing that was held is lost, and this put is held.
LEMMA PutIsHeld ==
    ASSUME HostInv, Mode("mount"), MountInv, NEW x, NEW h, IsContent(h),
           file_put(x, FileRef(h, Len(h), 0)), saved' = saved,
           puts' = With(puts, x, Append(Earlier(x), h))
    PROVE  /\ \A path, k : Holds(tree, path, k) => Holds(tree, path, k)'
           /\ \A path, k : Kept(path, k) => Kept(path, k)'
           /\ \A k : k = Len(puts'[x]) => Holds(tree, x, k)'
           /\ PlainRoot'
           /\ \A path \in DOMAIN puts' : IsContent(puts'[path])
  <1> DEFINE old == Earlier(x)
             new == Append(old, h)
  <1>2. IsContent(old)
    <2>1. IsContent(<<>>)
      BY DEF IsContent
    <2> QED
      BY <2>1 DEF MountInv, Earlier
  <1>3. /\ IsContent(new) /\ Len(new) = Len(old) + 1 /\ Len(old) \in Nat
        /\ \A n \in 1..Len(old) : new[n] = old[n]
        /\ new[Len(old) + 1] = h
    BY <1>2, AppendFacts, ContentFacts
  <1>4. /\ DOMAIN puts' = DOMAIN puts \cup {x} /\ puts'[x] = new
        /\ \A path \in DOMAIN puts \ {x} : puts'[path] = puts[path]
    BY DEF With
  <1>5. /\ tree'.files = [y \in DOMAIN tree.files \cup {x} |->
                             IF y = x THEN FileRef(h, Len(h), 0) ELSE tree.files[y]]
    BY DEF file_put, HostInv, Rooted, TreeFields, With
  <1>6. /\ DOMAIN tree'.files = DOMAIN tree.files \cup {x}
        /\ tree'.files[x].hash = h /\ tree'.files[x].size = Len(h)
        /\ tree'.files[x].locations = <<>>
        /\ \A path \in DOMAIN tree.files \ {x} : tree'.files[path] = tree.files[path]
    BY <1>5 DEF FileRef
  <1>8. x \in DOMAIN puts => old = puts[x]
    BY DEF Earlier
  <1> HIDE DEF new, old
  <1>7. \A k \in Nat \ {0} : k <= Len(new) => Holds(tree, x, k)'
    <2> SUFFICES ASSUME NEW k \in Nat \ {0}, k <= Len(new) PROVE Holds(tree, x, k)'
      OBVIOUS
    <2>1. Len(new) \in k..Len(new) /\ new[Len(new)] = h
      BY <1>3
    <2> QED
      BY <1>4, <1>6, <2>1 DEF Holds
  <1>9. ASSUME NEW path, NEW k, Holds(tree, path, k) PROVE Holds(tree, path, k)'
    <2>1. CASE path # x
      BY <1>4, <1>6, <1>9, <2>1 DEF Holds
    <2>2. CASE path = x
      <3>1. k \in Nat \ {0} /\ k <= Len(old)
        BY <1>3, <1>8, <1>9, <2>2 DEF Holds
      <3>2. k <= Len(new)
        BY <1>3, <3>1
      <3> QED
        BY <1>7, <2>2, <3>1, <3>2
    <2> QED
      BY <2>1, <2>2
  <1>10. ASSUME NEW path, NEW k, Holds(saved, path, k) PROVE Holds(saved, path, k)'
    <2>1. CASE path # x
      BY <1>4, <1>10, <2>1 DEF Holds
    <2>2. CASE path = x
      <3>1. PICK n \in k..Len(old) : saved.files[path].hash = old[n]
        BY <1>8, <1>10, <2>2 DEF Holds
      <3>2. n \in k..Len(new) /\ new[n] = old[n]
        BY <1>3, <1>10, <3>1 DEF Holds
      <3> QED
        BY <1>4, <1>10, <2>2, <3>1, <3>2 DEF Holds
    <2> QED
      BY <2>1, <2>2
  <1>12. \A k : k = Len(puts'[x]) => Holds(tree, x, k)'
    <2>1. Len(new) \in Nat \ {0} /\ Len(new) <= Len(new)
      BY <1>3
    <2> QED
      BY <1>4, <1>7, <2>1
  <1>15. PlainRoot'
    <2>1. past'.files \subseteq past.files \cup {<<x, FileRef(h, Len(h), 0)>>}
      BY DEF file_put, HostInv, Rooted, PastFields
    <2> QED
      BY <1>6, <2>1 DEF MountInv, PlainRoot, PlainFiles, FileRef
  <1>16. \A path \in DOMAIN puts' : IsContent(puts'[path])
    BY <1>3, <1>4 DEF MountInv
  <1> QED
    BY <1>9, <1>10, <1>12, <1>15, <1>16 DEF Kept

LEMMA PutReleasedHolds ==
    ASSUME HostInv, Mode("mount"), MountInv, NEW p \in config.callers, config' = config,
           PutReleased(p)
    PROVE  MountInv'
  <1> DEFINE c == calls[p]
             i == ReleaseId(c.fh)
             h == jobs[i].hash
  <1>1. /\ alive /\ c.step = "import" /\ c.op = "release" /\ i \in DOMAIN jobs
        /\ jobs' = Without(jobs, i) /\ UNCHANGED <<grown, open, floor>>
    BY DEF PutReleased, On, HostInv, MountIds
  <1>2. ByteJobs'
    BY <1>1 DEF MountInv, ByteJobs, Without
  <1>3. OpenInv'
    BY <1>1 DEF MountInv, OpenInv
  <1>4. CASE End(p) /\ UNCHANGED <<puts, fsVars>>
    <2>1. CallInv(calls[p])' /\ \A q \in config.callers \ {p} : calls'[q] = calls[q]
      BY <1>4, EndForms DEF CallInv
    <2>2. /\ \A path, k : Holds(tree, path, k) => Holds(tree, path, k)'
          /\ \A path, k : Kept(path, k) => Kept(path, k)'
      BY <1>4 DEF Holds, Kept, fsVars
    <2>3. PlainRoot' /\ \A path \in DOMAIN puts' : IsContent(puts'[path])
      BY <1>4 DEF MountInv, PlainRoot, PlainFiles, fsVars
    <2> QED
      BY <1>1, <1>2, <1>3, <2>1, <2>2, <2>3, MountStays
  <1>5. CASE /\ file_put(c.path, FileRef(h, Len(h), 0))
             /\ puts' = With(puts, c.path, Append(Earlier(c.path), h))
             /\ calls' = [calls EXCEPT ![p].step = "save", ![p].size = Len(h),
                                       ![p].n = Len(puts'[c.path])]
             /\ saved' = saved
    <2>1. IsContent(h)
      BY <1>1 DEF MountInv, ByteJobs, HostInv, StoreInv, JobOK
    <2>2. /\ \A path, k : Holds(tree, path, k) => Holds(tree, path, k)'
          /\ \A path, k : Kept(path, k) => Kept(path, k)'
          /\ \A x, k : x = c.path /\ k = Len(puts'[x]) => Holds(tree, x, k)'
          /\ PlainRoot'
          /\ \A path \in DOMAIN puts' : IsContent(puts'[path])
      BY <1>5, <2>1, PutIsHeld
    <2>3. /\ \A q \in config.callers \ {p} : calls'[q] = calls[q]
          /\ calls'[p].step = "save" /\ calls'[p].op = calls[p].op /\ calls'[p].path = calls[p].path
          /\ calls'[p].n = Len(puts'[calls[p].path])
      <3>1. DOMAIN calls = config.callers /\ DOMAIN calls[p] = CallFields
        BY CallForms
      <3> QED
        BY <1>5, <3>1 DEF CallFields
    <2>4. Holds(tree, calls[p].path, calls[p].n)'
      BY <2>2, <2>3
    <2>5. CallInv(calls[p])'
      BY <1>1, <2>3, <2>4 DEF CallInv
    <2> QED
      BY <1>1, <1>2, <1>3, <2>2, <2>3, <2>5, MountStays
  <1> QED
    BY <1>4, <1>5 DEF PutReleased, Earlier

\* Requests begin, and files are opened, written and handed over to be imported.
LEMMA OpenStepHolds ==
    ASSUME HostInv, Mode("mount"), MountInv, config' = config,
           UNCHANGED <<grown, puts, floor, tree, saved, past>>, ByteJobs', OpenInv',
           \A q \in config.callers : calls'[q] = calls[q]
                                     \/ calls'[q].step \in {"idle", "ensure", "import"}
                                     \/ (calls'[q].step = "cached" /\ calls'[q].op = "readdir")
                                     \/ (calls'[q].step = "mkdir" /\ calls'[q].op = "mkdir")
    PROVE  MountInv'
  <1>1. /\ \A path, k : Holds(tree, path, k) => Holds(tree, path, k)'
        /\ \A path, k : Kept(path, k) => Kept(path, k)'
    BY DEF Holds, Kept
  <1>2. \A q \in config.callers : calls'[q] = calls[q] \/ CallInv(calls[q])'
    BY DEF CallInv
  <1>3. PlainRoot' /\ \A path \in DOMAIN puts' : IsContent(puts'[path])
    BY DEF MountInv, PlainRoot, PlainFiles
  <1> QED
    BY <1>1, <1>2, <1>3, MountStays

LEMMA CreateHolds ==
    ASSUME HostInv, Mode("mount"), MountInv, NEW p \in config.callers, config' = config, create(p)
    PROVE  MountInv'
  <1>1. /\ End(p) /\ UNCHANGED <<puts, floor, storeVars, fsVars>>
        /\ open'.files = With(open.files, open.next, [path |-> calls[p].path, buf |-> <<>>])
    BY DEF create
  <1>2. IsContent(<<>>)
    BY DEF IsContent
  <1>3. OpenInv'
    BY <1>1, <1>2 DEF MountInv, OpenInv, With
  <1>4. ByteJobs'
    BY <1>1 DEF MountInv, ByteJobs, storeVars
  <1> QED
    BY <1>1, <1>3, <1>4, EndForms, OpenStepHolds DEF storeVars, fsVars

LEMMA WriteHolds ==
    ASSUME HostInv, Mode("mount"), MountInv, NEW fh \in DOMAIN open.files, NEW d \in config.contents,
           config' = config, write(fh, d)
    PROVE  MountInv'
  <1>1. UNCHANGED <<calls, puts, floor, storeVars, fsVars>>
        /\ open' = [open EXCEPT !.files[fh].buf = @ \o d]
    BY DEF write
  <1>2. IsContent(d)
    BY ModeFacts, HostAssumption
  <1>3. /\ DOMAIN open'.files = DOMAIN open.files
        /\ \A f \in DOMAIN open.files \ {fh} : open'.files[f] = open.files[f]
        /\ DOMAIN open'.files[fh] = {"path", "buf"}
        /\ open'.files[fh].buf = open.files[fh].buf \o d
    BY <1>1 DEF HostInv, MountIds, OpenFields, MountInv, OpenInv
  <1>4. IsContent(open.files[fh].buf \o d)
    BY <1>2, ConcatFacts DEF MountInv, OpenInv
  <1>5. OpenInv'
    BY <1>3, <1>4 DEF MountInv, OpenInv
  <1>6. ByteJobs'
    BY <1>1 DEF MountInv, ByteJobs, storeVars
  <1> QED
    BY <1>1, <1>5, <1>6, OpenStepHolds DEF storeVars, fsVars

LEMMA ReleaseHolds ==
    ASSUME HostInv, Mode("mount"), MountInv, NEW p \in config.callers, NEW fh \in DOMAIN open.files,
           config' = config, release(p, fh)
    PROVE  MountInv'
  <1>1. /\ Begin(p, "release", open.files[fh].path, "import", fh)
        /\ open' = [open EXCEPT !.files = Without(@, fh)]
        /\ jobs' = With(jobs, ReleaseId(fh), NewJob("bytes", config.dest, open.files[fh].buf))
        /\ UNCHANGED <<puts, floor, grown, fsVars>>
    BY DEF release
  <1>2. /\ DOMAIN calls = config.callers /\ \A q \in DOMAIN calls \ {p} : calls'[q] = calls[q]
        /\ calls'[p].step = "import"
    BY <1>1, BeginForms, CallForms
  <1>3. open'.files = Without(open.files, fh)
    BY <1>1 DEF HostInv, MountIds, OpenFields
  <1>4. OpenInv'
    BY <1>3 DEF MountInv, OpenInv, Without
  <1>5. ByteJobs'
    <2>1. /\ DOMAIN jobs' = DOMAIN jobs \cup {ReleaseId(fh)}
          /\ jobs'[ReleaseId(fh)].op = "bytes" /\ jobs'[ReleaseId(fh)].arg = open.files[fh].buf
          /\ \A i \in DOMAIN jobs \ {ReleaseId(fh)} : jobs'[i] = jobs[i]
      BY <1>1 DEF With, NewJob
    <2> QED
      BY <2>1 DEF MountInv, OpenInv, ByteJobs
  <1> QED
    BY <1>1, <1>2, <1>4, <1>5, OpenStepHolds DEF fsVars

LEMMA RequestHolds ==
    ASSUME HostInv, Mode("mount"), MountInv, NEW p \in config.callers, NEW op, NEW path,
           config' = config, Request(p, op, path)
    PROVE  MountInv'
  <1> DEFINE step == CASE op = "readdir" -> "cached" [] op = "mkdir" -> "mkdir" [] OTHER -> "ensure"
  <1>1. Begin(p, op, path, step, 0) /\ UNCHANGED <<open, puts, floor, storeVars, fsVars>>
    BY DEF Request
  <1>2. /\ step \in {"cached", "mkdir", "ensure"}
        /\ step = "cached" => op = "readdir"
        /\ step = "mkdir" => op = "mkdir"
    OBVIOUS
  <1> HIDE DEF step
  <1>3. /\ DOMAIN calls = config.callers /\ \A q \in DOMAIN calls \ {p} : calls'[q] = calls[q]
        /\ calls'[p].step = step /\ calls'[p].op = op
    BY <1>1, BeginForms, CallForms
  <1>4. ByteJobs' /\ OpenInv'
    BY <1>1 DEF MountInv, ByteJobs, OpenInv, storeVars
  <1> QED
    BY <1>1, <1>2, <1>3, <1>4, OpenStepHolds DEF storeVars, fsVars

\* Only a file can grow while it is imported.
LEMMA NothingGrows ==
    ASSUME NEW i \in DOMAIN jobs, jobs[i].op # "file", JobStep(i) \/ FailStep(i) \/ DropJob(i)
    PROVE  grown' = grown
  BY DEF JobStep, PutOutboard, CheckExists, PutTemp, compute_from_store, FileMetadata,
         PutTempFile, Rename, PutBlob, Discard, DeleteBlob, DeleteOutboard, FailStep, DropJob

LEMMA JobActionHolds ==
    ASSUME HostInv, Mode("mount"), MountInv, JobAction \/ Drop
    PROVE  MountInv'
  <1>1. UNCHANGED <<config, fsVars, fuseVars>>
    BY DEF JobAction, Drop
  <1>2. PICK i \in DOMAIN jobs : JobStep(i) \/ FailStep(i) \/ DropJob(i)
    <2>1. \A i \in DOMAIN config.calls : FALSE
      BY ModeFacts DEF Mode, Serving
    <2> QED
      BY <2>1 DEF JobAction, Drop
  <1>3. grown' = grown
    BY <1>2, NothingGrows DEF MountInv, ByteJobs
  <1>4. ByteJobs'
    <2>1. CASE JobStep(i) \/ FailStep(i)
      <3>1. /\ DOMAIN jobs' = DOMAIN jobs
            /\ \A k \in DOMAIN jobs : jobs'[k].op = jobs[k].op /\ jobs'[k].arg = jobs[k].arg
        BY <2>1, JobsStay DEF HostInv
      <3> QED
        BY <3>1 DEF MountInv, ByteJobs
    <2>2. CASE DropJob(i)
      BY <2>2 DEF DropJob, Without, MountInv, ByteJobs
    <2> QED
      BY <1>2, <2>1, <2>2
  <1>5. OpenInv'
    BY <1>1 DEF MountInv, OpenInv, fuseVars
  <1> QED
    BY <1>1, <1>3, <1>4, <1>5, OpenStepHolds DEF fuseVars, fsVars

\* The root is saved, or the process stops.
LEMMA SaveHolds ==
    ASSUME HostInv, Mode("mount"), MountInv, SaveAction \/ Crash \/ UNCHANGED vars
    PROVE  MountInv'
  <1>1. /\ UNCHANGED <<config, jobs, grown, fuseVars, tree, past>>
        /\ saved' = saved \/ save
    BY DEF SaveAction, AutoSave, Crash, vars, storeVars, fsVars, fuseVars
  <1>2. /\ \A path, k : Holds(tree, path, k) => Holds(tree, path, k)'
        /\ \A path, k : Holds(tree, path, k) /\ Kept(path, k) => Kept(path, k)'
        /\ PlainFiles(saved)'
    <2>1. CASE saved' = saved
      BY <1>1, <2>1 DEF Holds, Kept, fuseVars, MountInv, PlainRoot, PlainFiles
    <2>2. CASE save
      BY <1>1, <2>2, SaveKeeps DEF Holds, fuseVars
    <2> QED
      BY <1>1, <2>1, <2>2
  <1>3. PlainRoot' /\ \A path \in DOMAIN puts' : IsContent(puts'[path])
    BY <1>1, <1>2 DEF MountInv, PlainRoot, PlainFiles, fuseVars
  <1>4. ByteJobs' /\ OpenInv'
    BY <1>1 DEF MountInv, ByteJobs, OpenInv, fuseVars
  <1> QED
    BY <1>1, <1>2, <1>3, <1>4, MountStays DEF fuseVars

LEMMA RestartHolds ==
    ASSUME HostInv, Mode("mount"), MountInv, Restart
    PROVE  MountInv'
  <1>1. /\ UNCHANGED <<config, jobs, grown, saved, puts>>
        /\ tree' = saved /\ past'.files = Elsewhere(saved)
        /\ floor' = [x \in {y \in DOMAIN floor : Own(saved, y)} |-> floor[x]]
        /\ open' = [open EXCEPT !.files = Empty]
        /\ calls' = [p \in config.callers |-> Idle]
    BY DEF Restart, Opened, storeVars
  <1>2. FloorInv'
    <2>1. \A path, k : Len(path) <= 1 /\ Kept(path, k) => Holds(tree, path, k)' /\ Kept(path, k)'
      BY <1>1 DEF Holds, Kept
    <2>2. \A x \in DOMAIN floor' : x \in DOMAIN floor /\ Len(x) <= 1 /\ floor'[x] = floor[x]
      BY <1>1, OwnInMount
    <2>3. \A x, k : x \in DOMAIN floor' /\ k = floor'[x] => Holds(tree, x, k)' /\ Kept(x, k)'
      BY <2>1, <2>2 DEF MountInv, FloorInv
    <2> QED
      BY <2>3 DEF FloorInv, Holds, Kept
  <1>3. OpenInv'
    BY <1>1 DEF HostInv, MountIds, OpenFields, OpenInv, Empty
  <1>4. \A p \in config.callers : CallInv(calls[p])'
    BY <1>1 DEF CallInv, Idle
  <1>5. PlainRoot' /\ ByteJobs'
    BY <1>1, ElsewhereFacts DEF MountInv, PlainRoot, PlainFiles, ByteJobs
  <1> QED
    BY <1>1, <1>2, <1>3, <1>4, <1>5 DEF MountInv

LEMMA MountStarts ==
    ASSUME Init
    PROVE  MountInv
  <1>1. /\ config \in Configs /\ DOMAIN jobs = {} /\ grown = {} /\ DOMAIN floor = {} /\ DOMAIN puts = {}
        /\ DOMAIN open.files = {} /\ calls = [p \in config.callers |-> Idle]
        /\ tree = config.tree /\ saved = config.tree /\ past.files = Elsewhere(config.tree)
    BY DEF Init, StoreInit, FuseInit, FsInit, Empty
  <1>2. \A path \in DOMAIN config.tree.files : config.tree.files[path].locations = <<>>
    BY <1>1, HostAssumption
  <1>3. \A p \in config.callers : CallInv(calls[p])
    BY <1>1 DEF CallInv, Idle
  <1> QED
    BY <1>1, <1>2, <1>3, ElsewhereFacts DEF MountInv, ByteJobs, OpenInv, PlainRoot, PlainFiles, FloorInv

LEMMA MountInvMoves ==
    ASSUME HostInv, Mode("mount") => MountInv, [Next]_vars
    PROVE  (Mode("mount") => MountInv)'
  <1>1. config' = config /\ (Mode("mount"))' = Mode("mount")
    BY DEF Next, JobAction, FetchAction, ImportAction, MountAction, ClientAction, SaveAction,
           Crash, Drop, Restart, vars, Mode
  <1> SUFFICES ASSUME Mode("mount") PROVE MountInv'
    BY <1>1
  <1>2. MountInv
    OBVIOUS
  <1>3. ~Mode("fetch") /\ ~Mode("import") /\ ~Mode("client")
    BY DEF Mode
  <1>4. CASE JobAction \/ Drop
    BY <1>2, <1>4, JobActionHolds
  <1>5. CASE MountAction
    <2>1. ASSUME NEW p \in config.callers, FuseStep(p) PROVE MountInv'
      BY <1>1, <1>2, <2>1, ReadStepHolds, AnswerHolds, PutReleasedHolds, CreateHolds DEF FuseStep
    <2> QED
      BY <1>1, <1>2, <1>5, <2>1, RequestHolds, ReleaseHolds, WriteHolds DEF MountAction
  <1>6. CASE SaveAction \/ Crash \/ UNCHANGED vars
    BY <1>2, <1>6, SaveHolds
  <1>7. CASE Restart
    BY <1>2, <1>7, RestartHolds
  <1>8. ~FetchAction
    <2>1. fetch.step = "idle"
      BY <1>3 DEF HostInv, FetchIds
    <2> QED
      BY <1>3, <2>1 DEF FetchAction, FetchStep, CheckDestination, AskSource, ReadSource, SourceError,
                        StoreFetched
  <1> QED
    BY <1>3, <1>4, <1>5, <1>6, <1>7, <1>8 DEF Next, ImportAction, ClientAction

\* Outside of a mount no release answers.
LEMMA NoFloor == Spec => [](~Mode("mount") => DOMAIN floor = {})
  <1>1. Init => (~Mode("mount") => DOMAIN floor = {})
    BY DEF Init, FuseInit, Empty
  <1>2. (~Mode("mount") => DOMAIN floor = {}) /\ [Next]_vars => (~Mode("mount") => DOMAIN floor = {})'
    BY DEF Next, JobAction, FetchAction, ImportAction, MountAction, ClientAction, SaveAction,
           Crash, Drop, Restart, vars, Mode, fuseVars
  <1> QED
    BY <1>1, <1>2, PTL DEF Spec

LEMMA ReleasedIsDurableCorrect == Spec => []ReleasedIsDurable
  <1>1. Init => (Mode("mount") => MountInv)
    BY MountStarts
  <1>2. HostInv /\ (Mode("mount") => MountInv) /\ [Next]_vars => (Mode("mount") => MountInv)'
    BY MountInvMoves
  <1>3. HostInv /\ (Mode("mount") => MountInv) /\ (~Mode("mount") => DOMAIN floor = {})
          => ReleasedIsDurable
    <2>1. DOMAIN floor = {} => ReleasedIsDurable
      BY DEF ReleasedIsDurable
    <2> QED
      BY <2>1, ReleasedFollows
  <1> QED
    BY <1>1, <1>2, <1>3, HostInvariant, NoFloor, PTL DEF Spec

-----------------------------------------------------------------------------
(***************************************************************************)
(* Blocks.  A content that is cut into blocks and put together again is    *)
(* the same, and so are blocks that are put together and cut.  Both are    *)
(* shown by induction over the number of blocks, in the form that a set of *)
(* numbers has a least one.                                                *)
(***************************************************************************)
LEMMA Least ==
    ASSUME NEW T \in SUBSET Nat, T # {}
    PROVE  \E x \in T : \A y \in T : x <= y
  <1> DEFINE R == OpToRel(<, Nat)
  <1>1. IsWellFoundedOn(R, Nat)
    BY NatLessThanWellFounded
  <1>2. \A x, y \in Nat : x < y => <<x, y>> \in R
    BY DEF OpToRel
  <1> HIDE DEF R
  <1>3. PICK x \in T : \A y \in T : ~(<<y, x>> \in R)
    BY <1>1, WFMin
  <1>4. ASSUME NEW y \in T PROVE x <= y
    <2>1. ~(y < x)
      BY <1>2, <1>3
    <2> QED
      BY <2>1
  <1> QED
    BY <1>4

LEMMA Induct ==
    ASSUME NEW n \in Nat, NEW G, 1 \in G, \A m \in 2..n : m - 1 \in G => m \in G
    PROVE  \A i \in 1..n : i \in G
  <1> DEFINE T == {i \in 1..n : i \notin G}
  <1>1. SUFFICES ASSUME T # {} PROVE FALSE
    OBVIOUS
  <1>2. T \in SUBSET Nat
    OBVIOUS
  <1>3. PICK m \in T : \A k \in T : m <= k
    BY <1>1, <1>2, Least
  <1>4. m \in 2..n /\ m - 1 \in 1..n /\ m \notin G
    BY <1>3
  <1>5. m - 1 \notin T
    BY <1>3, <1>4
  <1> QED
    BY <1>4, <1>5

\* What is put together step by step.
Steps(f, X, n) == f = [i \in 1..n |-> IF i = 1 THEN X[i] ELSE f[i - 1] \o X[i]]

LEMMA StepsExist ==
    ASSUME NEW X, NEW n \in Nat \ {0}
    PROVE  \E f : Steps(f, X, n)
  <1> DEFINE T == {m \in Nat \ {0} : ~\E f : Steps(f, X, m)}
  <1>1. SUFFICES ASSUME T # {} PROVE FALSE
    OBVIOUS
  <1>2. PICK m \in T : \A k \in T : m <= k
    BY <1>1, Least
  <1>3. m # 1
    <2>1. Steps([i \in 1..1 |-> X[1]], X, 1)
      BY DEF Steps
    <2> QED
      BY <1>2, <2>1
  <1>4. m - 1 \in Nat \ {0} /\ m - 1 \notin T
    BY <1>2, <1>3
  <1>5. PICK f : Steps(f, X, m - 1)
    BY <1>4
  <1> DEFINE g == [i \in 1..m |-> IF i = m THEN f[m - 1] \o X[m] ELSE f[i]]
  <1>6. Steps(g, X, m)
    <2>1. f = [i \in 1..(m - 1) |-> IF i = 1 THEN X[i] ELSE f[i - 1] \o X[i]]
      BY <1>5 DEF Steps
    <2>2. ASSUME NEW i \in 1..m PROVE g[i] = IF i = 1 THEN X[i] ELSE g[i - 1] \o X[i]
      <3>1. CASE i = m
        <4>1. m - 1 \in 1..m /\ m - 1 # m
          BY <1>2, <1>3
        <4>2. g[m - 1] = f[m - 1]
          BY <4>1
        <4> QED
          BY <1>3, <3>1, <4>2
      <3>2. CASE i # m
        <4>1. i \in 1..(m - 1)
          BY <1>2, <3>2
        <4>2. f[i] = IF i = 1 THEN X[i] ELSE f[i - 1] \o X[i]
          BY <2>1, <4>1
        <4>3. i # 1 => g[i - 1] = f[i - 1]
          BY <1>2, <3>2, <4>1
        <4> QED
          BY <3>2, <4>2, <4>3
      <3> QED
        BY <3>1, <3>2
    <2> QED
      BY <2>2 DEF Steps
  <1> QED
    BY <1>2, <1>6

LEMMA FlattenSteps ==
    ASSUME NEW X, Len(X) \in Nat \ {0}
    PROVE  \E f : Steps(f, X, Len(X)) /\ Seqs!FlattenSeq(X) = f[Len(X)]
  <1>1. Seqs!FlattenSeq(X) = (CHOOSE f : Steps(f, X, Len(X)))[Len(X)]
    BY DEF Seqs!FlattenSeq, Steps
  <1>2. Steps(CHOOSE f : Steps(f, X, Len(X)), X, Len(X))
    BY StepsExist
  <1> QED
    BY <1>1, <1>2

\* How many blocks there are, and where they begin.
Times(i, d) == i * d

LEMMA TimesFacts ==
    ASSUME NEW i \in Nat, NEW d \in Nat
    PROVE  /\ Times(i, d) \in Nat /\ Times(0, d) = 0 /\ Times(1, d) = d
           /\ Times(i + 1, d) = Times(i, d) + d
  BY DEF Times

LEMMA TimesMono ==
    ASSUME NEW i \in Nat, NEW j \in Nat, i <= j, NEW d \in Nat
    PROVE  Times(i, d) <= Times(j, d)
  BY DEF Times

Count(l, d) == (l + d - 1) \div d

LEMMA CountFacts ==
    ASSUME NEW l \in Nat \ {0}, NEW d \in Nat \ {0}
    PROVE  /\ Count(l, d) \in Nat \ {0}
           /\ Times(Count(l, d) - 1, d) < l /\ l <= Times(Count(l, d), d)
  BY DEF Count, Times

LEMMA CountIs ==
    ASSUME NEW l \in Nat \ {0}, NEW d \in Nat \ {0}, NEW n \in Nat \ {0},
           Times(n - 1, d) < l, l <= Times(n, d)
    PROVE  Count(l, d) = n
  BY DEF Count, Times

\* The end of block i.
Upto(i, d, l) == IF Times(i, d) < l THEN Times(i, d) ELSE l

LEMMA BlocksFacts ==
    ASSUME NEW c, NEW d, Count(Len(c), d) \in Nat
    PROVE  /\ Len(Blocks(c, d)) = Count(Len(c), d)
           /\ DOMAIN Blocks(c, d) = 1..Count(Len(c), d)
           /\ \A i \in 1..Count(Len(c), d) :
                Blocks(c, d)[i] = SubSeq(c, Times(i - 1, d) + 1, Upto(i, d, Len(c)))
           /\ Blocks(c, d) = [i \in 1..Count(Len(c), d) |-> Blocks(c, d)[i]]
  <1> DEFINE n == Count(Len(c), d)
             B == [i \in 1..n |-> SubSeq(c, Times(i - 1, d) + 1, Upto(i, d, Len(c)))]
  <1>1. Blocks(c, d) = B
    BY DEF Blocks, Count, Times, Upto
  <1> HIDE DEF n
  <1>2. Len(B) = n /\ DOMAIN B = 1..n
    BY DEF n
  <1> QED
    BY <1>1, <1>2 DEF n

\* Parts of sequences.
LEMMA SameSeq ==
    ASSUME NEW S, NEW s \in Seq(S), NEW t \in Seq(S), Len(s) = Len(t),
           \A i \in 1..Len(t) : s[i] = t[i]
    PROVE  s = t
  OBVIOUS

LEMMA JoinParts ==
    ASSUME NEW c, IsContent(c), NEW x \in Nat, NEW y \in Nat, x <= y, y <= Len(c)
    PROVE  SubSeq(c, 1, x) \o SubSeq(c, x + 1, y) = SubSeq(c, 1, y)
  <1> DEFINE S == {c[i] : i \in DOMAIN c}
  <1>1. c \in Seq(S)
    BY DEF IsContent
  <1> HIDE DEF S
  <1>2. /\ SubSeq(c, 1, x) \in Seq(S) /\ Len(SubSeq(c, 1, x)) = x
        /\ SubSeq(c, x + 1, y) \in Seq(S) /\ Len(SubSeq(c, x + 1, y)) = y - x
        /\ SubSeq(c, 1, y) \in Seq(S) /\ Len(SubSeq(c, 1, y)) = y
        /\ \A i \in 1..x : SubSeq(c, 1, x)[i] = c[i]
        /\ \A i \in 1..(y - x) : SubSeq(c, x + 1, y)[i] = c[x + i]
        /\ \A i \in 1..y : SubSeq(c, 1, y)[i] = c[i]
    BY <1>1
  <1> DEFINE a == SubSeq(c, 1, x)
             b == SubSeq(c, x + 1, y)
             e == SubSeq(c, 1, y)
  <1>3. /\ a \in Seq(S) /\ Len(a) = x /\ b \in Seq(S) /\ Len(b) = y - x
        /\ e \in Seq(S) /\ Len(e) = y
        /\ \A i \in 1..x : a[i] = c[i]
        /\ \A i \in 1..(y - x) : b[i] = c[x + i]
        /\ \A i \in 1..y : e[i] = c[i]
    BY <1>2
  <1> HIDE DEF a, b, e
  <1>4. /\ a \o b \in Seq(S) /\ Len(a \o b) = y
        /\ \A i \in 1..y : (a \o b)[i] = IF i <= x THEN a[i] ELSE b[i - x]
    <2>1. Len(a) \in Nat /\ Len(b) \in Nat /\ x + (y - x) = y
      BY <1>3
    <2>2. a \o b \in Seq(S) /\ Len(a \o b) = Len(a) + Len(b)
      BY <1>3
    <2>3. \A i \in 1..(Len(a) + Len(b)) :
             (a \o b)[i] = IF i <= Len(a) THEN a[i] ELSE b[i - Len(a)]
      BY <1>3
    <2> QED
      BY <1>3, <2>1, <2>2, <2>3
  <1>5. \A i \in 1..y : (a \o b)[i] = e[i]
    <2> SUFFICES ASSUME NEW i \in 1..y PROVE (a \o b)[i] = e[i]
      OBVIOUS
    <2>1. CASE i <= x
      <3>1. i \in 1..x
        BY <2>1
      <3> QED
        BY <1>3, <1>4, <2>1, <3>1
    <2>2. CASE ~(i <= x)
      <3>1. i - x \in 1..(y - x) /\ x + (i - x) = i
        BY <2>2
      <3> QED
        BY <1>3, <1>4, <2>2, <3>1
    <2> QED
      BY <2>1, <2>2
  <1>6. a \o b = e
    BY <1>3, <1>4, <1>5
  <1> QED
    BY <1>6 DEF a, b, e

\* What is joined to a content leaves its parts where they were.
FrontKept(c, d) ==
    \A x, y \in Nat : x >= 1 /\ y <= Len(c) => SubSeq(c \o d, x, y) = SubSeq(c, x, y)

LEMMA PartsOfJoin ==
    ASSUME NEW c, IsContent(c), NEW d, IsContent(d)
    PROVE  /\ IsContent(c \o d) /\ Len(c \o d) = Len(c) + Len(d)
           /\ SubSeq(c \o d, Len(c) + 1, Len(c) + Len(d)) = d
           /\ FrontKept(c, d)
  <1> DEFINE S == {c[i] : i \in DOMAIN c} \cup {d[i] : i \in DOMAIN d}
             e == c \o d
  <1>1. c \in Seq(S) /\ d \in Seq(S)
    BY DEF IsContent
  <1> HIDE DEF S
  <1>2. /\ e \in Seq(S) /\ Len(e) = Len(c) + Len(d) /\ Len(c) \in Nat /\ Len(d) \in Nat
        /\ \A i \in 1..Len(c) : e[i] = c[i]
        /\ \A i \in 1..Len(d) : e[Len(c) + i] = d[i]
    BY <1>1
  <1> HIDE DEF e
  <1>3. SubSeq(e, Len(c) + 1, Len(c) + Len(d)) = d
    <2> DEFINE g == SubSeq(e, Len(c) + 1, Len(c) + Len(d))
    <2>1. /\ g \in Seq(S) /\ Len(g) = Len(d)
          /\ \A i \in 1..Len(d) : g[i] = e[Len(c) + i]
      BY <1>2
    <2> HIDE DEF g
    <2>2. \A i \in 1..Len(d) : g[i] = d[i]
      BY <1>2, <2>1
    <2>3. g = d
      BY <1>1, <2>1, <2>2, SameSeq
    <2> QED
      BY <2>3 DEF g
  <1>4. ASSUME NEW x \in Nat, NEW y \in Nat, x >= 1, y <= Len(c)
        PROVE  SubSeq(e, x, y) = SubSeq(c, x, y)
    <2> DEFINE g == SubSeq(e, x, y)
               h == SubSeq(c, x, y)
               l == IF x <= y THEN y - x + 1 ELSE 0
    <2>1. /\ g \in Seq(S) /\ Len(g) = l
          /\ \A i \in 1..l : g[i] = e[x + i - 1]
      BY <1>2, <1>4
    <2>2. /\ h \in Seq(S) /\ Len(h) = l
          /\ \A i \in 1..l : h[i] = c[x + i - 1]
      BY <1>1, <1>4
    <2>3. \A i \in 1..l : x + i - 1 \in 1..Len(c)
      BY <1>2, <1>4
    <2> HIDE DEF g, h, l
    <2>4. \A i \in 1..l : g[i] = h[i]
      BY <1>2, <2>1, <2>2, <2>3
    <2>5. g = h
      BY <2>1, <2>2, <2>4
    <2> QED
      BY <2>5 DEF g, h
  <1>5. IsContent(c \o d)
    BY ConcatFacts
  <1> QED
    BY <1>2, <1>3, <1>4, <1>5 DEF e, FrontKept

\* A content that is cut and put together.
LEMMA FrontOfCut ==
    ASSUME NEW c, IsContent(c), Len(c) # 0, NEW d \in Nat \ {0}, NEW k \in 1..Count(Len(c), d)
    PROVE  Seqs!FlattenSeq([i \in 1..k |-> Blocks(c, d)[i]]) = SubSeq(c, 1, Upto(k, d, Len(c)))
  <1> DEFINE l == Len(c)
             n == Count(l, d)
             B == Blocks(c, d)
             X == [i \in 1..k |-> B[i]]
  <1>1. l \in Nat \ {0}
    BY ContentFacts
  <1>2. n \in Nat \ {0} /\ Times(n - 1, d) < l /\ l <= Times(n, d)
    BY <1>1, CountFacts
  <1>9. k \in Nat \ {0} /\ k <= n
    BY <1>2
  <1>10. \A i \in 1..n : B[i] = SubSeq(c, Times(i - 1, d) + 1, Upto(i, d, l))
    BY <1>2, BlocksFacts
  <1> HIDE DEF l, n, B
  <1>3. /\ Len(X) = k
        /\ \A i \in 1..k : X[i] = SubSeq(c, Times(i - 1, d) + 1, Upto(i, d, l))
    BY <1>2, <1>9, <1>10
  <1> HIDE DEF X
  <1>4. PICK f : Steps(f, X, k) /\ Seqs!FlattenSeq(X) = f[k]
    BY <1>3, <1>9, FlattenSteps
  <1>5. \A i \in 1..k : f[i] = IF i = 1 THEN X[i] ELSE f[i - 1] \o X[i]
    BY <1>4 DEF Steps
  <1> DEFINE G == {i \in 1..k : f[i] = SubSeq(c, 1, Upto(i, d, l))}
  <1>6. \A i \in 1..k : i \in G
    <2>1. 1 \in G
      <3>1. Times(0, d) = 0 /\ 1 \in 1..k /\ 1 - 1 = 0 /\ 0 + 1 = 1
        BY <1>9, TimesFacts
      <3>2. f[1] = X[1] /\ X[1] = SubSeq(c, Times(1 - 1, d) + 1, Upto(1, d, l))
        BY <1>3, <1>5, <3>1
      <3> QED
        BY <3>1, <3>2
    <2>2. ASSUME NEW m \in 2..k, m - 1 \in G PROVE m \in G
      <3>1. /\ m \in 1..k /\ m - 1 \in 1..k /\ m - 1 \in Nat /\ n - 1 \in Nat
            /\ m - 1 <= n - 1 /\ (m - 1) + 1 = m /\ m # 1 /\ m \in Nat
        BY <1>2, <1>9
      <3>2. Times(m - 1, d) \in Nat /\ Times((m - 1) + 1, d) = Times(m - 1, d) + d
        BY <3>1, TimesFacts
      <3>3. Times(m - 1, d) <= Times(n - 1, d) /\ Times(n - 1, d) \in Nat
        BY <3>1, TimesFacts, TimesMono
      <3>4. Times(m, d) = Times(m - 1, d) + d
        BY <3>1, <3>2
      <3>5. Upto(m - 1, d, l) = Times(m - 1, d)
        BY <1>1, <1>2, <3>2, <3>3 DEF Upto
      <3>6. Upto(m, d, l) \in Nat /\ Times(m - 1, d) <= Upto(m, d, l) /\ Upto(m, d, l) <= l
        BY <1>1, <1>2, <3>2, <3>3, <3>4 DEF Upto
      <3>7. f[m - 1] = SubSeq(c, 1, Times(m - 1, d))
        BY <2>2, <3>5
      <3>8. f[m] = f[m - 1] \o X[m] /\ X[m] = SubSeq(c, Times(m - 1, d) + 1, Upto(m, d, l))
        BY <1>3, <1>5, <3>1
      <3>9. f[m] = SubSeq(c, 1, Upto(m, d, l))
        BY <3>2, <3>6, <3>7, <3>8, JoinParts, ZenonT(40) DEF l
      <3> QED
        BY <3>1, <3>9
    <2> HIDE DEF G
    <2> QED
      BY <1>9, <2>1, <2>2, Induct
  <1>7. f[k] = SubSeq(c, 1, Upto(k, d, l))
    BY <1>9, <1>6
  <1> QED
    BY <1>4, <1>7 DEF l, X, B

LEMMA CutAndJoin ==
    ASSUME NEW c, IsContent(c), Len(c) # 0, NEW d \in Nat \ {0}
    PROVE  Seqs!FlattenSeq(Blocks(c, d)) = c
  <1> DEFINE l == Len(c)
             n == Count(l, d)
  <1>1. l \in Nat \ {0} /\ SubSeq(c, 1, l) = c
    BY ContentFacts
  <1>2. n \in Nat \ {0} /\ l <= Times(n, d) /\ Times(n, d) \in Nat
    BY <1>1, CountFacts, TimesFacts
  <1>3. Blocks(c, d) = [i \in 1..n |-> Blocks(c, d)[i]]
    BY <1>2, BlocksFacts
  <1>4. Upto(n, d, l) = l
    BY <1>1, <1>2 DEF Upto
  <1>5. Seqs!FlattenSeq([i \in 1..n |-> Blocks(c, d)[i]]) = SubSeq(c, 1, Upto(n, d, l))
    BY <1>2, FrontOfCut
  <1> QED
    BY <1>1, <1>3, <1>4, <1>5

\* Blocks of length d, the last of which may be shorter, that are put together and cut.
LEMMA JoinAndCut ==
    ASSUME NEW n \in Nat \ {0}, NEW X, X = [i \in 1..n |-> X[i]], NEW d \in Nat \ {0},
           \A i \in 1..n : IsContent(X[i]) /\ Len(X[i]) # 0 /\ Len(X[i]) <= d,
           \A i \in 1..n : i < n => Len(X[i]) = d
    PROVE  /\ IsContent(Seqs!FlattenSeq(X)) /\ Len(Seqs!FlattenSeq(X)) # 0
           /\ Blocks(Seqs!FlattenSeq(X), d) = X
  <1>1. Len(X) = n
    OBVIOUS
  <1>2. PICK f : Steps(f, X, n) /\ Seqs!FlattenSeq(X) = f[n]
    BY <1>1, FlattenSteps
  <1>3. \A i \in 1..n : f[i] = IF i = 1 THEN X[i] ELSE f[i - 1] \o X[i]
    BY <1>2 DEF Steps
  <1>4. \A i \in 1..n : Len(X[i]) \in Nat
    BY ContentFacts
  <1> DEFINE Good(i) ==
               /\ IsContent(f[i]) /\ Len(f[i]) = Times(i - 1, d) + Len(X[i])
               /\ \A k \in 1..i :
                    SubSeq(f[i], Times(k - 1, d) + 1, Times(k - 1, d) + Len(X[k])) = X[k]
             G == {i \in 1..n : Good(i)}
  <1>5. \A i \in 1..n : i \in G
    <2>1. 1 \in G
      <3>1. f[1] = X[1] /\ 1 \in 1..n /\ Times(0, d) = 0
        <4>1. 1 \in 1..n /\ d \in Nat
          OBVIOUS
        <4>2. Times(0, d) = 0
          BY <4>1, TimesFacts
        <4> QED
          BY <1>3, <4>1, <4>2
      <3>2. IsContent(X[1]) /\ SubSeq(X[1], 1, Len(X[1])) = X[1] /\ Len(X[1]) \in Nat
        BY <3>1, ContentFacts
      <3>3. 1 - 1 = 0 /\ 1..1 = {1} /\ 0 + 1 = 1 /\ 0 + Len(X[1]) = Len(X[1])
        BY <3>2
      <3>4. Good(1)
        BY <3>1, <3>2, <3>3
      <3> QED
        BY <3>1, <3>4
    <2>2. ASSUME NEW m \in 2..n, m - 1 \in G PROVE m \in G
      <3>1. /\ m \in 1..n /\ m - 1 \in 1..n /\ m - 1 < n /\ m \in Nat /\ m - 1 \in Nat /\ m # 1
            /\ (m - 1) - 1 \in Nat /\ ((m - 1) - 1) + 1 = m - 1
        OBVIOUS
      <3> DEFINE a == f[m - 1]
                 b == X[m]
      <3>2. f[m] = a \o b
        BY <1>3, <3>1
      <3>3. /\ IsContent(a) /\ Len(a) = Times((m - 1) - 1, d) + Len(X[m - 1])
            /\ \A k \in 1..(m - 1) :
                 SubSeq(a, Times(k - 1, d) + 1, Times(k - 1, d) + Len(X[k])) = X[k]
        BY <2>2
      <3>4. IsContent(b) /\ Len(b) \in Nat /\ Len(a) \in Nat
        BY <1>4, <3>1, <3>3, ContentFacts
      <3>5. Len(a) = Times(m - 1, d) /\ Times(m - 1, d) \in Nat
        <4>1. Len(X[m - 1]) = d
          BY <3>1
        <4>2. Times(((m - 1) - 1) + 1, d) = Times((m - 1) - 1, d) + d
          BY <3>1, TimesFacts
        <4> QED
          BY <3>1, <3>3, <3>4, <4>1, <4>2
      <3> HIDE DEF a, b
      <3>10. IsContent(a) /\ IsContent(b)
        BY <3>3, <3>4
      <3>6. /\ IsContent(a \o b) /\ Len(a \o b) = Len(a) + Len(b)
            /\ SubSeq(a \o b, Len(a) + 1, Len(a) + Len(b)) = b
            /\ \A x, y \in Nat : x >= 1 /\ y <= Len(a) => SubSeq(a \o b, x, y) = SubSeq(a, x, y)
        <4>1. /\ IsContent(a \o b) /\ Len(a \o b) = Len(a) + Len(b)
              /\ SubSeq(a \o b, Len(a) + 1, Len(a) + Len(b)) = b
          BY <3>10, PartsOfJoin
        <4>2. FrontKept(a, b)
          BY <3>10, PartsOfJoin
        <4> QED
          BY <4>1, <4>2 DEF FrontKept
      <3>7. ASSUME NEW k \in 1..m
            PROVE  SubSeq(f[m], Times(k - 1, d) + 1, Times(k - 1, d) + Len(X[k])) = X[k]
        <4>1. CASE k = m
          BY <3>2, <3>5, <3>6, <4>1 DEF b
        <4>2. CASE k # m
          <5>1. k \in 1..(m - 1) /\ k \in 1..n /\ k - 1 \in Nat /\ k <= m - 1 /\ (k - 1) + 1 = k /\ k \in Nat
            BY <3>1, <4>2
          <5>2. Times(k - 1, d) \in Nat /\ Times((k - 1) + 1, d) = Times(k - 1, d) + d
            BY <5>1, TimesFacts
          <5>3. Times(k, d) <= Times(m - 1, d) /\ Times(k, d) = Times(k - 1, d) + d
            BY <3>1, <5>1, <5>2, TimesMono
          <5>4. Len(X[k]) \in Nat /\ Len(X[k]) <= d
            BY <1>4, <5>1
          <5>5. /\ Times(k - 1, d) + 1 \in Nat /\ Times(k - 1, d) + 1 >= 1
                /\ Times(k - 1, d) + Len(X[k]) \in Nat /\ Times(k - 1, d) + Len(X[k]) <= Len(a)
            BY <3>5, <5>2, <5>3, <5>4
          <5>6. SubSeq(a, Times(k - 1, d) + 1, Times(k - 1, d) + Len(X[k])) = X[k]
            BY <3>3, <5>1
          <5> QED
            BY <3>2, <3>6, <5>5, <5>6
        <4> QED
          BY <4>1, <4>2
      <3>8. IsContent(f[m]) /\ Len(f[m]) = Times(m - 1, d) + Len(X[m])
        BY <3>2, <3>5, <3>6 DEF b
      <3>9. Good(m)
        BY <3>7, <3>8
      <3> QED
        BY <3>1, <3>9
    <2> HIDE DEF G
    <2> QED
      BY <2>1, <2>2, Induct
  <1>6. /\ n \in 1..n /\ IsContent(f[n]) /\ Len(f[n]) = Times(n - 1, d) + Len(X[n])
        /\ \A k \in 1..n :
             SubSeq(f[n], Times(k - 1, d) + 1, Times(k - 1, d) + Len(X[k])) = X[k]
    <2>1. n \in 1..n
      OBVIOUS
    <2>2. n \in G
      BY <1>5, <2>1
    <2> QED
      BY <2>1, <2>2
  <1> HIDE DEF Good, G
  <1> DEFINE e == f[n]
             l == Len(e)
  <1>7. /\ n \in 1..n /\ n - 1 \in Nat /\ (n - 1) + 1 = n
        /\ Len(X[n]) \in Nat /\ Len(X[n]) # 0 /\ Len(X[n]) <= d
        /\ Times(n - 1, d) \in Nat /\ Times(n, d) = Times(n - 1, d) + d
        /\ IsContent(e) /\ l = Times(n - 1, d) + Len(X[n])
    <2>1. n - 1 \in Nat /\ (n - 1) + 1 = n
      OBVIOUS
    <2>2. Times(n - 1, d) \in Nat /\ Times((n - 1) + 1, d) = Times(n - 1, d) + d
      BY <2>1, TimesFacts
    <2> QED
      BY <1>4, <1>6, <2>1, <2>2
  <1> HIDE DEF l
  <1>8. l \in Nat \ {0} /\ Times(n - 1, d) < l /\ l <= Times(n, d)
    BY <1>7
  <1>9. Count(l, d) = n
    BY <1>8, CountIs
  <1>10. /\ Blocks(e, d) = [i \in 1..n |-> Blocks(e, d)[i]]
         /\ \A i \in 1..n : Blocks(e, d)[i] = SubSeq(e, Times(i - 1, d) + 1, Upto(i, d, l))
    BY <1>9, BlocksFacts DEF l
  <1>11. ASSUME NEW i \in 1..n PROVE Upto(i, d, l) = Times(i - 1, d) + Len(X[i])
    <2>1. CASE i = n
      BY <1>7, <1>8, <2>1 DEF Upto
    <2>2. CASE i # n
      <3>1. i < n /\ i - 1 \in Nat /\ (i - 1) + 1 = i /\ i <= n - 1 /\ i \in Nat
        BY <2>2
      <3>2. Times(i, d) = Times(i - 1, d) + d /\ Times(i, d) <= Times(n - 1, d) /\ Len(X[i]) = d
            /\ Times(i, d) \in Nat
        BY <1>7, <3>1, TimesFacts, TimesMono
      <3>3. Times(i, d) < l
        BY <1>7, <1>8, <3>2
      <3> QED
        BY <3>2, <3>3 DEF Upto
    <2> QED
      BY <2>1, <2>2
  <1>12. \A i \in 1..n : Blocks(e, d)[i] = X[i]
    BY <1>6, <1>10, <1>11
  <1>13. Blocks(e, d) = X
    BY <1>10, <1>12
  <1> QED
    BY <1>2, <1>7, <1>8, <1>13 DEF l

\* What the blocks of a content are.
LEMMA PartFacts ==
    ASSUME NEW c, IsContent(c), NEW x \in Nat, NEW y \in Nat, x <= y, y <= Len(c)
    PROVE  IsContent(SubSeq(c, x + 1, y)) /\ Len(SubSeq(c, x + 1, y)) = y - x
  <1> DEFINE S == {c[i] : i \in DOMAIN c}
             e == SubSeq(c, x + 1, y)
             T == {e[i] : i \in DOMAIN e}
  <1>1. c \in Seq(S)
    BY DEF IsContent
  <1> HIDE DEF S
  <1>2. e \in Seq(S) /\ Len(e) = y - x
    BY <1>1
  <1> HIDE DEF e
  <1>3. DOMAIN e = 1..Len(e) /\ e = [i \in 1..Len(e) |-> e[i]] /\ Len(e) \in Nat
    BY <1>2
  <1>4. \A i \in 1..Len(e) : e[i] \in T
    BY <1>3
  <1> HIDE DEF T
  <1>5. e \in [1..Len(e) -> T]
    BY <1>3, <1>4
  <1>6. e \in Seq(T)
    BY <1>3, <1>5
  <1> QED
    BY <1>2, <1>6 DEF IsContent, T, e

LEMMA BlockLens ==
    ASSUME NEW c, IsContent(c), Len(c) # 0, NEW d \in Nat \ {0}
    PROVE  /\ Len(Blocks(c, d)) \in Nat \ {0}
           /\ DOMAIN Blocks(c, d) = 1..Len(Blocks(c, d))
           /\ Blocks(c, d) = [i \in 1..Len(Blocks(c, d)) |-> Blocks(c, d)[i]]
           /\ \A i \in 1..Len(Blocks(c, d)) :
                /\ IsContent(Blocks(c, d)[i]) /\ Len(Blocks(c, d)[i]) \in 1..d
                /\ i < Len(Blocks(c, d)) => Len(Blocks(c, d)[i]) = d
  <1> DEFINE l == Len(c)
             n == Count(l, d)
             X == Blocks(c, d)
  <1>1. l \in Nat \ {0}
    BY ContentFacts
  <1>2. n \in Nat \ {0} /\ Times(n - 1, d) < l /\ l <= Times(n, d)
    BY <1>1, CountFacts
  <1>3. /\ Len(X) = n /\ DOMAIN X = 1..n
        /\ \A i \in 1..n : X[i] = SubSeq(c, Times(i - 1, d) + 1, Upto(i, d, l))
        /\ X = [i \in 1..n |-> X[i]]
    BY <1>2, BlocksFacts
  <1> HIDE DEF n, X
  <1>4. ASSUME NEW i \in 1..n
        PROVE  IsContent(X[i]) /\ Len(X[i]) \in 1..d /\ (i < n => Len(X[i]) = d)
    <2>1. i - 1 \in Nat /\ n - 1 \in Nat /\ i - 1 <= n - 1 /\ i \in Nat /\ (i - 1) + 1 = i
      BY <1>2
    <2>2. Times(i - 1, d) \in Nat /\ Times((i - 1) + 1, d) = Times(i - 1, d) + d
      BY <2>1, TimesFacts
    <2>3. Times(i - 1, d) <= Times(n - 1, d) /\ Times(n - 1, d) \in Nat
      BY <2>1, TimesFacts, TimesMono
    <2>4. i < n => Times(i, d) <= Times(n - 1, d)
      <3>1. SUFFICES ASSUME i < n PROVE Times(i, d) <= Times(n - 1, d)
        OBVIOUS
      <3>2. i <= n - 1
        BY <1>2, <3>1
      <3> QED
        BY <2>1, <3>2, TimesMono
    <2>5. Times(i, d) = Times(i - 1, d) + d
      BY <2>1, <2>2
    <2> DEFINE y == Upto(i, d, l)
    <2>6. /\ y \in Nat /\ Times(i - 1, d) < y /\ y <= l /\ y <= Times(i - 1, d) + d
          /\ i < n => y = Times(i - 1, d) + d
      BY <1>1, <1>2, <2>2, <2>3, <2>4, <2>5 DEF Upto
    <2> HIDE DEF y
    <2>7. IsContent(SubSeq(c, Times(i - 1, d) + 1, y))
          /\ Len(SubSeq(c, Times(i - 1, d) + 1, y)) = y - Times(i - 1, d)
      BY <2>2, <2>6, PartFacts
    <2>8. y - Times(i - 1, d) \in 1..d /\ (i < n => y - Times(i - 1, d) = d)
      BY <2>2, <2>6
    <2>9. X[i] = SubSeq(c, Times(i - 1, d) + 1, y)
      BY <1>3 DEF y
    <2> QED
      BY <2>7, <2>8, <2>9
  <1> QED
    BY <1>2, <1>3, <1>4 DEF X

-----------------------------------------------------------------------------
(***************************************************************************)
(* Encryption.                                                             *)
(***************************************************************************)
LEMMA ChunkFacts ==
    ASSUME NEW key, NEW index, NEW chunk, IsContent(chunk)
    PROVE  /\ IsContent(encrypt_chunk(key, index, chunk))
           /\ Len(encrypt_chunk(key, index, chunk)) = Len(chunk) + 1
           /\ decrypt_chunk(key, index, encrypt_chunk(key, index, chunk)) = Data(chunk)
  <1> DEFINE body == [n \in 1..Len(chunk) |-> [key |-> key, nonce |-> index, at |-> n, byte |-> chunk[n]]]
             last == [key |-> key, nonce |-> index, tag |-> chunk]
             e == encrypt_chunk(key, index, chunk)
  <1>1. Len(chunk) \in Nat
    BY ContentFacts
  <1>2. IsContent(body) /\ Len(body) = Len(chunk)
    <2> DEFINE T == {body[i] : i \in DOMAIN body}
    <2>1. DOMAIN body = 1..Len(chunk) /\ Len(body) = Len(chunk) /\ body = [i \in 1..Len(chunk) |-> body[i]]
      BY <1>1
    <2>2. \A i \in 1..Len(chunk) : body[i] \in T
      BY <2>1
    <2> HIDE DEF body
    <2>3. body \in [1..Len(chunk) -> T]
      BY <2>1, <2>2
    <2>4. body \in Seq(T)
      BY <1>1, <2>3
    <2> QED
      BY <2>1, <2>4 DEF IsContent
  <1>3. e = Append(body, last)
    <2>1. e = body \o <<last>>
      BY DEF encrypt_chunk
    <2> HIDE DEF e, body, last
    <2>2. body \o <<last>> = Append(body, last)
      BY <1>2 DEF IsContent
    <2> QED
      BY <2>1, <2>2
  <1> HIDE DEF body
  <1>4. IsContent(e) /\ Len(e) = Len(chunk) + 1 /\ e[Len(e)] = last
    BY <1>2, <1>3, AppendFacts
  <1>5. "tag" \in DOMAIN last /\ last.tag = chunk
    OBVIOUS
  <1>6. decrypt_chunk(key, index, e) = Data(chunk)
    BY <1>4, <1>5 DEF decrypt_chunk
  <1> QED
    BY <1>4, <1>6

\* Only the last byte of an encrypted block is a tag.
LEMMA ChunkBody ==
    ASSUME NEW key, NEW index, NEW chunk, IsContent(chunk), NEW y \in 1..Len(chunk)
    PROVE  "tag" \notin DOMAIN encrypt_chunk(key, index, chunk)[y]
  <1> DEFINE body == [n \in 1..Len(chunk) |-> [key |-> key, nonce |-> index, at |-> n, byte |-> chunk[n]]]
             last == [key |-> key, nonce |-> index, tag |-> chunk]
  <1>1. Len(chunk) \in Nat
    BY ContentFacts
  <1>2. body[y] = [key |-> key, nonce |-> index, at |-> y, byte |-> chunk[y]]
    OBVIOUS
  <1>3. DOMAIN body[y] = {"key", "nonce", "at", "byte"}
    BY <1>2
  <1>4. encrypt_chunk(key, index, chunk)[y] = body[y]
    <2>1. encrypt_chunk(key, index, chunk) = body \o <<last>>
      BY DEF encrypt_chunk
    <2>2. Len(body) = Len(chunk) /\ body = [i \in 1..Len(chunk) |-> body[i]]
      BY <1>1
    <2> DEFINE S == {body[i] : i \in 1..Len(chunk)} \cup {last}
    <2> HIDE DEF body, last
    <2>4. body \in [1..Len(chunk) -> S] /\ last \in S
      BY <2>2
    <2> HIDE DEF S
    <2>3. body \in Seq(S) /\ last \in S
      BY <1>1, <2>4
    <2> QED
      BY <1>1, <2>1, <2>2, <2>3
  <1> QED
    BY <1>3, <1>4

\* The blocks of the first z bytes of e: they are those of e, except that the last one
\* may have lost its end.
CutBlocks(e, z, d) ==
    LET X == Blocks(e, d)
        Y == Blocks(SubSeq(e, 1, z), d)
    IN
    /\ z = 0 => DOMAIN Y = {}
    /\ z # 0 => \E k \in 1..Len(X) :
        /\ DOMAIN Y = 1..k
        /\ \A i \in 1..k : i < k => Y[i] = X[i]
        /\ Y[k] = X[k] \/ \E y \in 1..(Len(X[k]) - 1) : Len(Y[k]) = y /\ Y[k][y] = X[k][y]

LEMMA PartOfPart ==
    ASSUME NEW c, IsContent(c), NEW z \in Nat, z <= Len(c), NEW x \in Nat, NEW y \in Nat, x <= y, y <= z
    PROVE  SubSeq(SubSeq(c, 1, z), x + 1, y) = SubSeq(c, x + 1, y)
  <1> DEFINE S == {c[i] : i \in DOMAIN c}
             g == SubSeq(c, 1, z)
             s == SubSeq(g, x + 1, y)
             t == SubSeq(c, x + 1, y)
  <1>1. c \in Seq(S)
    BY DEF IsContent
  <1> HIDE DEF S
  <1>2. g \in Seq(S) /\ Len(g) = z /\ \A i \in 1..z : g[i] = c[i]
    BY <1>1
  <1>3. t \in Seq(S) /\ Len(t) = y - x /\ \A i \in 1..(y - x) : t[i] = c[x + i]
    BY <1>1
  <1> HIDE DEF g
  <1>4. s \in Seq(S) /\ Len(s) = y - x /\ \A i \in 1..(y - x) : s[i] = g[x + i]
    BY <1>2
  <1> HIDE DEF s, t
  <1>5. \A i \in 1..(y - x) : s[i] = t[i]
    BY <1>2, <1>3, <1>4
  <1>6. s = t
    BY <1>3, <1>4, <1>5, SameSeq
  <1> QED
    BY <1>6 DEF s, t, g

LEMMA CutsAreBlocks ==
    ASSUME NEW e, IsContent(e), Len(e) # 0, NEW z \in 0..Len(e), NEW d \in Nat \ {0}
    PROVE  CutBlocks(e, z, d)
  <1> DEFINE l == Len(e)
             n == Count(l, d)
             g == SubSeq(e, 1, z)
             X == Blocks(e, d)
             Y == Blocks(g, d)
  <1>1. l \in Nat \ {0} /\ z \in Nat /\ z <= l
    BY ContentFacts
  <1>2. IsContent(g) /\ Len(g) = z
    <2>1. 0 \in Nat /\ 0 <= z /\ 0 + 1 = 1 /\ z - 0 = z
      BY <1>1
    <2>2. IsContent(SubSeq(e, 0 + 1, z)) /\ Len(SubSeq(e, 0 + 1, z)) = z - 0
      BY <1>1, <2>1, PartFacts
    <2> QED
      BY <2>1, <2>2
  <1>3. n \in Nat \ {0} /\ Times(n - 1, d) < l /\ l <= Times(n, d)
    BY <1>1, CountFacts
  <1>4. /\ Len(X) = n
        /\ \A i \in 1..n : X[i] = SubSeq(e, Times(i - 1, d) + 1, Upto(i, d, l))
    BY <1>3, BlocksFacts
  <1> HIDE DEF l, n, g, X
  <1>5. CASE z = 0
    <2>1. Count(0, d) = 0
      BY DEF Count
    <2>2. Count(Len(g), d) = 0
      BY <1>2, <1>5, <2>1
    <2>3. DOMAIN Y = 1..0
      BY <2>2, BlocksFacts
    <2> QED
      BY <1>5, <2>3 DEF CutBlocks, g
  <1>6. CASE z # 0
    <2> DEFINE k == Count(z, d)
    <2>1. k \in Nat \ {0} /\ Times(k - 1, d) < z /\ z <= Times(k, d)
      BY <1>1, <1>6, CountFacts
    <2>2. /\ DOMAIN Y = 1..k
          /\ \A i \in 1..k : Y[i] = SubSeq(g, Times(i - 1, d) + 1, Upto(i, d, z))
      BY <1>2, <2>1, BlocksFacts
    <2> HIDE DEF k, Y
    <2>3. k <= n
      <3>1. SUFFICES ASSUME n <= k - 1 PROVE FALSE
        BY <1>3, <2>1
      <3>2. Times(n, d) <= Times(k - 1, d) /\ Times(n, d) \in Nat /\ Times(k - 1, d) \in Nat
        BY <1>3, <2>1, <3>1, TimesMono, TimesFacts
      <3> QED
        BY <1>1, <1>3, <2>1, <3>2
    <2>4. k \in 1..n
      BY <1>3, <2>1, <2>3
    <2>5. ASSUME NEW i \in 1..k
          PROVE  /\ i - 1 \in Nat /\ Times(i - 1, d) \in Nat /\ Times(i, d) = Times(i - 1, d) + d
                 /\ i < k => Times(i, d) < z
                 /\ Times(i - 1, d) < z
      <3>1. i - 1 \in Nat /\ (i - 1) + 1 = i /\ i - 1 <= k - 1 /\ k - 1 \in Nat /\ i \in Nat
        BY <2>1
      <3>5. Times(i - 1, d) \in Nat /\ Times((i - 1) + 1, d) = Times(i - 1, d) + d /\ Times(k - 1, d) \in Nat
        BY <3>1, TimesFacts
      <3>2. Times(i - 1, d) \in Nat /\ Times(i, d) = Times(i - 1, d) + d /\ Times(k - 1, d) \in Nat
        BY <3>1, <3>5
      <3>3. Times(i - 1, d) <= Times(k - 1, d)
        BY <3>1, TimesMono
      <3>4. i < k => Times(i, d) <= Times(k - 1, d)
        <4>1. SUFFICES ASSUME i < k PROVE Times(i, d) <= Times(k - 1, d)
          OBVIOUS
        <4>2. i <= k - 1
          BY <2>1, <4>1
        <4> QED
          BY <3>1, <4>2, TimesMono
      <3> QED
        BY <1>1, <2>1, <3>1, <3>2, <3>3, <3>4
    <2>6. ASSUME NEW i \in 1..k PROVE Y[i] = SubSeq(e, Times(i - 1, d) + 1, Upto(i, d, z))
      <3>1. Upto(i, d, z) \in Nat /\ Times(i - 1, d) <= Upto(i, d, z) /\ Upto(i, d, z) <= z
        BY <1>1, <2>5 DEF Upto
      <3>2. SubSeq(SubSeq(e, 1, z), Times(i - 1, d) + 1, Upto(i, d, z))
              = SubSeq(e, Times(i - 1, d) + 1, Upto(i, d, z))
        <4> DEFINE x == Times(i - 1, d)
                   y == Upto(i, d, z)
        <4>1. x \in Nat /\ y \in Nat /\ x <= y /\ y <= z /\ z \in Nat /\ z <= Len(e)
          BY <1>1, <2>5, <3>1 DEF l
        <4> HIDE DEF x, y
        <4>2. SubSeq(SubSeq(e, 1, z), x + 1, y) = SubSeq(e, x + 1, y)
          BY <4>1, PartOfPart
        <4> QED
          BY <4>2 DEF x, y
      <3> QED
        BY <2>2, <3>2 DEF g
    <2>7. ASSUME NEW i \in 1..k, i < k PROVE Y[i] = X[i]
      <3>1. Upto(i, d, z) = Upto(i, d, l)
        BY <1>1, <2>5, <2>7 DEF Upto
      <3>2. i \in 1..n
        BY <1>3, <2>1, <2>3
      <3>3. X[i] = SubSeq(e, Times(i - 1, d) + 1, Upto(i, d, l))
        BY <1>4, <3>2
      <3> QED
        BY <2>6, <3>1, <3>3
    <2>8. Y[k] = X[k] \/ \E y \in 1..(Len(X[k]) - 1) : Len(Y[k]) = y /\ Y[k][y] = X[k][y]
      <3> DEFINE x == Times(k - 1, d)
                 w == Upto(k, d, l)
      <3>1. k \in 1..k /\ Upto(k, d, z) = z
        BY <1>1, <2>1, <2>5 DEF Upto
      <3>2. /\ Y[k] = SubSeq(e, x + 1, z) /\ X[k] = SubSeq(e, x + 1, w)
            /\ x \in Nat /\ x < z /\ w \in Nat /\ z <= w /\ w <= l
        <4>1. Y[k] = SubSeq(e, x + 1, z)
          BY <2>6, <3>1
        <4>2. X[k] = SubSeq(e, x + 1, w)
          BY <1>4, <2>4
        <4>3. x \in Nat /\ x < z /\ w \in Nat /\ z <= w /\ w <= l
          BY <1>1, <2>1, <2>5, <3>1 DEF Upto
        <4> QED
          BY <4>1, <4>2, <4>3
      <3> HIDE DEF x, w
      <3>3. CASE z = w
        BY <3>2, <3>3
      <3>4. CASE z # w
        <4>1. e \in Seq({e[i] : i \in DOMAIN e})
          BY DEF IsContent
        <4>2. /\ Len(SubSeq(e, x + 1, z)) = z - x /\ Len(SubSeq(e, x + 1, w)) = w - x
              /\ SubSeq(e, x + 1, z)[z - x] = e[z] /\ SubSeq(e, x + 1, w)[z - x] = e[z]
          BY <1>1, <3>2, <3>4, <4>1 DEF l
        <4> QED
          BY <3>2, <3>4, <4>2, SMTT(30)
      <3> QED
        BY <3>3, <3>4
    <2> QED
      BY <1>4, <1>6, <2>2, <2>4, <2>7, <2>8 DEF CutBlocks, g, X, Y
  <1> QED
    BY <1>5, <1>6

LEMMA DataFacts ==
    /\ \A c : Data(c) # Failed /\ Data(c) # Gone /\ Data(c).data = c
    /\ \A c, d : Data(c) = Data(d) => c = d
    /\ Gone # Failed
  <1>1. DOMAIN Gone = {"gone"} /\ DOMAIN Failed = {"failed"}
    BY DEF Gone, Failed
  <1>2. \A c : DOMAIN Data(c) = {"data"} /\ Data(c).data = c
    BY DEF Data
  <1>3. "gone" # "failed" /\ "gone" # "data" /\ "failed" # "data"
    OBVIOUS
  <1> QED
    BY <1>1, <1>2, <1>3

\* What was encrypted and can be downloaded is given back; the beginning of it fails, or
\* is given back as far as there are whole blocks.
LEMMA RoundTrip ==
    ASSUME config.block \in Nat \ {0}, NEW key, NEW c, IsContent(c), Len(c) # 0
    PROVE  /\ IsContent(Encrypted(key, c))
           /\ \A loc, m : /\ loc.key = key /\ loc.block = config.block
                          /\ download_bytes(loc.hash, m) = Data(Encrypted(key, c))
                          => download_encrypted_blob(loc, m) = Data(c)
           /\ \A loc, m : \A z \in 0..Len(Encrypted(key, c)) :
                /\ loc.key = key /\ loc.block = config.block
                /\ download_bytes(loc.hash, m) = Data(SubSeq(Encrypted(key, c), 1, z))
                => \/ download_encrypted_blob(loc, m) = Failed
                   \/ \E k \in 0..Len(c) : download_encrypted_blob(loc, m) = Data(SubSeq(c, 1, k))
  <1> DEFINE B == Blocks(c, config.block)
             n == Len(B)
             X == [i \in DOMAIN B |-> encrypt_chunk(key, i - 1, B[i])]
             d == config.block + 1
  <1>1. /\ n \in Nat \ {0} /\ DOMAIN B = 1..n /\ B = [i \in 1..n |-> B[i]]
        /\ \A i \in 1..n : /\ IsContent(B[i]) /\ Len(B[i]) \in 1..config.block
                           /\ i < n => Len(B[i]) = config.block
    BY BlockLens
  <1>2. Seqs!FlattenSeq(B) = c
    BY CutAndJoin
  <1>3. Encrypted(key, c) = Seqs!FlattenSeq(X)
    BY DEF Encrypted
  <1> HIDE DEF B, n
  <1>4. \A i \in 1..n :
          /\ X[i] = encrypt_chunk(key, i - 1, B[i])
          /\ IsContent(X[i]) /\ Len(X[i]) = Len(B[i]) + 1
          /\ decrypt_chunk(key, i - 1, X[i]) = Data(B[i])
    BY <1>1, ChunkFacts
  <1>5. X = [i \in 1..n |-> X[i]]
    BY <1>1
  <1> HIDE DEF X
  <1>6. \A i \in 1..n : /\ IsContent(X[i]) /\ Len(X[i]) # 0 /\ Len(X[i]) <= d
                        /\ i < n => Len(X[i]) = d
    BY <1>1, <1>4
  <1>7. d \in Nat \ {0}
    OBVIOUS
  <1> DEFINE e == Seqs!FlattenSeq(X)
  <1>8. IsContent(e) /\ Len(e) # 0 /\ Blocks(e, d) = X
    <2>1. (\A i \in 1..n : IsContent(X[i]) /\ Len(X[i]) # 0 /\ Len(X[i]) <= d)
          /\ (\A i \in 1..n : i < n => Len(X[i]) = d)
      BY <1>6
    <2> HIDE DEF d
    <2> QED
      BY <1>1, <1>5, <1>7, <2>1, JoinAndCut, Zenon
  <1> HIDE DEF e
  <1>9. ASSUME NEW loc, NEW m, loc.key = key, loc.block = config.block, download_bytes(loc.hash, m) = Data(e)
        PROVE  download_encrypted_blob(loc, m) = Data(c)
    <2> DEFINE plain == [i \in DOMAIN X |-> decrypt_chunk(key, i - 1, X[i])]
    <2>1. Blocks(e, loc.block + Overhead) = X
      BY <1>8, <1>9 DEF Overhead
    <2>2. DOMAIN X = 1..n
      BY <1>5
    <2>3. DOMAIN plain = 1..n /\ \A i \in 1..n : plain[i] = Data(B[i])
      BY <1>4, <2>2
    <2>4. Failed \notin {plain[i] : i \in DOMAIN plain}
      BY <2>3, DataFacts
    <2>5. [i \in DOMAIN plain |-> plain[i].data] = B
      BY <1>1, <2>3, DataFacts
    <2>6. Data(e) # Failed /\ Data(e).data = e
      BY DataFacts
    <2>7. download_encrypted_blob(loc, m) =
            IF Failed \in {plain[i] : i \in DOMAIN plain} THEN Failed
            ELSE Data(Seqs!FlattenSeq([i \in DOMAIN plain |-> plain[i].data]))
      BY <1>9, <2>1, <2>6 DEF download_encrypted_blob
    <2> QED
      BY <1>2, <2>4, <2>5, <2>7
  <1>10. ASSUME NEW loc, NEW m, NEW z \in 0..Len(e), loc.key = key, loc.block = config.block,
                download_bytes(loc.hash, m) = Data(SubSeq(e, 1, z))
         PROVE  \/ download_encrypted_blob(loc, m) = Failed
                \/ \E k \in 0..Len(c) : download_encrypted_blob(loc, m) = Data(SubSeq(c, 1, k))
    <2> DEFINE g == SubSeq(e, 1, z)
               Y == Blocks(g, d)
               plain == [i \in DOMAIN Y |-> decrypt_chunk(key, i - 1, Y[i])]
    <2>1. download_encrypted_blob(loc, m) =
            IF Failed \in {plain[i] : i \in DOMAIN plain} THEN Failed
            ELSE Data(Seqs!FlattenSeq([i \in DOMAIN plain |-> plain[i].data]))
      BY <1>10, DataFacts DEF download_encrypted_blob, Overhead
    <2>2. CutBlocks(e, z, d)
      BY <1>7, <1>8, CutsAreBlocks
    <2>3. CASE z = 0
      <3>1. DOMAIN Y = {}
        BY <1>7, <2>2, <2>3 DEF CutBlocks
      <3>2. [i \in DOMAIN plain |-> plain[i].data] = <<>>
        BY <3>1
      <3>3. Failed \notin {plain[i] : i \in DOMAIN plain}
        BY <3>1
      <3>4. Seqs!FlattenSeq(<<>>) = <<>>
        BY DEF Seqs!FlattenSeq
      <3>5. SubSeq(c, 1, 0) = <<>> /\ 0 \in 0..Len(c)
        BY ContentFacts DEF IsContent
      <3> QED
        BY <2>1, <3>2, <3>3, <3>4, <3>5
    <2>4. CASE z # 0
      <3>1. PICK k \in 1..n :
              /\ DOMAIN Y = 1..k
              /\ \A i \in 1..k : i < k => Y[i] = X[i]
              /\ Y[k] = X[k] \/ \E y \in 1..(Len(X[k]) - 1) : Len(Y[k]) = y /\ Y[k][y] = X[k][y]
        <4>1. Len(Blocks(e, d)) = n
          BY <1>1, <1>5, <1>8
        <4> HIDE DEF d
        <4> QED
          BY <1>8, <2>2, <2>4, <4>1 DEF CutBlocks
      <3>2. k \in Nat \ {0} /\ k \in 1..k
        BY <1>1
      <3> HIDE DEF Y
      <3>3. CASE Y[k] = X[k]
        <4>1. \A i \in 1..k : plain[i] = Data(B[i])
          BY <1>1, <1>4, <3>1, <3>2, <3>3
        <4>2. DOMAIN plain = 1..k
          BY <3>1
        <4> HIDE DEF plain
        <4>3. Failed \notin {plain[i] : i \in DOMAIN plain}
          BY <4>1, <4>2, DataFacts
        <4>4. [i \in DOMAIN plain |-> plain[i].data] = [i \in 1..k |-> B[i]]
          BY <4>1, <4>2, DataFacts
        <4>5. Len(c) \in Nat \ {0} /\ Count(Len(c), config.block) = n
          BY ContentFacts, CountFacts, BlocksFacts DEF n, B
        <4>6. Seqs!FlattenSeq([i \in 1..k |-> B[i]]) = SubSeq(c, 1, Upto(k, config.block, Len(c)))
          BY <4>5, FrontOfCut DEF B
        <4>8. Times(k, config.block) \in Nat
          BY <3>2, TimesFacts
        <4>7. Upto(k, config.block, Len(c)) \in 0..Len(c)
          BY <4>5, <4>8 DEF Upto
        <4> QED
          BY <2>1, <4>3, <4>4, <4>6, <4>7
      <3>4. CASE Y[k] # X[k]
        <4>1. PICK y \in 1..(Len(X[k]) - 1) : Len(Y[k]) = y /\ Y[k][y] = X[k][y]
          BY <3>1, <3>4
        <4>2. y \in 1..Len(B[k])
          BY <1>1, <1>4, <4>1
        <4>3. "tag" \notin DOMAIN X[k][y]
          BY <1>1, <1>4, <4>2, ChunkBody
        <4>4. decrypt_chunk(key, k - 1, Y[k]) = Failed
          BY <4>1, <4>3 DEF decrypt_chunk
        <4>5. plain[k] = Failed /\ k \in DOMAIN plain
          BY <3>1, <3>2, <4>4
        <4> QED
          BY <2>1, <4>5
      <3> QED
        BY <3>3, <3>4
    <2> QED
      BY <2>3, <2>4
  <1> QED
    BY <1>3, <1>8, <1>9, <1>10 DEF e

-----------------------------------------------------------------------------
\* The client.

LEMMA ClientNames ==
    ASSUME HostInv, Mode("client")
    PROVE  \A t, path : path \in config.paths => Own(t, path)
  <1>1. config \in Configs /\ config.mode = "client"
    BY ModeFacts DEF Mode
  <1>2. \A path \in config.paths : Len(path) = 1
    BY <1>1, HostAssumption
  <1> QED
    BY <1>2 DEF Own

\* The files of a client are entries of the root itself, and every save writes them.
LEMMA ClientOwns ==
    ASSUME HostInv, Mode("client"), NEW t, GoodTree(t)
    PROVE  Elsewhere(t) = {} /\ \A x \in DOMAIN t.files : Own(t, x)
  <1>1. \A x \in DOMAIN t.files : Own(t, x)
    BY ClientNames DEF GoodTree
  <1> QED
    BY <1>1, ElsewhereFacts

LEMMA ClientSaves ==
    ASSUME HostInv, Mode("client"), ClientInv, save
    PROVE  GoodTree(saved') /\ \A x : Entry(saved', x) = Entry(tree, x)
  <1>1. \A x \in DOMAIN tree.files : Own(tree, x)
    BY ClientOwns DEF ClientInv
  <1>2. /\ DOMAIN saved'.files = DOMAIN tree.files
        /\ \A x \in DOMAIN saved'.files : saved'.files[x] = tree.files[x]
    BY <1>1, SaveFacts DEF ClientInv
  <1> QED
    BY <1>2 DEF ClientInv, GoodTree, Entry

LEMMA BlobsAreRead ==
    ASSUME HostInv, grown = {}, NEW h, IsContent(h), contains(config.dest, h)
    PROVE  /\ Length(h) = Len(h) /\ Len(h) \in Nat
           /\ download_bytes(h, Len(h)) = Data(h)
           /\ \A n \in 0..Len(h) : download_bytes(h, n) = Data(SubSeq(h, 1, n))
  <1>1. objects[config.dest].blob3[h] = h
    BY ModeFacts DEF HostInv, StoreInv, BlobsAreWhole, list_hashes, contains
  <1>2. Len(h) \in Nat /\ SubSeq(h, 1, Len(h)) = h
    BY ContentFacts
  <1>3. \A n \in 0..Len(h) : read_as_bytes(config.dest, h, 0, n) = SubSeq(h, 1, n)
    <2> SUFFICES ASSUME NEW n \in 0..Len(h) PROVE read_as_bytes(config.dest, h, 0, n) = SubSeq(h, 1, n)
      OBVIOUS
    <2>3. Len(h) \in Nat
      BY <1>2
    <2>1. n \in Nat /\ (n < Len(h) \/ n = Len(h))
      BY <2>3
    <2>2. 0 + n = n /\ 0 + 1 = 1
      BY <2>1
    <2> QED
      BY <1>1, <2>1, <2>2 DEF read_as_bytes
  <1>4. Length(h) = Len(h)
    BY <1>1 DEF Length, size
  <1>5. \A n \in 0..Len(h) : download_bytes(h, n) = Data(SubSeq(h, 1, n))
    BY <1>3 DEF download_bytes
  <1>6. Len(h) \in 0..Len(h)
    BY <1>2
  <1> QED
    BY <1>2, <1>4, <1>5, <1>6

\* What a download of a reference gives, whole or cut.
Gives(ref, c) ==
    /\ WholeLength(ref) \in Nat
    /\ download(ref, WholeLength(ref)) = Data(c)
    /\ \A n \in 0..WholeLength(ref) : download(ref, n) = Failed \/ PartOf(download(ref, n), Data(c))

LEMMA GoodRefsGive ==
    ASSUME HostInv, grown = {}, NEW ref, GoodRef(ref), RefStored(ref)
    PROVE  Gives(ref, ref.hash)
  <1>1. config.block \in Nat \ {0} /\ config.inline \in Nat
    BY ModeFacts, HostAssumption
  <1>4. ASSUME NEW c, IsContent(c), NEW v, NEW n \in 0..Len(c), v = Data(SubSeq(c, 1, n))
        PROVE  PartOf(v, Data(c))
    BY <1>4, DataFacts DEF PartOf
  <1>2. CASE ref.locations = <<>> /\ IsContent(ref.hash)
    <2> DEFINE h == ref.hash
    <2>1. /\ Length(h) = Len(h) /\ Len(h) \in Nat
          /\ download_bytes(h, Len(h)) = Data(h)
          /\ \A n \in 0..Len(h) : download_bytes(h, n) = Data(SubSeq(h, 1, n))
      BY <1>2, BlobsAreRead DEF RefStored
    <2>2. Known(ref) = {}
      BY <1>2 DEF Known
    <2>3. WholeLength(ref) = Len(h) /\ \A n : download(ref, n) = download_bytes(h, n)
      BY <2>1, <2>2 DEF download, WholeLength
    <2>4. \A n \in 0..Len(h) : PartOf(download(ref, n), Data(h))
      BY <1>2, <1>4, <2>1, <2>3
    <2> QED
      BY <2>1, <2>3, <2>4 DEF Gives
  <1>3. ASSUME NEW c, NEW id, IsContent(c), ref = NewRef(c, id)
        PROVE  Gives(ref, ref.hash)
    <2> DEFINE loc == IF Inline(c) THEN [kind |-> "identity", data |-> c]
                      ELSE [kind |-> "encrypted", hash |-> Encrypted(id, c), key |-> id,
                            block |-> config.block]
    <2>1. ref.locations = <<loc>> /\ ref.hash = c
      BY <1>3 DEF NewRef, FileRef
    <2>2. /\ Inline(c) => loc.kind = "identity" /\ loc.data = c
          /\ ~Inline(c) => /\ loc.kind = "encrypted" /\ loc.hash = Encrypted(id, c) /\ loc.key = id
                           /\ loc.block = config.block
      OBVIOUS
    <2> HIDE DEF loc
    <2>3. DOMAIN <<loc>> = {1} /\ <<loc>>[1] = loc
      OBVIOUS
    <2>4. Known(ref) = {1} /\ ref.locations[1] = loc
      BY <2>1, <2>2, <2>3 DEF Known
    <2>5. First(ref) = loc
      <3>1. (CHOOSE n \in Known(ref) : \A m \in Known(ref) : n <= m) = 1
        BY <2>4
      <3> QED
        BY <2>4, <3>1 DEF First
    <2>6. /\ \A n : download(ref, n) = IF loc.kind = "identity" THEN Data(loc.data)
                                       ELSE download_encrypted_blob(loc, n)
          /\ WholeLength(ref) = IF loc.kind = "identity" THEN 0 ELSE Length(loc.hash)
      BY <2>4, <2>5 DEF download, WholeLength
    <2>10. Len(c) \in Nat /\ SubSeq(c, 1, Len(c)) = c
      BY <1>3, ContentFacts
    <2>7. CASE Inline(c)
      <3>1. WholeLength(ref) = 0 /\ \A n : download(ref, n) = Data(c)
        BY <2>2, <2>6, <2>7
      <3>3. Len(c) \in Nat /\ Data(c) = Data(SubSeq(c, 1, Len(c)))
        BY <2>10
      <3>4. Len(c) \in 0..Len(c)
        BY <3>3
      <3>2. PartOf(Data(c), Data(c))
        BY <1>3, <1>4, <3>3, <3>4
      <3> QED
        BY <2>1, <3>1, <3>2 DEF Gives
    <2>8. CASE ~Inline(c)
      <3> DEFINE e == Encrypted(id, c)
      <3>1. Len(c) # 0
        BY <1>1, <2>8, <2>10 DEF Inline
      <3>2. IsContent(e)
        BY <1>1, <1>3, <3>1, RoundTrip
      <3>3. contains(config.dest, loc.hash)
        BY <2>1, <2>2, <2>3, <2>8 DEF RefStored
      <3>7. loc.hash = e /\ loc.key = id /\ loc.block = config.block /\ loc.kind # "identity"
        BY <2>2, <2>8
      <3> HIDE DEF e
      <3>4. /\ Length(loc.hash) = Len(e) /\ Len(e) \in Nat
            /\ download_bytes(loc.hash, Len(e)) = Data(e)
            /\ \A n \in 0..Len(e) : download_bytes(loc.hash, n) = Data(SubSeq(e, 1, n))
        BY <3>2, <3>3, <3>7, BlobsAreRead
      <3>5. download_encrypted_blob(loc, Len(e)) = Data(c)
        BY <1>1, <1>3, <3>1, <3>4, <3>7, RoundTrip DEF e
      <3>6. ASSUME NEW n \in 0..Len(e)
            PROVE  download_encrypted_blob(loc, n) = Failed \/ PartOf(download_encrypted_blob(loc, n), Data(c))
        <4>1. \/ download_encrypted_blob(loc, n) = Failed
              \/ \E k \in 0..Len(c) : download_encrypted_blob(loc, n) = Data(SubSeq(c, 1, k))
          BY <1>1, <1>3, <3>1, <3>4, <3>7, RoundTrip DEF e
        <4> QED
          BY <1>3, <1>4, <4>1
      <3>8. WholeLength(ref) = Len(e) /\ \A n : download(ref, n) = download_encrypted_blob(loc, n)
        BY <2>6, <3>4, <3>7
      <3> QED
        BY <2>1, <3>4, <3>5, <3>6, <3>8 DEF Gives
    <2> QED
      BY <2>7, <2>8
  <1> QED
    BY <1>2, <1>3 DEF GoodRef

LEMMA ClientFollows ==
    ASSUME HostInv, Mode("client"), ClientInv
    PROVE  UploadedIsDurable /\ DownloadIsRight
  <1>1. UploadedIsDurable
    <2> SUFFICES ASSUME ~misled, NEW path \in DOMAIN answered
                 PROVE  \E n \in answered[path]..Len(log[path]) : Shown(saved, path) = log[path][n]
      BY DEF UploadedIsDurable
    <2>1. Seen(path, answered[path], Entry(saved, path))
      BY DEF ClientInv, LogInv
    <2>2. path \in DOMAIN saved.files => GoodRef(saved.files[path]) /\ RefStored(saved.files[path])
      BY DEF ClientInv, GoodTree, HostInv, Rooted
    <2>3. path \in DOMAIN saved.files => Gives(saved.files[path], saved.files[path].hash)
      BY <2>2, GoodRefsGive DEF ClientInv
    <2>4. Shown(saved, path) = Entry(saved, path)
      BY <2>3 DEF Shown, Entry, Gives
    <2> QED
      BY <2>1, <2>4 DEF Seen
  <1>2. DownloadIsRight
    <2> SUFFICES ASSUME loaded, ~misled PROVE DownloadIsRight
      BY DEF DownloadIsRight
    <2>1. DOMAIN asks = config.clients
      BY DEF HostInv, ClientIds
    <2> DEFINE Since(r, path) == {log[path][n] : n \in r.since[path]..Len(log[path])}
    <2>2. ASSUME NEW p \in config.clients, asks[p].step = "answer", NEW r, r = asks[p]
          PROVE  /\ r.op = "download" /\ r.cut =>
                      \E entry \in Since(r, r.path) : PartOf(r.result, entry)
                 /\ r.op = "download" /\ ~r.cut => r.result \in Since(r, r.path)
                 /\ \A x \in DOMAIN r.found : r.found[x] \in Since(r, x)
      <3>1. AskInv(r)
        BY <2>2 DEF ClientInv
      <3>2. \A path, k, v : Seen(path, k, v) => \E n \in k..Len(log[path]) : v = log[path][n]
        BY DEF Seen
      <3>3. r.op = "download" => Given(r.path, r.since[r.path], r.result, r.cut)
        BY <2>2, <3>1 DEF AskInv
      <3>4. r.op = "download" /\ r.cut => \E entry \in Since(r, r.path) : PartOf(r.result, entry)
        BY <3>2, <3>3 DEF Given
      <3>5. r.op = "download" /\ ~r.cut => r.result \in Since(r, r.path)
        BY <3>2, <3>3 DEF Given
      <3>6. \A x \in DOMAIN r.found : r.found[x] \in Since(r, x)
        BY <3>1, <3>2 DEF AskInv
      <3> QED
        BY <3>4, <3>5, <3>6
    <2> QED
      BY <2>1, <2>2, SMTT(30) DEF DownloadIsRight
  <1> QED
    BY <1>1, <1>2

LEMMA GoodRefsStay ==
    ASSUME config' = config
    PROVE  /\ \A ref : GoodRef(ref)' <=> GoodRef(ref)
           /\ \A t : GoodTree(t)' <=> GoodTree(t)
  <1>1. \A c, id : NewRef(c, id)' = NewRef(c, id)
    BY ClientStays DEF NewRef, Inline
  <1>2. \A ref : GoodRef(ref)' <=> GoodRef(ref)
    BY <1>1 DEF GoodRef
  <1> QED
    BY <1>2 DEF GoodTree

LEMMA AskStays ==
    ASSUME NEW r, AskInv(r), config' = config, DOMAIN log' = DOMAIN log,
           \A path \in DOMAIN log : /\ answered[path] \in Nat /\ answered'[path] \in Nat
                                   /\ answered[path] <= answered'[path],
           \A path, k, v : Seen(path, k, v) => Seen(path, k, v)',
           \A ref : RefStored(ref) => RefStored(ref)',
           \/ r.op = "idle"
           \/ /\ loaded' = loaded
              /\ \A path, k : Seen(path, k, Entry(tree, path)) => Seen(path, k, Entry(tree, path))'
    PROVE  AskInv(r)'
  <1>1. /\ r.step = "read" =>
            /\ GoodRef(r.ref)' /\ RefStored(r.ref)'
            /\ Seen(r.path, r.since[r.path], Data(r.ref.hash))'
        /\ \A x \in DOMAIN r.found : Seen(x, r.since[x], r.found[x])'
    BY GoodRefsStay DEF AskInv
  <1>4. r.step = "answer" /\ r.op = "download" /\ loaded' => Given(r.path, r.since[r.path], r.result, r.cut)'
    <2>1. Given(r.path, r.since[r.path], r.result, r.cut) => Given(r.path, r.since[r.path], r.result, r.cut)'
      BY DEF Given
    <2> QED
      BY <2>1 DEF AskInv
  <1>2. r.step = "save" /\ r.op # "mkdir" => Seen(r.path, r.n, Entry(tree, r.path))'
    BY DEF AskInv
  <1>3. r.op # "idle" => \A path \in DOMAIN log' : r.since[path] \in Nat \ {0} /\ r.since[path] <= answered'[path]
    BY DEF AskInv
  <1> QED
    BY <1>1, <1>2, <1>3, <1>4 DEF AskInv

LEMMA ClientKept ==
    ASSUME ClientInv, config' = config, grown' = grown, \A i \in DOMAIN jobs' : jobs'[i].op = "stream",
           GoodTree(tree'), GoodTree(saved'), past'.files = {},
           session' = "closed" => \A q \in config.clients : asks'[q].op = "idle",
           DOMAIN log' = DOMAIN log, DOMAIN answered' = DOMAIN answered,
           \A path \in DOMAIN log :
                /\ IsContent(log'[path])
                /\ answered'[path] \in Nat /\ answered[path] <= answered'[path]
                /\ Seen(path, answered[path], Entry(tree, path))'
                /\ Seen(path, answered[path], Entry(saved, path))',
           \A path, k, v : Seen(path, k, v) => Seen(path, k, v)',
           \A ref : RefStored(ref) => RefStored(ref)',
           \A q \in config.clients :
              \/ AskInv(asks[q])'
              \/ /\ asks'[q] = asks[q]
                 /\ \/ asks[q].op = "idle"
                    \/ /\ loaded' = loaded
                       /\ \A path, k : Seen(path, k, Entry(tree, path)) => Seen(path, k, Entry(tree, path))'
    PROVE  ClientInv'
  <1>1. GoodTree(tree)' /\ GoodTree(saved)'
    BY GoodRefsStay
  <1>2. ClientPaths' = ClientPaths
    BY DEF ClientPaths
  <1>3. \A path \in DOMAIN log : answered[path] \in Nat
    BY DEF ClientInv, LogInv, Seen
  <1>4. LogInv'
    <2>1. \A path \in DOMAIN log' : IsContent(log[path])'
      BY DEF IsContent
    <2> QED
      BY <1>2, <2>1 DEF ClientInv, LogInv
  <1>5. ASSUME NEW q \in config.clients PROVE AskInv(asks[q])'
    <2>1. AskInv(asks[q])
      BY DEF ClientInv
    <2>2. PICK r : r = asks[q]
      OBVIOUS
    <2>3. CASE AskInv(asks[q])'
      BY <2>3
    <2>4. CASE asks'[q] = asks[q] /\ ~AskInv(asks[q])'
      <3>1. \/ r.op = "idle"
            \/ /\ loaded' = loaded
               /\ \A path, k : Seen(path, k, Entry(tree, path)) => Seen(path, k, Entry(tree, path))'
        BY <2>2, <2>4
      <3>2. AskInv(r)'
        BY <1>3, <2>1, <2>2, <3>1, AskStays
      <3> QED
        BY <2>2, <2>4, <3>2
    <2> QED
      BY <2>3, <2>4
  <1> QED
    BY <1>1, <1>4, <1>5 DEF ClientInv

LEMMA QuietHolds ==
    /\ AskInv(Quiet) /\ Quiet.op = "idle" /\ AskInv(Quiet)'
    /\ Quiet.names = {} /\ Quiet.found = Empty /\ Quiet.result = Gone /\ Quiet.cut = FALSE
    /\ DOMAIN Quiet = AskFields
  <1>1. /\ Quiet.op = "idle" /\ Quiet.step = "idle" /\ Quiet.names = {} /\ DOMAIN Quiet.found = {}
        /\ Quiet.found = Empty /\ Quiet.result = Gone /\ Quiet.cut = FALSE /\ DOMAIN Quiet = AskFields
    BY DEF Quiet, Empty, AskFields
  <1> HIDE DEF Quiet
  <1> QED
    BY <1>1 DEF AskInv

\* The fields of a request after a step.
LEMMA AskGoes ==
    ASSUME HostInv, Mode("client"), NEW p \in config.clients
    PROVE  /\ \A step : Proceed(p, step) =>
                /\ \A q \in config.clients \ {p} : asks'[q] = asks[q]
                /\ asks'[p].step = step /\ asks'[p].op = asks[p].op /\ asks'[p].path = asks[p].path
                /\ asks'[p].data = asks[p].data /\ asks'[p].id = asks[p].id /\ asks'[p].n = asks[p].n
                /\ asks'[p].since = asks[p].since /\ asks'[p].ref = asks[p].ref
                /\ asks'[p].result = asks[p].result /\ asks'[p].cut = asks[p].cut /\ asks'[p].names = asks[p].names
                /\ asks'[p].found = asks[p].found
           /\ Done(p) =>
                /\ \A q \in config.clients \ {p} : asks'[q] = asks[q]
                /\ asks'[p] = Quiet
  <1>1. DOMAIN asks = config.clients /\ DOMAIN asks[p] = AskFields
    BY AskForms
  <1>2. ASSUME NEW step, Proceed(p, step)
        PROVE  /\ \A q \in config.clients \ {p} : asks'[q] = asks[q]
               /\ asks'[p].step = step /\ asks'[p].op = asks[p].op /\ asks'[p].path = asks[p].path
               /\ asks'[p].data = asks[p].data /\ asks'[p].id = asks[p].id /\ asks'[p].n = asks[p].n
               /\ asks'[p].since = asks[p].since /\ asks'[p].ref = asks[p].ref
               /\ asks'[p].result = asks[p].result /\ asks'[p].cut = asks[p].cut /\ asks'[p].names = asks[p].names
               /\ asks'[p].found = asks[p].found
    BY <1>1, <1>2 DEF Proceed, AskFields
  <1>3. Done(p) =>
          /\ \A q \in config.clients \ {p} : asks'[q] = asks[q]
          /\ asks'[p] = Quiet
    BY <1>1 DEF Done
  <1> QED
    BY <1>2, <1>3

LEMMA ClientLog ==
    ASSUME Mode("client"), ClientInv, NEW p \in config.clients
    PROVE  /\ DOMAIN log = config.paths /\ DOMAIN answered = config.paths
           /\ \A path \in DOMAIN log : answered[path] \in Nat \ {0} /\ IsContent(log[path])
           /\ AskInv(asks[p])
  <1>1. ClientPaths = config.paths
    BY DEF ClientPaths
  <1> QED
    BY <1>1 DEF ClientInv, LogInv, Seen

\* A step of one request, or of the store, that leaves the files alone.
LEMMA FilesAreLeft ==
    ASSUME HostInv, Mode("client"), ClientInv, config' = config, grown' = grown,
           \A i \in DOMAIN jobs' : jobs'[i].op = "stream",
           UNCHANGED <<session, loaded, misled, log, answered>>, tree'.files = tree.files,
           past'.files = {}, GoodTree(saved'),
           \A x : Entry(saved', x) = Entry(saved, x) \/ Entry(saved', x) = Entry(tree, x),
           \A ref : RefStored(ref) => RefStored(ref)',
           session = "closed" => \A q \in config.clients : asks'[q].op = "idle",
           \A q \in config.clients : asks'[q] = asks[q] \/ AskInv(asks[q])'
    PROVE  ClientInv'
  <1>1. \A path : Entry(tree', path) = Entry(tree, path)
    BY DEF Entry
  <1>2. \A path, k, v : Seen(path, k, v) => Seen(path, k, v)'
    BY DEF Seen
  <1>3. \A path, k : Seen(path, k, Entry(tree, path)) => Seen(path, k, Entry(tree, path))'
    BY <1>1 DEF Seen
  <1>4. \A path \in DOMAIN log :
            /\ IsContent(log'[path])
            /\ answered'[path] \in Nat /\ answered[path] <= answered'[path]
            /\ Seen(path, answered[path], Entry(tree, path))'
            /\ Seen(path, answered[path], Entry(saved, path))'
    <2> SUFFICES ASSUME NEW path \in DOMAIN log
                 PROVE  /\ IsContent(log'[path])
                        /\ answered'[path] \in Nat /\ answered[path] <= answered'[path]
                        /\ Seen(path, answered[path], Entry(tree, path))'
                        /\ Seen(path, answered[path], Entry(saved, path))'
      OBVIOUS
    <2>1. /\ IsContent(log[path]) /\ Seen(path, answered[path], Entry(tree, path))
          /\ Seen(path, answered[path], Entry(saved, path))
      BY DEF ClientInv, LogInv
    <2>2. answered[path] \in Nat
      BY <2>1 DEF Seen
    <2>4. Entry(saved', path) = Entry(saved, path) \/ Entry(saved', path) = Entry(tree, path)
      OBVIOUS
    <2>3. Seen(path, answered[path], Entry(tree, path))' /\ Seen(path, answered[path], Entry(saved, path))'
      BY <1>1, <2>1, <2>4 DEF Seen
    <2> QED
      BY <2>1, <2>2, <2>3
  <1>5. GoodTree(tree') /\ GoodTree(saved')
    BY DEF ClientInv, GoodTree
  <1> QED
    BY <1>2, <1>3, <1>4, <1>5, ClientKept

LEMMA AskHolds ==
    ASSUME HostInv, Mode("client"), ClientInv, NEW p \in config.clients,
           NEW op \in {"upload", "download", "delete", "mkdir", "list"}, NEW path, NEW c,
           op \in {"upload", "download", "delete"} => path \in config.paths,
           op = "upload" => IsContent(c),
           Ask(p, op, path, c), config' = config
    PROVE  ClientInv'
  <1> DEFINE step == IF op = "upload" THEN IF Inline(c) THEN "put" ELSE "send" ELSE op
             r == [Quiet EXCEPT !.op = op, !.path = path, !.data = c, !.id = asked + 1,
                                !.since = answered, !.step = step]
  <1>1. DOMAIN asks = config.clients
    BY DEF HostInv, ClientIds
  <1>2. /\ session = "open" /\ asks' = [asks EXCEPT ![p] = r]
        /\ UNCHANGED <<session, loaded, misled, log, answered, storeVars, fsVars>>
    BY DEF Ask
  <1>3. /\ r.op = op /\ r.path = path /\ r.step = step /\ r.data = c /\ r.since = answered
        /\ r.names = {} /\ r.found = Empty /\ r.result = Gone /\ r.cut = FALSE
    BY DEF Quiet
  <1>4. /\ step \in {"put", "send"} => op = "upload"
        /\ op # "upload" => step = op
        /\ op = "upload" => step \in {"put", "send"}
    OBVIOUS
  <1> HIDE DEF r, step
  <1>5. asks'[p] = r /\ \A q \in config.clients \ {p} : asks'[q] = asks[q]
    BY <1>1, <1>2
  <1>6. AskInv(r)
    <2>1. DOMAIN log = config.paths /\ \A x \in DOMAIN log : answered[x] \in Nat \ {0}
      BY ClientLog
    <2>2. step \notin {"sent", "read", "save", "answer", "idle", "entries"}
      BY <1>4
    <2>3. DOMAIN r.found = {}
      BY <1>3 DEF Empty
    <2> QED
      BY <1>3, <1>4, <2>1, <2>2, <2>3 DEF AskInv
  <1>7. AskInv(asks[p])'
    <2>1. PICK s : s = r
      OBVIOUS
    <2>2. UNCHANGED <<loaded, misled, log, answered, tree, config, objects>>
      BY <1>2 DEF fsVars, storeVars
    <2>3. \A ref : RefStored(ref) => RefStored(ref)'
      BY <2>2 DEF RefStored, contains
    <2>4. \A x, k, v : Seen(x, k, v) => Seen(x, k, v)'
      BY <2>2 DEF Seen
    <2>5. \A x, k : Seen(x, k, Entry(tree, x)) => Seen(x, k, Entry(tree, x))'
      BY <2>2 DEF Seen, Entry
    <2>6. \A x \in DOMAIN log : /\ answered[x] \in Nat /\ answered'[x] \in Nat
                               /\ answered[x] <= answered'[x]
      BY <2>2, ClientLog
    <2>7. AskInv(s)'
      BY <1>6, <2>1, <2>2, <2>3, <2>4, <2>5, <2>6, AskStays
    <2> QED
      BY <1>5, <2>1, <2>7
  <1>8. \A ref : RefStored(ref) => RefStored(ref)'
    BY <1>2 DEF RefStored, contains, storeVars
  <1>9. \A i \in DOMAIN jobs' : jobs'[i].op = "stream"
    BY <1>2 DEF storeVars, ClientInv
  <1>10. past'.files = {} /\ GoodTree(saved') /\ UNCHANGED <<tree, saved, grown>>
    BY <1>2 DEF storeVars, fsVars, ClientInv
  <1> QED
    BY <1>2, <1>5, <1>7, <1>8, <1>9, <1>10, FilesAreLeft

\* Requests that upload or read, and the ends of requests.
LEMMA ReadAskHolds ==
    ASSUME HostInv, Mode("client"), ClientInv, NEW p \in config.clients, config' = config,
           \/ upload_encrypted_blob(p) \/ UploadAnswers(p) \/ CreateDirectory(p) \/ RootIsGone(p)
           \/ DownloadFile(p) \/ ReadFile(p) \/ ListDirectory(p) \/ ListEntry(p)
           \/ Return(p) \/ RemoteFails(p)
    PROVE  ClientInv'
  <1> DEFINE r == asks[p]
             Rest == /\ \A q \in config.clients \ {p} : asks'[q] = asks[q]
                     /\ asks'[p].op = r.op /\ asks'[p].path = r.path /\ asks'[p].data = r.data
                     /\ asks'[p].n = r.n /\ asks'[p].since = r.since
             Same == /\ UNCHANGED <<session, loaded, misled, log, answered, objects, grown>>
                     /\ tree'.files = tree.files
             Saved == /\ past'.files = {} /\ GoodTree(saved')
                      /\ \A x : Entry(saved', x) = Entry(saved, x) \/ Entry(saved', x) = Entry(tree, x)
  <1>1. /\ DOMAIN asks = config.clients /\ DOMAIN r = AskFields /\ AskInv(r)
        /\ DOMAIN log = config.paths
        /\ \A x \in DOMAIN log : answered[x] \in Nat \ {0}
    BY AskForms, ClientLog
  <1>2. r.step # "idle"
    BY DEF upload_encrypted_blob, UploadAnswers, CreateDirectory, RootIsGone, DownloadFile, ReadFile,
           ListDirectory, ListEntry, Return, RemoteFails, Doing
  <1>3. r.op # "idle" /\ session # "closed"
    BY <1>1, <1>2 DEF AskInv, ClientInv
  <1>4. Same /\ Saved
    <2>4. ASSUME UNCHANGED <<saved, past>> PROVE Saved
      BY <2>4 DEF ClientInv
    <2>1. CASE CreateDirectory(p)
      <3>1. /\ UNCHANGED <<session, loaded, misled, log, answered, objects, grown, saved>>
            /\ create_dir(r.path)
        BY <2>1 DEF CreateDirectory, storeVars
      <3>2. tree'.files = tree.files /\ past'.files = past.files \cup Elsewhere(tree')
        BY <3>1 DEF create_dir, HostInv, Rooted, TreeFields, PastFields
      <3>3. GoodTree(tree')
        BY <3>2 DEF ClientInv, GoodTree
      <3>4. Elsewhere(tree') = {}
        BY <3>3, ClientOwns
      <3> QED
        BY <3>1, <3>2, <3>4 DEF ClientInv
    <2>2. CASE RemoteFails(p)
      <3>1. /\ UNCHANGED <<session, loaded, misled, log, answered, objects, grown, tree, past>>
            /\ save \/ saved' = saved
        BY <2>2 DEF RemoteFails
      <3>2. save => Saved
        BY <3>1, ClientSaves DEF ClientInv
      <3> HIDE DEF Saved
      <3> QED
        BY <2>4, <3>1, <3>2
    <2>3. CASE ~CreateDirectory(p) /\ ~RemoteFails(p)
      <3>1. Same /\ UNCHANGED <<saved, past>>
        BY <2>3 DEF upload_encrypted_blob, UploadAnswers, DownloadFile, ReadFile, RootIsGone,
                    ListDirectory, ListEntry, Return, storeVars, fsVars
      <3> HIDE DEF Saved
      <3> QED
        BY <2>4, <3>1
    <2> QED
      BY <2>1, <2>2, <2>3
  <1>5. \A i \in DOMAIN jobs' : jobs'[i].op = "stream"
    <2>1. CASE upload_encrypted_blob(p)
      BY <2>1 DEF upload_encrypted_blob, With, NewJob, ClientInv
    <2>2. CASE UploadAnswers(p)
      BY <2>2 DEF UploadAnswers, Without, ClientInv
    <2>3. CASE ~upload_encrypted_blob(p) /\ ~UploadAnswers(p)
      <3>1. jobs' = jobs
        BY <2>3 DEF CreateDirectory, RootIsGone, DownloadFile, ReadFile,
                    ListDirectory, ListEntry, Return, RemoteFails, storeVars
      <3> QED
        BY <3>1 DEF ClientInv
    <2> QED
      BY <2>1, <2>2, <2>3
  <1>6. \A ref : RefStored(ref) => RefStored(ref)'
    BY <1>4 DEF RefStored, contains
  <1>7. ASSUME \A q \in config.clients \ {p} : asks'[q] = asks[q], AskInv(asks[p])'
        PROVE  ClientInv'
    BY <1>3, <1>4, <1>5, <1>6, <1>7, FilesAreLeft
  <1>8. ASSUME Done(p) PROVE ClientInv'
    <2>1. asks'[p] = Quiet /\ \A q \in config.clients \ {p} : asks'[q] = asks[q]
      BY <1>8, AskGoes
    <2>2. AskInv(asks[p])'
      BY <2>1, QuietHolds
    <2> QED
      BY <1>7, <2>1, <2>2
  <1>9. /\ \A x, k, v : Seen(x, k, v)' <=> Seen(x, k, v)
        /\ \A x : Entry(tree, x)' = Entry(tree, x)
        /\ \A ref : GoodRef(ref)' <=> GoodRef(ref)
    BY <1>4, GoodRefsStay DEF Seen, Entry
  \* What is left to show when the step and what it reads changes.
  <1>10. ASSUME Rest, asks'[p].names \subseteq DOMAIN log,
                asks'[p].step \in {"sent", "put"} => r.op = "upload" /\ IsContent(r.data),
                asks'[p].step \notin {"send", "delete", "download", "mkdir", "list"},
                asks'[p].step = "entries" => r.op = "list",
                asks'[p].step = "save" => r.op = "mkdir",
                asks'[p].step = "read" =>
                    /\ r.op = "download" /\ asks'[p].result = Gone /\ ~asks'[p].cut /\ GoodRef(asks'[p].ref)
                    /\ RefStored(asks'[p].ref) /\ Seen(r.path, r.since[r.path], Data(asks'[p].ref.hash)),
                asks'[p].step = "answer" /\ r.op = "download" /\ loaded =>
                    Given(r.path, r.since[r.path], asks'[p].result, asks'[p].cut),
                \A x \in DOMAIN asks'[p].found : Seen(x, r.since[x], asks'[p].found[x])
         PROVE  ClientInv'
    <2>1. PICK s : s = asks'[p]
      OBVIOUS
    <2>2. AskInv(s)'
      <3>1. /\ s.op = r.op /\ s.path = r.path /\ s.data = r.data /\ s.n = r.n /\ s.since = r.since
            /\ s.names \subseteq DOMAIN log'
            /\ DOMAIN log' = DOMAIN log /\ answered' = answered
        BY <1>4, <1>10, <2>1
      <3>2. /\ s.op \in {"upload", "download", "delete"} => s.path \in DOMAIN log
            /\ \A x \in DOMAIN log : s.since[x] \in Nat \ {0} /\ s.since[x] <= answered[x]
        BY <1>1, <1>3, <3>1 DEF AskInv
      <3>3. s.step = "read" =>
               /\ s.op = "download" /\ s.result = Gone /\ ~s.cut
               /\ GoodRef(s.ref)' /\ RefStored(s.ref)' /\ Seen(s.path, s.since[s.path], Data(s.ref.hash))'
        BY <1>6, <1>9, <1>10, <2>1, <3>1
      <3>4. s.step = "answer" /\ s.op = "download" /\ loaded' => Given(s.path, s.since[s.path], s.result, s.cut)'
        <4>1. Given(s.path, s.since[s.path], s.result, s.cut) => Given(s.path, s.since[s.path], s.result, s.cut)'
          BY <1>9 DEF Given
        <4> QED
          BY <1>4, <1>10, <2>1, <3>1, <4>1
      <3>5. \A x \in DOMAIN s.found : Seen(x, s.since[x], s.found[x])'
        BY <1>9, <1>10, <2>1, <3>1
      <3>6. /\ s.step \in {"sent", "put"} => s.op = "upload" /\ IsContent(s.data)
            /\ s.step \notin {"send", "delete", "download", "mkdir", "list"}
            /\ s.step = "entries" => s.op = "list"
            /\ s.step = "save" => s.op = "mkdir"
        BY <1>10, <2>1, <3>1
      <3> QED
        BY <1>3, <3>1, <3>2, <3>3, <3>4, <3>5, <3>6 DEF AskInv
    <2>3. AskInv(asks[p])'
      BY <2>1, <2>2
    <2> QED
      BY <1>7, <1>10, <2>3
  <1>11. ASSUME NEW step, Proceed(p, step)
         PROVE  /\ Rest /\ asks'[p].step = step /\ asks'[p].names \subseteq DOMAIN log
                /\ asks'[p].result = r.result /\ asks'[p].cut = r.cut
                /\ \A x \in DOMAIN asks'[p].found : Seen(x, r.since[x], asks'[p].found[x])
    <2>1. Rest /\ asks'[p].step = step /\ asks'[p].names = r.names /\ asks'[p].found = r.found
          /\ asks'[p].result = r.result /\ asks'[p].cut = r.cut
      BY <1>11, AskGoes
    <2> HIDE DEF Rest
    <2> QED
      BY <1>1, <2>1 DEF AskInv
  <1> HIDE DEF Rest
  <1>12. CASE upload_encrypted_blob(p)
    <2>1. Proceed(p, "sent") /\ r.step = "send"
      BY <1>12 DEF upload_encrypted_blob, Doing
    <2>2. r.op = "upload" /\ IsContent(r.data)
      BY <1>1, <2>1 DEF AskInv
    <2> QED
      BY <1>10, <1>11, <2>1, <2>2
  <1>13. CASE UploadAnswers(p)
    <2>1. (Proceed(p, "put") \/ Done(p)) /\ r.step = "sent"
      BY <1>13 DEF UploadAnswers, Doing
    <2>2. r.op = "upload" /\ IsContent(r.data)
      BY <1>1, <2>1 DEF AskInv
    <2> QED
      BY <1>8, <1>10, <1>11, <2>1, <2>2
  <1>14. CASE CreateDirectory(p)
    <2>1. Proceed(p, "save") /\ r.step = "mkdir"
      BY <1>14 DEF CreateDirectory, Doing
    <2>2. r.op = "mkdir"
      BY <1>1, <2>1 DEF AskInv
    <2> QED
      BY <1>10, <1>11, <2>1, <2>2
  <1>15. CASE DownloadFile(p)
    <2> DEFINE there == loaded /\ file_exists(r.path)
    <2>1. /\ r.step = "download"
          /\ asks' = [asks EXCEPT ![p].ref = IF there THEN file_get(r.path) ELSE Gone,
                                  ![p].step = IF there THEN "read" ELSE "answer"]
      BY <1>15 DEF DownloadFile, Doing
    <2> HIDE DEF there
    <2>2. /\ asks'[p].step \in {"read", "answer"} /\ (asks'[p].step = "read" <=> there)
          /\ there => asks'[p].ref = file_get(r.path)
          /\ asks'[p].result = r.result /\ asks'[p].names = r.names /\ asks'[p].found = r.found
          /\ asks'[p].cut = r.cut
      BY <1>1, <2>1 DEF AskFields
    <2>3. Rest
      BY <1>1, <2>1 DEF AskFields, Rest
    <2>4. r.op = "download" /\ r.result = Gone /\ ~r.cut /\ r.path \in DOMAIN log
      BY <1>1, <2>1 DEF AskInv
    <2>5. Seen(r.path, r.since[r.path], Entry(tree, r.path))
      <3>1. Seen(r.path, answered[r.path], Entry(tree, r.path))
        BY <2>4 DEF ClientInv, LogInv
      <3>2. r.since[r.path] \in Nat \ {0} /\ r.since[r.path] <= answered[r.path] /\ Len(log[r.path]) \in Nat
        <4>1. IsContent(log[r.path])
          BY <2>4, ClientLog
        <4> QED
          BY <1>1, <1>3, <2>4, <4>1, ContentFacts DEF AskInv
      <3> QED
        BY <3>1, <3>2 DEF Seen
    <2>6. CASE there
      <3>1. GoodRef(file_get(r.path)) /\ RefStored(file_get(r.path))
        BY <2>6 DEF there, file_exists, file_get, ClientInv, GoodTree, HostInv, Rooted
      <3>2. Entry(tree, r.path) = Data(file_get(r.path).hash)
        BY <2>6 DEF there, file_exists, file_get, Entry
      <3>3. asks'[p].step = "read"
        BY <2>2, <2>6
      <3>4. asks'[p].names \subseteq DOMAIN log /\ \A x \in DOMAIN asks'[p].found : Seen(x, r.since[x], asks'[p].found[x])
        BY <1>1, <2>2 DEF AskInv
      <3> QED
        BY <1>10, <2>2, <2>3, <2>4, <2>5, <2>6, <3>1, <3>2, <3>3, <3>4
    <2>7. CASE ~there
      <3>1. loaded => Entry(tree, r.path) = Gone
        BY <2>7 DEF there, file_exists, Entry
      <3>4. loaded => Given(r.path, r.since[r.path], asks'[p].result, asks'[p].cut)
        BY <2>2, <2>4, <2>5, <3>1 DEF Given
      <3>2. asks'[p].step = "answer"
        BY <2>2, <2>7
      <3>3. asks'[p].names \subseteq DOMAIN log /\ \A x \in DOMAIN asks'[p].found : Seen(x, r.since[x], asks'[p].found[x])
        BY <1>1, <2>2 DEF AskInv
      <3> QED
        BY <1>10, <2>3, <3>2, <3>3, <3>4
    <2> QED
      BY <2>6, <2>7
  <1>16. CASE ReadFile(p)
    <2>1. /\ r.step = "read"
          /\ \E n \in 0..WholeLength(r.ref) :
                asks' = [asks EXCEPT ![p] =
                            IF download(r.ref, n) = Failed THEN Quiet
                            ELSE [@ EXCEPT !.result = download(r.ref, n), !.cut = n < WholeLength(r.ref),
                                           !.step = "answer"]]
      BY <1>16 DEF ReadFile, Doing
    <2>4. /\ GoodRef(r.ref) /\ RefStored(r.ref) /\ Seen(r.path, r.since[r.path], Data(r.ref.hash))
          /\ r.names \subseteq DOMAIN log /\ \A x \in DOMAIN r.found : Seen(x, r.since[x], r.found[x])
      BY <1>1, <2>1 DEF AskInv
    <2>5. Gives(r.ref, r.ref.hash)
      BY <2>4, GoodRefsGive DEF ClientInv
    <2>6. PICK n \in 0..WholeLength(r.ref) :
            asks' = [asks EXCEPT ![p] =
                        IF download(r.ref, n) = Failed THEN Quiet
                        ELSE [@ EXCEPT !.result = download(r.ref, n), !.cut = n < WholeLength(r.ref),
                                       !.step = "answer"]]
      BY <2>1
    <2>7. CASE download(r.ref, n) = Failed
      <3>1. Done(p)
        BY <2>6, <2>7 DEF Done
      <3> QED
        BY <1>8, <3>1
    <2>8. CASE download(r.ref, n) # Failed
      <3> DEFINE v == download(r.ref, n)
                 short == n < WholeLength(r.ref)
      <3>1. asks' = [asks EXCEPT ![p] = [asks[p] EXCEPT !.result = v, !.cut = short, !.step = "answer"]]
        BY <2>6, <2>8
      <3>2. /\ short => PartOf(v, Data(r.ref.hash))
            /\ ~short => v = Data(r.ref.hash)
        <4>1. WholeLength(r.ref) \in Nat
          BY <2>5 DEF Gives
        <4>2. ~short => n = WholeLength(r.ref)
          BY <4>1
        <4> QED
          BY <2>5, <2>8, <4>2 DEF Gives
      <3> HIDE DEF v, short
      <3>3. /\ asks'[p].step = "answer" /\ asks'[p].result = v /\ asks'[p].cut = short
            /\ asks'[p].names = r.names /\ asks'[p].found = r.found
        BY <1>1, <3>1 DEF AskFields
      <3>4. Rest
        BY <1>1, <3>1 DEF AskFields, Rest
      <3>5. Given(r.path, r.since[r.path], v, short)
        BY <2>4, <3>2 DEF Given
      <3>6. Given(r.path, r.since[r.path], asks'[p].result, asks'[p].cut)
        BY <3>3, <3>5
      <3> QED
        BY <1>10, <2>4, <3>3, <3>4, <3>6
    <2> QED
      BY <2>7, <2>8
  <1>17. CASE ListDirectory(p)
    <2>1. PICK page \in SUBSET DOMAIN tree.files : asks' = [asks EXCEPT ![p].names = page, ![p].step = "entries"]
      BY <1>17 DEF ListDirectory
    <2>2. asks'[p].step = "entries" /\ asks'[p].names = page /\ asks'[p].found = r.found
      BY <1>1, <2>1 DEF AskFields
    <2>3. Rest
      BY <1>1, <2>1 DEF AskFields, Rest
    <2>5. r.op = "list"
      BY <1>1, <1>17 DEF ListDirectory, Doing, AskInv
    <2>4. page \subseteq DOMAIN log /\ \A x \in DOMAIN r.found : Seen(x, r.since[x], r.found[x])
      BY <1>1, <2>1 DEF ClientInv, GoodTree, AskInv
    <2> QED
      BY <1>10, <2>2, <2>3, <2>4, <2>5
  <1>18. CASE ListEntry(p) /\ r.names = {}
    <2>1. Proceed(p, "answer") /\ r.step = "entries"
      BY <1>18 DEF ListEntry, Doing
    <2>2. r.op = "list"
      BY <1>1, <2>1 DEF AskInv
    <2> QED
      BY <1>10, <1>11, <2>1, <2>2
  <1>19. CASE ListEntry(p) /\ r.names # {}
    <2>1. r.step = "entries"
      BY <1>19 DEF ListEntry, Doing
    <2>2. PICK x \in r.names :
            asks' = [asks EXCEPT ![p].names = @ \ {x},
                                 ![p].found = With(@, x, IF file_exists(x) THEN Data(file_get(x).hash) ELSE Gone)]
      BY <1>19 DEF ListEntry
    <2>3. /\ asks'[p].step = "entries" /\ asks'[p].names = r.names \ {x}
          /\ asks'[p].found = With(r.found, x, IF file_exists(x) THEN Data(file_get(x).hash) ELSE Gone)
      BY <1>1, <2>1, <2>2 DEF AskFields
    <2>4. Rest
      BY <1>1, <2>2 DEF AskFields, Rest
    <2>5. x \in DOMAIN log /\ r.names \subseteq DOMAIN log
      BY <1>1 DEF AskInv
    <2>6. Seen(x, r.since[x], Entry(tree, x))
      <3>1. Seen(x, answered[x], Entry(tree, x))
        BY <2>5 DEF ClientInv, LogInv
      <3>2. r.since[x] \in Nat \ {0} /\ r.since[x] <= answered[x] /\ Len(log[x]) \in Nat
        <4>1. IsContent(log[x])
          BY <2>5, ClientLog
        <4> QED
          BY <1>1, <1>3, <2>5, <4>1, ContentFacts DEF AskInv
      <3> QED
        BY <3>1, <3>2 DEF Seen
    <2>7. asks'[p].found = With(r.found, x, Entry(tree, x))
      BY <2>3 DEF file_exists, file_get, Entry
    <2>8. \A y \in DOMAIN asks'[p].found : Seen(y, r.since[y], asks'[p].found[y])
      <3>1. /\ DOMAIN asks'[p].found = DOMAIN r.found \cup {x}
            /\ \A y \in DOMAIN asks'[p].found : asks'[p].found[y] = IF y = x THEN Entry(tree, x) ELSE r.found[y]
        BY <2>7 DEF With
      <3>2. \A y \in DOMAIN r.found : Seen(y, r.since[y], r.found[y])
        BY <1>1 DEF AskInv
      <3> QED
        BY <2>6, <3>1, <3>2
    <2>9. r.op = "list"
      BY <1>1, <2>1 DEF AskInv
    <2> QED
      BY <1>10, <2>3, <2>4, <2>5, <2>8, <2>9
  <1>20. CASE Return(p) \/ RemoteFails(p) \/ RootIsGone(p)
    BY <1>8, <1>20 DEF Return, RemoteFails, RootIsGone
  <1> QED
    BY <1>12, <1>13, <1>14, <1>15, <1>16, <1>17, <1>18, <1>19, <1>20

\* What is put at a path, or deleted there, is the newest entry of its log.
LEMMA PutIsSeen ==
    ASSUME HostInv, Mode("client"), ClientInv, NEW p \in config.clients, NEW v,
           asks[p].path \in DOMAIN log, Logged(p, v), asks[p].op \in {"upload", "delete"},
           Entry(tree', asks[p].path) = v,
           \A y : y # asks[p].path => Entry(tree', y) = Entry(tree, y),
           GoodTree(tree'), past'.files = {},
           UNCHANGED <<config, session, loaded, misled, answered, saved, storeVars>>
    PROVE  ClientInv'
  <1>1. PICK x : x = asks[p].path
    OBVIOUS
  <1>2. PICK m : m = Len(log[x])
    OBVIOUS
  <1>3. IsContent(log[x]) /\ m \in Nat
    BY <1>1, <1>2, ClientLog, ContentFacts
  <1>4. log' = [log EXCEPT ![x] = Append(@, v)]
    BY <1>1 DEF Logged
  <1>5. /\ DOMAIN log' = DOMAIN log /\ \A y \in DOMAIN log \ {x} : log'[y] = log[y]
        /\ log'[x] = Append(log[x], v)
    BY <1>1, <1>4
  <1>6. /\ IsContent(log'[x]) /\ Len(log'[x]) = m + 1
        /\ \A i \in 1..m : log'[x][i] = log[x][i]
        /\ log'[x][m + 1] = v
    BY <1>2, <1>3, <1>5, AppendFacts
  <1>7. ASSUME NEW y, NEW k, NEW u, Seen(y, k, u) PROVE Seen(y, k, u)'
    <2>1. CASE y = x
      <3>1. k \in Nat \ {0} /\ (misled \/ \E n \in k..m : u = log[x][n])
        BY <1>2, <1>7, <2>1 DEF Seen
      <3> QED
        BY <1>1, <1>3, <1>5, <1>6, <2>1, <3>1 DEF Seen
    <2>2. CASE y # x
      BY <1>5, <1>7, <2>2 DEF Seen
    <2> QED
      BY <2>1, <2>2
  <1>8. ASSUME NEW k \in Nat \ {0}, k <= m + 1 PROVE Seen(x, k, Entry(tree, x))'
    <2>1. m + 1 \in k..Len(log'[x]) /\ Entry(tree', x) = log'[x][m + 1]
      BY <1>1, <1>3, <1>6, <1>8
    <2> QED
      BY <1>1, <1>5, <2>1 DEF Seen, Entry
  <1>9. ASSUME NEW y, NEW k, Seen(y, k, Entry(tree, y)) PROVE Seen(y, k, Entry(tree, y))'
    <2>1. CASE y = x
      <3>1. k \in Nat \ {0} /\ (misled \/ k <= m)
        BY <1>2, <1>3, <1>9, <2>1 DEF Seen
      <3>2. CASE misled
        BY <1>1, <1>5, <2>1, <3>1, <3>2 DEF Seen
      <3> QED
        BY <1>3, <1>8, <2>1, <3>1, <3>2
    <2>2. CASE y # x
      <3>1. PICK u : u = Entry(tree, y)
        OBVIOUS
      <3>2. Seen(y, k, u)'
        BY <1>7, <1>9, <3>1
      <3>3. Entry(tree', y) = u
        BY <1>1, <2>2, <3>1
      <3> QED
        BY <3>2, <3>3 DEF Seen, Entry
    <2> QED
      BY <2>1, <2>2
  <1>10. ASSUME NEW y \in DOMAIN log
         PROVE  /\ IsContent(log'[y])
                /\ answered'[y] \in Nat /\ answered[y] <= answered'[y]
                /\ Seen(y, answered[y], Entry(tree, y))'
                /\ Seen(y, answered[y], Entry(saved, y))'
    <2>1. /\ IsContent(log[y]) /\ Seen(y, answered[y], Entry(tree, y))
          /\ Seen(y, answered[y], Entry(saved, y)) /\ answered[y] \in Nat
      BY DEF ClientInv, LogInv, Seen
    <2>2. PICK k, u : k = answered[y] /\ u = Entry(saved, y)
      OBVIOUS
    <2>3. Seen(y, k, Entry(tree, y))' /\ Seen(y, k, u)'
      BY <1>7, <1>9, <2>1, <2>2
    <2>4. answered'[y] = k /\ Entry(saved', y) = u
      BY <2>2 DEF Entry
    <2>5. Seen(y, answered[y], Entry(tree, y))' /\ Seen(y, answered[y], Entry(saved, y))'
      BY <2>3, <2>4 DEF Seen, Entry
    <2>6. IsContent(log'[y])
      BY <1>5, <1>6, <2>1
    <2> QED
      BY <2>1, <2>5, <2>6
  <1>11. \A ref : RefStored(ref) => RefStored(ref)'
    BY DEF RefStored, contains, storeVars
  <1>12. DOMAIN asks = config.clients /\ DOMAIN asks[p] = AskFields /\ AskInv(asks[p])
    BY AskForms, ClientLog
  <1>13. /\ \A q \in config.clients \ {p} : asks'[q] = asks[q]
         /\ asks'[p].step = "save" /\ asks'[p].n = m + 1 /\ asks'[p].op = asks[p].op
         /\ asks'[p].path = x /\ asks'[p].since = asks[p].since
         /\ asks'[p].names = asks[p].names /\ asks'[p].found = asks[p].found
    <2>1. asks' = [asks EXCEPT ![p].step = "save", ![p].n = m + 1]
      BY <1>1, <1>6 DEF Logged
    <2> QED
      BY <1>1, <1>12, <2>1 DEF AskFields
  <1>14. AskInv(asks[p])'
    <2>1. PICK s : s = asks'[p]
      OBVIOUS
    <2>2. PICK r : r = asks[p]
      OBVIOUS
    <2>3. /\ s.step = "save" /\ s.n = m + 1 /\ s.op \in {"upload", "delete"} /\ s.path = x
          /\ s.since = r.since /\ s.names = r.names /\ s.found = r.found
      BY <1>13, <2>1, <2>2
    <2>4. Seen(x, m + 1, Entry(tree, x))'
      BY <1>3, <1>8
    <2>5. \A y \in DOMAIN log' : s.since[y] \in Nat \ {0} /\ s.since[y] <= answered'[y]
      BY <1>5, <1>12, <2>2, <2>3 DEF AskInv
    <2>6. \A y \in DOMAIN s.found : Seen(y, s.since[y], s.found[y])'
      BY <1>7, <1>12, <2>2, <2>3 DEF AskInv
    <2>7. s.names \subseteq DOMAIN log' /\ x \in DOMAIN log'
      BY <1>1, <1>5, <1>12, <2>2, <2>3 DEF AskInv
    <2>8. AskInv(s)'
      BY <2>3, <2>4, <2>5, <2>6, <2>7 DEF AskInv
    <2> QED
      BY <2>1, <2>8
  <1>15. asks[p].op # "idle" => session # "closed"
    BY DEF ClientInv
  <1>16. GoodTree(saved') /\ \A i \in DOMAIN jobs' : jobs'[i].op = "stream"
    BY DEF ClientInv, storeVars
  <1> QED
    BY <1>5, <1>7, <1>9, <1>10, <1>11, <1>13, <1>14, <1>15, <1>16, ClientKept DEF storeVars

LEMMA PutUploadedHolds ==
    ASSUME HostInv, Mode("client"), ClientInv, NEW p \in config.clients, config' = config,
           PutUploaded(p) \/ DeleteFile(p)
    PROVE  ClientInv'
  <1>1. AskInv(asks[p]) /\ DOMAIN log = config.paths /\ DOMAIN tree = TreeFields /\ GoodTree(tree)
        /\ past.files = {} /\ \A x \in config.paths : Own(tree, x)
    BY ClientLog, ClientNames DEF HostInv, Rooted, ClientInv
  <1>2. CASE PutUploaded(p)
    <2>1. PICK x, ref, c : x = asks[p].path /\ ref = NewRef(asks[p].data, asks[p].id) /\ c = asks[p].data
      OBVIOUS
    <2>2. /\ asks[p].step = "put" /\ Logged(p, Data(c)) /\ file_put(x, ref)
          /\ UNCHANGED <<session, loaded, misled, answered, saved, storeVars>>
      BY <1>2, <2>1 DEF PutUploaded, Doing
    <2>3. asks[p].op = "upload" /\ IsContent(c) /\ x \in DOMAIN log
      BY <1>1, <2>1, <2>2 DEF AskInv
    <2>4. ref.hash = c /\ GoodRef(ref)
      BY <2>1, <2>3 DEF NewRef, FileRef, GoodRef
    <2>5. /\ DOMAIN tree'.files = DOMAIN tree.files \cup {x} /\ tree'.files[x] = ref
          /\ \A y \in DOMAIN tree.files \ {x} : tree'.files[y] = tree.files[y]
      BY <1>1, <2>2 DEF file_put, TreeFields, With
    <2>8. past'.files = {}
      BY <1>1, <2>2, <2>3 DEF file_put
    <2>6. GoodTree(tree')
      BY <1>1, <2>3, <2>4, <2>5 DEF GoodTree
    <2>7. Entry(tree', x) = Data(c) /\ \A y : y # x => Entry(tree', y) = Entry(tree, y)
      BY <2>4, <2>5 DEF Entry
    <2> QED
      BY <2>1, <2>2, <2>3, <2>6, <2>7, <2>8, PutIsSeen
  <1>3. CASE DeleteFile(p)
    <2>1. PICK x : x = asks[p].path
      OBVIOUS
    <2>2. /\ asks[p].step = "delete" /\ Logged(p, Gone) /\ file_delete(x)
          /\ UNCHANGED <<session, loaded, misled, answered, saved, storeVars>>
      BY <1>3, <2>1 DEF DeleteFile, Doing
    <2>3. asks[p].op = "delete" /\ x \in DOMAIN log
      BY <1>1, <2>1, <2>2 DEF AskInv
    <2>4. /\ DOMAIN tree'.files = DOMAIN tree.files \ {x}
          /\ \A y \in DOMAIN tree.files \ {x} : tree'.files[y] = tree.files[y]
      BY <1>1, <2>2 DEF file_delete, TreeFields, Without
    <2>7. past'.files = {}
      BY <1>1, <2>2 DEF file_delete
    <2>5. GoodTree(tree')
      BY <1>1, <2>4 DEF GoodTree
    <2>6. Entry(tree', x) = Gone /\ \A y : y # x => Entry(tree', y) = Entry(tree, y)
      BY <2>4 DEF Entry
    <2> QED
      BY <2>1, <2>2, <2>3, <2>5, <2>6, <2>7, PutIsSeen
  <1> QED
    BY <1>2, <1>3

LEMMA SaveAndAnswerHolds ==
    ASSUME HostInv, Mode("client"), ClientInv, NEW p \in config.clients, config' = config,
           SaveAndAnswer(p)
    PROVE  ClientInv'
  <1>1. PICK r : r = asks[p]
    OBVIOUS
  <1>2. /\ r.step = "save" /\ Done(p)
        /\ UNCHANGED <<session, loaded, log, tree, past, objects, jobs, grown>>
        /\ answered' = IF r.op = "mkdir" \/ answered[r.path] >= r.n THEN answered
                       ELSE [answered EXCEPT ![r.path] = r.n]
    BY <1>1 DEF SaveAndAnswer, Doing
  <1>14. /\ misled => misled'
         /\ GoodTree(saved') /\ (misled' \/ \A x : Entry(saved', x) = Entry(tree, x))
    <2>1. (save /\ misled' = misled) \/ (misled' /\ saved' = saved)
      BY DEF SaveAndAnswer, SaveRemote
    <2>2. CASE save /\ misled' = misled
      BY <2>2, ClientSaves
    <2> QED
      BY <2>1, <2>2 DEF ClientInv
  <1>3. AskInv(r) /\ DOMAIN log = config.paths /\ DOMAIN answered = config.paths
    BY <1>1, ClientLog
  <1>4. r.op # "mkdir" => Seen(r.path, r.n, Entry(tree, r.path))
    BY <1>2, <1>3 DEF AskInv
  <1>5. \A path, k, v : Seen(path, k, v) => Seen(path, k, v)'
    BY <1>2, <1>14 DEF Seen
  <1>6. DOMAIN answered' = DOMAIN answered
    BY <1>2
  <1>7. ASSUME NEW y \in DOMAIN log
        PROVE  /\ IsContent(log'[y])
               /\ answered'[y] \in Nat /\ answered[y] <= answered'[y]
               /\ Seen(y, answered[y], Entry(tree, y))'
               /\ Seen(y, answered[y], Entry(saved, y))'
    <2>1. /\ IsContent(log[y]) /\ Seen(y, answered[y], Entry(tree, y)) /\ answered[y] \in Nat
      BY DEF ClientInv, LogInv, Seen
    <2>2. PICK k, u : k = answered'[y] /\ u = Entry(tree, y)
      OBVIOUS
    <2>3. Seen(y, k, u) /\ k \in Nat /\ answered[y] <= k
      <3>1. CASE answered'[y] = answered[y]
        BY <2>1, <2>2, <3>1
      <3>2. CASE answered'[y] # answered[y]
        <4>1. r.op # "mkdir" /\ ~(answered[r.path] >= r.n) /\ y = r.path /\ k = r.n
          BY <1>2, <1>3, <2>2, <3>2
        <4>2. Seen(y, k, u)
          BY <1>4, <2>2, <4>1
        <4>3. k \in Nat
          BY <4>2 DEF Seen
        <4> QED
          BY <2>1, <4>1, <4>2, <4>3
      <3> QED
        BY <3>1, <3>2
    <2>4. Seen(y, answered[y], Entry(tree, y))' /\ Seen(y, answered[y], Entry(saved, y))'
      <3>1. Seen(y, k, u)'
        BY <1>5, <2>3
      <3>2. Entry(tree', y) = u /\ (misled' \/ Entry(saved', y) = u) /\ answered'[y] = k
        BY <1>2, <1>14, <2>2
      <3> QED
        BY <3>1, <3>2 DEF Seen, Entry
    <2> QED
      BY <1>2, <2>1, <2>2, <2>3, <2>4
  <1>8. \A ref : RefStored(ref) => RefStored(ref)'
    BY <1>2 DEF RefStored, contains
  <1>9. asks'[p] = Quiet /\ \A q \in config.clients \ {p} : asks'[q] = asks[q]
    BY <1>2, AskGoes
  <1>10. AskInv(asks[p])' /\ asks'[p].op = "idle"
    BY <1>9, QuietHolds
  <1>11. \A path, k : Seen(path, k, Entry(tree, path)) => Seen(path, k, Entry(tree, path))'
    BY <1>2, <1>14 DEF Seen
  <1>12. /\ GoodTree(tree') /\ GoodTree(saved') /\ grown' = grown /\ past'.files = {}
         /\ \A i \in DOMAIN jobs' : jobs'[i].op = "stream"
    BY <1>2, <1>14 DEF ClientInv
  <1>13. session' = "closed" => \A q \in config.clients : asks'[q].op = "idle"
    BY <1>2, <1>9, <1>10 DEF ClientInv
  <1> QED
    BY <1>2, <1>5, <1>6, <1>7, <1>8, <1>9, <1>10, <1>11, <1>12, <1>13, ClientKept

\* The root is saved or opened again, with no request under way where it is opened.
LEMMA SessionHolds ==
    ASSUME HostInv, Mode("client"), ClientInv, config' = config, grown' = grown,
           disconnect \/ Disconnected \/ connect \/ Restart
    PROVE  ClientInv'
  <1> DEFINE Among(t) == \A y : Entry(t, y) = Entry(tree, y) \/ Entry(t, y) = Entry(saved, y)
  <1>1. /\ UNCHANGED <<log, answered, objects, jobs>> /\ (misled => misled')
        /\ GoodTree(tree') /\ GoodTree(saved') /\ past'.files = {}
        /\ misled' \/ (Among(tree') /\ Among(saved'))
    <2>3. GoodTree(tree) /\ GoodTree(saved) /\ past.files = {} /\ Among(tree) /\ Among(saved)
      BY DEF ClientInv
    <2>4. save => GoodTree(saved') /\ Among(saved')
      BY ClientSaves
    <2>5. GoodTree(NoTree)
      BY DEF GoodTree, NoTree, Empty
    <2>6. \A t : GoodTree(t) /\ Opened(t) => tree' = t /\ past'.files = {}
      BY ClientOwns DEF Opened
    <2> HIDE DEF Among
    <2>1. CASE disconnect
      BY <2>1, <2>3 DEF disconnect, storeVars, fsVars
    <2>2. CASE Disconnected
      <3>1. /\ UNCHANGED <<log, answered, objects, jobs, tree, past>>
            /\ \/ save /\ misled' = misled
               \/ saved' = saved /\ (misled' = misled \/ misled')
        BY <2>2 DEF Disconnected, SaveRemote
      <3> QED
        BY <2>3, <2>4, <3>1
    <2>7. CASE connect \/ Restart
      <3>1. /\ UNCHANGED <<log, answered, objects, jobs, saved>>
            /\ \/ Opened(saved) /\ misled' = misled
               \/ Opened(NoTree) /\ misled'
        BY <2>7 DEF connect, Restart, storeVars
      <3> QED
        BY <2>3, <2>5, <2>6, <3>1
    <2> QED
      BY <2>1, <2>2, <2>7
  <1>2. \A path, k, v : Seen(path, k, v) => Seen(path, k, v)'
    BY <1>1 DEF Seen
  <1>3. \A ref : RefStored(ref) => RefStored(ref)'
    BY <1>1 DEF RefStored, contains
  <1>4. ASSUME NEW y \in DOMAIN log
        PROVE  /\ IsContent(log'[y])
               /\ answered'[y] \in Nat /\ answered[y] <= answered'[y]
               /\ Seen(y, answered[y], Entry(tree, y))'
               /\ Seen(y, answered[y], Entry(saved, y))'
    <2>1. PICK k, t, s : k = answered[y] /\ t = Entry(tree, y) /\ s = Entry(saved, y)
      OBVIOUS
    <2>2. IsContent(log[y]) /\ Seen(y, k, t) /\ Seen(y, k, s)
      BY <2>1 DEF ClientInv, LogInv
    <2>3. Seen(y, k, t)' /\ Seen(y, k, s)'
      BY <1>2, <2>2
    <2>6. k \in Nat
      BY <2>2 DEF Seen
    <2>4. /\ misled' \/ Entry(tree', y) \in {t, s}
          /\ misled' \/ Entry(saved', y) \in {t, s}
          /\ answered'[y] = k
      BY <1>1, <2>1
    <2>5. /\ Seen(y, answered[y], Entry(tree, y))'
          /\ Seen(y, answered[y], Entry(saved, y))'
      BY <2>3, <2>4 DEF Seen
    <2> QED
      BY <1>1, <2>1, <2>2, <2>5, <2>6
  <1>5. /\ GoodTree(tree') /\ GoodTree(saved')
        /\ \A i \in DOMAIN jobs' : jobs'[i].op = "stream"
    BY <1>1 DEF ClientInv
  <1>6. DOMAIN asks = config.clients
    BY DEF HostInv, ClientIds
  <1>7. CASE Restart
    <2>1. \A q \in config.clients : asks'[q] = Quiet
      BY <1>7 DEF Restart
    <2>2. \A q \in config.clients : AskInv(asks[q])' /\ asks'[q].op = "idle"
      BY <2>1, QuietHolds
    <2> QED
      BY <1>1, <1>2, <1>3, <1>4, <1>5, <2>1, <2>2, ClientKept
  <1>8. CASE disconnect \/ Disconnected
    <2>1. /\ asks' = asks /\ tree' = tree /\ loaded' = loaded
          /\ session' = "closed" => \A q \in config.clients : asks[q].op = "idle"
      BY <1>6, <1>8 DEF disconnect, Disconnected, fsVars
    <2>2. \A path, k : Seen(path, k, Entry(tree, path)) => Seen(path, k, Entry(tree, path))'
      BY <1>1, <2>1 DEF Seen, Entry
    <2> QED
      BY <1>1, <1>2, <1>3, <1>4, <1>5, <2>1, <2>2, ClientKept
  <1>9. CASE connect
    <2>1. asks' = asks /\ session = "closed" /\ session' = "open"
      BY <1>9 DEF connect
    <2>2. \A q \in config.clients : asks[q].op = "idle"
      BY <2>1 DEF ClientInv
    <2> QED
      BY <1>1, <1>2, <1>3, <1>4, <1>5, <2>1, <2>2, ClientKept
  <1> QED
    BY <1>7, <1>8, <1>9

LEMMA UploadJobHolds ==
    ASSUME HostInv, Mode("client"), ClientInv, JobAction \/ Drop
    PROVE  ClientInv'
  <1>1. UNCHANGED <<config, fsVars, clientVars>>
    BY DEF JobAction, Drop
  <1>2. Serving
    BY DEF Mode, Serving
  <1>3. PICK i \in DOMAIN jobs : JobStep(i) \/ FailStep(i) \/ DropJob(i)
    <2>1. \A i \in DOMAIN config.calls : FALSE
      BY <1>2, ModeFacts
    <2> QED
      BY <2>1 DEF JobAction, Drop
  <1>4. grown' = grown
    BY <1>3, NothingGrows DEF ClientInv
  <1>5. \A s \in Stores : DOMAIN objects[s].blob3 \subseteq DOMAIN objects'[s].blob3
    BY <1>1, <1>3, BlobsGrow DEF HostInv, ClientInv
  <1>6. \A ref : RefStored(ref) => RefStored(ref)'
    BY <1>1, <1>5, RefsStay
  <1>7. \A k \in DOMAIN jobs' : jobs'[k].op = "stream"
    <2>1. CASE JobStep(i) \/ FailStep(i)
      <3>1. DOMAIN jobs' = DOMAIN jobs /\ \A k \in DOMAIN jobs : jobs'[k].op = jobs[k].op
        BY <2>1, JobsStay DEF HostInv
      <3> QED
        BY <3>1 DEF ClientInv
    <2>2. CASE DropJob(i)
      BY <2>2 DEF DropJob, Without, ClientInv
    <2> QED
      BY <1>3, <2>1, <2>2
  <1>8. /\ UNCHANGED <<session, loaded, misled, log, answered, saved, tree, asks>>
        /\ past'.files = {} /\ GoodTree(saved')
        /\ session = "closed" => \A q \in config.clients : asks'[q].op = "idle"
    BY <1>1 DEF clientVars, fsVars, ClientInv
  <1> QED
    BY <1>1, <1>4, <1>6, <1>7, <1>8, FilesAreLeft

LEMMA ClientStarts ==
    ASSUME Init, Mode("client")
    PROVE  ClientInv
  <1>1. /\ config \in Configs /\ DOMAIN jobs = {} /\ grown = {}
        /\ tree = config.tree /\ saved = config.tree /\ session = "open"
        /\ past.files = Elsewhere(config.tree)
        /\ asks = [p \in config.clients |-> Quiet]
        /\ log = [path \in ClientPaths |-> <<Shown(tree, path)>>]
        /\ answered = [path \in ClientPaths |-> 1]
    BY DEF Init, StoreInit, FsInit, ClientInit, Empty
  <1>2. HostInv
    BY HostStarts
  <1>3. GoodTree(tree)
    BY <1>1, HostAssumption DEF Mode, GoodTree, GoodRef
  <1>4. \A path : Shown(tree, path) = Entry(tree, path)
    <2>1. \A path \in DOMAIN tree.files : GoodRef(tree.files[path]) /\ RefStored(tree.files[path])
      BY <1>2, <1>3 DEF GoodTree, HostInv, Rooted
    <2>2. \A path \in DOMAIN tree.files : Gives(tree.files[path], tree.files[path].hash)
      BY <1>1, <1>2, <2>1, GoodRefsGive
    <2> QED
      BY <2>2 DEF Shown, Entry, Gives
  <1>5. LogInv
    <2> SUFFICES ASSUME NEW path \in ClientPaths
                 PROVE  IsContent(log[path]) /\ Seen(path, answered[path], Entry(tree, path))
      BY <1>1 DEF LogInv
    <2>1. PICK v : v = Entry(tree, path)
      OBVIOUS
    <2>2. log[path] = <<v>> /\ answered[path] = 1 /\ path \in DOMAIN log
      BY <1>1, <1>4, <2>1
    <2>3. Len(<<v>>) = 1 /\ <<v>>[1] = v /\ IsContent(<<v>>)
      BY DEF IsContent
    <2> QED
      BY <2>1, <2>2, <2>3 DEF Seen
  <1>6. \A p \in config.clients : AskInv(asks[p])
    BY <1>1, QuietHolds
  <1>7. past.files = {}
    BY <1>1, <1>2, <1>3, ClientOwns
  <1> QED
    BY <1>1, <1>3, <1>5, <1>6, <1>7 DEF ClientInv

LEMMA ClientInvMoves ==
    ASSUME HostInv, Mode("client") => ClientInv, [Next]_vars
    PROVE  (Mode("client") => ClientInv)'
  <1>1. config' = config /\ (Mode("client"))' = Mode("client")
    BY DEF Next, JobAction, FetchAction, ImportAction, MountAction, ClientAction, SaveAction,
           Crash, Drop, Restart, vars, Mode
  <1> SUFFICES ASSUME Mode("client") PROVE ClientInv'
    BY <1>1
  <1>2. ClientInv
    OBVIOUS
  <1>3. ~Mode("fetch") /\ ~Mode("import") /\ ~Mode("mount")
    BY DEF Mode
  <1>4. CASE JobAction \/ Drop
    BY <1>2, <1>4, UploadJobHolds
  <1>5. CASE ClientAction
    <2>1. ASSUME NEW p \in config.clients, ClientStep(p) PROVE ClientInv'
      BY <1>1, <1>2, <2>1, ReadAskHolds, PutUploadedHolds, SaveAndAnswerHolds DEF ClientStep
    <2>2. ASSUME NEW p \in config.clients, NEW path \in config.paths, NEW c \in config.contents,
                 Ask(p, "upload", path, c)
          PROVE  ClientInv'
      <3>1. IsContent(c)
        BY ModeFacts, HostAssumption
      <3> QED
        BY <1>1, <1>2, <2>2, <3>1, AskHolds
    <2>3. ASSUME NEW p \in config.clients, NEW path \in config.paths, NEW op \in {"download", "delete"},
                 Ask(p, op, path, <<>>)
          PROVE  ClientInv'
      BY <1>1, <1>2, <2>3, AskHolds
    <2>4. ASSUME NEW p \in config.clients, NEW path, NEW op \in {"mkdir", "list"},
                 Ask(p, op, path, <<>>)
          PROVE  ClientInv'
      BY <1>1, <1>2, <2>4, AskHolds
    <2>5. ASSUME disconnect \/ Disconnected \/ connect PROVE ClientInv'
      <3>1. grown' = grown
        BY <2>5 DEF disconnect, Disconnected, connect, storeVars
      <3> QED
        BY <1>1, <1>2, <2>5, <3>1, SessionHolds
    <2> QED
      BY <1>5, <2>1, <2>2, <2>3, <2>4, <2>5 DEF ClientAction
  <1>6. CASE Crash \/ UNCHANGED vars
    <2>1. UNCHANGED <<config, storeVars, tree, saved, past, clientVars>>
      BY <1>6 DEF Crash, vars, storeVars, fsVars, clientVars
    <2>2. \A ref : RefStored(ref) => RefStored(ref)'
      BY <2>1 DEF RefStored, contains, storeVars
    <2>3. \A i \in DOMAIN jobs' : jobs'[i].op = "stream"
      BY <1>2, <2>1 DEF ClientInv, storeVars
    <2>4. session = "closed" => \A q \in config.clients : asks'[q].op = "idle"
      BY <1>2, <2>1 DEF ClientInv, clientVars
    <2>5. past'.files = {} /\ GoodTree(saved')
      BY <1>2, <2>1 DEF ClientInv
    <2> QED
      BY <1>2, <2>1, <2>2, <2>3, <2>4, <2>5, FilesAreLeft DEF storeVars, clientVars
  <1>7. CASE Restart
    BY <1>1, <1>2, <1>7, SessionHolds DEF Restart, storeVars
  <1>8. ~FetchAction
    <2>1. fetch.step = "idle"
      BY <1>3 DEF HostInv, FetchIds
    <2> QED
      BY <1>3, <2>1 DEF FetchAction, FetchStep, CheckDestination, AskSource, ReadSource, SourceError,
                        StoreFetched
  <1> QED
    BY <1>3, <1>4, <1>5, <1>6, <1>7, <1>8 DEF Next, ImportAction, MountAction, SaveAction

\* Outside of a client no request is asked.
LEMMA NoAsks == Spec => [](~Mode("client") => DOMAIN asks = {} /\ DOMAIN answered = {})
  <1> DEFINE Q == ~Mode("client") => config.clients = {} /\ DOMAIN asks = {} /\ DOMAIN answered = {}
  <1>1. Init => Q
    BY HostAssumption DEF Init, ClientInit, ClientPaths, Mode
  <1>2. Q /\ [Next]_vars => Q'
    <2> SUFFICES ASSUME Q, [Next]_vars PROVE Q'
      OBVIOUS
    <2>1. CASE Restart
      BY <2>1 DEF Restart, Mode
    <2>2. CASE ~Restart
      BY <2>2 DEF Next, JobAction, FetchAction, ImportAction, MountAction, ClientAction, SaveAction,
                  Crash, Drop, vars, Mode, clientVars
    <2> QED
      BY <2>1, <2>2
  <1> QED
    BY <1>1, <1>2, PTL DEF Spec

LEMMA ClientInvariant == Spec => [](Mode("client") => ClientInv)
  <1>1. Init => (Mode("client") => ClientInv)
    BY ClientStarts
  <1>2. HostInv /\ (Mode("client") => ClientInv) /\ [Next]_vars => (Mode("client") => ClientInv)'
    BY ClientInvMoves
  <1> QED
    BY <1>1, <1>2, HostInvariant, PTL DEF Spec

\* AnsweredIsDurable (Host, Fuse and Client): what a release, an upload or a delete
\* has answered for is in the saved root if it is an entry of the root itself, and
\* can be read back and decrypted, until a failed query is taken for no entry.
THEOREM AnsweredIsDurableCorrect == Spec => []AnsweredIsDurable
  <1>1. HostInv /\ (Mode("client") => ClientInv) /\ (~Mode("client") => DOMAIN asks = {} /\ DOMAIN answered = {})
          /\ ReleasedIsDurable => AnsweredIsDurable
    <2>1. DOMAIN answered = {} => UploadedIsDurable
      BY DEF UploadedIsDurable
    <2> QED
      BY <2>1, ClientFollows DEF AnsweredIsDurable
  <1> QED
    BY <1>1, HostInvariant, ClientInvariant, NoAsks, ReleasedIsDurableCorrect, PTL

\* ReadsAreRight (Host, MultiFetcher and Client): fetches answer with the blob that
\* was asked for, downloads and listings with what was at the path when they were
\* asked, or later; with the beginning of it when the stream of a node ended early.
\* Nothing is said once a failed query was taken for no entry, and a source whose
\* node could not look may be passed over.
THEOREM ReadsAreRightCorrect == Spec => []ReadsAreRight
  <1>1. HostInv /\ (Mode("client") => ClientInv) /\ (~Mode("client") => DOMAIN asks = {} /\ DOMAIN answered = {})
          /\ FetchIsRight => ReadsAreRight
    <2>1. DOMAIN asks = {} => DownloadIsRight
      BY DEF DownloadIsRight
    <2> QED
      BY <2>1, ClientFollows DEF ReadsAreRight
  <1> QED
    BY <1>1, HostInvariant, ClientInvariant, NoAsks, FetchIsRightCorrect, PTL

-----------------------------------------------------------------------------
\* The importers.

LEMMA TreeRight ==
    ASSUME ImportInv, NEW x, file_exists(Key(x))
    PROVE  /\ x \in DOMAIN files => DatedRef(x, file_get(Key(x)))
           /\ ~Local => ~Page(x)
  <1>1. Fits(Key(x), tree.files[Key(x)])
    BY DEF ImportInv, RootRight, HasRef, file_exists
  <1> QED
    BY <1>1 DEF Fits, file_get, Page

LEMMA ImportFollows ==
    ASSUME HostInv, Mode("import"), ImportInv
    PROVE  ImportIsCurrent
  <1> SUFFICES ASSUME run.step = "done", NEW x \in DOMAIN files \ touched, files[x].up, ~Page(x)
               PROVE  /\ file_exists(Key(x)) /\ Current(x, file_get(Key(x)))
                      /\ Own(tree, Key(x)) => /\ Key(x) \in DOMAIN saved.files
                                             /\ saved.files[Key(x)] = file_get(Key(x))
    BY DEF ImportIsCurrent
  <1>1. Finished(x) /\ Recent(tree.files, x)
    BY DEF ImportInv, Finished
  <1>2. tree.files[Key(x)].locations = <<>>
    BY <1>1, TreeRight DEF Recent, file_exists, file_get, DatedRef
  <1>3. contains(config.dest, tree.files[Key(x)].hash)
    BY <1>1, <1>2 DEF HostInv, Rooted, RefStored, Recent
  <1> QED
    BY <1>1, <1>3 DEF Finished, Recent, Current, file_exists, file_get

LEMMA PrefixKeys == \A b, c : Append(Prefix, b) = Append(Prefix, c) => b = c
  <1>1. IsContent(Prefix) /\ Len(Prefix) = 1
    BY DEF Prefix, IsContent
  <1>2. \A b : Append(Prefix, b)[Len(Prefix) + 1] = b
    BY <1>1, AppendFacts
  <1> QED
    BY <1>2

\* Two sources never go to the same place.
LEMMA KeysDiffer ==
    ASSUME NEW x, NEW y, x # "", y # "", Key(x) = Key(y)
    PROVE  x = y
  <1>1. \A a, b, c : <<a, b>> = <<a, c>> => b = c
    OBVIOUS
  <1> QED
    BY <1>1, PrefixKeys DEF Key, entry_key, key_for_url

LEMMA SourceNames ==
    ASSUME HostInv, Mode("import"), ImportInv
    PROVE  \A x : x \in DOMAIN files \/ x \in DOMAIN config.links => x # ""
  BY ModeFacts, ImportAssumption DEF Mode, ImportInv

LEMMA SameKeys ==
    ASSUME config' = config
    PROVE  /\ \A x : Key(x)' = Key(x)
           /\ \A x : Page(x)' <=> Page(x)
           /\ Local' <=> Local
  BY DEF Key, entry_key, key_for_url, Prefix, Page, Local

\* A task that does not move, while the sources stay as they are.
LEMMA TaskKept ==
    ASSUME UNCHANGED <<config, files, clock, touched>>, NEW t \in DOMAIN tasks, TaskInv(t),
           tasks'[t] = tasks[t], DOMAIN tasks \subseteq DOMAIN tasks',
           t \in DOMAIN jobs' => t \in DOMAIN jobs /\ jobs'[t] = jobs[t],
           \A x \in DOMAIN files \ touched : Recent(tree.files, x) => Recent(tree.files, x)'
    PROVE  TaskInv(t)'
  <1>1. /\ \A x : Key(x)' = Key(x)
        /\ \A x : Page(x)' <=> Page(x)
        /\ Local' <=> Local
    BY SameKeys
  <1>2. /\ Item(t)' = Item(t) /\ Children(t)' = Children(t)
        /\ UpToDate(t)' <=> UpToDate(t)
    BY DEF Item, Children, UpToDate
  <1>3. TaskForm(t)'
    BY <1>2 DEF TaskInv, TaskForm, IsContent
  <1>4. t \in DOMAIN jobs' /\ ReadJob(t) => ReadJob(t)'
    BY <1>1, <1>2 DEF ReadJob
  <1>5. Item(t) \in DOMAIN files
    BY DEF TaskInv, TaskForm
  <1>6. PICK x : x = Item(t)
    OBVIOUS
  <1>7. Recent(tree.files, Item(t)) /\ Item(t) \notin touched => Recent(tree.files, Item(t))'
    BY <1>5, <1>6 DEF Item
  <1> QED
    BY <1>1, <1>2, <1>3, <1>4, <1>7 DEF TaskInv

LEMMA ImportKept ==
    ASSUME ImportInv, UNCHANGED <<config, files, clock, touched>>,
           RootRight',
           \A x \in DOMAIN files \ touched : Recent(tree.files, x) => Recent(tree.files, x)',
           DOMAIN tasks \subseteq DOMAIN tasks' \/ DOMAIN tasks' = {},
           \A t \in DOMAIN tasks' :
                \/ TaskInv(t)'
                \/ /\ t \in DOMAIN tasks /\ tasks'[t] = tasks[t]
                   /\ t \in DOMAIN jobs' => t \in DOMAIN jobs /\ jobs'[t] = jobs[t],
           run'.step = "run" => run.step = "run" /\ DOMAIN tasks \subseteq DOMAIN tasks',
           run'.step = "done" =>
                /\ ~alive'
                /\ \A x \in DOMAIN files \ touched : files[x].up /\ ~Page(x) => Finished(x)'
    PROVE  ImportInv'
  <1>1. /\ \A x : Key(x)' = Key(x)
        /\ \A x : Page(x)' <=> Page(x)
        /\ Local' <=> Local
    BY SameKeys
  <1>2. FilesInv' /\ DOMAIN files' = DOMAIN config'.files
    BY <1>1, ZenonT(40) DEF ImportInv, FilesInv, IsContent
  <1>3. \A t \in DOMAIN tasks' : TaskInv(t)'
    BY TaskKept DEF ImportInv
  <1>4. run'.step = "run" => Begun'
    BY <1>1 DEF ImportInv, Begun, Item
  <1>5. run'.step = "done" =>
            /\ ~alive'
            /\ \A x \in DOMAIN files' \ touched' : files'[x].up /\ ~Page(x)' => Finished(x)'
    BY <1>1
  <1> QED
    BY <1>2, <1>3, <1>4, <1>5 DEF ImportInv

\* References as they were are still right.
LEMMA RefsKept ==
    ASSUME ImportInv, UNCHANGED <<config, files, clock>>, \A path, ref : HasRef(path, ref)' => HasRef(path, ref)
    PROVE  RootRight'
  <1>1. /\ \A x : Key(x)' = Key(x)
        /\ Local' <=> Local
    BY SameKeys
  <1>2. \A path, ref : Fits(path, ref) => Fits(path, ref)'
    BY <1>1 DEF Fits, DatedRef
  <1> QED
    BY <1>2 DEF ImportInv, RootRight

LEMMA RootKept ==
    ASSUME UNCHANGED <<config, files, tree, saved, past>>
    PROVE  /\ \A path, ref : HasRef(path, ref)' => HasRef(path, ref)
           /\ \A x : Recent(tree.files, x) => Recent(tree.files, x)'
           /\ \A x : Finished(x) => Finished(x)'
  <1>1. \A x : Key(x)' = Key(x)
    BY SameKeys
  <1>2. \A x : Own(tree, Key(x))' <=> Own(tree, Key(x))
    BY <1>1 DEF Own
  <1>3. \A x : Recent(tree.files, x) => Recent(tree.files, x)'
    BY <1>1 DEF Recent
  <1>4. \A path, ref : HasRef(path, ref)' => HasRef(path, ref)
    BY DEF HasRef
  <1> QED
    BY <1>1, <1>2, <1>3, <1>4 DEF Finished

\* Steps of tasks that leave the root alone.
LEMMA TaskStepHolds ==
    ASSUME ImportInv, UNCHANGED <<config, files, clock, touched, tree, saved, past, run, alive>>,
           DOMAIN tasks \subseteq DOMAIN tasks',
           \A u \in DOMAIN tasks' :
                \/ TaskInv(u)'
                \/ /\ u \in DOMAIN tasks /\ tasks'[u] = tasks[u]
                   /\ u \in DOMAIN jobs' => u \in DOMAIN jobs /\ jobs'[u] = jobs[u]
    PROVE  ImportInv'
  <1>1. RootRight'
    BY RefsKept, RootKept
  <1> QED
    BY <1>1, RootKept, ImportKept DEF ImportInv

\* What a step of an import of a file or of a stream has read by then.
LEMMA ImportJobGoes ==
    ASSUME StoreInv, NEW i \in DOMAIN jobs, jobs[i].op \in {"file", "stream"},
           JobStep(i) \/ FailStep(i)
    PROVE  /\ DOMAIN jobs' = DOMAIN jobs
           /\ \A k \in DOMAIN jobs \ {i} : jobs'[k] = jobs[k]
           /\ jobs'[i].op = jobs[i].op /\ jobs'[i].arg = jobs[i].arg
           /\ \/ jobs'[i].step = "err"
              \/ /\ jobs[i].step = "meta" /\ jobs'[i].step = "temp"
                 /\ jobs'[i].size = Len(files[jobs[i].arg].data)
              \/ /\ jobs[i].step = "temp" /\ jobs[i].op = "file"
                 /\ jobs'[i].step \notin {"meta", "temp"} /\ jobs'[i].size = jobs[i].size
                 /\ jobs'[i].hash = files[jobs[i].arg].data \/ Len(files[jobs[i].arg].data) > jobs[i].size
              \/ /\ jobs[i].step = "temp" /\ jobs[i].op = "stream" /\ jobs'[i].step \notin {"meta", "temp"}
                 /\ jobs'[i].hash = jobs[i].arg /\ jobs'[i].size = Len(jobs[i].arg)
              \/ /\ jobs[i].step \notin {"meta", "temp", "err"} /\ jobs'[i].step \notin {"meta", "temp"}
                 /\ jobs'[i].hash = jobs[i].hash /\ jobs'[i].size = jobs[i].size
  <1>1. DOMAIN jobs[i] = JobFields /\ JobOK(i)
    BY DEF StoreInv, Shapes
  <1>2. jobs[i].step \notin {"obao0", "exists0", "put", "delete", "delobao"}
    BY <1>1 DEF JobOK
  <1>3. ASSUME NEW step, Goto(i, step)
        PROVE  /\ DOMAIN jobs' = DOMAIN jobs
               /\ \A k \in DOMAIN jobs \ {i} : jobs'[k] = jobs[k]
               /\ jobs'[i].op = jobs[i].op /\ jobs'[i].arg = jobs[i].arg
               /\ jobs'[i].hash = jobs[i].hash /\ jobs'[i].size = jobs[i].size /\ jobs'[i].step = step
    BY <1>1, <1>3 DEF Goto, JobFields
  <1>4. \A h : Finalize(h) \in {"obao", "exists"}
    BY DEF Finalize
  <1>5. CASE FailStep(i)
    <2>1. Goto(i, "err")
      BY <1>2, <1>5 DEF FailStep
    <2> QED
      BY <1>3, <2>1
  <1>6. CASE PutOutboard(i) \/ CheckExists(i) \/ compute_from_store(i) \/ Rename(i) \/ PutBlob(i) \/ Discard(i)
    <2>1. jobs[i].step \notin {"meta", "temp", "err"}
      BY <1>6 DEF PutOutboard, CheckExists, compute_from_store, Rename, PutBlob, Discard, At
    <2>2. CASE PutOutboard(i)
      <3>1. Goto(i, "exists")
        BY <1>2, <2>2 DEF PutOutboard, At
      <3> QED
        BY <1>3, <2>1, <3>1
    <2>3. CASE CheckExists(i)
      <3>1. Goto(i, AfterLastCheck(jobs[i])) /\ AfterLastCheck(jobs[i]) \in {"discard", "rename", "copy"}
        BY <1>2, <2>3 DEF CheckExists, At, AfterLastCheck
      <3> QED
        BY <1>3, <2>1, <3>1
    <2>4. CASE compute_from_store(i)
      <3>1. Goto(i, Finalize(jobs[i].hash)) \/ Goto(i, "err")
        BY <2>4 DEF compute_from_store
      <3> QED
        BY <1>3, <1>4, <2>1, <3>1
    <2>5. CASE Rename(i) \/ PutBlob(i) \/ Discard(i)
      <3>1. Goto(i, "ok") \/ Goto(i, "err") \/ Goto(i, "discard")
        BY <2>5 DEF Rename, PutBlob, Discard
      <3> QED
        BY <1>3, <2>1, <3>1
    <2> QED
      BY <1>6, <2>2, <2>3, <2>4, <2>5
  <1>7. CASE DeleteBlob(i) \/ DeleteOutboard(i)
    BY <1>2, <1>7 DEF DeleteBlob, DeleteOutboard, At
  <1>8. CASE PutTemp(i)
    <2> DEFINE next == IF jobs[i].op = "stream" /\ config.outboard THEN "check" ELSE Finalize(jobs[i].arg)
    <2>4. jobs' = [jobs EXCEPT ![i].hash = jobs[i].arg, ![i].size = Len(jobs[i].arg), ![i].step = next]
      BY <1>8 DEF PutTemp
    <2>5. next \notin {"meta", "temp"}
      BY <1>4
    <2> HIDE DEF next
    <2>1. PICK step : /\ jobs' = [jobs EXCEPT ![i].hash = jobs[i].arg, ![i].size = Len(jobs[i].arg),
                                              ![i].step = step]
                      /\ step \notin {"meta", "temp"}
      BY <2>4, <2>5
    <2>2. jobs[i].step = "temp" /\ jobs[i].op = "stream"
      BY <1>8 DEF PutTemp, At
    <2>3. /\ DOMAIN jobs' = DOMAIN jobs
          /\ \A k \in DOMAIN jobs \ {i} : jobs'[k] = jobs[k]
          /\ jobs'[i].op = jobs[i].op /\ jobs'[i].arg = jobs[i].arg
          /\ jobs'[i].hash = jobs[i].arg /\ jobs'[i].size = Len(jobs[i].arg) /\ jobs'[i].step = step
      BY <1>1, <2>1 DEF JobFields
    <2> QED
      BY <2>1, <2>2, <2>3
  <1>9. CASE FileMetadata(i)
    <2>1. PICK step, n : /\ jobs' = [jobs EXCEPT ![i].step = step, ![i].size = n]
                         /\ step \in {"temp", "err"} /\ n = Len(files[jobs[i].arg].data)
      BY <1>9 DEF FileMetadata
    <2>2. jobs[i].step = "meta"
      BY <1>9 DEF FileMetadata, At
    <2>3. /\ DOMAIN jobs' = DOMAIN jobs
          /\ \A k \in DOMAIN jobs \ {i} : jobs'[k] = jobs[k]
          /\ jobs'[i].op = jobs[i].op /\ jobs'[i].arg = jobs[i].arg
          /\ jobs'[i].step = step /\ jobs'[i].size = n
      BY <1>1, <2>1 DEF JobFields
    <2> QED
      BY <2>1, <2>2, <2>3
  <1>10. CASE PutTempFile(i)
    <2>1. jobs[i].step = "temp" /\ jobs[i].op = "file"
      BY <1>10 DEF PutTempFile, At
    <2>2. CASE Goto(i, "err")
      BY <1>3, <2>2
    <2>3. CASE ~Goto(i, "err")
      <3>1. PICK h : /\ jobs' = [jobs EXCEPT ![i].hash = h, ![i].step = Finalize(h)]
                     /\ h = files[jobs[i].arg].data \/ Len(files[jobs[i].arg].data) > jobs[i].size
        BY <1>10, <2>3 DEF PutTempFile
      <3>2. PICK step : step = Finalize(h)
        OBVIOUS
      <3>3. /\ DOMAIN jobs' = DOMAIN jobs
            /\ \A k \in DOMAIN jobs \ {i} : jobs'[k] = jobs[k]
            /\ jobs'[i].op = jobs[i].op /\ jobs'[i].arg = jobs[i].arg
            /\ jobs'[i].step = step /\ jobs'[i].size = jobs[i].size /\ jobs'[i].hash = h
        BY <1>1, <3>1, <3>2 DEF JobFields
      <3> QED
        BY <1>4, <2>1, <3>1, <3>2, <3>3
    <2> QED
      BY <2>2, <2>3
  <1> QED
    BY <1>5, <1>6, <1>7, <1>8, <1>9, <1>10 DEF JobStep

LEMMA JobsOfImports ==
    ASSUME HostInv, Mode("import"), ImportInv, JobAction
    PROVE  ImportInv'
  <1>1. UNCHANGED <<config, files, clock, touched, tree, saved, past, run, alive, tasks>>
    BY DEF JobAction, importVars, fsVars
  <1>2. PICK i \in DOMAIN jobs : JobStep(i) \/ FailStep(i)
    <2>1. \A i \in DOMAIN config.calls : FALSE
      BY ModeFacts DEF Mode, Serving
    <2> QED
      BY <2>1 DEF JobAction
  <1>3. i \in DOMAIN tasks /\ tasks[i].step = "import" /\ TaskInv(i)
    BY DEF HostInv, ImportIds, ImportInv
  <1>4. ReadJob(i) /\ TaskForm(i) /\ JobOK(i)
    BY <1>3 DEF TaskInv, HostInv, StoreInv
  <1>5. /\ DOMAIN jobs' = DOMAIN jobs
        /\ \A k \in DOMAIN jobs \ {i} : jobs'[k] = jobs[k]
        /\ jobs'[i].op = jobs[i].op /\ jobs'[i].arg = jobs[i].arg
        /\ \/ jobs'[i].step = "err"
           \/ /\ jobs[i].step = "meta" /\ jobs'[i].step = "temp"
              /\ jobs'[i].size = Len(files[jobs[i].arg].data)
           \/ /\ jobs[i].step = "temp" /\ jobs[i].op = "file"
              /\ jobs'[i].step \notin {"meta", "temp"} /\ jobs'[i].size = jobs[i].size
              /\ jobs'[i].hash = files[jobs[i].arg].data \/ Len(files[jobs[i].arg].data) > jobs[i].size
           \/ /\ jobs[i].step = "temp" /\ jobs[i].op = "stream" /\ jobs'[i].step \notin {"meta", "temp"}
              /\ jobs'[i].hash = jobs[i].arg /\ jobs'[i].size = Len(jobs[i].arg)
           \/ /\ jobs[i].step \notin {"meta", "temp", "err"} /\ jobs'[i].step \notin {"meta", "temp"}
              /\ jobs'[i].hash = jobs[i].hash /\ jobs'[i].size = jobs[i].size
    <2>1. jobs[i].op \in {"file", "stream"}
      BY <1>4 DEF ReadJob
    <2> QED
      BY <1>2, <2>1, ImportJobGoes DEF HostInv
  <1>6. Item(i)' = Item(i) /\ (UpToDate(i)' <=> UpToDate(i)) /\ (Local' <=> Local)
        /\ (Page(Item(i))' <=> Page(Item(i))) /\ Children(i)' = Children(i)
    BY <1>1 DEF Item, UpToDate, Local, Page, Children
  <1>7. Len(files[Item(i)].data) \in Nat
    BY <1>4, ContentFacts DEF TaskForm, ImportInv, FilesInv
  <1>8. ReadJob(i)'
    <2>1. CASE Local
      <3>1. /\ jobs[i].op = "file" /\ jobs[i].arg = Item(i)
            /\ UpToDate(i) /\ jobs[i].step \notin {"meta", "err"} =>
                    jobs[i].size = Len(files[Item(i)].data)
            /\ UpToDate(i) /\ jobs[i].step \notin {"meta", "temp", "err"} =>
                    jobs[i].hash = files[Item(i)].data
        BY <1>4, <2>1 DEF ReadJob
      <3>2. UpToDate(i) /\ jobs[i].step \notin {"meta", "err"} => ~(Len(files[Item(i)].data) > jobs[i].size)
        BY <1>7, <3>1
      <3>3. UpToDate(i) /\ jobs'[i].step \notin {"meta", "err"} => jobs'[i].size = Len(files[Item(i)].data)
        BY <1>5, <3>1, <3>2
      <3>4. UpToDate(i) /\ jobs'[i].step \notin {"meta", "temp", "err"} => jobs'[i].hash = files[Item(i)].data
        BY <1>5, <3>1, <3>2
      <3> QED
        BY <1>1, <1>5, <1>6, <2>1, <3>1, <3>3, <3>4 DEF ReadJob
    <2>2. CASE ~Local
      <3>1. /\ jobs[i].op = "stream" /\ jobs[i].step # "meta"
            /\ UpToDate(i) => jobs[i].arg = files[Item(i)].data
            /\ jobs[i].step \notin {"temp", "err"} =>
                    jobs[i].hash = jobs[i].arg /\ jobs[i].size = Len(jobs[i].arg)
        BY <1>4, <2>2 DEF ReadJob
      <3>2. /\ jobs'[i].step # "meta"
            /\ jobs'[i].step \notin {"temp", "err"} =>
                    jobs'[i].hash = jobs[i].arg /\ jobs'[i].size = Len(jobs[i].arg)
        BY <1>5, <3>1
      <3> QED
        BY <1>1, <1>5, <1>6, <2>2, <3>1, <3>2 DEF ReadJob
    <2> QED
      BY <2>1, <2>2
  <1>9. TaskInv(i)'
    <2>1. TaskForm(i)'
      BY <1>1, <1>4, <1>6 DEF TaskForm, IsContent
    <2> QED
      BY <1>1, <1>3, <1>6, <1>8, <2>1 DEF TaskInv
  <1>10. \A u \in DOMAIN tasks' :
            \/ TaskInv(u)'
            \/ /\ u \in DOMAIN tasks /\ tasks'[u] = tasks[u]
               /\ u \in DOMAIN jobs' => u \in DOMAIN jobs /\ jobs'[u] = jobs[u]
    BY <1>1, <1>5, <1>9
  <1> QED
    BY <1>1, <1>10, TaskStepHolds

\* The tasks.

\* One task moves, and its job may begin.
LEMMA OneTaskHolds ==
    ASSUME HostInv, Mode("import"), ImportInv, NEW t \in DOMAIN tasks,
           UNCHANGED <<config, files, clock, touched, tree, saved, past, run, alive>>,
           DOMAIN tasks' = DOMAIN tasks, \A u \in DOMAIN tasks \ {t} : tasks'[u] = tasks[u],
           \A u \in DOMAIN jobs' \ {t} : u \in DOMAIN jobs /\ jobs'[u] = jobs[u],
           TaskInv(t)'
    PROVE  ImportInv'
  <1>1. \A u \in DOMAIN tasks' :
            \/ TaskInv(u)'
            \/ /\ u \in DOMAIN tasks /\ tasks'[u] = tasks[u]
               /\ u \in DOMAIN jobs' => u \in DOMAIN jobs /\ jobs'[u] = jobs[u]
    OBVIOUS
  <1> QED
    BY <1>1, TaskStepHolds

LEMMA StepForms ==
    ASSUME HostInv, Mode("import"), NEW t \in DOMAIN tasks, NEW step, Step(t, step)
    PROVE  /\ DOMAIN tasks' = DOMAIN tasks
           /\ \A u \in DOMAIN tasks \ {t} : tasks'[u] = tasks[u]
           /\ tasks'[t].step = step /\ tasks'[t].time = tasks[t].time
  <1>1. DOMAIN tasks[t] = TaskFields
    BY DEF HostInv, ImportIds
  <1> QED
    BY <1>1 DEF Step, TaskFields

\* What does not depend on where a task is.
LEMMA TaskSame ==
    ASSUME NEW t, UNCHANGED <<config, files, clock, touched>>, TaskForm(t),
           tasks'[t].time \in Nat, tasks'[t].time <= clock
    PROVE  /\ TaskForm(t)' /\ Item(t)' = Item(t) /\ Children(t)' = Children(t)
           /\ (Page(Item(t))' <=> Page(Item(t))) /\ (Local' <=> Local)
  BY DEF TaskForm, Item, Children, Page, Local, IsContent

LEMMA RecentSame ==
    ASSUME UNCHANGED <<config, files, tree>>
    PROVE  \A x : Recent(tree.files, x) => Recent(tree.files, x)'
  BY SameKeys DEF Recent

\* Steps that wait for a permit, read times and ask for heads.
LEMMA PlainStepHolds ==
    ASSUME HostInv, Mode("import"), ImportInv, NEW t \in DOMAIN tasks, config' = config,
           Acquire(t) \/ CompareUrl(t) \/ HeadRequest(t) \/ LinksDone(t)
    PROVE  ImportInv'
  <1>1. UNCHANGED <<files, clock, touched, tree, saved, past, run, alive, jobs>>
    BY DEF Acquire, CompareUrl, HeadRequest, LinksDone, storeVars, fsVars
  <1>2. TaskInv(t) /\ TaskForm(t)
    BY DEF ImportInv, TaskInv
  <1>3. ASSUME NEW step, Step(t, step),
               step \in {"meta"} => Local,
               step \in {"head", "fetch"} => ~Local,
               step \notin {"import", "links"} /\ ~(Local /\ step = "get"),
               step = "head" => ~Page(Item(t)),
               step = "done" /\ ~Local /\ Page(Item(t)) => Children(t) \subseteq DOMAIN tasks,
               step = "done" /\ Item(t) \notin touched /\ files[Item(t)].up /\ ~Page(Item(t)) =>
                    Recent(tree.files, Item(t))
        PROVE  ImportInv'
    <2>1. /\ DOMAIN tasks' = DOMAIN tasks
          /\ \A u \in DOMAIN tasks \ {t} : tasks'[u] = tasks[u]
          /\ tasks'[t].step = step /\ tasks'[t].time = tasks[t].time
      BY <1>3, StepForms
    <2>2. /\ TaskForm(t)' /\ Item(t)' = Item(t) /\ Children(t)' = Children(t)
          /\ (Page(Item(t))' <=> Page(Item(t))) /\ (Local' <=> Local)
      BY <1>1, <1>2, <2>1, TaskSame DEF TaskForm
    <2>3. PICK x : x = Item(t)
      OBVIOUS
    <2>4. Recent(tree.files, Item(t)) => Recent(tree.files, Item(t))'
      BY <1>1, <2>2, <2>3, RecentSame
    <2>5. TaskInv(t)'
      BY <1>1, <1>3, <2>1, <2>2, <2>4 DEF TaskInv
    <2> QED
      BY <1>1, <2>1, <2>5, OneTaskHolds
  <1>4. CASE Acquire(t)
    <2>1. Step(t, IF Local THEN "meta" ELSE "get")
      BY <1>4 DEF Acquire
    <2>2. CASE Local
      BY <1>3, <2>1, <2>2
    <2>3. CASE ~Local
      BY <1>3, <2>1, <2>3
    <2> QED
      BY <2>2, <2>3
  <1>5. CASE CompareUrl(t)
    <2>1. ~Local /\ Step(t, IF file_exists(Key(Item(t))) THEN "head" ELSE "fetch")
      BY <1>5 DEF CompareUrl
    <2>2. CASE file_exists(Key(Item(t)))
      <3>1. ~Page(Item(t))
        BY <2>1, <2>2, TreeRight
      <3> QED
        BY <1>3, <2>1, <2>2, <3>1
    <2>3. CASE ~file_exists(Key(Item(t)))
      BY <1>3, <2>1, <2>3
    <2> QED
      BY <2>2, <2>3
  <1>6. CASE HeadRequest(t)
    <2>1. /\ tasks[t].step = "head" /\ ~Local /\ ~Page(Item(t))
          /\ \/ Step(t, "fetch")
             \/ /\ Step(t, "done")
                /\ \/ ~files[Item(t)].up
                   \/ /\ files[Item(t)].time # 0
                      /\ Unchanged(t, Len(files[Item(t)].data), files[Item(t)].time)
      BY <1>2, <1>6 DEF HeadRequest, In, TaskInv
    <2>2. CASE Step(t, "fetch")
      BY <1>3, <2>1, <2>2
    <2>3. CASE Step(t, "done") /\ ~files[Item(t)].up
      BY <1>3, <2>1, <2>3
    <2>4. CASE /\ Step(t, "done") /\ files[Item(t)].time # 0
               /\ Unchanged(t, Len(files[Item(t)].data), files[Item(t)].time)
      <3>1. Recent(tree.files, Item(t))
        BY <1>2, <2>4, TreeRight DEF Unchanged, file_exists, file_get, DatedRef, Recent, TaskForm
      <3> QED
        BY <1>3, <2>1, <2>4, <3>1
    <2> QED
      BY <2>1, <2>2, <2>3, <2>4
  <1>7. CASE LinksDone(t)
    <2>1. tasks[t].step = "links" /\ Step(t, "done")
      BY <1>7 DEF LinksDone, In
    <2>2. ~Local /\ Page(Item(t))
      BY <1>2, <2>1 DEF TaskInv
    <2> QED
      BY <1>2, <1>3, <2>1, <2>2 DEF TaskInv
  <1> QED
    BY <1>4, <1>5, <1>6, <1>7

\* The command ends with an error.
LEMMA AbortHolds ==
    ASSUME HostInv, Mode("import"), ImportInv, Abort, UNCHANGED <<config, files, clock, touched>>,
           \A u \in DOMAIN jobs' : u \in DOMAIN jobs /\ jobs'[u] = jobs[u]
    PROVE  ImportInv'
  <1>1. run'.step = "failed" /\ UNCHANGED <<tasks, tree, saved, past>>
    BY DEF Abort, HostInv, ImportIds, RunFields
  <1>2. RootRight'
    BY <1>1, RefsKept, RootKept
  <1> QED
    BY <1>1, <1>2, RecentSame, ImportKept

LEMMA EntryStepHolds ==
    ASSUME HostInv, Mode("import"), ImportInv, NEW t \in DOMAIN tasks, config' = config,
           EntryMetadata(t) \/ CompareEntry(t)
    PROVE  ImportInv'
  <1>1. UNCHANGED <<files, clock, touched>>
    BY DEF EntryMetadata, CompareEntry
  <1>2. TaskInv(t) /\ TaskForm(t) /\ DOMAIN tasks[t] = TaskFields
    BY DEF ImportInv, TaskInv, HostInv, ImportIds
  <1>3. PICK x : x = Item(t)
    OBVIOUS
  <1>4. x \in DOMAIN files /\ files[x].time \in Nat /\ files[x].time <= clock
    BY <1>2, <1>3 DEF TaskForm, ImportInv, FilesInv
  <1>5. CASE EntryMetadata(t)
    <2>1. tasks[t].step = "meta" /\ Local /\ jobs' = jobs
      BY <1>2, <1>5 DEF EntryMetadata, In, TaskInv, storeVars
    <2>2. CASE Abort
      BY <1>1, <2>1, <2>2, AbortHolds
    <2>3. CASE ~Abort
      <3>1. /\ tasks' = [tasks EXCEPT ![t] = [step |-> "get", time |-> files[x].time, size |-> Len(files[x].data)]]
            /\ UNCHANGED <<run, fsVars>>
        BY <1>3, <1>5, <2>3 DEF EntryMetadata
      <3>2. /\ DOMAIN tasks' = DOMAIN tasks
            /\ \A u \in DOMAIN tasks \ {t} : tasks'[u] = tasks[u]
            /\ tasks'[t].step = "get" /\ tasks'[t].time = files[x].time
        BY <3>1
      <3>3. /\ TaskForm(t)' /\ Item(t)' = Item(t) /\ Children(t)' = Children(t)
            /\ (Page(Item(t))' <=> Page(Item(t))) /\ (Local' <=> Local)
        BY <1>1, <1>2, <1>4, <3>2, TaskSame
      <3>4. TaskInv(t)'
        BY <1>1, <1>3, <2>1, <3>2, <3>3 DEF TaskInv
      <3> QED
        BY <1>1, <2>1, <3>1, <3>2, <3>4, OneTaskHolds DEF fsVars
    <2> QED
      BY <2>2, <2>3
  <1>6. CASE CompareEntry(t)
    <2>1. /\ Local /\ tasks[t].step = "get" /\ UNCHANGED <<run, tree, saved, past, alive>>
          /\ \/ /\ Unchanged(t, tasks[t].size, tasks[t].time)
                /\ Step(t, "done") /\ jobs' = jobs
             \/ Step(t, "import") /\ jobs' = With(jobs, t, NewJob("file", config.dest, x))
      BY <1>3, <1>6 DEF CompareEntry, In, fsVars
    <2>2. x \notin touched => tasks[t].time = files[x].time
      BY <1>2, <1>3, <2>1 DEF TaskInv
    <2>3. CASE Step(t, "done") /\ jobs' = jobs /\ Unchanged(t, tasks[t].size, tasks[t].time)
      <3>1. /\ DOMAIN tasks' = DOMAIN tasks
            /\ \A u \in DOMAIN tasks \ {t} : tasks'[u] = tasks[u]
            /\ tasks'[t].step = "done" /\ tasks'[t].time = tasks[t].time
        BY <2>3, StepForms
      <3>2. /\ TaskForm(t)' /\ Item(t)' = Item(t) /\ Children(t)' = Children(t)
            /\ (Page(Item(t))' <=> Page(Item(t))) /\ (Local' <=> Local)
        BY <1>1, <1>2, <3>1, TaskSame DEF TaskForm
      <3>3. x \notin touched => Recent(tree.files, x)
        <4>1. files[x].time # 0
          BY <1>4, <2>1 DEF ImportInv, FilesInv
        <4> QED
          BY <1>3, <1>4, <2>2, <2>3, <4>1, TreeRight DEF Unchanged, file_exists, file_get, DatedRef, Recent
      <3>4. Recent(tree.files, x) => Recent(tree.files, x)'
        BY <1>1, <2>1, RecentSame
      <3>5. x \notin touched => Recent(tree.files, Item(t))'
        BY <1>3, <3>2, <3>3, <3>4
      <3>6. TaskInv(t)'
        BY <1>1, <1>3, <2>1, <3>1, <3>2, <3>5 DEF TaskInv
      <3> QED
        BY <1>1, <2>1, <2>3, <3>1, <3>6, OneTaskHolds
    <2>4. CASE Step(t, "import") /\ jobs' = With(jobs, t, NewJob("file", config.dest, x))
      <3>1. /\ DOMAIN tasks' = DOMAIN tasks
            /\ \A u \in DOMAIN tasks \ {t} : tasks'[u] = tasks[u]
            /\ tasks'[t].step = "import" /\ tasks'[t].time = tasks[t].time
        BY <2>4, StepForms
      <3>2. /\ TaskForm(t)' /\ Item(t)' = Item(t) /\ Children(t)' = Children(t)
            /\ (Page(Item(t))' <=> Page(Item(t))) /\ (Local' <=> Local)
        BY <1>1, <1>2, <3>1, TaskSame DEF TaskForm
      <3>3. /\ jobs'[t].op = "file" /\ jobs'[t].arg = x /\ jobs'[t].step = "meta"
            /\ \A u \in DOMAIN jobs' \ {t} : u \in DOMAIN jobs /\ jobs'[u] = jobs[u]
        BY <2>4 DEF With, NewJob
      <3>4. ReadJob(t)'
        BY <1>3, <2>1, <3>2, <3>3 DEF ReadJob
      <3>5. TaskInv(t)'
        BY <1>1, <1>3, <2>1, <2>2, <3>1, <3>2, <3>4 DEF TaskInv
      <3> QED
        BY <1>1, <2>1, <3>1, <3>3, <3>5, OneTaskHolds
    <2> QED
      BY <2>1, <2>3, <2>4
  <1> QED
    BY <1>5, <1>6

\* A page gives rise to tasks for its links, a file is imported.
LEMMA GetStepHolds ==
    ASSUME HostInv, Mode("import"), ImportInv, NEW t \in DOMAIN tasks, config' = config,
           GetRequest(t)
    PROVE  ImportInv'
  <1>1. UNCHANGED <<files, clock, touched>>
    BY DEF GetRequest
  <1>2. TaskInv(t) /\ TaskForm(t) /\ DOMAIN tasks[t] = TaskFields
    BY DEF ImportInv, TaskInv, HostInv, ImportIds
  <1>3. PICK x : x = Item(t)
    OBVIOUS
  <1>4. x \in DOMAIN files /\ files[x].time \in Nat /\ files[x].time <= clock /\ clock \in Nat
    BY <1>2, <1>3 DEF TaskForm, ImportInv, FilesInv
  <1>5. tasks[t].step = "fetch" /\ ~Local
    BY <1>2 DEF GetRequest, In, TaskInv
  <1>6. CASE Abort /\ UNCHANGED jobs
    BY <1>1, <1>6, AbortHolds
  <1>7. CASE /\ Page(x) /\ UNCHANGED <<run, jobs, fsVars>>
             /\ tasks' = [c \in DOMAIN tasks \cup Children(t) |->
                            IF c = t THEN [tasks[t] EXCEPT !.step = "links"]
                            ELSE IF c \in DOMAIN tasks THEN tasks[c] ELSE NewTask]
    <2>1. /\ DOMAIN tasks' = DOMAIN tasks \cup Children(t)
          /\ \A u \in DOMAIN tasks \ {t} : tasks'[u] = tasks[u]
          /\ tasks'[t].step = "links" /\ tasks'[t].time = tasks[t].time
          /\ \A u \in Children(t) \ DOMAIN tasks : tasks'[u] = NewTask
      BY <1>2, <1>7 DEF TaskFields
    <2>2. /\ TaskForm(t)' /\ Item(t)' = Item(t) /\ Children(t)' = Children(t)
          /\ (Page(Item(t))' <=> Page(Item(t))) /\ (Local' <=> Local)
      BY <1>1, <1>2, <2>1, TaskSame DEF TaskForm
    <2>3. TaskInv(t)'
      BY <1>3, <1>5, <1>7, <2>1, <2>2 DEF TaskInv
    <2>4. ASSUME NEW u \in Children(t) \ DOMAIN tasks PROVE TaskInv(u)'
      <3>1. PICK y \in config.links[x] \ {x} : u = [t EXCEPT !.path = Append(@, y)]
        BY <1>3 DEF Children
      <3>2. y \in DOMAIN files
        <4>1. config \in Configs /\ config.mode = "import"
          BY ModeFacts DEF Mode
        <4>2. config.links[x] \subseteq DOMAIN config.files
          BY <1>5, <1>7, <4>1, ImportAssumption DEF Local, Page
        <4> QED
          BY <3>1, <4>2 DEF ImportInv
      <3>3. DOMAIN u = {"run", "path"} /\ u.path = Append(t.path, y)
        BY <1>2, <3>1 DEF TaskForm
      <3>4. IsContent(u.path) /\ Len(u.path) = Len(t.path) + 1 /\ u.path[Len(t.path) + 1] = y
        BY <1>2, <3>3, AppendFacts DEF TaskForm
      <3>5. Len(t.path) \in Nat
        BY <1>2, ContentFacts DEF TaskForm
      <3>6. Len(u.path) # 0 /\ Item(u) = y
        BY <3>4, <3>5 DEF Item
      <3>7. tasks'[u].step = "queued" /\ tasks'[u].time = 0
        BY <2>1 DEF NewTask
      <3>9. IsContent(u.path)' /\ Item(u)' \in DOMAIN files'
        BY <1>1, <3>2, <3>4, <3>6 DEF Item, IsContent
      <3>10. tasks'[u].time \in Nat /\ tasks'[u].time <= clock'
        BY <1>1, <1>4, <3>7
      <3>8. TaskForm(u)'
        BY <3>3, <3>6, <3>9, <3>10 DEF TaskForm
      <3> QED
        BY <3>7, <3>8 DEF TaskInv
    <2>5. \A u \in DOMAIN tasks' :
            \/ TaskInv(u)'
            \/ /\ u \in DOMAIN tasks /\ tasks'[u] = tasks[u]
               /\ u \in DOMAIN jobs' => u \in DOMAIN jobs /\ jobs'[u] = jobs[u]
      BY <1>7, <2>1, <2>3, <2>4
    <2> QED
      BY <1>1, <1>7, <2>1, <2>5, TaskStepHolds DEF fsVars
  <1>8. CASE /\ ~Page(x) /\ UNCHANGED <<run, fsVars>>
             /\ tasks' = [tasks EXCEPT ![t] = [step |-> "import", time |-> files[x].time, size |-> 0]]
             /\ jobs' = With(jobs, t, NewJob("stream", config.dest, files[x].data))
    <2>1. /\ DOMAIN tasks' = DOMAIN tasks
          /\ \A u \in DOMAIN tasks \ {t} : tasks'[u] = tasks[u]
          /\ tasks'[t].step = "import" /\ tasks'[t].time = files[x].time
      BY <1>8
    <2>2. /\ TaskForm(t)' /\ Item(t)' = Item(t) /\ Children(t)' = Children(t)
          /\ (Page(Item(t))' <=> Page(Item(t))) /\ (Local' <=> Local)
      BY <1>1, <1>2, <1>4, <2>1, TaskSame
    <2>3. /\ jobs'[t].op = "stream" /\ jobs'[t].arg = files[x].data /\ jobs'[t].step = "temp"
          /\ \A u \in DOMAIN jobs' \ {t} : u \in DOMAIN jobs /\ jobs'[u] = jobs[u]
      BY <1>8 DEF With, NewJob
    <2>4. ReadJob(t)'
      BY <1>1, <1>3, <1>5, <2>2, <2>3 DEF ReadJob
    <2>5. TaskInv(t)'
      BY <1>1, <1>3, <1>5, <1>8, <2>1, <2>2, <2>4 DEF TaskInv
    <2> QED
      BY <1>1, <1>8, <2>1, <2>3, <2>5, OneTaskHolds DEF fsVars
  <1> QED
    BY <1>3, <1>6, <1>7, <1>8 DEF GetRequest, Children

\* The reference goes into the root, unless the import failed.
LEMMA PutStepHolds ==
    ASSUME HostInv, Mode("import"), ImportInv, NEW t \in DOMAIN tasks, config' = config, PutRef(t)
    PROVE  ImportInv'
  <1>1. UNCHANGED <<files, clock, touched>> /\ jobs' = Without(jobs, t)
    BY DEF PutRef
  <1>2. TaskInv(t) /\ TaskForm(t) /\ DOMAIN tasks[t] = TaskFields
    BY DEF ImportInv, TaskInv, HostInv, ImportIds
  <1>3. PICK x : x = Item(t)
    OBVIOUS
  <1>4. x \in DOMAIN files /\ files[x].time \in Nat /\ files[x].time <= clock /\ clock \in Nat
    BY <1>2, <1>3 DEF TaskForm, ImportInv, FilesInv
  <1>5. \A u \in DOMAIN jobs' : u # t /\ u \in DOMAIN jobs /\ jobs'[u] = jobs[u]
    BY <1>1 DEF Without
  <1>6. CASE Abort
    BY <1>1, <1>5, <1>6, AbortHolds
  <1>7. CASE ~Abort
    <2>1. PICK time, hash, length :
            /\ time = (IF Local THEN EntryTime(t) ELSE UrlTime(t)) /\ hash = jobs[t].hash /\ length = jobs[t].size
            /\ file_put(Key(x), FileRef(hash, length, time))
      BY <1>3, <1>7 DEF PutRef
    <2>2. /\ Step(t, "done") /\ UNCHANGED <<run, saved, alive>>
          /\ tasks[t].step = "import" /\ jobs[t].step = "ok" /\ alive
      BY <1>7 DEF PutRef, Imported, In
    <2>3. t \in DOMAIN jobs /\ ReadJob(t)
      BY <1>2, <2>2 DEF HostInv, ImportIds, TaskInv
    <2>4. UpToDate(t) => hash = files[x].data /\ length = Len(files[x].data)
      <3>1. jobs[t].step \notin {"meta", "temp", "err"}
        BY <2>2
      <3>2. CASE Local
        BY <1>3, <2>1, <2>3, <3>1, <3>2 DEF ReadJob
      <3>3. CASE ~Local
        BY <1>3, <2>1, <2>3, <3>1, <3>3 DEF ReadJob
      <3> QED
        BY <3>2, <3>3
    <2>5. time \in Nat /\ time <= clock
      BY <1>2, <1>4, <2>1 DEF EntryTime, UrlTime, TaskForm
    <2>6. files[x].time # 0 => time = tasks[t].time
      BY <1>2, <1>3, <2>1, <2>2 DEF EntryTime, UrlTime, TaskInv
    <2>7. files[x].time # 0 /\ time = files[x].time => UpToDate(t)
      BY <1>3, <2>6 DEF UpToDate
    <2>8. x \notin touched => UpToDate(t) /\ (files[x].time # 0 => time = files[x].time)
      BY <1>2, <1>3, <2>2, <2>6 DEF UpToDate, TaskInv
    <2>9. PICK f, g, r : f = tree.files /\ g = tree'.files /\ r = FileRef(hash, length, time)
      OBVIOUS
    <2>10. /\ DOMAIN g = DOMAIN f \cup {Key(x)}
           /\ g[Key(x)] = r
           /\ \A y \in DOMAIN f \ {Key(x)} : g[y] = f[y]
           /\ past'.files \subseteq past.files \cup {<<Key(x), r>>}
      BY <2>1, <2>9 DEF file_put, HostInv, Rooted, TreeFields, PastFields, With
    <2>30. DOMAIN r = {"hash", "size", "time", "locations"} /\ r.hash = hash /\ r.size = length
           /\ r.time = time /\ r.locations = <<>>
      BY <2>9 DEF FileRef
    <2>11. \A y : y \in DOMAIN files \/ y \in DOMAIN config.links => (y # x => Key(y) # Key(x))
      BY <1>4, KeysDiffer, SourceNames
    <2>12. DatedRef(x, r)
      BY <2>4, <2>5, <2>7, <2>30 DEF DatedRef
    <2>13. Fits(Key(x), r)
      <3>1. ~Local => ~Page(x)
        BY <1>2, <1>3, <2>2 DEF TaskInv
      <3> QED
        BY <2>11, <2>12, <3>1 DEF Fits, Page
    <2>14. \A y \in DOMAIN files \ touched : Recent(f, y) => Recent(g, y)
      <3> SUFFICES ASSUME NEW y \in DOMAIN files \ touched, Recent(f, y) PROVE Recent(g, y)
        OBVIOUS
      <3>1. CASE y = x
        BY <2>4, <2>8, <2>10, <2>30, <3>1 DEF Recent
      <3>2. CASE y # x
        BY <2>10, <2>11, <3>2 DEF Recent
      <3> QED
        BY <3>1, <3>2
    <2>15. x \notin touched => Recent(g, x)
      BY <2>4, <2>8, <2>10, <2>30 DEF Recent
    <2>16. ASSUME NEW path, NEW ref, HasRef(path, ref)' PROVE HasRef(path, ref) \/ (path = Key(x) /\ ref = r)
      <3>1. CASE path \in DOMAIN g /\ ref = g[path]
        BY <2>9, <2>10, <3>1 DEF HasRef
      <3>2. CASE path \in DOMAIN saved.files /\ ref = saved.files[path]
        BY <3>2 DEF HasRef
      <3>3. CASE \E v \in past'.files : v[1] = path /\ v[2] = ref
        BY <2>10, <3>3 DEF HasRef
      <3> QED
        BY <2>2, <2>9, <2>16, <3>1, <3>2, <3>3 DEF HasRef
    <2>17. \A y : Key(y)' = Key(y) /\ (Local' <=> Local)
      BY SameKeys
    <2>18. RootRight'
      <3>1. \A path, ref : HasRef(path, ref)' => Fits(path, ref)
        BY <2>13, <2>16 DEF ImportInv, RootRight
      <3>2. \A path, ref : Fits(path, ref) => Fits(path, ref)'
        BY <1>1, <2>17 DEF Fits, DatedRef
      <3> QED
        BY <3>1, <3>2 DEF RootRight
    <2>20. \A y : Recent(g, y) => Recent(tree.files, y)'
      BY <1>1, <2>9, <2>17 DEF Recent
    <2>21. \A y \in DOMAIN files \ touched : Recent(tree.files, y) => Recent(tree.files, y)'
      BY <2>9, <2>14, <2>20
    <2>22. /\ DOMAIN tasks' = DOMAIN tasks
           /\ \A u \in DOMAIN tasks \ {t} : tasks'[u] = tasks[u]
           /\ tasks'[t].step = "done" /\ tasks'[t].time = tasks[t].time
      BY <2>2, StepForms
    <2>23. /\ TaskForm(t)' /\ Item(t)' = Item(t) /\ Children(t)' = Children(t)
           /\ (Page(Item(t))' <=> Page(Item(t))) /\ (Local' <=> Local)
      BY <1>1, <1>2, <2>22, TaskSame DEF TaskForm
    <2>24. x \notin touched => Recent(tree.files, x)'
      BY <2>15, <2>20
    <2>25. x \notin touched => Recent(tree.files, Item(t))'
      BY <1>3, <2>23, <2>24
    <2>26. ~Local => ~Page(Item(t))
      BY <1>2, <2>2 DEF TaskInv
    <2>27. TaskInv(t)'
      BY <1>1, <1>3, <2>22, <2>23, <2>25, <2>26 DEF TaskInv
    <2>28. \A u \in DOMAIN tasks' :
            \/ TaskInv(u)'
            \/ /\ u \in DOMAIN tasks /\ tasks'[u] = tasks[u]
               /\ u \in DOMAIN jobs' => u \in DOMAIN jobs /\ jobs'[u] = jobs[u]
      BY <1>5, <2>22, <2>27
    <2>29. run'.step # "done"
      BY <2>2 DEF ImportInv
    <2> QED
      BY <1>1, <2>2, <2>18, <2>21, <2>22, <2>28, <2>29, ImportKept
  <1> QED
    BY <1>6, <1>7

LEMMA FailedRequestHolds ==
    ASSUME HostInv, Mode("import"), ImportInv, config' = config,
           SaveRunFails \/ \E t \in DOMAIN tasks : RequestFails(t)
    PROVE  ImportInv'
  <1>1. Abort /\ UNCHANGED <<files, clock, touched, jobs>>
    BY DEF RequestFails, SaveRunFails
  <1> QED
    BY <1>1, AbortHolds

\* The run ends.  Every source that has not changed had a task: of a walk from the
\* start, of URLs because the pages link them all.
LEMMA AllVisited ==
    ASSUME HostInv, Mode("import"), ImportInv, run.step = "run",
           \A t \in DOMAIN tasks : tasks[t].step = "done",
           NEW x \in DOMAIN files \ touched, files[x].up
    PROVE  \E t \in DOMAIN tasks : Item(t) = x
  <1>1. CASE Local
    BY <1>1 DEF ImportInv, Begun
  <1>2. CASE ~Local
    <2> DEFINE S == {y \in DOMAIN files : \E t \in DOMAIN tasks : Item(t) = y}
    <2>1. /\ config \in Configs /\ config.mode = "import" /\ config.importer # "local"
          /\ DOMAIN files = DOMAIN config.files
      BY <1>2, ModeFacts DEF Mode, Local, ImportInv
    <2>2. /\ config.base \in DOMAIN files
          /\ \A y \in DOMAIN config.links : config.links[y] \subseteq DOMAIN files
          /\ \A T \in SUBSET DOMAIN config.files :
                config.base \in T /\ (\A y \in T \cap DOMAIN config.links : config.links[y] \subseteq T)
                    => T = DOMAIN config.files
      BY <2>1, ImportAssumption
    <2>3. config.base \in S
      BY <1>2, <2>2 DEF ImportInv, Begun
    <2>4. ASSUME NEW y \in S \cap DOMAIN config.links, NEW z \in config.links[y] PROVE z \in S
      <3>1. PICK t \in DOMAIN tasks : Item(t) = y
        OBVIOUS
      <3>2. z \in DOMAIN files
        BY <2>2
      <3>3. CASE z = y
        BY <3>3
      <3>4. CASE z # y
        <4>1. TaskInv(t) /\ tasks[t].step = "done" /\ Page(Item(t))
          BY <3>1 DEF ImportInv, Page
        <4>2. TaskForm(t) /\ Children(t) \subseteq DOMAIN tasks
          BY <1>2, <4>1 DEF TaskInv
        <4>3. PICK u : u = [t EXCEPT !.path = Append(@, z)]
          OBVIOUS
        <4>4. u \in DOMAIN tasks
          BY <3>1, <3>4, <4>2, <4>3 DEF Children
        <4>5. u.path = Append(t.path, z)
          BY <4>2, <4>3 DEF TaskForm
        <4>6. Len(u.path) = Len(t.path) + 1 /\ u.path[Len(t.path) + 1] = z
          BY <4>2, <4>5, AppendFacts DEF TaskForm
        <4>7. Item(u) = z
          BY <4>6 DEF Item
        <4> QED
          BY <3>2, <4>4, <4>7
      <3> QED
        BY <3>3, <3>4
    <2>5. S \in SUBSET DOMAIN config.files
      BY <2>1
    <2>6. S = DOMAIN config.files
      <3> HIDE DEF S
      <3> QED
        BY <2>2, <2>3, <2>4, <2>5
    <2> QED
      BY <2>1, <2>6
  <1> QED
    BY <1>1, <1>2

\* A save writes what the root has or had.
LEMMA SaveHas ==
    ASSUME save, UNCHANGED <<tree, past>>
    PROVE  /\ \A path, ref : HasRef(path, ref)' => HasRef(path, ref)
           /\ \A path : Own(tree, path) /\ path \in DOMAIN tree.files =>
                path \in DOMAIN saved'.files /\ saved'.files[path] = tree.files[path]
  <1>1. /\ \A x : Own(tree, x) => (x \in DOMAIN saved'.files <=> x \in DOMAIN tree.files)
        /\ \A x \in DOMAIN saved'.files :
             IF Own(tree, x) THEN x \in DOMAIN tree.files /\ saved'.files[x] = tree.files[x]
             ELSE \E v \in past.files : v[1] = x /\ saved'.files[x] = v[2]
    BY SaveFacts
  <1>2. \A path, ref : path \in DOMAIN saved'.files /\ ref = saved'.files[path] => HasRef(path, ref)
    BY <1>1 DEF HasRef
  <1>3. \A path, ref : HasRef(path, ref)' => HasRef(path, ref)
    BY <1>2 DEF HasRef
  <1> QED
    BY <1>1, <1>3

LEMMA FinishHolds ==
    ASSUME HostInv, Mode("import"), ImportInv, config' = config, FinishRun
    PROVE  ImportInv'
  <1>1. /\ UNCHANGED <<files, clock, touched, tree, past>> /\ save /\ ~alive'
        /\ run.step = "run" /\ DOMAIN tasks' = {}
        /\ \A t \in DOMAIN tasks : tasks[t].step = "done"
    BY DEF FinishRun, Empty
  <1>2. run'.step = "done"
    BY DEF FinishRun, HostInv, ImportIds, RunFields
  <1>3. \A x : Key(x)' = Key(x)
    BY SameKeys
  <1>4. RootRight'
    BY <1>1, SaveHas, RefsKept
  <1>5. \A x : Recent(tree.files, x) => Recent(tree.files, x)'
    BY <1>1, RecentSame
  <1>6. \A x : Own(tree, Key(x))' <=> Own(tree, Key(x))
    BY <1>1, <1>3 DEF Own
  <1>7. ASSUME NEW x \in DOMAIN files \ touched, files[x].up, ~Page(x)
        PROVE  Finished(x)'
    <2>1. PICK t \in DOMAIN tasks : Item(t) = x
      BY <1>1, <1>7, AllVisited
    <2>2. Recent(tree.files, Item(t))
      BY <1>1, <1>7, <2>1 DEF ImportInv, TaskInv
    <2>3. Recent(tree.files, x) /\ Key(x) \in DOMAIN tree.files
      BY <2>1, <2>2 DEF Recent
    <2>4. Own(tree, Key(x)) => Key(x) \in DOMAIN saved'.files /\ saved'.files[Key(x)] = tree.files[Key(x)]
      BY <1>1, <2>3, SaveHas
    <2> QED
      BY <1>1, <1>3, <1>5, <1>6, <2>3, <2>4 DEF Finished
  <1>8. \A x \in DOMAIN files \ touched : Recent(tree.files, x) => Recent(tree.files, x)'
    BY <1>5
  <1>9. \A x \in DOMAIN files \ touched : files[x].up /\ ~Page(x) => Finished(x)'
    BY <1>7
  <1> QED
    BY <1>1, <1>2, <1>4, <1>8, <1>9, ImportKept

LEMMA StartHolds ==
    ASSUME HostInv, Mode("import"), ImportInv, config' = config, StartRun
    PROVE  ImportInv'
  <1> DEFINE found == IF Local THEN {y \in DOMAIN files : files[y].up} ELSE {config.base}
             first(x) == [run |-> run.n + 1, path |-> <<x>>]
  <1>1. /\ UNCHANGED <<files, clock, saved>> /\ run'.step = "run" /\ touched' = {}
        /\ tasks' = [t \in {first(x) : x \in found} |-> NewTask]
        /\ UNCHANGED <<tree, past>> \/ create_dir(Prefix)
    BY DEF StartRun
  <1>2. tree'.files = tree.files /\ past'.files \subseteq past.files \cup Elsewhere(tree')
    BY <1>1 DEF create_dir, HostInv, Rooted, TreeFields, PastFields
  <1>3. \A v \in Elsewhere(tree') : v[1] \in DOMAIN tree.files /\ v[2] = tree.files[v[1]]
    <2>1. \A v \in Elsewhere(tree') : \E x \in DOMAIN tree'.files : v = <<x, tree'.files[x]>>
      BY ElsewhereFacts
    <2> QED
      BY <1>2, <2>1
  <1>4. RootRight'
    <2>1. \A path, ref : HasRef(path, ref)' => HasRef(path, ref)
      BY <1>1, <1>2, <1>3 DEF HasRef
    <2> QED
      BY <1>1, <2>1, RefsKept
  <1>5. (Local' <=> Local) /\ FilesInv' /\ DOMAIN files' = DOMAIN config'.files
    BY <1>1, ZenonT(40) DEF Local, ImportInv, FilesInv, IsContent
  <1>6. found \subseteq DOMAIN files
    <2>1. config \in Configs /\ config.mode = "import"
      BY ModeFacts DEF Mode
    <2>2. ~Local => config.base \in DOMAIN files
      BY <2>1, ImportAssumption DEF Local, ImportInv
    <2> QED
      BY <2>2
  <1>7. ASSUME NEW x \in found
        PROVE  /\ DOMAIN first(x) = {"run", "path"} /\ IsContent(first(x).path) /\ Len(first(x).path) # 0
               /\ Item(first(x)) = x
    BY DEF IsContent, Item
  <1> HIDE DEF first
  <1>8. /\ DOMAIN tasks' = {first(x) : x \in found}
        /\ \A t \in DOMAIN tasks' : tasks'[t].step = "queued" /\ tasks'[t].time = 0
    BY <1>1 DEF NewTask
  <1> HIDE DEF found
  <1>9. ASSUME NEW t \in DOMAIN tasks' PROVE TaskInv(t)'
    <2>1. PICK x \in found : t = first(x)
      BY <1>8
    <2>2. clock \in Nat
      BY DEF ImportInv, FilesInv
    <2>3. /\ DOMAIN t = {"run", "path"} /\ IsContent(t.path) /\ Len(t.path) # 0
          /\ Item(t) \in DOMAIN files
      BY <1>6, <1>7, <2>1
    <2>4. TaskForm(t)'
      <3>1. files' = files /\ clock' = clock /\ tasks'[t].time = 0
        BY <1>1, <1>8
      <3>2. Item(t)' \in DOMAIN files' /\ tasks'[t].time \in Nat /\ tasks'[t].time <= clock'
        BY <2>2, <2>3, <3>1 DEF Item
      <3>3. DOMAIN t = {"run", "path"} /\ IsContent(t.path)' /\ Len(t.path) # 0
        BY <2>3 DEF IsContent
      <3> QED
        BY <3>2, <3>3 DEF TaskForm
    <2> QED
      BY <1>8, <2>4 DEF TaskInv
  <1>10. Begun'
    <2>1. \A x \in found : \E t \in DOMAIN tasks' : Item(t) = x
      BY <1>7, <1>8
    <2>2. CASE Local
      BY <1>1, <1>5, <2>1, <2>2 DEF Begun, found, Item
    <2>3. CASE ~Local
      BY <1>1, <1>5, <2>1, <2>3 DEF Begun, found, Item
    <2> QED
      BY <2>2, <2>3
  <1> QED
    BY <1>1, <1>4, <1>5, <1>9, <1>10 DEF ImportInv

\* A source changes under the run: its time is one that no reference and no task has.
LEMMA EditHolds ==
    ASSUME HostInv, Mode("import"), ImportInv, config' = config,
           NEW x, NEW c \in config.contents, NEW up, Edit(x, c, up)
    PROVE  ImportInv'
  <1>1. /\ UNCHANGED <<tree, saved, past, run, alive, tasks, jobs>> /\ touched' = touched \cup {x}
        /\ clock' = clock + 1 /\ clock \in Nat \ {0}
    BY DEF Edit, fsVars, storeVars, ImportInv, FilesInv
  <1>2. /\ DOMAIN files' = DOMAIN files
        /\ \A y \in DOMAIN files \ {x} : files'[y] = files[y]
        /\ x \in DOMAIN files =>
            /\ files'[x] = [data |-> c, up |-> up, time |-> files'[x].time]
            /\ files[x].time = 0 => files'[x].time = 0
            /\ files[x].time # 0 => files'[x].time = clock + 1
    BY DEF Edit
  <1>3. /\ \A y : Key(y)' = Key(y)
        /\ \A y : Page(y)' <=> Page(y)
        /\ Local' <=> Local
    BY SameKeys
  <1>4. \A y \in DOMAIN files :
            /\ DOMAIN files[y] = FileFields /\ IsContent(files[y].data)
            /\ files[y].time \in Nat /\ files[y].time <= clock
            /\ Local => files[y].time # 0
    BY DEF ImportInv, FilesInv
  <1>5. IsContent(c)
    BY ModeFacts, HostAssumption
  <1>6. FilesInv' /\ DOMAIN files' = DOMAIN config'.files
    <2>1. ASSUME NEW y \in DOMAIN files
          PROVE  /\ DOMAIN files'[y] = FileFields /\ IsContent(files'[y].data)
                 /\ files'[y].time \in Nat /\ files'[y].time <= clock'
                 /\ Local => files'[y].time # 0
      <3>1. CASE y = x
        BY <1>1, <1>2, <1>4, <1>5, <3>1 DEF FileFields
      <3>2. CASE y # x
        BY <1>1, <1>2, <1>4, <3>2
      <3> QED
        BY <3>1, <3>2
    <2>2. clock' \in Nat \ {0} /\ DOMAIN files' = DOMAIN config'.files
      BY <1>1, <1>2 DEF ImportInv
    <2>3. \A y \in DOMAIN files' :
            /\ DOMAIN files'[y] = FileFields /\ IsContent(files[y].data)'
            /\ files'[y].time \in Nat /\ files'[y].time <= clock'
            /\ Local' => files'[y].time # 0
      BY <1>2, <1>3, <2>1 DEF IsContent
    <2> QED
      BY <2>2, <2>3 DEF FilesInv
  <1>7. ASSUME NEW y \in DOMAIN files, NEW ref, DatedRef(y, ref) PROVE DatedRef(y, ref)'
    <2>1. /\ ref.time \in Nat /\ ref.time <= clock
          /\ ref.locations = <<>>
          /\ files[y].time # 0 /\ ref.time = files[y].time =>
              ref.hash = files[y].data /\ ref.size = Len(files[y].data)
      BY <1>7 DEF DatedRef
    <2>2. CASE y = x
      BY <1>1, <1>2, <2>1, <2>2 DEF DatedRef
    <2>3. CASE y # x
      BY <1>1, <1>2, <2>1, <2>3 DEF DatedRef
    <2> QED
      BY <2>2, <2>3
  <1>12. RootRight'
    <2>1. \A path, ref : Fits(path, ref) => Fits(path, ref)'
      BY <1>2, <1>3, <1>7 DEF Fits
    <2>2. \A path, ref : HasRef(path, ref)' => HasRef(path, ref)
      BY <1>1 DEF HasRef
    <2> QED
      BY <2>1, <2>2 DEF ImportInv, RootRight
  <1>14. ASSUME NEW t \in DOMAIN tasks PROVE TaskInv(t)'
    <2>1. TaskInv(t) /\ TaskForm(t)
      BY DEF ImportInv, TaskInv
    <2>2. PICK y : y = Item(t)
      OBVIOUS
    <2>3. y \in DOMAIN files /\ Item(t)' = y /\ Children(t)' = Children(t)
      BY <2>1, <2>2 DEF TaskForm, Item, Children
    <2>4. TaskForm(t)'
      BY <1>1, <1>2, <2>1 DEF TaskForm, IsContent, Item
    <2>5. UpToDate(t)' => UpToDate(t) /\ y # x
      <3>1. tasks[t].time \in Nat /\ tasks[t].time <= clock
        BY <2>1 DEF TaskForm
      <3>2. CASE y = x
        BY <1>1, <1>2, <2>2, <2>3, <3>1, <3>2 DEF UpToDate
      <3>3. CASE y # x
        BY <1>1, <1>2, <2>2, <2>3, <3>3 DEF UpToDate
      <3> QED
        BY <3>2, <3>3
    <2>6. ReadJob(t) => ReadJob(t)'
      BY <1>1, <1>2, <1>3, <2>2, <2>3, <2>5 DEF ReadJob
    <2>7. files'[y].time = 0 <=> files[y].time = 0
      BY <1>1, <1>2, <2>3
    <2>8. y \notin touched' => y \notin touched /\ y # x
      BY <1>1
    <2>9. y # x /\ Recent(tree.files, Item(t)) => Recent(tree.files, Item(t))'
      BY <1>1, <1>2, <1>3, <2>2, <2>3 DEF Recent
    <2> QED
      BY <1>1, <1>2, <1>3, <2>1, <2>2, <2>3, <2>4, <2>6, <2>7, <2>8, <2>9 DEF TaskInv
  <1>15. run'.step = "run" => Begun'
    <2>1. run'.step = "run" => Begun
      BY <1>1 DEF ImportInv
    <2>2. \A t : Item(t)' = Item(t)
      BY DEF Item
    <2>3. CASE Local
      BY <1>1, <1>2, <1>3, <2>1, <2>2, <2>3 DEF Begun
    <2>4. CASE ~Local
      BY <1>1, <1>3, <2>1, <2>2, <2>4 DEF Begun
    <2> QED
      BY <2>3, <2>4
  <1>16. run'.step = "done" =>
            /\ ~alive'
            /\ \A y \in DOMAIN files' \ touched' : files'[y].up /\ ~Page(y)' => Finished(y)'
    <2> SUFFICES ASSUME run'.step = "done"
                 PROVE  /\ ~alive'
                        /\ \A y \in DOMAIN files' \ touched' :
                            files'[y].up /\ ~Page(y)' => Finished(y)'
      OBVIOUS
    <2>1. /\ ~alive'
          /\ \A y \in DOMAIN files \ touched : files[y].up /\ ~Page(y) => Finished(y)
      BY <1>1 DEF ImportInv
    <2>2. ASSUME NEW y \in DOMAIN files' \ touched', files'[y].up, ~Page(y)'
          PROVE  Finished(y)'
      <3>1. y \in DOMAIN files \ touched /\ y # x /\ files[y].up /\ ~Page(y)
        BY <1>1, <1>2, <1>3, <2>2
      <3>2. Finished(y) /\ files'[y] = files[y]
        BY <1>2, <2>1, <3>1
      <3>3. Own(tree, Key(y))' <=> Own(tree, Key(y))
        BY <1>1, <1>3 DEF Own
      <3>4. Recent(tree.files, y)'
        BY <1>1, <1>3, <3>2 DEF Recent, Finished
      <3> QED
        BY <1>1, <1>3, <3>2, <3>3, <3>4 DEF Finished
    <2> QED
      BY <2>1, <2>2
  <1> QED
    BY <1>1, <1>6, <1>12, <1>14, <1>15, <1>16 DEF ImportInv

\* The process stops, saves or starts again.
LEMMA OutsideHolds ==
    ASSUME HostInv, Mode("import"), ImportInv, SaveAction \/ Crash \/ Drop \/ UNCHANGED vars
    PROVE  ImportInv'
  <1>1. UNCHANGED <<config, files, clock, touched, tree, past, run, tasks>>
    BY DEF SaveAction, AutoSave, Crash, Drop, vars, importVars, fsVars
  <1>2. \A u \in DOMAIN jobs' : u \in DOMAIN jobs /\ jobs'[u] = jobs[u]
    BY DEF SaveAction, Crash, Drop, DropJob, Without, vars, storeVars
  <1>3. \/ saved' = saved /\ (~alive => ~alive')
        \/ save /\ alive
    BY DEF SaveAction, AutoSave, Crash, Drop, vars, fsVars
  <1>4. RootRight'
    BY <1>1, <1>3, RootKept, SaveHas, RefsKept
  <1>5. run'.step = "done" =>
            /\ ~alive'
            /\ \A x \in DOMAIN files \ touched : files[x].up /\ ~Page(x) => Finished(x)'
    BY <1>1, <1>3, RootKept DEF ImportInv
  <1> QED
    BY <1>1, <1>2, <1>4, <1>5, RecentSame, ImportKept

LEMMA RestartImportHolds ==
    ASSUME HostInv, Mode("import"), ImportInv, Restart
    PROVE  ImportInv'
  <1>1. /\ UNCHANGED <<config, files, clock, touched, saved>>
        /\ tree' = saved /\ past'.files = Elsewhere(saved)
        /\ DOMAIN tasks' = {} /\ run'.step = "idle"
    BY DEF Restart, Opened, Empty, HostInv, ImportIds, RunFields
  <1>2. \A v \in Elsewhere(saved) : v[1] \in DOMAIN saved.files /\ v[2] = saved.files[v[1]]
    <2>1. \A v \in Elsewhere(saved) : \E x \in DOMAIN saved.files : v = <<x, saved.files[x]>>
      BY ElsewhereFacts
    <2> QED
      BY <2>1
  <1>4. RootRight'
    <2>1. \A path, ref : HasRef(path, ref)' => HasRef(path, ref)
      BY <1>1, <1>2 DEF HasRef
    <2> QED
      BY <1>1, <2>1, RefsKept
  <1>5. FilesInv' /\ DOMAIN files' = DOMAIN config'.files
    BY <1>1, ZenonT(40) DEF ImportInv, FilesInv, IsContent, Local
  <1> QED
    BY <1>1, <1>4, <1>5 DEF ImportInv

LEMMA ImportStarts ==
    ASSUME Init, Mode("import")
    PROVE  ImportInv
  <1>1. /\ config \in Configs /\ config.mode = "import" /\ files = config.files
        /\ tree = config.tree /\ saved = config.tree /\ past.files = Elsewhere(tree)
        /\ DOMAIN tasks = {} /\ run.step = "idle"
        /\ clock = 1 /\ touched = {}
    BY DEF Init, FsInit, ImportInit, Empty, Mode
  <1>2. /\ \A x \in DOMAIN files :
            /\ DOMAIN files[x] = {"data", "time", "up"} /\ IsContent(files[x].data)
            /\ files[x].time \in IF Local THEN {1} ELSE {0, 1}
        /\ \A path \in DOMAIN tree.files : Local /\ tree.files[path].time = 0
    BY <1>1, ImportAssumption DEF Local
  <1>3. \A path \in DOMAIN tree.files : tree.files[path].locations = <<>>
    BY <1>1, HostAssumption
  <1>4. FilesInv
    BY <1>1, <1>2 DEF FilesInv, FileFields
  <1>5. \A path \in DOMAIN tree.files : Fits(path, tree.files[path])
    BY <1>1, <1>2, <1>3 DEF Fits, DatedRef
  <1>6. \A v \in past.files : v[1] \in DOMAIN tree.files /\ v[2] = tree.files[v[1]]
    <2>1. \A v \in Elsewhere(tree) : \E x \in DOMAIN tree.files : v = <<x, tree.files[x]>>
      BY ElsewhereFacts
    <2> QED
      BY <1>1, <2>1
  <1>7. RootRight
    BY <1>1, <1>5, <1>6 DEF RootRight, HasRef
  <1> QED
    BY <1>1, <1>4, <1>7 DEF ImportInv

LEMMA ImportInvMoves ==
    ASSUME HostInv, Mode("import") => ImportInv, [Next]_vars
    PROVE  (Mode("import") => ImportInv)'
  <1>1. config' = config /\ (Mode("import"))' = Mode("import")
    BY DEF Next, JobAction, FetchAction, ImportAction, MountAction, ClientAction, SaveAction,
           Crash, Drop, Restart, vars, Mode
  <1> SUFFICES ASSUME Mode("import") PROVE ImportInv'
    BY <1>1
  <1>2. ImportInv
    OBVIOUS
  <1>3. ~Mode("fetch") /\ ~Mode("mount") /\ ~Mode("client")
    BY DEF Mode
  <1>4. CASE ImportAction
    <2>1. CASE StartRun
      BY <1>1, <1>2, <2>1, StartHolds
    <2>2. CASE ImportStep
      <3>1. CASE FinishRun
        BY <1>1, <1>2, <3>1, FinishHolds
      <3>2. ASSUME NEW t \in DOMAIN tasks,
                   Acquire(t) \/ CompareUrl(t) \/ HeadRequest(t) \/ LinksDone(t)
            PROVE  ImportInv'
        BY <1>1, <1>2, <3>2, PlainStepHolds
      <3>3. ASSUME NEW t \in DOMAIN tasks, EntryMetadata(t) \/ CompareEntry(t) PROVE ImportInv'
        BY <1>1, <1>2, <3>3, EntryStepHolds
      <3>4. ASSUME NEW t \in DOMAIN tasks, PutRef(t) PROVE ImportInv'
        BY <1>1, <1>2, <3>4, PutStepHolds
      <3>5. ASSUME NEW t \in DOMAIN tasks, GetRequest(t) PROVE ImportInv'
        BY <1>1, <1>2, <3>5, GetStepHolds
      <3> QED
        BY <2>2, <3>1, <3>2, <3>3, <3>4, <3>5 DEF ImportStep
    <2>3. CASE SaveRunFails \/ \E t \in DOMAIN tasks : RequestFails(t)
      BY <1>1, <1>2, <2>3, FailedRequestHolds
    <2>4. CASE \E x \in config.editable, c \in config.contents, up \in config.ups : Edit(x, c, up)
      BY <1>1, <1>2, <2>4, EditHolds
    <2> QED
      BY <1>4, <2>1, <2>2, <2>3, <2>4 DEF ImportAction
  <1>5. CASE JobAction
    BY <1>2, <1>5, JobsOfImports
  <1>6. CASE SaveAction \/ Crash \/ Drop \/ UNCHANGED vars
    BY <1>2, <1>6, OutsideHolds
  <1>7. CASE Restart
    BY <1>2, <1>7, RestartImportHolds
  <1>8. ~FetchAction
    <2>1. fetch.step = "idle"
      BY <1>3 DEF HostInv, FetchIds
    <2> QED
      BY <1>3, <2>1 DEF FetchAction, FetchStep, CheckDestination, AskSource, ReadSource, SourceError,
                        StoreFetched
  <1> QED
    BY <1>3, <1>4, <1>5, <1>6, <1>7, <1>8 DEF Next, MountAction, ClientAction

\* Where nothing is imported, no run ends.
LEMMA NoImport == Spec => [](~Mode("import") => run.step = "idle")
  <1> DEFINE Nothing == DOMAIN run = RunFields /\ (~Mode("import") => run.step = "idle")
  <1>1. Init => Nothing
    BY DEF Init, ImportInit, RunFields
  <1>2. Nothing /\ [Next]_vars => Nothing'
    <2> SUFFICES ASSUME Nothing, [Next]_vars PROVE Nothing'
      OBVIOUS
    <2>1. (Mode("import"))' = Mode("import")
      BY DEF Next, JobAction, FetchAction, ImportAction, MountAction, ClientAction, SaveAction,
             Crash, Drop, Restart, vars, Mode
    <2>2. CASE run' = run
      BY <2>1, <2>2
    <2>3. CASE Restart
      BY <2>1, <2>3 DEF Restart, RunFields
    <2>4. CASE ImportAction
      <3>1. Mode("import")
        BY <2>4 DEF ImportAction
      <3>2. DOMAIN run' = RunFields
        BY <2>4 DEF ImportAction, StartRun, ImportStep, FinishRun, Acquire, EntryMetadata, CompareEntry,
                    PutRef, CompareUrl, HeadRequest, GetRequest, LinksDone, RequestFails, SaveRunFails,
                    Abort, Edit,
                    RunFields
      <3> QED
        BY <2>1, <3>1, <3>2
    <2> QED
      BY <2>2, <2>3, <2>4 DEF Next, JobAction, FetchAction, MountAction, ClientAction, SaveAction,
             Crash, Drop, vars, importVars
  <1>3. Nothing => (~Mode("import") => run.step = "idle")
    OBVIOUS
  <1> QED
    BY <1>1, <1>2, <1>3, PTL DEF Spec

\* Whatever earlier runs, failures, crashes and changes left in the root: after a run
\* of the local or the HTTP importer that succeeded (import_path, import_url), every
\* source that stayed as it was since the run began has its content, length and time
\* in the root, and the blob is stored; and it is in the saved root if it is an entry
\* of the root itself.  Below a prefix the end of the command may leave an older state.
THEOREM ImportIsCurrentCorrect == Spec => []ImportIsCurrent
  <1>1. Init => (Mode("import") => ImportInv)
    BY ImportStarts
  <1>2. HostInv /\ (Mode("import") => ImportInv) /\ [Next]_vars => (Mode("import") => ImportInv)'
    BY ImportInvMoves
  <1>3. HostInv /\ (Mode("import") => ImportInv) /\ (~Mode("import") => run.step = "idle")
            => ImportIsCurrent
    <2>1. run.step = "idle" => ImportIsCurrent
      BY DEF ImportIsCurrent
    <2> QED
      BY <2>1, ImportFollows
  <1> QED
    BY <1>1, <1>2, <1>3, HostInvariant, NoImport, PTL DEF Spec

-----------------------------------------------------------------------------
\* The cache of the mount.

LEMMA CacheFollows ==
    ASSUME CacheInv, MountInv, HostInv, Mode("mount")
    PROVE  CacheIsFresh
  <1> SUFFICES ASSUME Busy = {} PROVE CacheIsFresh
    BY DEF CacheIsFresh
  <1>1. \A p \in config.callers : calls[p].op = "idle"
    BY DEF Busy
  <1>2. \A p \in config.callers : calls[p].step \notin {"save", "export", "refresh"}
    BY <1>1 DEF MountInv, CallInv
  <1>3. \A p \in config.callers : (\A d : ~Pending(p, d)) /\ (\A x : ~Unsettled(p, x))
    BY <1>1, <1>2 DEF Pending, Unsettled
  <1>4. ASSUME NEW d \in DOMAIN cache.dirs \ raced.dirs
        PROVE  /\ cache.dirs[d] = export_merged_snapshot_at(d)
               /\ d \in DOMAIN cache.entries =>
                    cache.entries[d] = DOMAIN EntryAttrs(export_merged_snapshot_at(d))
    BY <1>3 DEF CacheInv, DirInv, Fresh
  <1>5. ASSUME NEW x \in DOMAIN cache.attrs \ ({Root} \cup raced.attrs
                            \cup {open.files[fh].path : fh \in DOMAIN open.files})
        PROVE  x \in DOMAIN TreeAttrs /\ getattr(x) = TreeAttrs[x]
    BY <1>3 DEF CacheInv, AttrInv, OpenPath, Right, getattr
  <1> QED
    BY <1>4, <1>5 DEF CacheIsFresh, TreeAttrs

\* The attributes that a directory gives.
LEMMA EntryFacts ==
    ASSUME NEW d
    PROVE  /\ DOMAIN EntryAttrs(d) = d.dirs \cup DOMAIN d.files
           /\ \A x \in d.dirs : EntryAttrs(d)[x] = DirAttr
           /\ \A x \in DOMAIN d.files \ d.dirs : EntryAttrs(d)[x] = FileAttr(d.files[x].size)
  BY DEF EntryAttrs, Over

LEMMA TreeFacts ==
    /\ DOMAIN TreeAttrs = tree.dirs \cup DOMAIN tree.files
    /\ \A x \in tree.dirs : TreeAttrs[x] = DirAttr
    /\ \A x \in DOMAIN tree.files \ tree.dirs : TreeAttrs[x] = FileAttr(tree.files[x].size)
  <1> DEFINE d == [dirs |-> tree.dirs, files |-> tree.files]
  <1>1. d.dirs = tree.dirs /\ d.files = tree.files
    OBVIOUS
  <1> HIDE DEF d
  <1>2. TreeAttrs = EntryAttrs(d)
    BY DEF TreeAttrs, d
  <1>3. /\ DOMAIN EntryAttrs(d) = d.dirs \cup DOMAIN d.files
        /\ \A x \in d.dirs : EntryAttrs(d)[x] = DirAttr
        /\ \A x \in DOMAIN d.files \ d.dirs : EntryAttrs(d)[x] = FileAttr(d.files[x].size)
    BY EntryFacts
  <1> QED
    BY <1>1, <1>2, <1>3

\* What a directory is read as is known.
LEMMA ExportKnown ==
    ASSUME NEW d
    PROVE  Part(export_merged_snapshot_at(d))
  BY DEF Part, export_merged_snapshot_at

LEMMA KnownStays ==
    ASSUME tree.dirs \subseteq tree'.dirs, DOMAIN tree.files \subseteq DOMAIN tree'.files
    PROVE  \A dir : Part(dir) => Part(dir)'
  BY DEF Part

\* A request as it was.
LEMMA RequestKept ==
    ASSUME NEW p, RequestInv(p), calls'[p] = calls[p], tree'.lost = tree.lost,
           tree.dirs \subseteq tree'.dirs, DOMAIN tree.files \subseteq DOMAIN tree'.files
    PROVE  /\ RequestInv(p)'
           /\ \A d : Pending(p, d)' <=> Pending(p, d)
           /\ \A x : Unsettled(p, x)' <=> Unsettled(p, x)
  <1>1. Wanted(p)' = Wanted(p)
    BY DEF Wanted
  <1>2. Part(calls[p].dir) => Part(calls[p].dir)'
    BY DEF Part
  <1>3. IsContent(calls[p].path)' <=> IsContent(calls[p].path)
    BY DEF IsContent
  <1>4. Reachable(calls[p].path)' <=> Reachable(calls[p].path)
    BY DEF Reachable, Below
  <1> QED
    BY <1>1, <1>2, <1>3, <1>4 DEF RequestInv, Pending, Unsettled

LEMMA CacheKept ==
    ASSUME CacheInv, config' = config, CacheForm', PathForm', tree'.lost = tree.lost,
           tree.dirs \subseteq tree'.dirs, DOMAIN tree.files \subseteq DOMAIN tree'.files,
           \A q \in config.callers : calls'[q] = calls[q] \/ RequestInv(q)',
           \A d \in DOMAIN cache'.dirs : DirInv(d)',
           \A x \in DOMAIN cache'.attrs : AttrInv(x)'
    PROVE  CacheInv'
  <1>1. \A q \in config.callers : RequestInv(q)'
    BY RequestKept DEF CacheInv
  <1> QED
    BY <1>1 DEF CacheInv

\* A request that leaves the cache, the open root and the open files alone.
LEMMA QuietCacheHolds ==
    ASSUME CacheInv, NEW p \in config.callers, UNCHANGED <<config, cache, raced, tree>>,
           saved'.dirs \subseteq saved.dirs \cup tree.dirs,
           \A x : OpenPath(x) => OpenPath(x)' \/ Unsettled(p, x)',
           \A q \in config.callers \ {p} : calls'[q] = calls[q], RequestInv(p)',
           \A d : Pending(p, d) => Pending(p, d)',
           \A x : Unsettled(p, x) => Unsettled(p, x)'
    PROVE  CacheInv'
  <1>1. /\ \A d : (\E q \in config.callers : Pending(q, d)) => \E q \in config.callers : Pending(q, d)'
        /\ \A x : (\E q \in config.callers : Unsettled(q, x)) => \E q \in config.callers : Unsettled(q, x)'
    BY RequestKept DEF CacheInv
  <1>2. CacheForm' /\ PathForm'
    BY DEF CacheInv, CacheForm, PathForm, IsContent
  <1>3. ASSUME NEW d \in DOMAIN cache'.dirs PROVE DirInv(d)'
    <2>1. DirInv(d)
      BY DEF CacheInv
    <2>2. (Fresh(d) => Fresh(d)') /\ (Part(cache.dirs[d]) => Part(cache.dirs[d])')
      BY DEF Fresh, Part, export_merged_snapshot_at, EntryAttrs, Over
    <2> QED
      BY <1>1, <2>1, <2>2 DEF DirInv
  <1>4. ASSUME NEW x \in DOMAIN cache'.attrs PROVE AttrInv(x)'
    <2>1. AttrInv(x)
      BY DEF CacheInv
    <2>2. Right(x) => Right(x)'
      BY DEF Right, TreeAttrs, EntryAttrs, Over
    <2> QED
      BY <1>1, <2>1, <2>2 DEF AttrInv
  <1> QED
    BY <1>2, <1>3, <1>4, CacheKept

\* The process, the saved root and the stores.
LEMMA OtherCacheHolds ==
    ASSUME CacheInv, UNCHANGED <<config, cache, raced, tree, calls, open>>,
           saved'.dirs \subseteq saved.dirs \cup tree.dirs
    PROVE  CacheInv'
  <1>1. \A x : OpenPath(x) => OpenPath(x)'
    BY DEF OpenPath
  <1>2. ASSUME NEW p \in config.callers PROVE CacheInv'
    <2>1. RequestInv(p)
      BY DEF CacheInv
    <2>2. /\ RequestInv(p)'
          /\ \A d : Pending(p, d)' <=> Pending(p, d)
          /\ \A x : Unsettled(p, x)' <=> Unsettled(p, x)
      BY <2>1, RequestKept
    <2> QED
      BY <1>1, <2>2, QuietCacheHolds
  <1>3. CASE config.callers = {}
    <2>2. CacheForm' /\ PathForm'
      BY DEF CacheInv, CacheForm, PathForm, IsContent
    <2>3. ASSUME NEW d \in DOMAIN cache'.dirs PROVE DirInv(d)'
      <3>1. DirInv(d)
        BY DEF CacheInv
      <3>2. (Fresh(d) => Fresh(d)') /\ (Part(cache.dirs[d]) => Part(cache.dirs[d])')
        BY DEF Fresh, Part, export_merged_snapshot_at, EntryAttrs, Over
      <3> QED
        BY <1>3, <3>1, <3>2 DEF DirInv
    <2>4. ASSUME NEW x \in DOMAIN cache'.attrs PROVE AttrInv(x)'
      <3>1. AttrInv(x)
        BY DEF CacheInv
      <3>2. Right(x) => Right(x)'
        BY DEF Right, TreeAttrs, EntryAttrs, Over
      <3> QED
        BY <1>1, <1>3, <3>1, <3>2 DEF AttrInv
    <2> QED
      BY <2>2, <2>3, <2>4, CacheKept
  <1> QED
    BY <1>2, <1>3

\* Requests begin, and files are written and released.
LEMMA RequestCacheHolds ==
    ASSUME HostInv, Mode("mount"), MountInv, CacheInv, NEW p \in config.callers, NEW op, NEW path,
           op \in {"lookup", "create", "readdir", "mkdir"}, IsContent(path),
           config' = config, Request(p, op, path)
    PROVE  CacheInv'
  <1> DEFINE step == CASE op = "readdir" -> "cached" [] op = "mkdir" -> "mkdir" [] OTHER -> "ensure"
  <1>1. /\ Begin(p, op, path, step, 0) /\ UNCHANGED <<cache, raced, open, fsVars>>
        /\ calls[p].op = "idle"
    BY DEF Request, Begin
  <1>2. /\ step \in {"cached", "mkdir", "ensure"}
        /\ step \in {"cached", "ensure"} <=> op # "mkdir"
        /\ op = "mkdir" => step = "mkdir"
        /\ step = "cached" => op = "readdir"
    OBVIOUS
  <1> HIDE DEF step
  <1>3. /\ DOMAIN calls = config.callers /\ \A q \in DOMAIN calls \ {p} : calls'[q] = calls[q]
        /\ calls'[p].step = step /\ calls'[p].op = op
    BY <1>1, BeginForms, CallForms
  <1>4. calls'[p].path = path
    BY <1>1, <1>3 DEF Begin, Idle
  <1>5. RequestInv(p)'
    <2>1. IsContent(calls[p].path)'
      BY <1>4 DEF IsContent
    <2> QED
      BY <1>2, <1>3, <2>1 DEF RequestInv
  <1>6. (\A d : ~Pending(p, d)) /\ (\A x : ~Unsettled(p, x))
    BY <1>1 DEF Pending, Unsettled, MountInv, CallInv
  <1>7. \A x : OpenPath(x) => OpenPath(x)'
    BY <1>1 DEF OpenPath
  <1> QED
    BY <1>1, <1>3, <1>5, <1>6, <1>7, QuietCacheHolds DEF fsVars

LEMMA ReleaseCacheHolds ==
    ASSUME HostInv, Mode("mount"), MountInv, CacheInv, NEW p \in config.callers,
           NEW fh \in DOMAIN open.files, config' = config, release(p, fh)
    PROVE  CacheInv'
  <1> DEFINE path == open.files[fh].path
  <1>1. /\ Begin(p, "release", path, "import", fh) /\ UNCHANGED <<cache, raced, fsVars>>
        /\ calls[p].op = "idle" /\ open' = [open EXCEPT !.files = Without(@, fh)]
    BY DEF release, Begin
  <1>3. /\ DOMAIN calls = config.callers /\ \A q \in DOMAIN calls \ {p} : calls'[q] = calls[q]
        /\ calls'[p].step = "import" /\ calls'[p].op = "release"
    BY <1>1, BeginForms, CallForms
  <1>4. calls'[p].path = path
    BY <1>1, <1>3 DEF Begin, Idle
  <1>5. RequestInv(p)'
    BY <1>3 DEF RequestInv
  <1>6. (\A d : ~Pending(p, d)) /\ (\A x : ~Unsettled(p, x))
    BY <1>1 DEF Pending, Unsettled, MountInv, CallInv
  <1>7. \A x : OpenPath(x) => OpenPath(x)' \/ Unsettled(p, x)'
    <2>1. open'.files = Without(open.files, fh)
      BY <1>1 DEF HostInv, MountIds, OpenFields
    <2>2. \A k \in DOMAIN open.files \ {fh} : k \in DOMAIN open'.files /\ open'.files[k] = open.files[k]
      BY <2>1 DEF Without
    <2> QED
      BY <1>3, <1>4, <2>2 DEF OpenPath, Unsettled
  <1> QED
    BY <1>1, <1>3, <1>5, <1>6, <1>7, QuietCacheHolds DEF fsVars

LEMMA WriteCacheHolds ==
    ASSUME HostInv, Mode("mount"), MountInv, CacheInv, NEW p \in config.callers,
           NEW fh \in DOMAIN open.files, NEW c, config' = config, write(fh, c)
    PROVE  CacheInv'
  <1>1. /\ UNCHANGED <<cache, raced, calls, fsVars>>
        /\ open' = [open EXCEPT !.files[fh].buf = @ \o c]
    BY DEF write
  <1>2. \A k \in DOMAIN open.files : k \in DOMAIN open'.files /\ open'.files[k].path = open.files[k].path
    BY <1>1 DEF HostInv, MountIds, OpenFields, MountInv, OpenInv
  <1>3. \A x : OpenPath(x) => OpenPath(x)'
    BY <1>2 DEF OpenPath
  <1>4. RequestInv(p)
    BY DEF CacheInv
  <1>5. /\ RequestInv(p)'
        /\ \A d : Pending(p, d)' <=> Pending(p, d)
        /\ \A x : Unsettled(p, x)' <=> Unsettled(p, x)
    BY <1>1, <1>4, RequestKept DEF fsVars
  <1> QED
    BY <1>1, <1>3, <1>5, QuietCacheHolds DEF fsVars

\* The first directory on the way that is not cached has a parent that is.
LEMMA PrefixFacts ==
    ASSUME NEW w, IsContent(w), NEW n \in 0..Len(w)
    PROVE  /\ Len(SubSeq(w, 1, n)) = n
           /\ n = 0 => SubSeq(w, 1, n) = Root
           /\ n # 0 => Parent(SubSeq(w, 1, n)) = SubSeq(w, 1, n - 1)
  <1> DEFINE S == {w[i] : i \in DOMAIN w}
  <1>1. w \in Seq(S)
    BY DEF IsContent
  <1> HIDE DEF S
  <1>2. Len(w) \in Nat /\ n \in Nat
    BY <1>1
  <1>3. SubSeq(w, 1, n) \in Seq(S) /\ Len(SubSeq(w, 1, n)) = n
    BY <1>1, <1>2
  <1>4. n = 0 => SubSeq(w, 1, n) = <<>>
    BY <1>3
  <1>5. ASSUME n # 0
        PROVE  SubSeq(SubSeq(w, 1, n), 1, n - 1) = SubSeq(w, 1, n - 1)
    <2> DEFINE b == SubSeq(w, 1, n - 1)
    <2>1. n - 1 \in Nat /\ n - 1 <= n /\ n - 1 <= Len(w) /\ n <= Len(w)
      BY <1>2, <1>5
    <2>2. b \in Seq(S) /\ Len(b) = n - 1 /\ \A i \in 1..(n - 1) : b[i] = w[i]
      BY <1>1, <1>2, <2>1
    <2> DEFINE v == SubSeq(w, 1, n)
    <2>3. v \in Seq(S) /\ Len(v) = n /\ \A i \in 1..n : v[i] = w[i]
      BY <1>1, <1>2, <2>1
    <2> HIDE DEF v
    <2>4. /\ SubSeq(v, 1, n - 1) \in Seq(S) /\ Len(SubSeq(v, 1, n - 1)) = n - 1
          /\ \A i \in 1..(n - 1) : SubSeq(v, 1, n - 1)[i] = v[i]
      BY <1>2, <2>1, <2>3
    <2>5. \A i \in 1..(n - 1) : SubSeq(v, 1, n - 1)[i] = b[i]
      BY <1>2, <2>1, <2>2, <2>3, <2>4
    <2> HIDE DEF b
    <2>6. SubSeq(v, 1, n - 1) = b
      BY <2>1, <2>2, <2>4, <2>5
    <2> QED
      BY <2>6 DEF v, b
  <1> QED
    BY <1>3, <1>4, <1>5 DEF Root, Parent

LEMMA MissingFacts ==
    ASSUME NEW p, IsContent(Wanted(p)), ~Ensured(p), FirstMissing(p) # Root
    PROVE  Parent(FirstMissing(p)) \in DOMAIN cache.dirs
  <1> DEFINE w == Wanted(p)
             Pre(n) == SubSeq(w, 1, n)
             T == {n \in 0..Len(w) : Pre(n) \notin DOMAIN cache.dirs}
             Miss(d) == /\ d \in {Pre(n) : n \in 0..Len(w)} \ DOMAIN cache.dirs
                        /\ \A e \in {Pre(n) : n \in 0..(Len(d) - 1)} : e \in DOMAIN cache.dirs
  <1>1. Len(w) \in Nat /\ Pre(Len(w)) = w
    BY ContentFacts
  <1>2. FirstMissing(p) = CHOOSE d : Miss(d)
    BY DEF FirstMissing
  <1>3. Pre(0) = Root
    BY <1>1, PrefixFacts
  <1>4. ~(Root \in DOMAIN cache.dirs /\ w \in DOMAIN cache.dirs)
    BY DEF Ensured
  <1>5. \A n \in 0..Len(w) : Len(Pre(n)) = n /\ (n # 0 => Parent(Pre(n)) = Pre(n - 1))
    BY PrefixFacts
  <1> HIDE DEF w, Pre
  <1>6. T # {} /\ T \in SUBSET Nat
    <2>1. 0 \in 0..Len(w) /\ Len(w) \in 0..Len(w)
      BY <1>1
    <2> QED
      BY <1>1, <1>3, <1>4, <2>1
  <1>7. PICK m \in T : \A k \in T : m <= k
    BY <1>6, Least
  <1>8. Miss(Pre(m))
    <2>1. \A n \in 0..(m - 1) : n \in 0..Len(w) /\ n \notin T
      BY <1>1, <1>6, <1>7
    <2>2. \A n \in 0..(m - 1) : Pre(n) \in DOMAIN cache.dirs
      BY <2>1
    <2> QED
      BY <1>5, <1>7, <2>2
  <1>9. Miss(FirstMissing(p))
    <2> HIDE DEF Miss
    <2> QED
      BY <1>2, <1>8
  <1>10. PICK n \in 0..Len(w) : FirstMissing(p) = Pre(n)
    BY <1>9
  <1>11. n # 0 /\ Len(FirstMissing(p)) = n /\ Parent(FirstMissing(p)) = Pre(n - 1)
    BY <1>3, <1>5, <1>10
  <1>12. n - 1 \in 0..(Len(FirstMissing(p)) - 1)
    BY <1>1, <1>11
  <1> QED
    BY <1>9, <1>11, <1>12

LEMMA ParentIsContent ==
    ASSUME NEW w, IsContent(w)
    PROVE  IsContent(Parent(w))
  <1> DEFINE S == {w[i] : i \in DOMAIN w}
             v == SubSeq(w, 1, Len(w) - 1)
             T == {v[i] : i \in DOMAIN v}
  <1>1. w \in Seq(S) /\ Len(w) \in Nat
    BY DEF IsContent
  <1> HIDE DEF S
  <1>2. v \in Seq(S)
    BY <1>1
  <1> HIDE DEF v
  <1>3. DOMAIN v = 1..Len(v) /\ v = [i \in 1..Len(v) |-> v[i]] /\ Len(v) \in Nat
    BY <1>2
  <1>4. \A i \in 1..Len(v) : v[i] \in T
    BY <1>3
  <1> HIDE DEF T
  <1>5. v \in [1..Len(v) -> T]
    BY <1>3, <1>4
  <1>6. v \in Seq(T)
    BY <1>3, <1>5
  <1> QED
    BY <1>6 DEF IsContent, Parent, v, T

\* Requests that only read the root, and saves.
LEMMA ReadCacheHolds ==
    ASSUME HostInv, Mode("mount"), MountInv, CacheInv, NEW p \in config.callers, config' = config,
           LoadDir(p) \/ ReadAgain(p) \/ CheckCached(p) \/ SaveRoot(p)
    PROVE  CacheInv'
  <1>1. RequestInv(p) /\ CallInv(calls[p])
    BY DEF CacheInv, MountInv
  <1>2. UNCHANGED <<cache, raced, tree, open>> /\ saved'.dirs \subseteq saved.dirs \cup tree.dirs
    BY SaveFacts DEF LoadDir, ReadAgain, CheckCached, SaveRoot, AfterPut, fsVars
  <1>3. \A x : OpenPath(x) => OpenPath(x)'
    BY <1>2 DEF OpenPath
  <1>4. \A dir : Part(dir) => Part(dir)'
    BY <1>2, KnownStays
  <1>5. CASE LoadDir(p)
    <2>1. calls[p].step = "ensure" /\ calls[p].op \in {"lookup", "create", "readdir"}
          /\ IsContent(calls[p].path) /\ ~Ensured(p)
      BY <1>1, <1>5 DEF RequestInv, LoadDir, On
    <2>2. (\A d : ~Pending(p, d)) /\ (\A x : ~Unsettled(p, x))
      BY <2>1 DEF Pending, Unsettled
    <2>3. CASE End(p)
      <3>1. (\A q \in config.callers \ {p} : calls'[q] = calls[q]) /\ calls'[p].step = "idle"
            /\ calls'[p].op = "idle"
        BY <2>3, EndForms
      <3>2. RequestInv(p)'
        BY <3>1 DEF RequestInv
      <3> QED
        BY <1>2, <1>3, <2>2, <3>1, <3>2, QuietCacheHolds
    <2>4. CASE ~End(p)
      <3> DEFINE d == FirstMissing(p)
      <3>1. /\ d = Root \/ d \in cache.dirs[Parent(d)].dirs
            /\ calls' = [calls EXCEPT ![p].step = "insert", ![p].at = d,
                                      ![p].dir = export_merged_snapshot_at(d)]
        BY <1>5, <2>4 DEF LoadDir
      <3>2. /\ \A q \in config.callers \ {p} : calls'[q] = calls[q]
            /\ calls'[p].step = "insert" /\ calls'[p].op = calls[p].op
            /\ calls'[p].path = calls[p].path
            /\ calls'[p].at = d /\ calls'[p].dir = export_merged_snapshot_at(d)
        <4> HIDE DEF d
        <4>1. PICK e, dir : e = d /\ dir = export_merged_snapshot_at(d)
          OBVIOUS
        <4>2. calls' = [calls EXCEPT ![p].step = "insert", ![p].at = e, ![p].dir = dir]
          BY <3>1, <4>1
        <4>3. /\ \A q \in config.callers \ {p} : calls'[q] = calls[q]
              /\ calls'[p].step = "insert" /\ calls'[p].op = calls[p].op /\ calls'[p].path = calls[p].path
              /\ calls'[p].at = e /\ calls'[p].dir = dir
          <5>1. DOMAIN calls = config.callers /\ DOMAIN calls[p] = CallFields
            BY CallForms
          <5> QED
            BY <4>2, <5>1 DEF CallFields
        <4> QED
          BY <4>1, <4>3
      <3>3. d = Root \/ d \in tree.dirs
        <4>1. IsContent(Wanted(p))
          BY <2>1, ParentIsContent DEF Wanted
        <4>2. d # Root => Parent(d) \in DOMAIN cache.dirs
          BY <2>1, <4>1, MissingFacts
        <4> QED
          BY <3>1, <4>2 DEF CacheInv, DirInv, Part
      <3>4. Part(export_merged_snapshot_at(d))
        BY ExportKnown
      <3>5. PICK dir : dir = export_merged_snapshot_at(d)
        OBVIOUS
      <3>6. Part(calls[p].dir)'
        BY <1>4, <3>2, <3>4, <3>5 DEF Part
      <3>7. IsContent(calls[p].path)'
        BY <2>1, <3>2 DEF IsContent
      <3>8. calls'[p].at = Root \/ calls'[p].at \in tree'.dirs
        BY <1>2, <3>2, <3>3
      <3>9. RequestInv(p)'
        BY <2>1, <3>2, <3>6, <3>7, <3>8 DEF RequestInv
      <3> QED
        BY <1>2, <1>3, <2>2, <3>2, <3>9, QuietCacheHolds
    <2> QED
      BY <2>3, <2>4
  <1>6. CASE ReadAgain(p)
    <2> DEFINE d == Wanted(p)
    <2>10. CASE ~CanRead(p)
      <3>1. calls[p].step = "export" /\ End(p) /\ calls[p].op = "readdir"
        BY <1>1, <1>6, <2>10 DEF ReadAgain, On, CanRead, RequestInv
      <3>2. (\A e : ~Pending(p, e)) /\ (\A x : ~Unsettled(p, x))
        BY <3>1 DEF Pending, Unsettled
      <3>3. (\A q \in config.callers \ {p} : calls'[q] = calls[q]) /\ calls'[p].step = "idle"
            /\ calls'[p].op = "idle"
        BY <3>1, EndForms
      <3>4. RequestInv(p)'
        BY <3>3 DEF RequestInv
      <3> QED
        BY <1>2, <1>3, <3>2, <3>3, <3>4, QuietCacheHolds
    <2>11. CASE CanRead(p)
      <3>1. /\ calls[p].step = "export"
            /\ calls' = [calls EXCEPT ![p].step = "refresh", ![p].at = d,
                                      ![p].dir = export_merged_snapshot_at(d)]
        BY <1>6, <2>11 DEF ReadAgain, On
      <3>2. /\ \A q \in config.callers \ {p} : calls'[q] = calls[q]
            /\ calls'[p].step = "refresh" /\ calls'[p].op = calls[p].op
            /\ calls'[p].path = calls[p].path
            /\ calls'[p].at = d /\ calls'[p].dir = export_merged_snapshot_at(d)
        <4> HIDE DEF d
        <4>1. PICK e, dir : e = d /\ dir = export_merged_snapshot_at(d)
          OBVIOUS
        <4>2. calls' = [calls EXCEPT ![p].step = "refresh", ![p].at = e, ![p].dir = dir]
          BY <3>1, <4>1
        <4>3. /\ \A q \in config.callers \ {p} : calls'[q] = calls[q]
              /\ calls'[p].step = "refresh" /\ calls'[p].op = calls[p].op /\ calls'[p].path = calls[p].path
              /\ calls'[p].at = e /\ calls'[p].dir = dir
          <5>1. DOMAIN calls = config.callers /\ DOMAIN calls[p] = CallFields
            BY CallForms
          <5> QED
            BY <4>2, <5>1 DEF CallFields
        <4> QED
          BY <4>1, <4>3
      <3>3. Part(export_merged_snapshot_at(d))
        BY ExportKnown
      <3>4. PICK dir : dir = export_merged_snapshot_at(d)
        OBVIOUS
      <3>5. Part(calls[p].dir)'
        BY <1>4, <3>2, <3>3, <3>4 DEF Part
      <3>6. IsContent(calls[p].path) => IsContent(calls[p].path)'
        BY <3>2 DEF IsContent
      <3>7. calls'[p].at = Wanted(p)'
        BY <3>2 DEF Wanted
      <3>8. RequestInv(p)'
        BY <1>1, <1>2, <3>1, <3>2, <3>5, <3>6, <3>7 DEF RequestInv
      <3>9. (\A e : Pending(p, e) => Pending(p, e)') /\ (\A x : Unsettled(p, x) => Unsettled(p, x)')
        BY <3>1, <3>2 DEF Pending, Unsettled
      <3> QED
        BY <1>2, <1>3, <3>2, <3>8, <3>9, QuietCacheHolds
    <2> QED
      BY <2>10, <2>11
  <1>7. CASE CheckCached(p) \/ SaveRoot(p)
    <2>1. PICK step : /\ Then(p, step)
                      /\ \/ calls[p].step = "cached" /\ step \in {"ensure", "export"}
                         \/ calls[p].step = "save" /\ step = "export"
      BY <1>7 DEF CheckCached, SaveRoot, On
    <2>2. /\ \A q \in config.callers \ {p} : calls'[q] = calls[q]
          /\ calls'[p].step = step /\ calls'[p].op = calls[p].op /\ calls'[p].path = calls[p].path
      BY <2>1, ThenForms
    <2>3. IsContent(calls[p].path) => IsContent(calls[p].path)'
      BY <2>2 DEF IsContent
    <2>6. Reachable(calls[p].path) => Reachable(calls[p].path)'
      BY <1>2, <2>2 DEF Reachable, Below
    <2>4. RequestInv(p)'
      BY <1>1, <1>2, <2>1, <2>2, <2>3, <2>6 DEF RequestInv
    <2>5. (\A e : Pending(p, e) => Pending(p, e)') /\ (\A x : Unsettled(p, x) => Unsettled(p, x)')
      BY <1>1, <2>1, <2>2 DEF Pending, Unsettled, RequestInv
    <2> QED
      BY <1>2, <1>3, <2>2, <2>4, <2>5, QuietCacheHolds
  <1> QED
    BY <1>5, <1>6, <1>7

\* Steps that put something into the cache, while the root stays as it is.

\* A directory that is not touched.
LEMMA DirKept ==
    ASSUME CacheInv, UNCHANGED <<config, tree>>, NEW d \in DOMAIN cache.dirs,
           cache'.dirs[d] = cache.dirs[d], d \in raced.dirs => d \in raced'.dirs,
           d \in DOMAIN cache'.entries => d \in DOMAIN cache.entries /\ cache'.entries[d] = cache.entries[d],
           \A q \in config.callers : Pending(q, d) => Pending(q, d)' \/ d \in raced'.dirs
    PROVE  DirInv(d)'
  <1>1. DirInv(d)
    BY DEF CacheInv
  <1>2. (Fresh(d) => Fresh(d)') /\ (Part(cache.dirs[d]) => Part(cache.dirs[d])')
    BY DEF Fresh, Part, export_merged_snapshot_at, EntryAttrs, Over
  <1> QED
    BY <1>1, <1>2 DEF DirInv

LEMMA AttrKept ==
    ASSUME CacheInv, UNCHANGED <<config, tree>>, NEW x \in DOMAIN cache.attrs,
           cache'.attrs[x] = cache.attrs[x], x \in raced.attrs => x \in raced'.attrs,
           OpenPath(x) => OpenPath(x)',
           \A q \in config.callers : Unsettled(q, x) => Unsettled(q, x)' \/ x \in raced'.attrs
    PROVE  AttrInv(x)'
  <1>1. AttrInv(x)
    BY DEF CacheInv
  <1>2. Right(x) => Right(x)'
    BY DEF Right, TreeAttrs, EntryAttrs, Over
  <1> QED
    BY <1>1, <1>2 DEF AttrInv

\* A directory that is put into the cache is right, or it is noted that it is not.
LEMMA StoredDir ==
    ASSUME NEW d, NEW dir, UNCHANGED tree, Part(dir), cache'.dirs[d] = dir,
           \/ d \in raced'.dirs
           \/ dir = export_merged_snapshot_at(d) /\ d \notin DOMAIN cache'.entries
    PROVE  DirInv(d)'
  <1>1. Part(cache.dirs[d])'
    BY DEF Part
  <1>2. dir = export_merged_snapshot_at(d) /\ d \notin DOMAIN cache'.entries => Fresh(d)'
    BY DEF Fresh, export_merged_snapshot_at
  <1> QED
    BY <1>1, <1>2 DEF DirInv

\* What the others wait for, when a request goes on.
LEMMA OthersKept ==
    ASSUME CacheInv, NEW p \in config.callers, tree' = tree,
           \A q \in config.callers \ {p} : calls'[q] = calls[q]
    PROVE  /\ \A q \in config.callers \ {p} : \A d : Pending(q, d) => Pending(q, d)'
           /\ \A q \in config.callers \ {p} : \A x : Unsettled(q, x) => Unsettled(q, x)'
  BY DEF Pending, Unsettled

LEMMA InsertCacheHolds ==
    ASSUME HostInv, Mode("mount"), MountInv, CacheInv, NEW p \in config.callers, config' = config,
           InsertDir(p)
    PROVE  CacheInv'
  <1> DEFINE at == calls[p].at
             dir == calls[p].dir
  <1>1. /\ calls[p].step = "insert" /\ Then(p, "ensure") /\ UNCHANGED <<open, tree, saved>>
        /\ cache' = [cache EXCEPT !.dirs = With(@, at, dir), !.attrs = With(@, at, DirAttr)]
        /\ raced' = IF dir = export_merged_snapshot_at(at) /\ at \notin DOMAIN cache.entries
                    THEN [raced EXCEPT !.dirs = @ \ {at}] ELSE [raced EXCEPT !.dirs = @ \cup {at}]
    BY DEF InsertDir, On, fsVars
  <1>2. /\ calls[p].op \in {"lookup", "create", "readdir"} /\ IsContent(calls[p].path)
        /\ Part(dir) /\ (at = Root \/ at \in tree.dirs)
    BY <1>1 DEF CacheInv, RequestInv
  <1>3. /\ \A q \in config.callers \ {p} : calls'[q] = calls[q]
        /\ calls'[p].step = "ensure" /\ calls'[p].op = calls[p].op /\ calls'[p].path = calls[p].path
    BY <1>1, ThenForms
  <1>4. /\ DOMAIN cache' = DOMAIN cache /\ cache'.dirs = With(cache.dirs, at, dir)
        /\ cache'.attrs = With(cache.attrs, at, DirAttr) /\ cache'.entries = cache.entries
    BY <1>1 DEF CacheInv, CacheForm
  <1>5. /\ DOMAIN raced' = DOMAIN raced /\ raced'.attrs = raced.attrs
        /\ \A d : d # at => (d \in raced.dirs <=> d \in raced'.dirs)
        /\ at \in raced'.dirs \/ (dir = export_merged_snapshot_at(at) /\ at \notin DOMAIN cache.entries)
    BY <1>1 DEF CacheInv, CacheForm
  <1>6. (\A d : ~Pending(p, d)) /\ (\A x : ~Unsettled(p, x))
    BY <1>1, <1>2 DEF Pending, Unsettled
  <1>7. \A q \in config.callers : /\ \A d : Pending(q, d) => Pending(q, d)'
                                  /\ \A x : Unsettled(q, x) => Unsettled(q, x)'
    BY <1>1, <1>3, <1>6, OthersKept
  <1>8. RequestInv(p)'
    <2>1. IsContent(calls[p].path)'
      BY <1>2, <1>3 DEF IsContent
    <2> QED
      BY <1>2, <1>3, <2>1 DEF RequestInv
  <1>9. CacheForm' /\ PathForm'
    BY <1>1, <1>4, <1>5 DEF CacheInv, CacheForm, PathForm, IsContent
  <1>10. PICK e, c : e = at /\ c = dir
    OBVIOUS
  <1>11. ASSUME NEW d \in DOMAIN cache'.dirs PROVE DirInv(d)'
    <2>1. CASE d = e
      <3>1. cache'.dirs[d] = c
        BY <1>4, <1>10, <2>1 DEF With
      <3> QED
        BY <1>1, <1>2, <1>4, <1>5, <1>10, <2>1, <3>1, StoredDir
    <2>2. CASE d # e
      <3>1. d \in DOMAIN cache.dirs /\ cache'.dirs[d] = cache.dirs[d]
        BY <1>4, <1>10, <2>2 DEF With
      <3> QED
        BY <1>1, <1>4, <1>5, <1>7, <1>10, <2>2, <3>1, DirKept
    <2> QED
      BY <2>1, <2>2
  <1>12. \A x : OpenPath(x) => OpenPath(x)'
    BY <1>1 DEF OpenPath
  <1>13. ASSUME NEW x \in DOMAIN cache'.attrs PROVE AttrInv(x)'
    <2>1. CASE x = e
      <3>1. cache'.attrs[x] = DirAttr
        BY <1>4, <1>10, <2>1 DEF With
      <3>2. x \in tree.dirs => x \in DOMAIN TreeAttrs /\ TreeAttrs[x] = DirAttr
        BY TreeFacts
      <3>3. TreeAttrs' = TreeAttrs
        BY <1>1 DEF TreeAttrs, EntryAttrs, Over
      <3>4. x \in tree.dirs => Right(x)'
        BY <3>1, <3>2, <3>3 DEF Right
      <3> QED
        BY <1>2, <1>10, <2>1, <3>4 DEF AttrInv
    <2>2. CASE x # e
      <3>1. x \in DOMAIN cache.attrs /\ cache'.attrs[x] = cache.attrs[x]
        BY <1>4, <1>10, <2>2 DEF With
      <3> QED
        BY <1>1, <1>5, <1>7, <1>12, <3>1, AttrKept
    <2> QED
      BY <2>1, <2>2
  <1> QED
    BY <1>1, <1>3, <1>8, <1>9, <1>11, <1>13, CacheKept

LEMMA RefreshCacheHolds ==
    ASSUME HostInv, Mode("mount"), MountInv, CacheInv, NEW p \in config.callers, config' = config,
           Refresh(p)
    PROVE  CacheInv'
  <1> DEFINE at == calls[p].at
             dir == calls[p].dir
             step == IF calls[p].op = "readdir" THEN "ensure" ELSE "attr"
  <1>1. /\ calls[p].step = "refresh" /\ Then(p, step) /\ UNCHANGED <<open, tree, saved>>
        /\ cache' = [cache EXCEPT !.dirs = With(@, at, dir), !.entries = Without(@, at)]
        /\ raced' = [raced EXCEPT !.dirs = IF dir = export_merged_snapshot_at(at)
                                           THEN @ \ {at} ELSE @ \cup {at}]
    BY DEF Refresh, Refreshed, On, fsVars
  <1>2. /\ calls[p].op \in {"release", "mkdir", "readdir"}
        /\ calls[p].op # "release" => IsContent(calls[p].path)
        /\ Part(dir) /\ at = Wanted(p)
        /\ calls[p].op = "mkdir" => calls[p].path \in tree.dirs
    BY <1>1 DEF CacheInv, RequestInv, MountInv, CallInv
  <1> HIDE DEF step
  <1>3. /\ \A q \in config.callers \ {p} : calls'[q] = calls[q]
        /\ calls'[p].step = step /\ calls'[p].op = calls[p].op /\ calls'[p].path = calls[p].path
    BY <1>1, ThenForms
  <1>4. /\ DOMAIN cache' = DOMAIN cache /\ cache'.dirs = With(cache.dirs, at, dir)
        /\ cache'.attrs = cache.attrs /\ cache'.entries = Without(cache.entries, at)
    BY <1>1 DEF CacheInv, CacheForm
  <1>5. /\ DOMAIN raced' = DOMAIN raced /\ raced'.attrs = raced.attrs
        /\ \A d : d # at => (d \in raced.dirs <=> d \in raced'.dirs)
        /\ at \in raced'.dirs \/ dir = export_merged_snapshot_at(at)
    BY <1>1 DEF CacheInv, CacheForm
  <1>6. /\ \A d : Pending(p, d) => d = at
        /\ \A x : Unsettled(p, x) => Unsettled(p, x)'
    BY <1>1, <1>2, <1>3 DEF Pending, Unsettled, Wanted, step
  <1>7. /\ \A q \in config.callers : \A d : Pending(q, d) => Pending(q, d)' \/ d = at
        /\ \A q \in config.callers : \A x : Unsettled(q, x) => Unsettled(q, x)'
    BY <1>1, <1>3, <1>6, OthersKept
  <1>8. RequestInv(p)'
    <2>1. calls[p].op # "release" => IsContent(calls[p].path)'
      BY <1>2, <1>3 DEF IsContent
    <2> QED
      BY <1>1, <1>2, <1>3, <2>1 DEF RequestInv, step
  <1>9. CacheForm' /\ PathForm'
    BY <1>1, <1>4, <1>5 DEF CacheInv, CacheForm, PathForm, IsContent
  <1>10. PICK e, c : e = at /\ c = dir
    OBVIOUS
  <1>11. ASSUME NEW d \in DOMAIN cache'.dirs PROVE DirInv(d)'
    <2>1. CASE d = e
      <3>1. cache'.dirs[d] = c /\ d \notin DOMAIN cache'.entries
        BY <1>4, <1>10, <2>1 DEF With, Without
      <3> QED
        BY <1>1, <1>2, <1>5, <1>10, <2>1, <3>1, StoredDir
    <2>2. CASE d # e
      <3>1. /\ d \in DOMAIN cache.dirs /\ cache'.dirs[d] = cache.dirs[d]
            /\ d \in DOMAIN cache'.entries => d \in DOMAIN cache.entries /\ cache'.entries[d] = cache.entries[d]
        BY <1>4, <1>10, <2>2 DEF With, Without
      <3>2. \A q \in config.callers : Pending(q, d) => Pending(q, d)'
        BY <1>7, <1>10, <2>2
      <3> QED
        BY <1>1, <1>5, <1>10, <2>2, <3>1, <3>2, DirKept
    <2> QED
      BY <2>1, <2>2
  <1>12. \A x : OpenPath(x) => OpenPath(x)'
    BY <1>1 DEF OpenPath
  <1>13. ASSUME NEW x \in DOMAIN cache'.attrs PROVE AttrInv(x)'
    BY <1>1, <1>4, <1>5, <1>7, <1>12, AttrKept
  <1> QED
    BY <1>1, <1>3, <1>8, <1>9, <1>11, <1>13, CacheKept

\* Attributes that are filled in are right, or it is noted that they are not.
LEMMA FilledCacheHolds ==
    ASSUME HostInv, Mode("mount"), MountInv, CacheInv, NEW p \in config.callers, NEW attrs,
           UNCHANGED <<config, open, tree, saved>>, End(p), raced' = Fill(attrs),
           DOMAIN attrs \subseteq DOMAIN TreeAttrs,
           DOMAIN cache' = DOMAIN cache, cache'.dirs = cache.dirs,
           cache'.attrs = Over(attrs, cache.attrs),
           \A d \in DOMAIN cache.dirs : d \in DOMAIN cache'.entries =>
                \/ d \in DOMAIN cache.entries /\ cache'.entries[d] = cache.entries[d]
                \/ d \notin DOMAIN cache.entries /\ cache'.entries[d] = DOMAIN EntryAttrs(cache.dirs[d]),
           \A d : ~Pending(p, d), \A x : Unsettled(p, x) => x \in DOMAIN attrs
    PROVE  CacheInv'
  <1>1. /\ \A q \in config.callers \ {p} : calls'[q] = calls[q]
        /\ calls'[p].step = "idle" /\ calls'[p].op = "idle"
    BY EndForms
  <1>2. /\ DOMAIN raced' = DOMAIN raced /\ raced'.dirs = raced.dirs
        /\ \A x \in DOMAIN attrs : x \in raced'.attrs \/ attrs[x] = TreeAttrs[x]
        /\ \A x : x \notin DOMAIN attrs /\ x \in raced.attrs => x \in raced'.attrs
    BY DEF Fill, TreeAttrs, CacheInv, CacheForm
  <1>3. CacheForm' /\ PathForm'
    BY <1>2 DEF CacheInv, CacheForm, PathForm, IsContent
  <1>4. RequestInv(p)'
    BY <1>1 DEF RequestInv
  <1>5. /\ \A q \in config.callers : \A d : Pending(q, d) => Pending(q, d)'
        /\ \A q \in config.callers : \A x : x \notin DOMAIN attrs /\ Unsettled(q, x) => Unsettled(q, x)'
    BY <1>1, OthersKept
  <1>6. ASSUME NEW d \in DOMAIN cache'.dirs PROVE DirInv(d)'
    <2>1. DirInv(d)
      BY DEF CacheInv
    <2>2. Part(cache.dirs[d]) => Part(cache.dirs[d])'
      BY DEF Part
    <2>3. Fresh(d) => Fresh(d)'
      <3>1. export_merged_snapshot_at(d)' = export_merged_snapshot_at(d)
        BY DEF export_merged_snapshot_at
      <3>2. PICK m : m = export_merged_snapshot_at(d)
        OBVIOUS
      <3>3. EntryAttrs(m) = EntryAttrs(m)'
        BY DEF EntryAttrs, Over
      <3> QED
        BY <3>1, <3>2 DEF Fresh
    <2> QED
      BY <1>2, <1>5, <2>1, <2>2, <2>3 DEF DirInv
  <1>7. \A x : OpenPath(x) => OpenPath(x)'
    BY DEF OpenPath
  <1>8. ASSUME NEW x \in DOMAIN cache'.attrs PROVE AttrInv(x)'
    <2>1. CASE x \in DOMAIN attrs
      <3>1. cache'.attrs[x] = attrs[x]
        BY <2>1 DEF Over
      <3>2. TreeAttrs' = TreeAttrs
        BY DEF TreeAttrs, EntryAttrs, Over
      <3>3. x \in raced'.attrs \/ Right(x)'
        BY <1>2, <2>1, <3>1, <3>2 DEF Right
      <3> QED
        BY <3>3 DEF AttrInv
    <2>2. CASE x \notin DOMAIN attrs
      <3>1. x \in DOMAIN cache.attrs /\ cache'.attrs[x] = cache.attrs[x]
        BY <2>2 DEF Over
      <3> QED
        BY <1>2, <1>5, <1>7, <2>2, <3>1, AttrKept
    <2> QED
      BY <2>1, <2>2
  <1> QED
    BY <1>1, <1>3, <1>4, <1>6, <1>8, CacheKept

\* What a cached directory gives is in the open root.
LEMMA CachedAttrs ==
    ASSUME CacheInv, NEW d \in DOMAIN cache.dirs
    PROVE  DOMAIN EntryAttrs(cache.dirs[d]) \subseteq DOMAIN TreeAttrs
  <1>1. Part(cache.dirs[d])
    BY DEF CacheInv, DirInv
  <1> QED
    BY <1>1, EntryFacts, TreeFacts DEF Part

LEMMA LookupCacheHolds ==
    ASSUME HostInv, Mode("mount"), MountInv, CacheInv, NEW p \in config.callers, config' = config,
           lookup(p)
    PROVE  CacheInv'
  <1> DEFINE all == EntryAttrs(cache.dirs[Wanted(p)])
             found == [q \in {calls[p].path} \cap DOMAIN all |-> all[q]]
  <1>1. /\ calls[p].step = "ensure" /\ calls[p].op = "lookup" /\ Ensured(p) /\ End(p)
        /\ UNCHANGED <<open, tree, saved>>
        /\ cache' = [cache EXCEPT !.attrs = Over(found, @)] /\ raced' = Fill(found)
    BY DEF lookup, On, fsVars
  <1>2. DOMAIN all \subseteq DOMAIN TreeAttrs
    BY <1>1, CachedAttrs DEF Ensured
  <1>3. DOMAIN found \subseteq DOMAIN TreeAttrs
    <2> HIDE DEF all
    <2> QED
      BY <1>2
  <1>4. PICK attrs : attrs = found
    OBVIOUS
  <1> HIDE DEF found
  <1>5. /\ DOMAIN cache' = DOMAIN cache /\ cache'.dirs = cache.dirs
        /\ cache'.attrs = Over(attrs, cache.attrs) /\ cache'.entries = cache.entries
    BY <1>1, <1>4 DEF CacheInv, CacheForm
  <1>6. (\A d : ~Pending(p, d)) /\ (\A x : ~Unsettled(p, x))
    BY <1>1 DEF Pending, Unsettled
  <1> QED
    BY <1>1, <1>3, <1>4, <1>5, <1>6, FilledCacheHolds

LEMMA ReaddirCacheHolds ==
    ASSUME HostInv, Mode("mount"), MountInv, CacheInv, NEW p \in config.callers, config' = config,
           readdir(p)
    PROVE  CacheInv'
  <1> DEFINE d == calls[p].path
             all == EntryAttrs(cache.dirs[d])
  <1>1. /\ calls[p].step = "ensure" /\ calls[p].op = "readdir" /\ Ensured(p) /\ End(p)
        /\ UNCHANGED <<open, tree, saved>>
    BY DEF readdir, On, fsVars
  <1>2. (\A e : ~Pending(p, e)) /\ (\A x : ~Unsettled(p, x))
    BY <1>1 DEF Pending, Unsettled
  <1>3. CASE d \in DOMAIN cache.entries
    <2>1. UNCHANGED <<cache, raced>>
      BY <1>3 DEF readdir
    <2>2. /\ \A q \in config.callers \ {p} : calls'[q] = calls[q]
          /\ calls'[p].step = "idle" /\ calls'[p].op = "idle"
      BY <1>1, EndForms
    <2>3. RequestInv(p)'
      BY <2>2 DEF RequestInv
    <2>4. \A x : OpenPath(x) => OpenPath(x)'
      BY <1>1 DEF OpenPath
    <2> QED
      BY <1>1, <1>2, <2>1, <2>2, <2>3, <2>4, QuietCacheHolds
  <1>4. CASE d \notin DOMAIN cache.entries
    <2>1. /\ cache' = [cache EXCEPT !.entries = With(@, d, DOMAIN all), !.attrs = Over(all, @)]
          /\ raced' = Fill(all)
      BY <1>4 DEF readdir
    <2>2. d \in DOMAIN cache.dirs
      BY <1>1 DEF Ensured, Wanted
    <2>3. DOMAIN all \subseteq DOMAIN TreeAttrs
      BY <2>2, CachedAttrs
    <2>4. PICK attrs : attrs = all
      OBVIOUS
    <2>5. /\ DOMAIN cache' = DOMAIN cache /\ cache'.dirs = cache.dirs
          /\ cache'.attrs = Over(attrs, cache.attrs)
          /\ cache'.entries = With(cache.entries, d, DOMAIN all)
      <3> HIDE DEF all
      <3> QED
        BY <2>1, <2>4 DEF CacheInv, CacheForm
    <2>6. \A e \in DOMAIN cache.dirs : e \in DOMAIN cache'.entries =>
                \/ e \in DOMAIN cache.entries /\ cache'.entries[e] = cache.entries[e]
                \/ e \notin DOMAIN cache.entries /\ cache'.entries[e] = DOMAIN EntryAttrs(cache.dirs[e])
      <3>1. cache'.entries[d] = DOMAIN EntryAttrs(cache.dirs[d])
        BY <2>5 DEF With
      <3>2. \A e \in DOMAIN cache'.entries : e = d \/ (e \in DOMAIN cache.entries /\ cache'.entries[e] = cache.entries[e])
        BY <2>5 DEF With
      <3> QED
        BY <1>4, <3>1, <3>2
    <2> HIDE DEF all
    <2> QED
      BY <1>1, <1>2, <2>1, <2>3, <2>4, <2>5, <2>6, FilledCacheHolds
  <1> QED
    BY <1>3, <1>4

LEMMA AnswerCacheHolds ==
    ASSUME HostInv, Mode("mount"), MountInv, CacheInv, NEW p \in config.callers, config' = config,
           Answer(p)
    PROVE  CacheInv'
  <1> DEFINE attr == IF calls[p].op = "mkdir" THEN DirAttr ELSE FileAttr(calls[p].size)
             new == With(Empty, calls[p].path, attr)
  <1>1. /\ calls[p].step = "attr" /\ End(p) /\ UNCHANGED <<open, tree, saved>>
        /\ cache' = [cache EXCEPT !.attrs = Over(new, @)] /\ raced' = Fill(new)
    BY DEF Answer, On, fsVars
  <1>2. DOMAIN new = {calls[p].path}
    BY DEF With, Empty
  <1>3. calls[p].op = "release" \/ calls[p].op = "mkdir"
    BY <1>1 DEF MountInv, CallInv
  <1>4. calls[p].path \in DOMAIN TreeAttrs
    <2>1. CASE calls[p].op = "release"
      <3>1. CallInv(calls[p])
        BY DEF MountInv
      <3>2. calls[p].path \in DOMAIN tree.files
        BY <1>1, <2>1, <3>1 DEF CallInv, Holds
      <3> QED
        BY <3>2, TreeFacts
    <2>2. CASE calls[p].op = "mkdir"
      <3>1. RequestInv(p)
        BY DEF CacheInv
      <3> QED
        BY <1>1, <2>2, <3>1, TreeFacts DEF RequestInv
    <2> QED
      BY <1>3, <2>1, <2>2
  <1>5. PICK attrs : attrs = new
    OBVIOUS
  <1> HIDE DEF new
  <1>6. /\ DOMAIN cache' = DOMAIN cache /\ cache'.dirs = cache.dirs
        /\ cache'.attrs = Over(attrs, cache.attrs) /\ cache'.entries = cache.entries
    BY <1>1, <1>5 DEF CacheInv, CacheForm
  <1>7. (\A d : ~Pending(p, d)) /\ (\A x : Unsettled(p, x) => x \in DOMAIN attrs)
    BY <1>1, <1>2, <1>5 DEF Pending, Unsettled
  <1> QED
    BY <1>1, <1>2, <1>4, <1>5, <1>6, <1>7, FilledCacheHolds

LEMMA CreateCacheHolds ==
    ASSUME HostInv, Mode("mount"), MountInv, CacheInv, NEW p \in config.callers, config' = config,
           create(p)
    PROVE  CacheInv'
  <1>0. PICK path : path = calls[p].path
    OBVIOUS
  <1>1. /\ calls[p].step = "ensure" /\ calls[p].op = "create" /\ End(p)
        /\ open' = [next |-> open.next + 1,
                    files |-> With(open.files, open.next, [path |-> path, buf |-> <<>>])]
        /\ cache' = [cache EXCEPT !.attrs = With(@, path, FileAttr(0))]
        /\ UNCHANGED <<raced, tree, saved>>
    BY <1>0 DEF create, On, fsVars
  <1>2. /\ \A q \in config.callers \ {p} : calls'[q] = calls[q]
        /\ calls'[p].step = "idle" /\ calls'[p].op = "idle"
    BY <1>1, EndForms
  <1>3. (\A d : ~Pending(p, d)) /\ (\A x : ~Unsettled(p, x))
    BY <1>1 DEF Pending, Unsettled
  <1>4. /\ DOMAIN cache' = DOMAIN cache /\ cache'.dirs = cache.dirs /\ cache'.entries = cache.entries
        /\ cache'.attrs = With(cache.attrs, path, FileAttr(0))
    BY <1>1 DEF CacheInv, CacheForm
  <1>5. open.next \notin DOMAIN open.files /\ open.next \in Nat
    BY DEF HostInv, MountIds
  <1>6. /\ open.next \in DOMAIN open'.files /\ open'.files[open.next].path = path
        /\ \A fh \in DOMAIN open.files : fh \in DOMAIN open'.files /\ open'.files[fh] = open.files[fh]
    BY <1>1, <1>5 DEF With
  <1>7. OpenPath(path)' /\ \A x : OpenPath(x) => OpenPath(x)'
    <2>1. \E fh \in DOMAIN open'.files : open'.files[fh].path = path
      BY <1>6
    <2>3. ASSUME NEW x, OpenPath(x) PROVE OpenPath(x)'
      BY <1>6, <2>3 DEF OpenPath
    <2> QED
      BY <2>1, <2>3 DEF OpenPath
  <1>8. /\ \A q \in config.callers : \A d : Pending(q, d) => Pending(q, d)'
        /\ \A q \in config.callers : \A x : Unsettled(q, x) => Unsettled(q, x)'
    BY <1>1, <1>2, <1>3, OthersKept
  <1>9. CacheForm' /\ PathForm' /\ RequestInv(p)'
    BY <1>1, <1>2, <1>4 DEF CacheInv, CacheForm, PathForm, IsContent, RequestInv
  <1>10. ASSUME NEW d \in DOMAIN cache'.dirs PROVE DirInv(d)'
    BY <1>1, <1>4, <1>8, DirKept
  <1>11. ASSUME NEW x \in DOMAIN cache'.attrs PROVE AttrInv(x)'
    <2>1. CASE x = path
      BY <1>7, <2>1 DEF AttrInv
    <2>2. CASE x # path
      <3>1. x \in DOMAIN cache.attrs /\ cache'.attrs[x] = cache.attrs[x]
        BY <1>4, <2>2 DEF With
      <3> QED
        BY <1>1, <1>7, <1>8, <3>1, AttrKept
    <2> QED
      BY <2>1, <2>2
  <1> QED
    BY <1>1, <1>2, <1>9, <1>10, <1>11, CacheKept

\* A request that changes one path of the root covers for its directory and for
\* its attributes.
LEMMA ChangedCacheHolds ==
    ASSUME HostInv, Mode("mount"), MountInv, CacheInv, NEW p \in config.callers, NEW path,
           UNCHANGED <<config, cache, open, raced>>, PathForm', tree'.lost = tree.lost,
           tree.dirs \subseteq tree'.dirs, DOMAIN tree.files \subseteq DOMAIN tree'.files,
           \A x : x # path =>
                /\ x \in tree'.dirs <=> x \in tree.dirs
                /\ x \in DOMAIN tree'.files <=> x \in DOMAIN tree.files
                /\ x \in DOMAIN tree.files => tree'.files[x] = tree.files[x],
           \A q \in config.callers \ {p} : calls'[q] = calls[q], RequestInv(p)',
           Pending(p, Parent(path))', Unsettled(p, path)',
           \A d : ~Pending(p, d), \A x : Unsettled(p, x) => x = path
    PROVE  CacheInv'
  <1>1. /\ \A q \in config.callers \ {p} : \A d : Pending(q, d) => Pending(q, d)'
        /\ \A q \in config.callers \ {p} : \A x : Unsettled(q, x) => Unsettled(q, x)'
    BY DEF Pending, Unsettled
  <1>2. CacheForm'
    BY DEF CacheInv, CacheForm
  <1>3. ASSUME NEW d \in DOMAIN cache'.dirs PROVE DirInv(d)'
    <2>1. DirInv(d)
      BY DEF CacheInv
    <2>2. Part(cache.dirs[d]) => Part(cache.dirs[d])'
      BY DEF Part
    <2>3. d # Parent(path) => export_merged_snapshot_at(d)' = export_merged_snapshot_at(d)
      <3> SUFFICES ASSUME d # Parent(path)
                   PROVE  export_merged_snapshot_at(d)' = export_merged_snapshot_at(d)
        OBVIOUS
      <3>1. {e \in tree'.dirs : Parent(e) = d} = {e \in tree.dirs : Parent(e) = d}
        OBVIOUS
      <3>2. {e \in DOMAIN tree'.files : Parent(e) = d} = {e \in DOMAIN tree.files : Parent(e) = d}
        OBVIOUS
      <3>3. \A e \in {e \in DOMAIN tree.files : Parent(e) = d} : tree'.files[e] = tree.files[e]
        OBVIOUS
      <3> QED
        BY <3>1, <3>2, <3>3 DEF export_merged_snapshot_at
    <2>4. d # Parent(path) /\ Fresh(d) => Fresh(d)'
      BY <2>3 DEF Fresh, EntryAttrs, Over
    <2>5. d # Parent(path) => (\A q \in config.callers : Pending(q, d) => Pending(q, d)')
      BY <1>1
    <2> QED
      BY <2>1, <2>2, <2>4, <2>5 DEF DirInv
  <1>4. ASSUME NEW x \in DOMAIN cache'.attrs PROVE AttrInv(x)'
    <2>1. CASE x = path
      BY <2>1 DEF AttrInv
    <2>2. CASE x # path
      <3>1. AttrInv(x)
        BY DEF CacheInv
      <3>2. OpenPath(x) => OpenPath(x)'
        BY DEF OpenPath
      <3>3. Right(x) => Right(x)'
        <4>1. /\ DOMAIN TreeAttrs' = tree'.dirs \cup DOMAIN tree'.files
              /\ \A y \in tree'.dirs : TreeAttrs'[y] = DirAttr
              /\ \A y \in DOMAIN tree'.files \ tree'.dirs : TreeAttrs'[y] = FileAttr(tree'.files[y].size)
          BY DEF TreeAttrs, EntryAttrs, Over, DirAttr, FileAttr
        <4>2. x \in DOMAIN TreeAttrs => x \in DOMAIN TreeAttrs' /\ TreeAttrs'[x] = TreeAttrs[x]
          BY <2>2, <4>1, TreeFacts
        <4> QED
          BY <4>2 DEF Right
      <3>4. \A q \in config.callers : Unsettled(q, x) => Unsettled(q, x)'
        BY <1>1, <2>2
      <3> QED
        BY <3>1, <3>2, <3>3, <3>4 DEF AttrInv
    <2> QED
      BY <2>1, <2>2
  <1> QED
    BY <1>2, <1>3, <1>4, CacheKept

LEMMA MkdirCacheHolds ==
    ASSUME HostInv, Mode("mount"), MountInv, CacheInv, NEW p \in config.callers, config' = config,
           mkdir(p)
    PROVE  CacheInv'
  <1>1. PICK path : path = calls[p].path
    OBVIOUS
  <1>2. calls[p].step = "mkdir" /\ UNCHANGED <<cache, open, raced, saved>>
    BY DEF mkdir, On
  <1>3. calls[p].op = "mkdir" /\ IsContent(path)
    BY <1>1, <1>2 DEF MountInv, CallInv, CacheInv, RequestInv
  <1>9. (\A d : ~Pending(p, d)) /\ (\A x : ~Unsettled(p, x))
    BY <1>2, <1>3 DEF Pending, Unsettled
  <1>10. CASE End(p) /\ UNCHANGED tree
    <2>1. (\A q \in config.callers \ {p} : calls'[q] = calls[q]) /\ calls'[p].step = "idle"
          /\ calls'[p].op = "idle"
      BY <1>10, EndForms
    <2>2. RequestInv(p)'
      BY <2>1 DEF RequestInv
    <2>3. \A x : OpenPath(x) => OpenPath(x)'
      BY <1>2 DEF OpenPath
    <2> QED
      BY <1>2, <1>9, <1>10, <2>1, <2>2, <2>3, QuietCacheHolds
  <1>11. CASE Reachable(path) /\ create_dir(path) /\ Then(p, "save")
    <2>4. tree'.dirs = tree.dirs \cup {path} /\ tree'.files = tree.files /\ tree'.lost = tree.lost
      BY <1>11 DEF create_dir, HostInv, Rooted, TreeFields
    <2>5. /\ \A q \in config.callers \ {p} : calls'[q] = calls[q]
          /\ calls'[p].step = "save" /\ calls'[p].op = "mkdir" /\ calls'[p].path = path
      BY <1>1, <1>3, <1>11, ThenForms
    <2>6. RequestInv(p)'
      <3>1. IsContent(calls[p].path)'
        BY <1>3, <2>5 DEF IsContent
      <3>2. Reachable(calls[p].path)'
        BY <1>11, <2>4, <2>5 DEF Reachable, Below
      <3> QED
        BY <2>4, <2>5, <3>1, <3>2 DEF RequestInv
    <2>7. PathForm'
      <3>1. \A x \in tree'.dirs \cup saved'.dirs : IsContent(x)
        BY <1>2, <1>3, <2>4 DEF CacheInv, PathForm
      <3> QED
        BY <3>1 DEF PathForm, IsContent
    <2>8. Pending(p, Parent(path))' /\ Unsettled(p, path)'
      BY <2>5 DEF Pending, Unsettled
    <2> QED
      BY <1>2, <1>9, <2>4, <2>5, <2>6, <2>7, <2>8, ChangedCacheHolds
  <1> QED
    BY <1>1, <1>10, <1>11 DEF mkdir

\* A request that ends early leaves a note.
LEMMA NotedCacheHolds ==
    ASSUME HostInv, Mode("mount"), MountInv, CacheInv, NEW p \in config.callers,
           UNCHANGED <<config, cache, open, tree, saved>>, End(p), CacheForm',
           raced.dirs \subseteq raced'.dirs, raced.attrs \subseteq raced'.attrs,
           \A d : Pending(p, d) => d \in raced'.dirs,
           \A x : Unsettled(p, x) => x \in raced'.attrs
    PROVE  CacheInv'
  <1>1. /\ \A q \in config.callers \ {p} : calls'[q] = calls[q]
        /\ calls'[p].step = "idle" /\ calls'[p].op = "idle"
    BY EndForms
  <1>2. /\ \A q \in config.callers \ {p} : \A d : Pending(q, d) => Pending(q, d)'
        /\ \A q \in config.callers \ {p} : \A x : Unsettled(q, x) => Unsettled(q, x)'
    BY <1>1, OthersKept
  <1>3. RequestInv(p)' /\ PathForm'
    BY <1>1 DEF RequestInv, CacheInv, PathForm, IsContent
  <1>4. ASSUME NEW d \in DOMAIN cache'.dirs PROVE DirInv(d)'
    BY <1>2, DirKept
  <1>5. \A x : OpenPath(x) => OpenPath(x)'
    BY DEF OpenPath
  <1>6. ASSUME NEW x \in DOMAIN cache'.attrs PROVE AttrInv(x)'
    BY <1>2, <1>5, AttrKept
  <1> QED
    BY <1>1, <1>3, <1>4, <1>6, CacheKept

LEMMA SaveFailsCacheHolds ==
    ASSUME HostInv, Mode("mount"), MountInv, CacheInv, NEW p \in config.callers, config' = config,
           SaveFails(p)
    PROVE  CacheInv'
  <1>1. /\ calls[p].step = "save" /\ End(p) /\ UNCHANGED <<cache, open, tree, saved>>
        /\ raced' = [dirs |-> raced.dirs \cup {Wanted(p)}, attrs |-> raced.attrs \cup {calls[p].path}]
    BY DEF SaveFails, On, fsVars
  <1>2. CacheForm'
    BY <1>1 DEF CacheInv, CacheForm
  <1>3. (\A d : Pending(p, d) => d \in raced'.dirs) /\ (\A x : Unsettled(p, x) => x \in raced'.attrs)
    BY <1>1 DEF Pending, Unsettled, Wanted
  <1> QED
    BY <1>1, <1>2, <1>3, NotedCacheHolds

LEMMA PutCacheHolds ==
    ASSUME HostInv, Mode("mount"), MountInv, CacheInv, NEW p \in config.callers, config' = config,
           PutReleased(p)
    PROVE  CacheInv'
  <1>1. PICK path, hash : path = calls[p].path /\ hash = jobs[ReleaseId(calls[p].fh)].hash
    OBVIOUS
  <1>2. calls[p].step = "import" /\ UNCHANGED <<cache, open>> /\ calls[p].op = "release"
    BY DEF PutReleased, On, HostInv, MountIds
  <1>3. (\A d : ~Pending(p, d)) /\ (\A x : Unsettled(p, x) => x = path)
    BY <1>1, <1>2 DEF Pending, Unsettled
  <1>4. CASE raced' = raced /\ ~End(p)
    <2>1. PICK n : calls' = [calls EXCEPT ![p].step = "save", ![p].size = Len(hash), ![p].n = n]
      BY <1>1, <1>4 DEF PutReleased
    <2>2. file_put(path, FileRef(hash, Len(hash), 0)) /\ saved' = saved /\ Reachable(path)
      BY <1>1, <1>4 DEF PutReleased
    <2>3. /\ \A q \in config.callers \ {p} : calls'[q] = calls[q]
          /\ calls'[p].step = "save" /\ calls'[p].op = "release" /\ calls'[p].path = path
      <3>1. DOMAIN calls = config.callers /\ DOMAIN calls[p] = CallFields
        BY CallForms
      <3> QED
        BY <1>1, <1>2, <2>1, <3>1 DEF CallFields
    <2>4. PICK ref : ref = FileRef(hash, Len(hash), 0)
      OBVIOUS
    <2>5. /\ tree'.dirs = tree.dirs /\ tree'.lost = tree.lost
          /\ tree'.files = [x \in DOMAIN tree.files \cup {path} |-> IF x = path THEN ref ELSE tree.files[x]]
      BY <2>2, <2>4 DEF file_put, HostInv, Rooted, TreeFields, With
    <2>8. Reachable(calls[p].path)'
      BY <2>2, <2>3, <2>5 DEF Reachable, Below
    <2>6. RequestInv(p)' /\ PathForm'
      BY <2>2, <2>3, <2>5, <2>8 DEF RequestInv, CacheInv, PathForm, IsContent
    <2>7. Pending(p, Parent(path))' /\ Unsettled(p, path)'
      BY <2>3 DEF Pending, Unsettled
    <2> QED
      BY <1>2, <1>3, <1>4, <2>3, <2>5, <2>6, <2>7, ChangedCacheHolds
  <1>5. CASE End(p) /\ raced' = [raced EXCEPT !.attrs = @ \cup {calls[p].path}]
    <2>1. UNCHANGED <<tree, saved>>
      <3>1. calls'[p].step = "idle"
        BY <1>5, EndForms
      <3>2. ASSUME NEW n, calls' = [calls EXCEPT ![p].step = "save", ![p].size = Len(hash), ![p].n = n]
            PROVE  FALSE
        <4>1. DOMAIN calls = config.callers /\ DOMAIN calls[p] = CallFields
          BY CallForms
        <4>2. calls'[p].step = "save"
          BY <3>2, <4>1 DEF CallFields
        <4> QED
          BY <3>1, <4>2
      <3> QED
        BY <1>1, <3>2 DEF PutReleased, fsVars
    <2>2. CacheForm' /\ raced'.dirs = raced.dirs /\ raced'.attrs = raced.attrs \cup {path}
      BY <1>1, <1>2, <1>5 DEF CacheInv, CacheForm
    <2> QED
      BY <1>2, <1>3, <1>5, <2>1, <2>2, NotedCacheHolds
  <1> QED
    <2>1. \/ raced' = raced /\ ~End(p)
          \/ End(p) /\ raced' = [raced EXCEPT !.attrs = @ \cup {calls[p].path}]
      <3>1. CASE raced' = raced /\ End(p) /\ ~(raced' = [raced EXCEPT !.attrs = @ \cup {calls[p].path}])
        <4>1. calls'[p].step = "idle"
          BY <3>1, EndForms
        <4>2. PICK n : calls' = [calls EXCEPT ![p].step = "save", ![p].size = Len(hash), ![p].n = n]
          BY <1>1, <3>1 DEF PutReleased
        <4>3. DOMAIN calls = config.callers /\ DOMAIN calls[p] = CallFields
          BY CallForms
        <4>4. calls'[p].step = "save"
          BY <4>2, <4>3 DEF CallFields
        <4> QED
          BY <4>1, <4>4
      <3> QED
        BY <3>1 DEF PutReleased
    <2> QED
      BY <1>4, <1>5, <2>1

\* mount loads the root directory, whatever was saved.
LEMMA MountedHolds ==
    ASSUME cache = Mounted, raced = NoRaces, PathForm,
           \A p \in config.callers : calls[p].step = "idle" /\ calls[p].op = "idle"
    PROVE  CacheInv
  <1>1. CacheForm
    BY DEF CacheForm, Mounted, NoCache, NoRaces
  <1>2. \A p \in config.callers : RequestInv(p)
    BY DEF RequestInv
  <1>3. /\ DOMAIN cache.dirs \subseteq {Root} /\ DOMAIN cache.attrs \subseteq {Root}
        /\ DOMAIN cache.entries = {}
        /\ \A d \in DOMAIN cache.dirs : cache.dirs[d] = export_merged_snapshot_at(d)
    BY DEF Mounted, NoCache, With, Empty
  <1>4. ASSUME NEW d \in DOMAIN cache.dirs PROVE DirInv(d)
    BY <1>3, ExportKnown DEF DirInv, Fresh
  <1>5. ASSUME NEW x \in DOMAIN cache.attrs PROVE AttrInv(x)
    BY <1>3 DEF AttrInv
  <1> QED
    BY <1>1, <1>2, <1>4, <1>5 DEF CacheInv

LEMMA RestartCacheHolds ==
    ASSUME CacheInv, Restart
    PROVE  CacheInv'
  <1>1. /\ config' = config /\ cache' = Mounted' /\ raced' = NoRaces /\ tree' = saved /\ saved' = saved
        /\ \A p \in config'.callers : calls'[p] = Idle
    BY DEF Restart, Opened
  <1>2. \A p \in config'.callers : calls'[p].step = "idle" /\ calls'[p].op = "idle"
    BY <1>1 DEF Idle
  <1>3. PathForm'
    BY <1>1 DEF CacheInv, PathForm, IsContent
  <1>4. raced' = NoRaces'
    BY <1>1 DEF NoRaces
  <1>5. CacheForm'
    BY <1>1 DEF CacheForm, Mounted, NoCache, NoRaces
  <1>6. \A p \in config'.callers : RequestInv(p)'
    BY <1>2 DEF RequestInv
  <1>7. /\ DOMAIN cache'.dirs \subseteq {Root} /\ DOMAIN cache'.attrs \subseteq {Root}
        /\ DOMAIN cache'.entries = {}
        /\ \A d \in DOMAIN cache'.dirs : cache'.dirs[d] = export_merged_snapshot_at(d)'
    BY <1>1 DEF Mounted, NoCache, With, Empty
  <1>8. ASSUME NEW d \in DOMAIN cache'.dirs PROVE DirInv(d)'
    <2>1. cache'.dirs[d] = export_merged_snapshot_at(d)'
      BY <1>7
    <2>2. Part(export_merged_snapshot_at(d))'
      BY DEF Part, export_merged_snapshot_at
    <2>3. Part(cache.dirs[d])'
      BY <2>1, <2>2 DEF Part
    <2> QED
      BY <1>7, <2>3 DEF DirInv, Fresh
  <1>9. ASSUME NEW x \in DOMAIN cache'.attrs PROVE AttrInv(x)'
    BY <1>7 DEF AttrInv
  <1> QED
    BY <1>3, <1>5, <1>6, <1>8, <1>9 DEF CacheInv

LEMMA CacheStarts ==
    ASSUME Init
    PROVE  CacheInv
  <1>1. /\ config \in Configs /\ cache = Mounted /\ raced = NoRaces
        /\ calls = [p \in config.callers |-> Idle] /\ tree = config.tree /\ saved = config.tree
    BY DEF Init, FuseInit, FsInit
  <1>2. PathForm
    BY <1>1, HostAssumption DEF PathForm
  <1> QED
    BY <1>1, <1>2, MountedHolds DEF Idle

LEMMA CacheInvMoves ==
    ASSUME HostInv, Mode("mount") => MountInv /\ CacheInv, [Next]_vars
    PROVE  (Mode("mount") => CacheInv)'
  <1>1. config' = config /\ (Mode("mount"))' = Mode("mount")
    BY DEF Next, JobAction, FetchAction, ImportAction, MountAction, ClientAction, SaveAction,
           Crash, Drop, Restart, vars, Mode
  <1> SUFFICES ASSUME Mode("mount") PROVE CacheInv'
    BY <1>1
  <1>2. MountInv /\ CacheInv
    OBVIOUS
  <1>3. ~Mode("fetch") /\ ~Mode("import") /\ ~Mode("client")
    BY DEF Mode
  <1>4. CASE JobAction \/ Drop \/ SaveAction \/ Crash \/ UNCHANGED vars
    <2>1. UNCHANGED <<config, cache, raced, tree, calls, open>> /\ saved'.dirs \subseteq saved.dirs \cup tree.dirs
      BY <1>4, SaveFacts DEF JobAction, Drop, SaveAction, AutoSave, Crash, vars, fsVars, fuseVars
    <2> QED
      BY <1>2, <2>1, OtherCacheHolds
  <1>5. CASE MountAction
    <2>1. PICK p \in config.callers :
            \/ \E op \in {"lookup", "create"}, path \in config.paths : Request(p, op, path)
            \/ \E path \in config.dirs : Request(p, "mkdir", path)
            \/ \E path \in {Root} \cup tree.dirs : Request(p, "readdir", path)
            \/ \E fh \in DOMAIN open.files : release(p, fh)
            \/ FuseStep(p)
            \/ \E fh \in DOMAIN open.files, c \in config.contents : write(fh, c)
      BY <1>5 DEF MountAction
    <2>2. CASE FuseStep(p)
      BY <1>1, <1>2, <2>2, ReadCacheHolds, InsertCacheHolds, RefreshCacheHolds, LookupCacheHolds,
         ReaddirCacheHolds, AnswerCacheHolds, CreateCacheHolds, MkdirCacheHolds, SaveFailsCacheHolds,
         PutCacheHolds DEF FuseStep
    <2>3. ASSUME NEW op \in {"lookup", "create", "readdir", "mkdir"},
                 NEW path \in config.paths \cup config.dirs \cup {Root} \cup tree.dirs, Request(p, op, path)
          PROVE  CacheInv'
      <3>1. IsContent(path)
        <4>1. IsContent(Root)
          BY DEF IsContent, Root
        <4>2. config \in Configs
          BY ModeFacts
        <4>3. \A x \in config.paths \cup config.dirs : IsContent(x)
          BY <4>2, HostAssumption
        <4>4. \A x \in tree.dirs : IsContent(x)
          BY <1>2 DEF CacheInv, PathForm
        <4> QED
          BY <4>1, <4>3, <4>4
      <3> QED
        BY <1>1, <1>2, <2>3, <3>1, RequestCacheHolds
    <2>4. CASE \E fh \in DOMAIN open.files : release(p, fh)
      BY <1>1, <1>2, <2>4, ReleaseCacheHolds
    <2>5. CASE \E fh \in DOMAIN open.files, c \in config.contents : write(fh, c)
      BY <1>1, <1>2, <2>5, WriteCacheHolds
    <2> QED
      <3>1. CASE \E op \in {"lookup", "create"}, path \in config.paths : Request(p, op, path)
        BY <2>3, <3>1
      <3>2. CASE \E path \in config.dirs : Request(p, "mkdir", path)
        BY <2>3, <3>2
      <3>3. CASE \E path \in {Root} \cup tree.dirs : Request(p, "readdir", path)
        BY <2>3, <3>3
      <3> QED
        BY <2>1, <2>2, <2>4, <2>5, <3>1, <3>2, <3>3
  <1>6. CASE Restart
    BY <1>2, <1>6, RestartCacheHolds
  <1>7. ~FetchAction
    <2>1. fetch.step = "idle"
      BY <1>3 DEF HostInv, FetchIds
    <2> QED
      BY <1>3, <2>1 DEF FetchAction, FetchStep, CheckDestination, AskSource, ReadSource, SourceError,
                        StoreFetched
  <1> QED
    BY <1>3, <1>4, <1>5, <1>6, <1>7 DEF Next, ImportAction, ClientAction

\* Where nothing is mounted, nothing is cached.
LEMMA NoMount == Spec => [](~Mode("mount") => DOMAIN cache.dirs = {} /\ DOMAIN cache.attrs = {})
  <1> DEFINE Nothing == ~Mode("mount") => config.callers = {} /\ cache = NoCache
  <1>1. Init => Nothing
    <2> SUFFICES ASSUME Init, ~Mode("mount") PROVE config.callers = {} /\ cache = NoCache
      OBVIOUS
    <2>1. config \in Configs /\ cache = Mounted
      BY DEF Init, FuseInit
    <2>2. config.callers = {}
      BY <2>1, HostAssumption DEF Mode
    <2> QED
      BY <2>1, <2>2 DEF Mounted
  <1>2. Nothing /\ [Next]_vars => Nothing'
    <2> SUFFICES ASSUME Nothing, [Next]_vars, ~Mode("mount")'
                 PROVE  (config.callers = {})' /\ cache' = NoCache'
      OBVIOUS
    <2>1. config' = config /\ ~Mode("mount")
      BY DEF Next, JobAction, FetchAction, ImportAction, MountAction, ClientAction, SaveAction,
             Crash, Drop, Restart, vars, Mode
    <2>2. cache' = cache \/ Restart
      BY <2>1 DEF Next, JobAction, FetchAction, ImportAction, MountAction, ClientAction, SaveAction,
             Crash, Drop, vars, fuseVars
    <2>3. Restart => cache' = NoCache
      BY <2>1 DEF Restart, Mounted, NoCache
    <2> QED
      BY <2>1, <2>2, <2>3 DEF NoCache, Empty
  <1>3. Nothing => (~Mode("mount") => DOMAIN cache.dirs = {} /\ DOMAIN cache.attrs = {})
    BY DEF NoCache, Empty
  <1> QED
    BY <1>1, <1>2, <1>3, PTL DEF Spec

\* With no request of the kernel under way, what the mount has cached (cache.rs) is
\* what the root holds, however requests interleaved: a directory that a request
\* changes is read again by that request, and what it puts into the cache is noted
\* when it is old by then.
THEOREM CacheIsFreshCorrect == Spec => []CacheIsFresh
  <1>1. Init => (Mode("mount") => MountInv) /\ (Mode("mount") => CacheInv)
    BY MountStarts, CacheStarts
  <1>2. HostInv /\ (Mode("mount") => MountInv) /\ [Next]_vars => (Mode("mount") => MountInv)'
    BY MountInvMoves
  <1>3. HostInv /\ (Mode("mount") => MountInv) /\ (Mode("mount") => CacheInv) /\ [Next]_vars
          => (Mode("mount") => CacheInv)'
    BY CacheInvMoves
  <1>4. HostInv /\ (Mode("mount") => MountInv) /\ (Mode("mount") => CacheInv)
          /\ (~Mode("mount") => DOMAIN cache.dirs = {} /\ DOMAIN cache.attrs = {}) => CacheIsFresh
    <2>1. DOMAIN cache.dirs = {} /\ DOMAIN cache.attrs = {} => CacheIsFresh
      BY DEF CacheIsFresh
    <2> QED
      BY <2>1, CacheFollows
  <1> QED
    BY <1>1, <1>2, <1>3, <1>4, HostInvariant, NoMount, PTL DEF Spec
=============================================================================
