------------------------ MODULE RagDimensionsProofs ------------------------
(***************************************************************************)
(* What holds of RagDimensions for any set of sources and of dimensions.   *)
(* The index is uniform because every write into it is guarded by the      *)
(* process's store, which fits the table or finds it dropped, and every    *)
(* rebuild by the absence of chunks; none of it depends on what the source *)
(* rows say.  Rows that agree go on agreeing but for two routes, a restore *)
(* and a creation that other changes overtook: the last theorem.           *)
(***************************************************************************)
EXTENDS RagDimensions, TLAPS

\* The migration purges live sources only, towards a dimension, and no row
\* changes while its handler runs.
HandlerInv ==
    /\ handler.phase = "idle" => handler = Idle
    /\ handler.phase # "idle" => handler.target \in Dims
    /\ handler.todo \subseteq Live

IndexInv ==
    /\ IndexIsUniform
    /\ VectorsHaveChunks
    /\ StoreFitsTable

IInv == TypeOK /\ HandlerInv /\ IndexInv

\* The actions that leave the rows, the index and the handler alone.
QuietStep ==
    \/ \E s \in Sources, d \in Dims : CheckCreate(s, d)
    \/ \E s \in Sources : AbandonCreate(s) \/ BeginSync(s)
    \/ StartEmbedding \/ IngestFails \/ EndSync
    \/ UNCHANGED vars
----------------------------------------------------------------------------
LEMMA InitIInv == Init => IInv
<1> SUFFICES ASSUME Init PROVE IInv
  OBVIOUS
<1>1. TypeOK
  BY DimsAssumption DEF Init, TypeOK, NoSync, Idle, MaybeDim
<1>2. HandlerInv /\ IndexInv
  BY DEF Init, HandlerInv, IndexInv, IndexIsUniform, VectorsHaveChunks, StoreFitsTable, Idle, Live
<1> QED BY <1>1, <1>2 DEF IInv

\* Type correctness is inductive with what is known of the handler's target.
LEMMA NextTypeOK ==
  ASSUME TypeOK, HandlerInv, [Next]_vars
  PROVE  TypeOK'
<1> USE DimsAssumption DEF TypeOK, MaybeDim, Outdates, Serving
<1>1. ASSUME QuietStep PROVE TypeOK'
  <2>1. ASSUME NEW s \in Sources, NEW d \in Dims, CheckCreate(s, d) PROVE TypeOK'
    BY <2>1 DEF CheckCreate, sourceVars, rowVars, indexVars
  <2>2. ASSUME NEW s \in Sources, AbandonCreate(s) PROVE TypeOK'
    BY <2>2 DEF AbandonCreate, sourceVars, rowVars, indexVars
  <2>3. ASSUME NEW s \in Sources, BeginSync(s) PROVE TypeOK'
    BY <2>3 DEF BeginSync, NoSync, sourceVars, rowVars, indexVars
  <2>4. CASE StartEmbedding
    BY <2>4 DEF StartEmbedding, sourceVars, rowVars, indexVars
  <2>5. CASE IngestFails
    BY <2>5 DEF IngestFails, sourceVars, rowVars, indexVars
  <2>6. CASE EndSync
    BY <2>6 DEF EndSync, NoSync, sourceVars, rowVars, indexVars
  <2>7. CASE UNCHANGED vars
    BY <2>7 DEF vars
  <2> QED BY <1>1, <2>1, <2>2, <2>3, <2>4, <2>5, <2>6, <2>7 DEF QuietStep
<1>2. ASSUME NEW s \in Sources, NEW d \in Dims, PatchSetting(s, d) PROVE TypeOK'
  BY <1>2 DEF PatchSetting, indexVars
<1>3. ASSUME NEW s \in Sources, InsertSource(s) PROVE TypeOK'
  BY <1>3 DEF InsertSource, indexVars, Ids
<1>4. ASSUME NEW s \in Sources, SoftDelete(s) PROVE TypeOK'
  BY <1>4 DEF SoftDelete, indexVars
<1>5. ASSUME NEW s \in Sources, Restore(s) PROVE TypeOK'
  BY <1>5 DEF Restore, indexVars
<1>6. ASSUME NEW s \in Sources, Destroy(s) PROVE TypeOK'
  BY <1>6 DEF Destroy, WipeVectors, WipeRows
<1>7. ASSUME NEW s \in Sources, Purge(s) PROVE TypeOK'
  BY <1>7 DEF Purge, WipeVectors, WipeRows, sourceVars, rowVars
<1>8. ASSUME NEW s \in Sources, KilledMidWipe(s) PROVE TypeOK'
  BY <1>8 DEF KilledMidWipe, WipeVectors, Down, NoSync, Idle, sourceVars, rowVars
<1>9. ASSUME NEW d \in Dims, Reindex(d) PROVE TypeOK'
  BY <1>9 DEF Reindex, Live, sourceVars, rowVars, indexVars
<1>10. CASE Persist
  BY <1>10 DEF Persist, CanPersist, Ids, sourceVars, rowVars
<1>11. CASE Repoint
  <2>1. handler.target \in Dims
    BY <1>11 DEF Repoint, HandlerInv
  <2> QED BY <1>11, <2>1 DEF Repoint, Live, indexVars
<1>12. CASE Rebuild
  BY <1>12 DEF Rebuild, Idle, sourceVars, rowVars
<1>13. CASE RebuildRefused
  BY <1>13 DEF RebuildRefused, Idle, sourceVars, rowVars, indexVars
<1>14. CASE ReindexFails
  BY <1>14 DEF ReindexFails, WipeVectors, Idle, sourceVars, rowVars
<1>15. CASE Crash
  BY <1>15 DEF Crash, Down, NoSync, Idle, sourceVars, rowVars, indexVars
<1>16. CASE Boot
  BY <1>16 DEF Boot, BootDim, Oldest, Ids, sourceVars, rowVars
<1> QED BY <1>1, <1>2, <1>3, <1>4, <1>5, <1>6, <1>7, <1>8, <1>9, <1>10, <1>11,
           <1>12, <1>13, <1>14, <1>15, <1>16 DEF Next, QuietStep

LEMMA NextHandlerInv ==
  ASSUME TypeOK, HandlerInv, [Next]_vars
  PROVE  HandlerInv'
<1> USE DEF TypeOK, HandlerInv, Live, Idle
<1>1. ASSUME QuietStep PROVE HandlerInv'
  BY <1>1 DEF QuietStep, CheckCreate, AbandonCreate, BeginSync, StartEmbedding, IngestFails,
     EndSync, vars, sourceVars, rowVars
<1>2. ASSUME NEW s \in Sources, NEW d \in Dims, PatchSetting(s, d) PROVE HandlerInv'
  BY <1>2 DEF PatchSetting
<1>3. ASSUME NEW s \in Sources, InsertSource(s) \/ SoftDelete(s) \/ Restore(s) \/ Destroy(s)
      PROVE  HandlerInv'
  BY <1>3 DEF InsertSource, SoftDelete, Restore, Destroy, Serving
<1>4. ASSUME NEW s \in Sources, Purge(s) PROVE HandlerInv'
  BY <1>4 DEF Purge, sourceVars, rowVars
<1>5. ASSUME NEW s \in Sources, KilledMidWipe(s) PROVE HandlerInv'
  BY <1>5 DEF KilledMidWipe, Down
<1>6. ASSUME NEW d \in Dims, Reindex(d) PROVE HandlerInv'
  BY <1>6 DEF Reindex, sourceVars, rowVars
<1>7. CASE Persist \/ Boot
  BY <1>7 DEF Persist, Boot, sourceVars, rowVars
<1>8. CASE Repoint
  BY <1>8 DEF Repoint
<1>9. CASE Rebuild \/ RebuildRefused \/ ReindexFails
  BY <1>9 DEF Rebuild, RebuildRefused, ReindexFails
<1>10. CASE Crash
  BY <1>10 DEF Crash, Down
<1> QED BY <1>1, <1>2, <1>3, <1>4, <1>5, <1>6, <1>7, <1>8, <1>9, <1>10 DEF Next, QuietStep

LEMMA NextIndexInv ==
  ASSUME TypeOK, IndexInv, [Next]_vars
  PROVE  IndexInv'
<1> USE DEF TypeOK, IndexInv, IndexIsUniform, VectorsHaveChunks, StoreFitsTable
<1>1. ASSUME QuietStep PROVE IndexInv'
  BY <1>1 DEF QuietStep, CheckCreate, AbandonCreate, BeginSync, StartEmbedding, IngestFails,
     EndSync, vars, indexVars
<1>2. ASSUME NEW s \in Sources, NEW d \in Dims, PatchSetting(s, d) PROVE IndexInv'
  BY <1>2 DEF PatchSetting, indexVars
<1>3. ASSUME NEW s \in Sources, InsertSource(s) \/ SoftDelete(s) \/ Restore(s) PROVE IndexInv'
  BY <1>3 DEF InsertSource, SoftDelete, Restore, indexVars
<1>4. ASSUME NEW s \in Sources, Destroy(s) \/ Purge(s) PROVE IndexInv'
  <2>1. /\ vectors' = IF vec = NoDim THEN vectors ELSE vectors \ {s}
        /\ chunks' = [chunks EXCEPT ![s] = NoDim]
        /\ vec' = vec /\ store' = store
    BY <1>4 DEF Destroy, Purge, WipeVectors, WipeRows
  <2>2. IndexIsUniform'
    BY <2>1
  <2>3. VectorsHaveChunks'
    <3>1. CASE vec = NoDim
      BY <2>1, <3>1
    <3>2. CASE vec # NoDim
      BY <2>1, <3>2
    <3> QED BY <3>1, <3>2
  <2> QED BY <2>1, <2>2, <2>3
<1>5. ASSUME NEW s \in Sources, KilledMidWipe(s) PROVE IndexInv'
  BY <1>5 DEF KilledMidWipe, WipeVectors, Down
<1>6. ASSUME NEW d \in Dims, Reindex(d) PROVE IndexInv'
  BY <1>6 DEF Reindex, indexVars
<1>7. CASE Persist
  <2>1. vec = store /\ sync.dim = store
    BY <1>7 DEF Persist, CanPersist, Serving
  <2>2. sync.dim # NoDim
    BY <1>7, <2>1 DEF Persist, CanPersist
  <2> QED BY <1>7, <2>1, <2>2 DEF Persist, CanPersist, Ids
<1>8. CASE Repoint
  BY <1>8 DEF Repoint, indexVars
<1>9. CASE Rebuild
  <2>1. CASE vec = handler.target
    BY <1>9, <2>1 DEF Rebuild
  <2>2. CASE vec # handler.target
    <3>1. \A s \in Sources : chunks[s] = NoDim
      BY <1>9, <2>2 DEF Rebuild, Refuses
    <3> QED BY <1>9, <2>2, <3>1 DEF Rebuild
  <2> QED BY <2>1, <2>2
<1>10. CASE RebuildRefused
  BY <1>10 DEF RebuildRefused, indexVars
<1>11. CASE ReindexFails
  BY <1>11 DEF ReindexFails, WipeVectors
<1>12. CASE Crash
  BY <1>12 DEF Crash, Down, indexVars
<1>13. CASE Boot
  <2>1. PICK d \in BootDim : /\ ~Refuses(d)
                             /\ store' = d /\ vec' = d
                             /\ vectors' = IF vec = d THEN vectors ELSE {}
    BY <1>13 DEF Boot
  <2>2. chunks' = chunks
    BY <1>13 DEF Boot
  <2>3. CASE vec = d
    BY <2>1, <2>2, <2>3
  <2>4. CASE vec # d
    <3>1. \A s \in Sources : chunks[s] = NoDim
      BY <2>1, <2>4 DEF Refuses
    <3> QED BY <2>1, <2>2, <2>4, <3>1
  <2> QED BY <2>3, <2>4
<1> QED BY <1>1, <1>2, <1>3, <1>4, <1>5, <1>6, <1>7, <1>8, <1>9, <1>10, <1>11, <1>12,
           <1>13 DEF Next, QuietStep

LEMMA NextIInv == IInv /\ [Next]_vars => IInv'
  BY NextTypeOK, NextHandlerInv, NextIndexInv DEF IInv

LEMMA SpecIInv == Spec => []IInv
  BY InitIInv, NextIInv, PTL DEF Spec

(* Every variable stays in its type, and a row has a dimension. *)
THEOREM TypeCorrect == Spec => []TypeOK
  BY SpecIInv, PTL DEF IInv

(* Every chunk fits the vector table, whatever migrates, crashes or comes  *)
(* late: the guards of the store and of the reset are enough.              *)
THEOREM IndexStaysUniform == Spec => []IndexIsUniform
  BY SpecIInv, PTL DEF IInv, IndexInv

(* No vector is left without its chunk. *)
THEOREM NoOrphanVector == Spec => []VectorsHaveChunks
  BY SpecIInv, PTL DEF IInv, IndexInv

(* The store of the process fits the table, or the table is dropped. *)
THEOREM StoreKnowsTable == Spec => []StoreFitsTable
  BY SpecIInv, PTL DEF IInv, IndexInv
----------------------------------------------------------------------------
\* No step but a hard delete takes the content of a source in the trash.
LEMMA StepKeepsTrash ==
  ASSUME TypeOK, HandlerInv, [Next]_vars,
         NEW t \in Sources, row[t] = "trashed", row'[t] # "none", chunks[t] # NoDim
  PROVE  chunks'[t] # NoDim
<1> USE DEF TypeOK
<1>1. ASSUME QuietStep PROVE chunks' = chunks
  BY <1>1 DEF QuietStep, CheckCreate, AbandonCreate, BeginSync, StartEmbedding, IngestFails,
     EndSync, vars, indexVars
<1>2. ASSUME NEW s \in Sources, NEW d \in Dims, PatchSetting(s, d) PROVE chunks' = chunks
  BY <1>2 DEF PatchSetting, indexVars
<1>3. ASSUME NEW s \in Sources, InsertSource(s) \/ SoftDelete(s) \/ Restore(s)
      PROVE  chunks' = chunks
  BY <1>3 DEF InsertSource, SoftDelete, Restore, indexVars
<1>4. ASSUME NEW s \in Sources, Destroy(s) PROVE chunks'[t] # NoDim
  BY <1>4 DEF Destroy, WipeRows
<1>5. ASSUME NEW s \in Sources, Purge(s) PROVE chunks'[t] # NoDim
  <2>1. s # t
    BY <1>5 DEF Purge, HandlerInv, Live
  <2> QED BY <1>5, <2>1 DEF Purge, WipeRows
<1>6. ASSUME NEW s \in Sources, KilledMidWipe(s) PROVE chunks' = chunks
  BY <1>6 DEF KilledMidWipe
<1>7. ASSUME NEW d \in Dims, Reindex(d) PROVE chunks' = chunks
  BY <1>7 DEF Reindex, indexVars
<1>8. CASE Persist
  BY <1>8 DEF Persist, CanPersist, Serving, Ids
<1>9. CASE Repoint \/ Rebuild \/ RebuildRefused \/ ReindexFails \/ Crash \/ Boot
  BY <1>9 DEF Repoint, Rebuild, RebuildRefused, ReindexFails, Crash, Boot, indexVars
<1> QED BY <1>1, <1>2, <1>3, <1>4, <1>5, <1>6, <1>7, <1>8, <1>9 DEF Next, QuietStep

(* A source in the trash keeps its content through every migration. *)
THEOREM TrashSurvives == Spec => TrashKeepsContent
<1>1. IInv /\ [Next]_vars =>
        [\A s \in Sources :
          row[s] = "trashed" /\ row'[s] # "none" /\ chunks[s] # NoDim => chunks'[s] # NoDim]_vars
  BY StepKeepsTrash DEF IInv
<1> QED BY <1>1, SpecIInv, PTL DEF Spec, TrashKeepsContent
----------------------------------------------------------------------------
\* Any rows have an oldest one, which decides the current dimension.
OldestInv == \A T \in SUBSET Ids : T # {} => Oldest(T) # {}

\* A creation has no row yet, and one that nothing overtook agrees with the
\* rows that are there.
FreshInv == \A s \in Sources : creating[s] # NoDim =>
    row[s] = "none" /\ (s \notin stale => Agrees(creating[s]))

AgreeInv == OldestInv /\ FreshInv

\* With rows that agree, agreeing with the oldest is agreeing with all.
LEMMA AgreesWithAll ==
  ASSUME OldestInv, SingleDimension, NEW d \in Dims, Agrees(d)
  PROVE  \A s \in Live : dim[s] = d
<1>1. Live \in SUBSET Ids
  BY DEF Live, Ids
<1>2. CASE Live = {}
  BY <1>2
<1>3. CASE Live # {}
  <2>1. PICK o \in Oldest(Live) : dim[o] = d
    BY <1>1, <1>3 DEF OldestInv, Agrees
  <2> QED BY <2>1 DEF Oldest, SingleDimension
<1> QED BY <1>2, <1>3

LEMMA NextOldestInv ==
  ASSUME TypeOK, OldestInv, [Next]_vars
  PROVE  OldestInv'
<1> USE DEF TypeOK
<1>1. ASSUME Ids' = Ids, older' = older PROVE OldestInv'
  BY <1>1 DEF OldestInv, Oldest
<1>2. ASSUME row' = row, older' = older PROVE OldestInv'
  BY <1>1, <1>2 DEF Ids
<1>3. ASSUME QuietStep PROVE OldestInv'
  BY <1>2, <1>3 DEF QuietStep, CheckCreate, AbandonCreate, BeginSync, StartEmbedding, IngestFails,
     EndSync, vars, sourceVars, rowVars
<1>4. ASSUME NEW s \in Sources, NEW d \in Dims, PatchSetting(s, d) PROVE OldestInv'
  BY <1>2, <1>4 DEF PatchSetting
<1>5. ASSUME NEW s \in Sources, SoftDelete(s) \/ Restore(s) PROVE OldestInv'
  BY <1>1, <1>5 DEF SoftDelete, Restore, Ids
<1>6. ASSUME NEW s \in Sources, InsertSource(s) PROVE OldestInv'
  <2>1. Ids' = Ids \union {s} /\ older' = older \union (Ids \X {s})
    BY <1>6 DEF InsertSource, Ids
  <2>2. SUFFICES ASSUME NEW T \in SUBSET (Ids'), T # {} PROVE Oldest(T)' # {}
    BY DEF OldestInv
  <2>3. CASE T \ {s} = {}
    BY <2>2, <2>3 DEF Oldest, Ids
  <2>4. CASE T \ {s} # {}
    <3>1. PICK o \in Oldest(T \ {s}) : TRUE
      BY <2>1, <2>4 DEF OldestInv
    <3>2. o \in T /\ o \in Ids /\ \A x \in T \ {o} : <<o, x>> \in older'
      BY <2>1, <3>1 DEF Oldest
    <3> QED BY <3>2 DEF Oldest
  <2> QED BY <2>3, <2>4
<1>7. ASSUME NEW s \in Sources, Destroy(s) PROVE OldestInv'
  <2>1. Ids' = Ids \ {s} /\ older' = {p \in older : p[1] # s /\ p[2] # s}
    BY <1>7 DEF Destroy, Ids
  <2>2. SUFFICES ASSUME NEW T \in SUBSET (Ids'), T # {} PROVE Oldest(T)' # {}
    BY DEF OldestInv
  <2>3. PICK o \in Oldest(T) : TRUE
    BY <2>1, <2>2 DEF OldestInv
  <2>4. \A x \in T \ {o} : <<o, x>> \in older'
    BY <2>1, <2>3 DEF Oldest
  <2> QED BY <2>3, <2>4 DEF Oldest
<1>8. ASSUME NEW s \in Sources, Purge(s) \/ KilledMidWipe(s) PROVE OldestInv'
  BY <1>2, <1>8 DEF Purge, KilledMidWipe, sourceVars, rowVars
<1>9. ASSUME NEW d \in Dims, Reindex(d) PROVE OldestInv'
  BY <1>2, <1>9 DEF Reindex, sourceVars, rowVars
<1>10. CASE Persist \/ Repoint \/ Rebuild \/ RebuildRefused \/ ReindexFails \/ Crash \/ Boot
  BY <1>2, <1>10 DEF Persist, Repoint, Rebuild, RebuildRefused, ReindexFails, Crash, Boot,
     sourceVars, rowVars
<1> QED BY <1>3, <1>4, <1>5, <1>6, <1>7, <1>8, <1>9, <1>10 DEF Next, QuietStep

LEMMA NextFreshInv ==
  ASSUME TypeOK, FreshInv, [Next]_vars
  PROVE  FreshInv'
<1> USE DEF TypeOK
\* the rows stay, and what is in flight was in flight
<1>1. ASSUME rowVars' = rowVars, stale' = stale,
             \A s \in Sources : creating'[s] \in {creating[s], NoDim}
      PROVE  FreshInv'
  BY <1>1 DEF FreshInv, Agrees, Oldest, Live, rowVars
\* all that is left in flight is overtaken
<1>2. ASSUME \A s \in Sources : creating'[s] # NoDim => s \in stale' /\ row'[s] = "none"
      PROVE  FreshInv'
  BY <1>2 DEF FreshInv
<1>3. ASSUME NEW s \in Sources, NEW d \in Dims, CheckCreate(s, d) PROVE FreshInv'
  <2>1. rowVars' = rowVars /\ stale' = stale /\ Agrees(d) /\ row[s] = "none"
    BY <1>3 DEF CheckCreate, sourceVars
  <2>2. \A x \in Sources : creating'[x] = IF x = s THEN d ELSE creating[x]
    BY <1>3 DEF CheckCreate
  <2> QED BY <2>1, <2>2 DEF FreshInv, Agrees, Oldest, Live, rowVars
<1>4. ASSUME NEW s \in Sources, AbandonCreate(s) PROVE FreshInv'
  <2>1. rowVars' = rowVars /\ stale' = stale \ {s}
    BY <1>4 DEF AbandonCreate
  <2>2. \A x \in Sources : creating'[x] = IF x = s THEN NoDim ELSE creating[x]
    BY <1>4 DEF AbandonCreate
  <2> QED BY <2>1, <2>2 DEF FreshInv, Agrees, Oldest, Live, rowVars
<1>5. ASSUME NEW s \in Sources, InsertSource(s) PROVE FreshInv'
  BY <1>2, <1>5 DEF InsertSource, FreshInv
<1>6. ASSUME NEW s \in Sources, NEW d \in Dims, PatchSetting(s, d) PROVE FreshInv'
  BY <1>2, <1>6 DEF PatchSetting, Outdates, FreshInv
<1>7. ASSUME NEW s \in Sources, SoftDelete(s) \/ Restore(s) PROVE FreshInv'
  BY <1>2, <1>7 DEF SoftDelete, Restore, Outdates, FreshInv
<1>8. ASSUME NEW s \in Sources, Destroy(s) PROVE FreshInv'
  <2>1. CASE s \in Live
    BY <1>2, <1>8, <2>1 DEF Destroy, Outdates, FreshInv
  <2>2. CASE s \notin Live
    <3>1. /\ creating' = creating /\ stale' = stale
          /\ \A x \in Sources : row[x] = "none" => row'[x] = "none"
          /\ Live' = Live /\ \A x \in Live : dim'[x] = dim[x]
          /\ \A x, y \in Live : <<x, y>> \in older' <=> <<x, y>> \in older
      BY <1>8, <2>2 DEF Destroy, Live, Ids
    <3> QED BY <3>1 DEF FreshInv, Agrees, Oldest, Live
  <2> QED BY <2>1, <2>2
<1>9. ASSUME NEW s \in Sources, BeginSync(s) \/ Purge(s) PROVE FreshInv'
  BY <1>1, <1>9 DEF BeginSync, Purge, sourceVars
<1>10. ASSUME NEW s \in Sources, KilledMidWipe(s) PROVE FreshInv'
  BY <1>2, <1>10 DEF KilledMidWipe, Down
<1>11. ASSUME NEW d \in Dims, Reindex(d) PROVE FreshInv'
  BY <1>1, <1>11 DEF Reindex, sourceVars
<1>12. CASE StartEmbedding \/ Persist \/ IngestFails \/ EndSync \/ Boot
  BY <1>1, <1>12 DEF StartEmbedding, Persist, IngestFails, EndSync, Boot, sourceVars
<1>13. CASE Repoint
  BY <1>2, <1>13 DEF Repoint, Outdates, FreshInv
<1>14. CASE Rebuild \/ RebuildRefused \/ ReindexFails
  BY <1>1, <1>14 DEF Rebuild, RebuildRefused, ReindexFails, sourceVars
<1>15. CASE Crash
  BY <1>2, <1>15 DEF Crash, Down
<1>16. CASE UNCHANGED vars
  BY <1>1, <1>16 DEF vars, rowVars
<1> QED BY <1>3, <1>4, <1>5, <1>6, <1>7, <1>8, <1>9, <1>10, <1>11, <1>12, <1>13, <1>14, <1>15,
           <1>16 DEF Next

\* A restored source, or one whose creation was overtaken.
Unchecked(s) ==
    row[s] # "live" /\ row'[s] = "live" /\ (row[s] = "trashed" \/ s \in stale)

LEMMA StepAgrees ==
  ASSUME TypeOK, HandlerInv, AgreeInv, [Next]_vars, SingleDimension
  PROVE  SingleDimension' \/ \E s \in Sources : Unchecked(s)
<1> USE DEF TypeOK
<1>0. OldestInv /\ FreshInv
  BY DEF AgreeInv
<1>1. ASSUME rowVars' = rowVars PROVE SingleDimension'
  BY <1>1 DEF SingleDimension, Live, rowVars
<1>2. ASSUME Live' \subseteq Live, \A s \in Live' : dim'[s] = dim[s] PROVE SingleDimension'
  BY <1>2 DEF SingleDimension
<1>3. ASSUME NEW s \in Sources, NEW d \in Dims, CheckCreate(s, d) PROVE SingleDimension'
  BY <1>1, <1>3 DEF CheckCreate, sourceVars
<1>4. ASSUME NEW s \in Sources, NEW d \in Dims, PatchSetting(s, d) PROVE SingleDimension'
  <2>1. \A t \in Live : dim[t] = d
    BY <1>0, <1>4, AgreesWithAll DEF PatchSetting
  <2>2. Live' = Live /\ \A t \in Live : dim'[t] = dim[t]
    BY <1>4, <2>1 DEF PatchSetting, Live
  <2> QED BY <1>2, <2>2
<1>5. ASSUME NEW s \in Sources, InsertSource(s), ~Unchecked(s) PROVE SingleDimension'
  <2>1. s \notin stale
    BY <1>0, <1>5 DEF InsertSource, Unchecked, FreshInv
  <2>2. Live' = Live \union {s} /\ dim'[s] = creating[s] /\ \A t \in Live \ {s} : dim'[t] = dim[t]
    BY <1>5 DEF InsertSource, Live
  <2>3. Agrees(creating[s]) /\ creating[s] \in Dims
    BY <1>0, <1>5, <2>1 DEF FreshInv, InsertSource, MaybeDim
  <2>4. \A t \in Live : dim[t] = creating[s]
    BY <1>0, <2>3, AgreesWithAll
  <2> QED BY <2>2, <2>4 DEF SingleDimension
<1>6. ASSUME NEW s \in Sources, AbandonCreate(s) PROVE SingleDimension'
  BY <1>1, <1>6 DEF AbandonCreate
<1>7. ASSUME NEW s \in Sources, SoftDelete(s) \/ Destroy(s) PROVE SingleDimension'
  <2>1. Live' \subseteq Live /\ \A t \in Live' : dim'[t] = dim[t]
    BY <1>7 DEF SoftDelete, Destroy, Live
  <2> QED BY <1>2, <2>1
<1>8. ASSUME NEW s \in Sources, Restore(s) PROVE Unchecked(s)
  BY <1>8 DEF Restore, Unchecked
<1>9. ASSUME NEW s \in Sources, BeginSync(s) \/ Purge(s) \/ KilledMidWipe(s) PROVE SingleDimension'
  BY <1>1, <1>9 DEF BeginSync, Purge, KilledMidWipe, sourceVars
<1>10. ASSUME NEW d \in Dims, Reindex(d) PROVE SingleDimension'
  BY <1>1, <1>10 DEF Reindex, sourceVars
<1>11. CASE \/ StartEmbedding \/ Persist \/ IngestFails \/ EndSync
            \/ Rebuild \/ RebuildRefused \/ ReindexFails
  BY <1>1, <1>11 DEF StartEmbedding, Persist, IngestFails, EndSync, Rebuild, RebuildRefused,
     ReindexFails, sourceVars
<1>12. CASE Repoint
  BY <1>12 DEF Repoint, SingleDimension, Live
<1>13. CASE Crash \/ Boot \/ UNCHANGED vars
  BY <1>1, <1>13 DEF Crash, Boot, vars, sourceVars, rowVars
<1> QED BY <1>3, <1>4, <1>5, <1>6, <1>7, <1>8, <1>9, <1>10, <1>11, <1>12, <1>13 DEF Next

(* Live sources that agree go on agreeing: only a restored source, or one  *)
(* whose creation other changes overtook, can bring in another dimension.  *)
THEOREM ChecksKeepAgreement == Spec => OnlyTheUncheckedDisagree
<1>1. Init => AgreeInv
  BY DEF Init, AgreeInv, OldestInv, FreshInv, Ids
<1>2. IInv /\ AgreeInv /\ [Next]_vars => AgreeInv'
  BY NextOldestInv, NextFreshInv DEF IInv, AgreeInv
<1>3. IInv /\ AgreeInv /\ [Next]_vars =>
        [SingleDimension /\ ~SingleDimension' =>
           \E s \in Sources : /\ row[s] # "live" /\ row'[s] = "live"
                              /\ row[s] = "trashed" \/ s \in stale]_vars
  BY StepAgrees DEF IInv, Unchecked
<1> QED BY <1>1, <1>2, <1>3, SpecIInv, PTL DEF Spec, OnlyTheUncheckedDisagree
============================================================================
