--------------------------- MODULE RagDimensions ---------------------------
(***************************************************************************)
(* The embedding dimension of the RAG index.  Every source row records the *)
(* dimension of its model, the vec0 table rag_chunks_vec has one dimension *)
(* fixed when it is created, and the process holds a SqliteVecStore built  *)
(* for one dimension at boot.  The routes that create, change, delete,     *)
(* restore and migrate sources (rag-core/src/routes), the ingestion that   *)
(* writes vectors (pipeline/ingest.ts) and the boot that picks the         *)
(* dimension (cli/src/rag/store-init.ts) each look after one of the three. *)
(* One tenant; a source's documents count as one, since every operation    *)
(* treats them alike.                                                      *)
(***************************************************************************)
EXTENDS FiniteSets

CONSTANTS
    Sources,
    Dims,        \* dimensions of the embedding settings an admin may name
    DefaultDim,  \* DEFAULT_DIMENSION of store-init.ts
    NoDim,
    NoSource

ASSUME DimsAssumption ==
    /\ DefaultDim \in Dims
    /\ NoDim \notin Dims
    /\ NoSource \notin Sources

VARIABLES
    row,       \* rag_sources: none, live, or trashed (deleted_at is set)
    dim,       \* rag_sources.embedding_dimensions
    older,     \* pairs of rows in created_at order
    chunks,    \* dimension of the rag_chunks of each source
    vectors,   \* sources whose chunks are in rag_chunks_vec
    vec,       \* declared dimension of rag_chunks_vec, NoDim: no table
    store,     \* dimension of the process's SqliteVecStore, NoDim: RAG is off
    creating,  \* POST /api/rag/sources past its check, awaiting testConnection
    sync,      \* the running sync job and the document it is embedding
    handler,   \* POST /api/rag/reindex, between two of its transactions
    job,       \* the latest row of rag_reindex_jobs
    stale      \* history: creations whose check other live rows have overtaken

vars == <<row, dim, older, chunks, vectors, vec, store, creating, sync, handler, job, stale>>
rowVars == <<row, dim, older>>
sourceVars == <<rowVars, stale>>
indexVars == <<chunks, vectors, vec>>

MaybeDim == Dims \union {NoDim}
NoSync == [src |-> NoSource, dim |-> NoDim, embedding |-> FALSE, known |-> FALSE]
Idle == [phase |-> "idle", todo |-> {}, target |-> NoDim]

Ids == {s \in Sources : row[s] # "none"}
Live == {s \in Sources : row[s] = "live"}

Init ==
    /\ row = [s \in Sources |-> "none"]
    /\ dim = [s \in Sources |-> NoDim]
    /\ older = {}
    /\ chunks = [s \in Sources |-> NoDim]
    /\ vectors = {}
    /\ vec = DefaultDim
    /\ store = DefaultDim
    /\ creating = [s \in Sources |-> NoDim]
    /\ sync = NoSync
    /\ handler = Idle
    /\ job = [status |-> "none", target |-> NoDim]
    /\ stale = {}
----------------------------------------------------------------------------
\* The rows of S that come first ORDER BY created_at ASC.
Oldest(S) == {s \in S : \A x \in S \ {s} : <<s, x>> \in older}

(* getCurrentDimension: live rows only, null agrees with everything. *)
Agrees(d) == \A s \in Oldest(Live) : dim[s] = d

\* A request is served: the handlers between two awaits are not interrupted.
Serving == store # NoDim /\ handler = Idle

\* The live rows change; what a creation in flight was compared with is old.
Outdates == stale' = stale \union {s \in Sources : creating[s] # NoDim}

(* POST /api/rag/sources up to testConnection. *)
CheckCreate(s, d) ==
    /\ Serving
    /\ row[s] = "none"
    /\ creating[s] = NoDim
    /\ Agrees(d)
    /\ creating' = [creating EXCEPT ![s] = d]
    /\ UNCHANGED <<sourceVars, indexVars, store, sync, handler, job>>

(* testConnection resolved: INSERT INTO rag_sources. *)
InsertSource(s) ==
    /\ Serving
    /\ creating[s] # NoDim
    /\ row' = [row EXCEPT ![s] = "live"]
    /\ dim' = [dim EXCEPT ![s] = creating[s]]
    /\ older' = older \union (Ids \X {s})
    /\ creating' = [creating EXCEPT ![s] = NoDim]
    /\ stale' = {x \in Sources \ {s} : creating[x] # NoDim}
    /\ UNCHANGED <<indexVars, store, sync, handler, job>>

(* testConnection rejected: 400, nothing is stored. *)
AbandonCreate(s) ==
    /\ Serving
    /\ creating[s] # NoDim
    /\ creating' = [creating EXCEPT ![s] = NoDim]
    /\ stale' = stale \ {s}
    /\ UNCHANGED <<rowVars, indexVars, store, sync, handler, job>>

(* Mutant: the new setting is not compared with the other sources. *)
PatchUnchecked(s, d) ==
    /\ Serving
    /\ row[s] = "live"
    /\ Outdates
    /\ dim' = [dim EXCEPT ![s] = d]
    /\ UNCHANGED <<row, older, indexVars, store, creating, sync, handler, job>>

(* PATCH /api/rag/sources/:id with another embeddingSettingName. *)
PatchSetting(s, d) ==
    /\ Serving
    /\ row[s] = "live"
    /\ Agrees(d)
    /\ Outdates
    /\ dim' = [dim EXCEPT ![s] = d]
    /\ UNCHANGED <<row, older, indexVars, store, creating, sync, handler, job>>

(* DELETE /api/rag/sources/:id: the content stays for a restore. *)
SoftDelete(s) ==
    /\ Serving
    /\ row[s] = "live"
    /\ Outdates
    /\ row' = [row EXCEPT ![s] = "trashed"]
    /\ UNCHANGED <<dim, older, indexVars, store, creating, sync, handler, job>>

(* POST /api/rag/sources/:id/restore. *)
Restore(s) ==
    /\ Serving
    /\ row[s] = "trashed"
    /\ Outdates
    /\ row' = [row EXCEPT ![s] = "live"]
    /\ UNCHANGED <<dim, older, indexVars, store, creating, sync, handler, job>>
----------------------------------------------------------------------------
(* deleteByDocument: a statement on a dropped table throws, and is ignored. *)
WipeVectors(s) == vectors' = IF vec = NoDim THEN vectors ELSE vectors \ {s}

\* The transaction that deletes the chunks, documents and folders of s.
WipeRows(s) == chunks' = [chunks EXCEPT ![s] = NoDim]

(* DELETE /api/rag/sources/:id/permanent, and the boot's cleanup of expired *)
(* trash: the vectors, then the cascade in one transaction.                 *)
Destroy(s) ==
    /\ Serving
    /\ s \in Ids
    /\ IF s \in Live THEN Outdates ELSE UNCHANGED stale
    /\ WipeVectors(s)
    /\ WipeRows(s)
    /\ row' = [row EXCEPT ![s] = "none"]
    /\ dim' = [dim EXCEPT ![s] = NoDim]
    /\ older' = {p \in older : p[1] # s /\ p[2] # s}
    /\ UNCHANGED <<vec, store, creating, sync, handler, job>>
----------------------------------------------------------------------------
(* The worker takes a sync job; the source's client is resolved by name.    *)
BeginSync(s) ==
    /\ Serving
    /\ sync = NoSync
    /\ row[s] = "live"
    /\ sync' = [NoSync EXCEPT !.src = s, !.dim = dim[s]]
    /\ UNCHANGED <<sourceVars, indexVars, store, creating, handler, job>>

(* ingestDocument up to the provider call: the row must still have the     *)
(* client's dimension; a row that is gone is not compared.                 *)
StartEmbedding ==
    /\ Serving
    /\ sync.src # NoSource
    /\ ~sync.embedding
    /\ sync.src \in Ids => dim[sync.src] = sync.dim
    /\ sync' = [sync EXCEPT !.embedding = TRUE, !.known = (chunks[sync.src] # NoDim)]
    /\ UNCHANGED <<sourceVars, indexVars, store, creating, handler, job>>

(* What lets the persist transaction commit: the table is there, the       *)
(* vectors have the store's length, and the foreign keys find their rows.  *)
CanPersist ==
    /\ vec # NoDim
    /\ sync.dim = store
    /\ sync.src \in Ids
    /\ sync.known => chunks[sync.src] # NoDim

(* The embeddings arrived: persist, in one transaction. *)
Persist ==
    /\ Serving
    /\ sync.embedding
    /\ CanPersist
    /\ chunks' = [chunks EXCEPT ![sync.src] = sync.dim]
    /\ vectors' = vectors \union {sync.src}
    /\ sync' = [sync EXCEPT !.embedding = FALSE]
    /\ UNCHANGED <<sourceVars, vec, store, creating, handler, job>>

(* The transaction, or the provider, failed: the document is left as it was. *)
IngestFails ==
    /\ Serving
    /\ sync.embedding
    /\ sync' = [sync EXCEPT !.embedding = FALSE]
    /\ UNCHANGED <<sourceVars, indexVars, store, creating, handler, job>>

(* The job ends. *)
EndSync ==
    /\ Serving
    /\ sync.src # NoSource
    /\ ~sync.embedding
    /\ sync' = NoSync
    /\ UNCHANGED <<sourceVars, indexVars, store, creating, handler, job>>
----------------------------------------------------------------------------
(* Mutant: the purge takes the trash as well. *)
ReindexEverything(d) ==
    /\ Serving
    /\ Live = {} \/ ~Agrees(d)
    /\ handler' = [phase |-> "purge", todo |-> Ids, target |-> d]
    /\ job' = [status |-> "running", target |-> d]
    /\ UNCHANGED <<sourceVars, indexVars, store, creating, sync>>

(* POST /api/rag/reindex: a job row for a dimension that is not current. *)
Reindex(d) ==
    /\ Serving
    /\ Live = {} \/ ~Agrees(d)
    /\ handler' = [phase |-> "purge", todo |-> Live, target |-> d]
    /\ job' = [status |-> "running", target |-> d]
    /\ UNCHANGED <<sourceVars, indexVars, store, creating, sync>>

(* purgeSource, one transaction per active source. *)
Purge(s) ==
    /\ handler.phase = "purge"
    /\ s \in handler.todo
    /\ WipeVectors(s)
    /\ WipeRows(s)
    /\ handler' = [handler EXCEPT !.todo = @ \ {s}]
    /\ UNCHANGED <<sourceVars, vec, store, creating, sync, job>>

(* Every active source is repointed at the target setting. *)
Repoint ==
    /\ handler.phase = "purge"
    /\ handler.todo = {}
    /\ dim' = [s \in Sources |-> IF s \in Live THEN handler.target ELSE dim[s]]
    /\ handler' = [handler EXCEPT !.phase = "rebuild"]
    /\ Outdates
    /\ UNCHANGED <<row, older, indexVars, store, creating, sync, job>>

(* Mutant: the table is dropped whatever it holds. *)
RefusesNever(d) == FALSE

(* resetVecTableIfDimensionMismatch(d) answers chunks-present. *)
Refuses(d) == vec \notin {NoDim, d} /\ \E s \in Sources : chunks[s] # NoDim

(* Mutant: the table is recreated at once, under the old store. *)
RebuildRecreates ==
    /\ handler.phase = "rebuild"
    /\ ~Refuses(handler.target)
    /\ vec' = handler.target
    /\ vectors' = IF vec = handler.target THEN vectors ELSE {}
    /\ handler' = Idle
    /\ job' = [job EXCEPT !.status = "awaiting-restart"]
    /\ UNCHANGED <<sourceVars, chunks, store, creating, sync>>

(* The vec0 table is dropped, or found missing or right; the process must  *)
(* restart to use the new dimension.                                       *)
Rebuild ==
    /\ handler.phase = "rebuild"
    /\ ~Refuses(handler.target)
    /\ IF vec = handler.target THEN UNCHANGED <<vec, vectors>> ELSE vec' = NoDim /\ vectors' = {}
    /\ handler' = Idle
    /\ job' = [job EXCEPT !.status = "awaiting-restart"]
    /\ UNCHANGED <<sourceVars, chunks, store, creating, sync>>

(* The table still has chunks: the job fails, the purge is not undone. *)
RebuildRefused ==
    /\ handler.phase = "rebuild"
    /\ Refuses(handler.target)
    /\ handler' = Idle
    /\ job' = [job EXCEPT !.status = "failed"]
    /\ UNCHANGED <<sourceVars, indexVars, store, creating, sync>>

(* A statement throws, in purgeSource perhaps after the vectors: the job   *)
(* fails and the process goes on with what the handler had done.           *)
ReindexFails ==
    /\ handler # Idle
    /\ UNCHANGED vectors \/ \E s \in handler.todo : WipeVectors(s)
    /\ handler' = Idle
    /\ job' = [job EXCEPT !.status = "failed"]
    /\ UNCHANGED <<sourceVars, chunks, vec, store, creating, sync>>
----------------------------------------------------------------------------
\* What the process holds in memory is gone.
Down ==
    /\ store' = NoDim
    /\ creating' = [s \in Sources |-> NoDim]
    /\ stale' = {}
    /\ sync' = NoSync
    /\ handler' = Idle

(* The process stops, or is killed between two transactions. *)
Crash ==
    /\ store # NoDim
    /\ Down
    /\ UNCHANGED <<rowVars, indexVars, job>>

(* Mutant: the rows go first. *)
KilledAfterRows(s) ==
    /\ store # NoDim
    /\ s \in handler.todo \/ (Serving /\ s \in Ids)
    /\ WipeRows(s)
    /\ Down
    /\ UNCHANGED <<rowVars, vectors, vec, job>>

(* Killed in purgeSource or the permanent delete, between the vectors and  *)
(* the transaction that deletes the rows.                                  *)
KilledMidWipe(s) ==
    /\ store # NoDim
    /\ s \in handler.todo \/ (Serving /\ s \in Ids)
    /\ WipeVectors(s)
    /\ Down
    /\ UNCHANGED <<rowVars, chunks, vec, job>>

(* readExistingDimension, trashed rows included, or the default. *)
BootDim == IF Ids = {} THEN {DefaultDim} ELSE {dim[s] : s \in Oldest(Ids)}

(* initVectorStore; when the reset refuses, RAG stays off until the next   *)
(* boot.  No call of resumeReindexJobs is part of initRagRuntime.          *)
Boot ==
    /\ store = NoDim
    /\ \E d \in BootDim :
        /\ ~Refuses(d)
        /\ store' = d
        /\ vec' = d
        /\ vectors' = IF vec = d THEN vectors ELSE {}
    /\ UNCHANGED <<sourceVars, chunks, creating, sync, handler, job>>

Next ==
    \/ \E s \in Sources, d \in Dims : CheckCreate(s, d) \/ PatchSetting(s, d)
    \/ \E s \in Sources : InsertSource(s) \/ AbandonCreate(s)
    \/ \E s \in Sources : SoftDelete(s) \/ Restore(s) \/ Destroy(s)
    \/ \E s \in Sources : BeginSync(s) \/ Purge(s) \/ KilledMidWipe(s)
    \/ \E d \in Dims : Reindex(d)
    \/ StartEmbedding \/ Persist \/ IngestFails \/ EndSync
    \/ Repoint \/ Rebuild \/ RebuildRefused \/ ReindexFails
    \/ Crash \/ Boot

Spec == Init /\ [][Next]_vars
----------------------------------------------------------------------------
TypeOK ==
    /\ row \in [Sources -> {"none", "live", "trashed"}]
    /\ dim \in [Sources -> MaybeDim]
    /\ \A s \in Sources : row[s] = "none" <=> dim[s] = NoDim
    /\ older \in SUBSET (Sources \X Sources)
    /\ chunks \in [Sources -> MaybeDim]
    /\ vectors \in SUBSET Sources
    /\ vec \in MaybeDim
    /\ store \in MaybeDim
    /\ creating \in [Sources -> MaybeDim]
    /\ sync \in [src : Sources \union {NoSource}, dim : MaybeDim, embedding : BOOLEAN, known : BOOLEAN]
    /\ handler \in [phase : {"idle", "purge", "rebuild"}, todo : SUBSET Sources, target : MaybeDim]
    /\ job \in [status : {"none", "running", "awaiting-restart", "failed"}, target : MaybeDim]
    /\ stale \in SUBSET Sources

\* Every chunk the database holds has the dimension of the vec0 table, through
\* migrations, crashes between two of their steps, late ingests and reboots:
\* no chunk is ever left whose vector a search cannot be compared with.
IndexIsUniform == \A s \in Sources : chunks[s] # NoDim => chunks[s] = vec

\* No vector outlives its chunk: the searches map every hit to a chunk.  (The
\* one failure of deleteByDocument in the model is a dropped table.)
VectorsHaveChunks == \A s \in vectors : chunks[s] # NoDim

\* While RAG runs, the table is the one its store was built for, or dropped by
\* a migration that asks for a restart.
StoreFitsTable == store # NoDim => vec \in {store, NoDim}

\* A soft-deleted source keeps its content until it is destroyed, whatever is
\* migrated meanwhile: restore gives it back within the retention window.
TrashKeepsContent ==
    [][\A s \in Sources :
        row[s] = "trashed" /\ row'[s] # "none" /\ chunks[s] # NoDim => chunks'[s] # NoDim]_vars

\* The live sources have one dimension.
SingleDimension == \A s, t \in Live : dim[s] = dim[t]

\* "All RAG sources must use embedding models with the same dimension"
\* (rag-sources.ts): live sources that agree go on agreeing, whatever is
\* created, PATCHed, deleted, migrated or interrupted.  Two routes let a
\* disagreement in: a restore, which compares nothing, and a creation that
\* other changes overtook while its connector was tested.
OnlyTheUncheckedDisagree ==
    [][SingleDimension /\ ~SingleDimension' =>
         \E s \in Sources : /\ row[s] # "live" /\ row'[s] = "live"
                            /\ row[s] = "trashed" \/ s \in stale]_vars
=============================================================================
