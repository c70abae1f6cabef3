------------------------------ MODULE SyncRun ------------------------------
(***************************************************************************)
(* One source and the sync jobs that run for it, one after the other:      *)
(* runSyncJob (rag-core/src/routes/rag-index.ts), the ingestion of one     *)
(* document (pipeline/ingest.ts), the memory of rejected files             *)
(* (pipeline/rejection-memory.ts) and the monthly cap                      *)
(* (jobs/embedding-cap.ts), against files that change meanwhile.           *)
(* An action goes from one await to the next; documents that need no await *)
(* are a step each, which is finer than the code.  The order of a listing  *)
(* is any order.  An ingestion the job has stopped waiting for goes on.    *)
(***************************************************************************)
EXTENDS Naturals, FiniteSets

CONSTANTS
    Paths,         \* the files of the source
    MaxVersion,    \* bound: a file has versions 1 .. MaxVersion
    KindOf,        \* what a version of a file is: see Kinds
    Slots,         \* bound: ingestions alive together
    NoDoc,         \* no row in rag_documents
    NoPath,
    NoIngest,
    MaxStreak,     \* CALAME_RAG_SYNC_MAX_CONSECUTIVE_FAILURES, 0: no breaker
    Cap            \* CALAME_RAG_MONTHLY_TOKEN_CAP in documents, 0: no cap

Versions == 1 .. MaxVersion
Kinds == {"text", "unsupported", "corrupt", "oversize"}

DocOf == [etag : Versions, body : Versions, deleted : BOOLEAN]
IngestOf == [path : Paths, etag : Versions, body : Versions, known : BOOLEAN,
             stage : {"parsing", "embedding"}, waited : BOOLEAN,
             charged : BOOLEAN]

ASSUME SyncRunAssumption ==
    /\ IsFiniteSet(Paths)
    /\ MaxVersion \in Nat \ {0}
    /\ KindOf \in [Paths -> [Versions -> Kinds]]
    /\ NoPath \notin Paths
    /\ NoDoc \notin DocOf
    /\ NoIngest \notin IngestOf
    /\ MaxStreak \in Nat
    /\ Cap \in Nat

VARIABLES
    remote,    \* the file behind each path: its version, and whether it is there
    calm,      \* no file changes and nothing fails any more
    docs,      \* rag_documents, with the version its chunks were made from
    phase,     \* idle, walk, loop, fetch or ingest
    listing,   \* version (and so etag) each path was listed with, 0: not listed
    todo,      \* walk: not visited yet; then: listed and not processed yet
    at,        \* the document being fetched or ingested
    count,     \* processed, indexed, unchanged, rejected and failures
    rejected,  \* rejectedFiles
    streak,    \* consecutiveFailures
    cut,       \* why the loop was left early: no, cap or breaker
    tokens,    \* tokensEmbeddedThisJob
    ingest,    \* ingestDocument calls that have not settled
    memory,    \* rejectedByEtag: version each path was last rejected with, 0: none
    row,       \* rag_jobs.status of the last finished job
    used       \* getCurrentMonthTokens: tokens of the completed jobs

jobVars == <<phase, listing, todo, at, count, rejected, streak, cut, tokens>>
vars == <<remote, calm, docs, jobVars, ingest, memory, row, used>>

Counters == {"processed", "indexed", "unchanged", "rejected", "failures"}
Zero == [c \in Counters |-> 0]
NoListing == [p \in Paths |-> 0]

Live(p) == docs[p] # NoDoc /\ ~docs[p].deleted
Kind(p, v) == KindOf[p][v]

Init ==
    /\ remote \in [Paths -> [ver : {1}, here : BOOLEAN]]
    /\ calm = FALSE
    /\ docs = [p \in Paths |-> NoDoc]
    /\ phase = "idle"
    /\ listing = NoListing
    /\ todo = {}
    /\ at = NoPath
    /\ count = Zero
    /\ rejected = {}
    /\ streak = 0
    /\ cut = "no"
    /\ tokens = 0
    /\ ingest = [i \in Slots |-> NoIngest]
    /\ memory = NoListing
    /\ row = "none"
    /\ used = 0
----------------------------------------------------------------------------
(* External: files change (with a new etag), go away and come back. *)
ChangeFile(p) ==
    /\ ~calm
    /\ \/ remote[p].ver < MaxVersion /\ remote' = [remote EXCEPT ![p].ver = @ + 1]
       \/ remote' = [remote EXCEPT ![p].here = ~@]
    /\ UNCHANGED <<calm, docs, jobVars, ingest, memory, row, used>>

(* External: from now on the files and the infrastructure are quiet. *)
CalmDown ==
    /\ ~calm
    /\ calm' = TRUE
    /\ UNCHANGED <<remote, docs, jobVars, ingest, memory, row, used>>
----------------------------------------------------------------------------
(* runSyncJob up to its first await. *)
BeginRun ==
    /\ phase = "idle"
    /\ phase' = "walk"
    /\ todo' = Paths
    /\ count' = Zero
    /\ UNCHANGED <<remote, calm, docs, listing, at, rejected, streak, cut, tokens,
                   ingest, memory, row, used>>

(* walkConnector: the listing is not a snapshot. *)
Visit(p) ==
    /\ phase = "walk"
    /\ p \in todo
    /\ listing' = [listing EXCEPT ![p] = IF remote[p].here THEN remote[p].ver ELSE 0]
    /\ todo' = todo \ {p}
    /\ UNCHANGED <<remote, calm, docs, phase, at, count, rejected, streak, cut, tokens,
                   ingest, memory, row, used>>

Listed ==
    /\ phase = "walk"
    /\ todo = {}
    /\ phase' = "loop"
    /\ todo' = {p \in Paths : listing[p] # 0}
    /\ UNCHANGED <<remote, calm, docs, listing, at, count, rejected, streak, cut, tokens,
                   ingest, memory, row, used>>

\* The calls of the finished job go on; nobody waits for them.
Abandoned == [i \in Slots |->
                IF ingest[i] = NoIngest THEN NoIngest
                ELSE [ingest[i] EXCEPT !.waited = FALSE, !.charged = FALSE]]

\* The locals of runSyncJob are gone; its counters are in the row.
Return ==
    /\ phase' = "idle"
    /\ listing' = NoListing
    /\ todo' = {}
    /\ at' = NoPath
    /\ rejected' = {}
    /\ streak' = 0
    /\ cut' = "no"
    /\ tokens' = 0

(* A folder cannot be listed: the job fails before it touches a document. *)
WalkFails ==
    /\ phase = "walk"
    /\ ~calm
    /\ Return
    /\ row' = "failed"
    /\ ingest' = Abandoned
    /\ UNCHANGED <<remote, calm, docs, count, memory, used>>
----------------------------------------------------------------------------
\* The document p is over; the counters of the outcome are bumped with it.
Processed(p, outcome) ==
    /\ phase' = "loop"
    /\ at' = NoPath
    /\ todo' = todo \ {p}
    /\ count' = [count EXCEPT !["processed"] = @ + 1, ![outcome] = @ + 1]
    /\ UNCHANGED <<listing, tokens>>

(* recordRejection; only an unsupported or oversize file ends a streak. *)
Rejects(p, newStreak) ==
    /\ Processed(p, "rejected")
    /\ rejected' = rejected \union {p}
    /\ streak' = newStreak
    /\ UNCHANGED cut

(* Mutant: the failure that trips the breaker is not counted as processed. *)
FailsUnprocessed(p) ==
    LET trips == MaxStreak > 0 /\ streak + 1 >= MaxStreak IN
    /\ phase' = "loop"
    /\ at' = NoPath
    /\ todo' = todo \ {p}
    /\ count' = [count EXCEPT !["failures"] = @ + 1, !["processed"] = IF trips THEN @ ELSE @ + 1]
    /\ streak' = streak + 1
    /\ cut' = IF trips THEN "breaker" ELSE cut
    /\ UNCHANGED <<listing, tokens, rejected>>

(* The last branch of the catch: infrastructure. *)
Fails(p) ==
    /\ Processed(p, "failures")
    /\ streak' = streak + 1
    /\ cut' = IF MaxStreak > 0 /\ streak + 1 >= MaxStreak THEN "breaker" ELSE cut
    /\ UNCHANGED rejected

FailsOnCap(p) ==
    /\ Processed(p, "failures")
    /\ cut' = "cap"
    /\ UNCHANGED <<rejected, streak>>

Succeeds(p, outcome) ==
    /\ Processed(p, outcome)
    /\ streak' = 0
    /\ UNCHANGED <<rejected, cut>>

InLoop(p) == phase = "loop" /\ cut = "no" /\ p \in todo

TooLarge(p) == Kind(p, listing[p]) = "oversize"

(* Mutant: a soft-deleted copy is taken for an indexed one. *)
SameEtagIgnoringDeleted(p) == docs[p] # NoDoc /\ docs[p].etag = listing[p]

(* The etag fast path: an indexed, or unsupported, copy with this etag. *)
SameEtag(p) == Live(p) /\ docs[p].etag = listing[p]

(* Mutant: the etag of the rejection is not compared. *)
RememberedForGood(p) == memory[p] # 0

Remembered(p) == memory[p] = listing[p]

SkipTooLarge(p) ==
    /\ InLoop(p)
    /\ TooLarge(p)
    /\ Rejects(p, 0)
    /\ UNCHANGED <<remote, calm, docs, ingest, memory, row, used>>

SkipUnchanged(p) ==
    /\ InLoop(p)
    /\ ~TooLarge(p)
    /\ SameEtag(p)
    /\ Succeeds(p, "unchanged")
    /\ UNCHANGED <<remote, calm, docs, ingest, memory, row, used>>

SkipRemembered(p) ==
    /\ InLoop(p)
    /\ ~TooLarge(p)
    /\ ~SameEtag(p)
    /\ Remembered(p)
    /\ Rejects(p, streak)
    /\ UNCHANGED <<remote, calm, docs, ingest, memory, row, used>>

Fetch(p) ==
    /\ InLoop(p)
    /\ ~TooLarge(p)
    /\ ~SameEtag(p)
    /\ ~Remembered(p)
    /\ phase' = "fetch"
    /\ at' = p
    /\ UNCHANGED <<remote, calm, docs, listing, todo, count, rejected, streak, cut, tokens,
                   ingest, memory, row, used>>
----------------------------------------------------------------------------
(* fetchDocumentBytes answered with the version the file has now; what     *)
(* follows in this step is decided without an await.                       *)
Fetched(kinds) ==
    /\ phase = "fetch"
    /\ remote[at].here
    /\ Kind(at, remote[at].ver) \in kinds

Body == remote[at].ver
SameHash == Live(at) /\ docs[at].body = Body

(* ingestDocument: same content, the etag is refreshed. *)
FetchedSame ==
    /\ Fetched({"text", "unsupported"})
    /\ SameHash
    /\ docs' = [docs EXCEPT ![at].etag = listing[at]]
    /\ memory' = [memory EXCEPT ![at] = 0]
    /\ Succeeds(at, "unchanged")
    /\ UNCHANGED <<remote, calm, ingest, row, used>>

(* markDocumentUnsupported: the row keeps the etag, the chunks are dropped. *)
FetchedUnsupported ==
    /\ Fetched({"unsupported"})
    /\ ~SameHash
    /\ docs' = [docs EXCEPT ![at] = [etag |-> listing[at], body |-> Body, deleted |-> FALSE]]
    /\ Rejects(at, 0)
    /\ UNCHANGED <<remote, calm, ingest, memory, row, used>>

(* The bytes run over the cap: rejected as too_large, and remembered. *)
FetchedOversize ==
    /\ Fetched({"oversize"})
    /\ memory' = [memory EXCEPT ![at] = listing[at]]
    /\ Rejects(at, streak)
    /\ UNCHANGED <<remote, calm, docs, ingest, row, used>>

(* ingestDocument up to the parser; `existing` is read here. *)
StartIngest(i) ==
    /\ Fetched({"text", "corrupt"})
    /\ ~SameHash
    /\ ingest[i] = NoIngest
    /\ ingest' = [ingest EXCEPT ![i] =
                    [path |-> at, etag |-> listing[at], body |-> Body,
                     known |-> docs[at] # NoDoc, stage |-> "parsing",
                     waited |-> TRUE, charged |-> TRUE]]
    /\ phase' = "ingest"
    /\ UNCHANGED <<remote, calm, docs, listing, todo, at, count, rejected, streak, cut, tokens,
                   memory, row, used>>

(* Gone, locked or unreadable: a rejection that is forgotten at once. *)
FetchRejected ==
    /\ phase = "fetch"
    /\ remote[at].here => ~calm
    /\ memory' = [memory EXCEPT ![at] = 0]
    /\ Rejects(at, streak)
    /\ UNCHANGED <<remote, calm, docs, ingest, row, used>>

(* The connector threw, or the fetch timed out. *)
FetchFails ==
    /\ phase = "fetch"
    /\ ~calm
    /\ Fails(at)
    /\ UNCHANGED <<remote, calm, docs, ingest, memory, row, used>>
----------------------------------------------------------------------------
\* What an ingestion that ends does to the job: nothing once the job has
\* stopped waiting for it.
Ends(i) == ingest' = [ingest EXCEPT ![i] = NoIngest]

ToJob(i, effect) == IF ingest[i].waited THEN effect ELSE UNCHANGED <<jobVars, memory>>

InStage(i, stage) == ingest[i] # NoIngest /\ ingest[i].stage = stage

OverCap == Cap > 0 /\ used + 1 > Cap

(* The parser rejected the file, or its worker died or timed out on a sound *)
(* one: either way remembered with the listed etag.                        *)
ParseRejects(i) ==
    /\ InStage(i, "parsing")
    /\ Kind(ingest[i].path, ingest[i].body) = "text" => ~calm
    /\ Ends(i)
    /\ ToJob(i, /\ Rejects(at, streak)
                /\ memory' = [memory EXCEPT ![at] = ingest[i].etag])
    /\ UNCHANGED <<remote, calm, docs, row, used>>

(* assertWithinCap throws before the provider is called. *)
CapRefuses(i) ==
    /\ InStage(i, "parsing")
    /\ Kind(ingest[i].path, ingest[i].body) = "text"
    /\ OverCap
    /\ Ends(i)
    /\ ToJob(i, FailsOnCap(at) /\ UNCHANGED memory)
    /\ UNCHANGED <<remote, calm, docs, row, used>>

(* The chunks go to the embedding provider. *)
Embed(i) ==
    /\ InStage(i, "parsing")
    /\ Kind(ingest[i].path, ingest[i].body) = "text"
    /\ ~OverCap
    /\ ingest' = [ingest EXCEPT ![i].stage = "embedding"]
    /\ UNCHANGED <<remote, calm, docs, jobVars, memory, row, used>>

(* Mutant: the etag is read again when the document is written. *)
PersistRestats(i) ==
    LET g == ingest[i] IN
    docs' = [docs EXCEPT ![g.path] = [etag |-> remote[g.path].ver, body |-> g.body, deleted |-> FALSE]]

\* A row that was unknown when `existing` was read is there now: UNIQUE.
Conflict(i) == ~ingest[i].known /\ docs[ingest[i].path] # NoDoc

(* The transaction: row and chunks of the fetched version. *)
Write(i) ==
    LET g == ingest[i] IN
    docs' = [docs EXCEPT ![g.path] = [etag |-> g.etag, body |-> g.body, deleted |-> FALSE]]

\* onTokensEmbedded: a counter of the job that made the call.
CountTokens(i) == tokens' = IF Cap > 0 /\ ingest[i].charged THEN tokens + 1 ELSE tokens

(* The embeddings arrived and are persisted. *)
Persist(i) ==
    /\ InStage(i, "embedding")
    /\ ~Conflict(i)
    /\ Write(i)
    /\ Ends(i)
    /\ CountTokens(i)
    /\ IF ingest[i].waited
       THEN /\ phase' = "loop"
            /\ at' = NoPath
            /\ todo' = todo \ {at}
            /\ count' = [count EXCEPT !["processed"] = @ + 1, !["indexed"] = @ + 1]
            /\ streak' = 0
            /\ memory' = [memory EXCEPT ![at] = 0]
       ELSE UNCHANGED <<phase, at, todo, count, streak, memory>>
    /\ UNCHANGED <<remote, calm, listing, rejected, cut, row, used>>

(* The provider, or the transaction, failed: the document stays as it was. *)
IngestFails(i) ==
    /\ InStage(i, "embedding")
    /\ ~calm \/ Conflict(i)
    /\ Ends(i)
    /\ ToJob(i, Fails(at) /\ UNCHANGED memory)
    /\ UNCHANGED <<remote, calm, docs, row, used>>

(* withTimeout: the job goes on, the ingestion as well.  Bound: a slot is   *)
(* left for the next document.                                             *)
TimesOut(i) ==
    /\ ~calm
    /\ ingest[i] # NoIngest
    /\ ingest[i].waited
    /\ \E k \in Slots : ingest[k] = NoIngest
    /\ ingest' = [ingest EXCEPT ![i].waited = FALSE]
    /\ Fails(at)
    /\ UNCHANGED <<remote, calm, docs, memory, row, used>>

----------------------------------------------------------------------------
AtEnd == phase = "loop" /\ (todo = {} \/ cut # "no")

(* Mutant: the documents the loop did not reach count as removed. *)
GoneUnprocessed == {p \in Paths : Live(p) /\ (listing[p] = 0 \/ p \in todo)}

(* The GC pass: indexed, and no longer listed; not after a cut. *)
Gone == IF cut = "no" THEN {p \in Paths : Live(p) /\ listing[p] = 0} ELSE {}

(* markDocumentDeleted. *)
Deleted(S) == [p \in Paths |-> IF p \in S THEN [docs[p] EXCEPT !.deleted = TRUE] ELSE docs[p]]

FinalStatus(failures) == IF failures = 0 /\ cut # "cap" THEN "completed" ELSE "failed"

(* The GC pass and the final UPDATE, with no await between them. *)
EndRun ==
    /\ AtEnd
    /\ \E bad \in SUBSET Gone :
        /\ bad # {} => ~calm
        /\ docs' = Deleted(Gone \ bad)
        /\ LET failures == count["failures"] + Cardinality(bad) IN
            /\ count' = [count EXCEPT !["failures"] = failures]
            /\ row' = FinalStatus(failures)
    /\ used' = IF Cap > 0 /\ row' = "completed" THEN used + tokens ELSE used
    /\ Return
    /\ ingest' = Abandoned
    /\ UNCHANGED <<remote, calm, memory>>

(* The process dies, perhaps in the middle of the GC pass; the boot sweep   *)
(* fails the row.  Memory and calls are gone.                              *)
Crash ==
    /\ ~calm
    /\ \E done \in SUBSET (IF AtEnd THEN Gone ELSE {}) : docs' = Deleted(done)
    /\ Return
    /\ row' = IF phase = "idle" THEN row ELSE "failed"
    /\ ingest' = [i \in Slots |-> NoIngest]
    /\ memory' = NoListing
    /\ UNCHANGED <<remote, calm, count, used>>

Document ==
    \/ \E p \in Paths : SkipTooLarge(p) \/ SkipUnchanged(p) \/ SkipRemembered(p) \/ Fetch(p)
    \/ FetchedSame
    \/ FetchedUnsupported
    \/ FetchedOversize
    \/ \E i \in Slots : StartIngest(i)
    \/ FetchRejected
    \/ FetchFails

Call(i) ==
    \/ ParseRejects(i)
    \/ CapRefuses(i)
    \/ Embed(i)
    \/ Persist(i)
    \/ IngestFails(i)

Run == BeginRun \/ (\E p \in Paths : Visit(p)) \/ Listed \/ WalkFails \/ Document \/ EndRun

Next ==
    \/ \E p \in Paths : ChangeFile(p)
    \/ CalmDown
    \/ Run
    \/ \E i \in Slots : Call(i) \/ TimesOut(i)
    \/ Crash

(* Jobs come again and again (see PolledSourceKeepsSyncing of SyncTriggers) *)
(* and settle; every call of the connector, the parser and the provider    *)
(* settles.                                                                *)
Fairness == WF_vars(Run) /\ \A i \in Slots : WF_vars(Call(i))
Spec == Init /\ [][Next]_vars /\ Fairness
----------------------------------------------------------------------------
TypeOK ==
    /\ remote \in [Paths -> [ver : Versions, here : BOOLEAN]]
    /\ calm \in BOOLEAN
    /\ docs \in [Paths -> DocOf \union {NoDoc}]
    /\ phase \in {"idle", "walk", "loop", "fetch", "ingest"}
    /\ listing \in [Paths -> 0 .. MaxVersion]
    /\ todo \subseteq Paths
    /\ at \in Paths \union {NoPath}
    /\ phase \in {"fetch", "ingest"} => at \in todo /\ listing[at] # 0
    /\ count \in [Counters -> Nat]
    /\ rejected \subseteq Paths
    /\ streak \in Nat
    /\ cut \in {"no", "cap", "breaker"}
    /\ tokens \in Nat
    /\ ingest \in [Slots -> IngestOf \union {NoIngest}]
    /\ memory \in [Paths -> 0 .. MaxVersion]
    /\ row \in {"none", "completed", "failed"}
    /\ used \in Nat

(***************************************************************************)
(* A stored etag never runs ahead of the stored content, whatever changed  *)
(* between listing and fetch and however late an ingestion lands: a file   *)
(* the etag fast path skips has been indexed as it is now.                 *)
(***************************************************************************)
EtagNeverAhead ==
    \A p \in Paths : docs[p] # NoDoc => docs[p].etag <= docs[p].body /\ docs[p].body <= remote[p].ver

(***************************************************************************)
(* "The last valid version is kept" (ingest.ts): a searchable document is  *)
(* only ever replaced by a version that was read in full, or dropped       *)
(* because the running job did not list it or found its format unsupported.*)
(***************************************************************************)
Searchable(p) == Live(p) /\ Kind(p, docs[p].body) = "text"

SearchableUntilReplaced ==
    [][\A p \in Paths :
        Searchable(p) =>
            \/ Searchable(p)'
            \/ phase = "loop" /\ listing[p] = 0
            \/ phase = "fetch" /\ at = p /\ Kind(p, remote[p].ver) = "unsupported"]_vars

(***************************************************************************)
(* What `completed` says: at that moment every listed file is indexed or   *)
(* on the list of the rejected ones, and nothing else is searchable.       *)
(***************************************************************************)
CompletedIsComplete ==
    [][phase = "loop" /\ phase' = "idle" /\ row' = "completed" =>
        \A p \in Paths :
            /\ listing[p] # 0 => Live(p)' \/ p \in rejected
            /\ listing[p] = 0 => ~Live(p)']_vars

(***************************************************************************)
(* "processed = indexed + unchanged + rejected + failures (the GC pass is  *)
(* reported separately)" (rag-index.ts), as a client polls it.             *)
(***************************************************************************)
ReportAddsUp ==
    count["processed"] = count["indexed"] + count["unchanged"] + count["rejected"] + count["failures"]

(***************************************************************************)
(* It does at every step of a job and in the report of a completed one; a  *)
(* failure in the GC pass breaks it in the report of a failed one.         *)
(***************************************************************************)
CountersAddUp == phase # "idle" \/ row = "completed" => ReportAddsUp

(***************************************************************************)
(* Once files and infrastructure are quiet, and unless the month's cap is  *)
(* used up, the syncs bring the index to what is there: texts in their     *)
(* last version, unsupported files without content, and nothing of the     *)
(* files that are gone.  What is left out is remembered as rejected in the *)
(* very version it has, so that its next change is read again; an oversize *)
(* file keeps its last valid version.                                      *)
(***************************************************************************)
Fresh(p) ==
    IF remote[p].here
    THEN \/ Kind(p, remote[p].ver) = "oversize"
         \/ Live(p) /\ docs[p].body = remote[p].ver
         \/ memory[p] = remote[p].ver
    ELSE ~Live(p)

EventuallyFresh == <>calm /\ []~OverCap => <>[](\A p \in Paths : Fresh(p))
============================================================================
