----------------------------- MODULE SyncQueue -----------------------------
(***************************************************************************)
(* The RAG sync queue (ee/rag-core/src/jobs/sync-queue.ts): one in-memory  *)
(* FIFO, one worker, and the rag_jobs rows the callers and runSyncJob      *)
(* write next to it.  Everything runs on one Node event loop, so a block   *)
(* of code between two awaits is one action; what interleaves is           *)
(*   - macrotasks: HTTP handlers, poll ticks, watch flushes, I/O           *)
(*     completions, and                                                    *)
(*   - microtasks: the worker's own continuations (the `await` at the top  *)
(*     of #run, the return of runJob, the .finally of #kick) and callers   *)
(*     that enqueue from the continuation of an async function.            *)
(* A macrotask starts only when no microtask is pending.                   *)
(* Sources are created before the behaviour starts; they can be trashed,   *)
(* restored and destroyed (with their rows) at any moment of a sync.       *)
(***************************************************************************)
EXTENDS Naturals, Sequences, FiniteSets

CONSTANTS
    Sources,          \* rag_sources ids
    Jobs,             \* job ids that can be drawn (nanoid / randomUUID)
    SourceOf,         \* the source each job id is drawn for
    NoJob,            \* `next` when the worker holds no job
    MicrotaskCallers  \* TRUE: some callers enqueue from a microtask

ASSUME SyncQueueAssumption ==
    /\ SourceOf \in [Jobs -> Sources]
    /\ NoJob \notin Jobs
    /\ MicrotaskCallers \in BOOLEAN

VARIABLES
    queue,    \* #queue, oldest first
    running,  \* #running
    worker,   \* where #worker / #run stands, see WorkerState
    current,  \* the local `next` of #run while runJob is awaited
    status,   \* rag_jobs.status per id; "none": id not drawn, "deleted": row deleted
    source,   \* the rag_sources row: live, trashed (deleted_at set) or gone
    up        \* the process is running and booted

queueVars == <<queue, running, worker, current>>
vars == <<queue, running, worker, current, status, source, up>>

(***************************************************************************)
(* idle      #worker is null                                               *)
(* starting  #run was called, its first `await` has not resumed            *)
(* busy      #run awaits runJob                                            *)
(* returned  runJob has settled, the continuation of #run is queued        *)
(* exiting   #run has left its loop, the .finally that clears #worker is   *)
(*           queued                                                        *)
(***************************************************************************)
WorkerState == {"idle", "starting", "busy", "returned", "exiting"}
MicrotaskPending == worker \in {"starting", "returned", "exiting"}

Active == {"pending", "running"}
Final  == {"completed", "failed"}
JobStatus == {"none", "deleted"} \union Active \union Final
SourceState == {"live", "trashed", "gone"}

Queued == {queue[i] : i \in DOMAIN queue}

(* The two early returns of enqueue. *)
Rejects(s) == s \in running \/ \E j \in Queued : SourceOf[j] = s

Init ==
    /\ queue = <<>>
    /\ running = {}
    /\ worker = "idle"
    /\ current = NoJob
    /\ status = [j \in Jobs |-> "none"]
    /\ source = [s \in Sources |-> "live"]
    /\ up = TRUE
----------------------------------------------------------------------------
(* Mutant: the newest job is served first. *)
PushFront(j) == queue' = <<j>> \o queue

(***************************************************************************)
(* enqueue + #kick: push, and start a worker only when there is none.      *)
(***************************************************************************)
Push(j) == queue' = Append(queue, j)
Kick == worker' = IF worker = "idle" THEN "starting" ELSE worker

(* UPDATE rag_jobs SET status = st WHERE id = j: no effect on a deleted row. *)
SetStatus(j, st) == status' = [status EXCEPT ![j] = IF @ = "deleted" THEN @ ELSE st]

CallerRuns == up /\ (MicrotaskPending => MicrotaskCallers)

(***************************************************************************)
(* POST /sources/:id/sync and triggerSync: insert a pending row, enqueue.  *)
(***************************************************************************)
AcceptJob(j) ==
    /\ CallerRuns
    /\ source[SourceOf[j]] = "live"
    /\ status[j] = "none"
    /\ ~Rejects(SourceOf[j])
    /\ Push(j)
    /\ Kick
    /\ status' = [status EXCEPT ![j] = "pending"]
    /\ UNCHANGED <<running, current, source, up>>

(* enqueue returns false: the row just inserted is deleted again, 409 / null. *)
RejectJob(j) ==
    /\ CallerRuns
    /\ source[SourceOf[j]] = "live"
    /\ status[j] = "none"
    /\ Rejects(SourceOf[j])
    /\ UNCHANGED vars

(***************************************************************************)
(* The loop of #run, from one await to the next.  Coming back from runJob  *)
(* it first drops the source from #running; then either the queue is empty *)
(* and #run returns, or the oldest job is shifted and runSyncJob runs up   *)
(* to its first await: the row becomes `running`, or, when the source, the *)
(* connector or the configuration is unusable, `failed` with no await.     *)
(***************************************************************************)
WorkerResumes == up /\ worker \in {"starting", "returned"}

TakeOldest ==
    /\ queue # <<>>
    /\ queue' = Tail(queue)
    /\ current' = Head(queue)
    /\ running' = {SourceOf[Head(queue)]}

BeginJob ==
    /\ WorkerResumes
    /\ TakeOldest
    /\ source[SourceOf[Head(queue)]] = "live"
    /\ worker' = "busy"
    /\ SetStatus(Head(queue), "running")
    /\ UNCHANGED <<source, up>>

RefuseJob ==
    /\ WorkerResumes
    /\ TakeOldest
    /\ worker' = "returned"
    /\ SetStatus(Head(queue), "failed")
    /\ UNCHANGED <<source, up>>

(* Mutants: #run stops after a job without looking at the queue again; the *)
(* source stays in #running.                                               *)
LeaveAfterOneJob ==
    /\ up
    /\ worker = "returned"
    /\ worker' = "exiting"
    /\ running' = {}
    /\ current' = NoJob
    /\ UNCHANGED <<queue, status, source, up>>

LeaveKeepsRunning ==
    /\ WorkerResumes
    /\ queue = <<>>
    /\ worker' = "exiting"
    /\ current' = NoJob
    /\ UNCHANGED <<queue, running, status, source, up>>

LeaveLoop ==
    /\ WorkerResumes
    /\ queue = <<>>
    /\ worker' = "exiting"
    /\ running' = {}
    /\ current' = NoJob
    /\ UNCHANGED <<queue, status, source, up>>

(* runSyncJob writes the final status and settles; #run has yet to resume. *)
EndJob ==
    /\ up
    /\ worker = "busy"
    /\ worker' = "returned"
    /\ \E outcome \in Final : SetStatus(current, outcome)
    /\ UNCHANGED <<queue, running, current, source, up>>

(* The .finally of #kick. *)
ClearWorker ==
    /\ up
    /\ worker = "exiting"
    /\ worker' = "idle"
    /\ UNCHANGED <<queue, running, current, status, source, up>>

Worker == BeginJob \/ RefuseJob \/ LeaveLoop \/ EndJob \/ ClearWorker
----------------------------------------------------------------------------
(***************************************************************************)
(* The source handlers.  None of them looks at the queue: a job of a       *)
(* trashed or destroyed source stays queued, or goes on running.           *)
(***************************************************************************)
SetSource(s, before, after) ==
    /\ CallerRuns
    /\ source[s] \in before
    /\ source' = [source EXCEPT ![s] = after]

TrashSource(s) ==
    /\ SetSource(s, {"live"}, "trashed")
    /\ UNCHANGED <<queueVars, status, up>>

RestoreSource(s) ==
    /\ SetSource(s, {"trashed"}, "live")
    /\ UNCHANGED <<queueVars, status, up>>

(* rows with the rows of the sources in S deleted (the cascade). *)
WithoutRowsOf(S, rows) ==
    [j \in Jobs |-> IF SourceOf[j] \in S /\ rows[j] # "none" THEN "deleted" ELSE rows[j]]

DestroySource(s) ==
    /\ SetSource(s, {"live", "trashed"}, "gone")
    /\ status' = WithoutRowsOf({s}, status)
    /\ UNCHANGED <<queueVars, up>>
----------------------------------------------------------------------------
(* The process dies: the queue is in memory, the rows are not. *)
Crash ==
    /\ up
    /\ up' = FALSE
    /\ queue' = <<>>
    /\ running' = {}
    /\ worker' = "idle"
    /\ current' = NoJob
    /\ UNCHANGED <<status, source>>

(* Mutant: the sweep forgets the pending rows. *)
SweptRunningOnly == [j \in Jobs |-> IF status[j] = "running" THEN "failed" ELSE status[j]]

(* recoverOrphanedJobs. *)
Swept == [j \in Jobs |-> IF status[j] \in Active THEN "failed" ELSE status[j]]

(***************************************************************************)
(* initRagRuntime: sweep the orphans before any trigger exists, then       *)
(* destroy the sources whose seven days in the trash are over.             *)
(***************************************************************************)
Boot ==
    /\ ~up
    /\ up' = TRUE
    /\ \E expired \in SUBSET {s \in Sources : source[s] = "trashed"} :
        /\ status' = WithoutRowsOf(expired, Swept)
        /\ source' = [s \in Sources |-> IF s \in expired THEN "gone" ELSE source[s]]
    /\ UNCHANGED queueVars

Next ==
    \/ \E j \in Jobs : AcceptJob(j) \/ RejectJob(j)
    \/ \E s \in Sources : TrashSource(s) \/ RestoreSource(s) \/ DestroySource(s)
    \/ Worker
    \/ Crash
    \/ Boot

(***************************************************************************)
(* The event loop always runs the next ready task, and runSyncJob settles: *)
(* fetches and parses have timeouts, the walk's HTTP calls those of the    *)
(* runtime.  Callers and crashes are free.                                 *)
(***************************************************************************)
Fairness == WF_vars(Worker) /\ WF_vars(Boot)
Spec == Init /\ [][Next]_vars /\ Fairness
----------------------------------------------------------------------------
TypeOK ==
    /\ queue \in Seq(Jobs)
    /\ running \subseteq Sources
    /\ worker \in WorkerState
    /\ current \in Jobs \union {NoJob}
    /\ status \in [Jobs -> JobStatus]
    /\ source \in [Sources -> SourceState]
    /\ up \in BOOLEAN

(***************************************************************************)
(* Memory and database agree: once no continuation is pending, a source is *)
(* refused a new sync exactly when one of its rows is pending or running,  *)
(* so a 409 "already in progress" is never a lie and a row a client polls  *)
(* always belongs to a job the process still knows.                        *)
(***************************************************************************)
RefusedIffActiveRow ==
    up /\ ~MicrotaskPending =>
        \A s \in Sources : source[s] # "gone" =>
            (Rejects(s) <=> \E j \in Jobs : SourceOf[j] = s /\ status[j] \in Active)

(***************************************************************************)
(* Per-source dedupe, in the database: a source never has two unfinished   *)
(* jobs while the server is up, whatever enqueues and wherever the worker  *)
(* stands.                                                                 *)
(***************************************************************************)
OneActiveJobPerSource ==
    up => \A j, k \in Jobs :
        /\ status[j] \in Active
        /\ status[k] \in Active
        /\ SourceOf[j] = SourceOf[k]
        => j = k

(***************************************************************************)
(* Concurrency 1: two syncs never write the document tables at once.       *)
(***************************************************************************)
OneJobRuns ==
    up => \A j, k \in Jobs : status[j] = "running" /\ status[k] = "running" => j = k

(***************************************************************************)
(* #kick does nothing while #worker is not null, also when #run has left   *)
(* its loop and only the .finally is due: what is queued then is stranded. *)
(* Nothing but the next accepted job, which starts a worker, or a restart  *)
(* changes that, and the stranded source itself is refused.                *)
(***************************************************************************)
Stranded == queue # <<>> /\ worker \in {"idle", "exiting"}

(***************************************************************************)
(* The contract of enqueue ("accepted and the worker has been kicked"): a  *)
(* queued job has a worker that will come for it.  Whatever the order of   *)
(* callers, continuations, failures and restarts, the contract is broken   *)
(* in one way only: by a caller that accepts a job in a microtask between  *)
(* the end of the loop and the .finally.  The worker itself never leaves a *)
(* job behind, and no job joins the stranded ones once #worker is null.    *)
(***************************************************************************)
OnlyTheWindowStrands == [][
    Stranded' /\ (~Stranded \/ queue' # queue) =>
        worker = "exiting" /\ \E j \in Jobs : AcceptJob(j)]_vars

(***************************************************************************)
(* An accepted job is eventually finished, by the worker or by the sweep   *)
(* at the next boot, or deleted with its source: no client polls a pending *)
(* row for ever, unless its job is stranded for ever.                      *)
(***************************************************************************)
NotStrandedForEver == []<>~Stranded

AcceptedJobFinishes ==
    NotStrandedForEver => \A j \in Jobs : status[j] \in Active ~> status[j] \notin Active
----------------------------------------------------------------------------
(* The service the queue implements: an accepted job is inside while it is *)
(* queued or runSyncJob works for it, whatever happens to its row.         *)
Service == INSTANCE SyncService WITH
    waiting <- queue,
    serving <- IF worker = "busy" THEN {current} ELSE {},
    gone <- {j \in Jobs : status[j] # "none" /\ j \notin Queued
                             /\ ~(worker = "busy" /\ j = current)}

(***************************************************************************)
(* The queue serves accepted jobs one at a time and in order of acceptance *)
(* through every interleaving of callers, continuations and restarts.      *)
(***************************************************************************)
ServesInOrder == Service!SafeSpec

(***************************************************************************)
(* It also keeps serving, unless it is left stranded for ever.             *)
(***************************************************************************)
ServesForEver == Service!SafeSpec /\ (NotStrandedForEver => Service!Fairness)
============================================================================
