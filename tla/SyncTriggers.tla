---------------------------- MODULE SyncTriggers ----------------------------
(***************************************************************************)
(* What starts syncs by itself: the poll scheduler (jobs/poll-scheduler.ts,*)
(* one interval per source) and the watch manager (jobs/watch-manager.ts,  *)
(* one watcher and at most one debounce timer per source), composed with   *)
(* the sync queue they feed through triggerSync and with the source        *)
(* handlers that register and tear them down.                              *)
(***************************************************************************)
EXTENDS SyncQueue

CONSTANT LocalSources  \* sources of type `local`, the only watchable ones

ASSUME SyncTriggersAssumption == LocalSources \subseteq Sources

VARIABLES
    polled,     \* sources whose row has polling_interval_seconds set
    pollTimer,  \* PollScheduler.#timers
    watcher,    \* WatchManager.#unsubscribers
    flush,      \* WatchManager.#pendingFlushes
    owed        \* history: sources with a noticed change no sync has picked up

triggerVars == <<polled, pollTimer, watcher, flush, owed>>
allVars == <<vars, triggerVars>>

Live == {s \in Sources : source[s] = "live"}

TriggersInit ==
    /\ Init
    /\ polled = {}
    /\ pollTimer = {}
    /\ watcher = LocalSources
    /\ flush = {}
    /\ owed = {}
----------------------------------------------------------------------------
Macrotask == up /\ ~MicrotaskPending

(* triggerSync(s) # null: a row inserted for a live source and accepted. *)
Triggered(s) == \E j \in Jobs : SourceOf[j] = s /\ AcceptJob(j)

(* triggerSync(s) = null: the source is not live, or the queue refuses. *)
NotTriggered(s) == (s \notin Live \/ Rejects(s)) /\ UNCHANGED vars

(* #tick: the interval stays armed whatever triggerSync answers. *)
PollTick(s) ==
    /\ Macrotask
    /\ s \in pollTimer
    /\ Triggered(s) \/ NotTriggered(s)
    /\ UNCHANGED triggerVars

(* A filesystem event: #scheduleFlush arms, or re-arms, the one debounce. *)
WatchEvent(s) ==
    /\ Macrotask
    /\ s \in watcher
    /\ flush' = flush \union {s}
    /\ owed' = owed \union {s}
    /\ UNCHANGED <<vars, polled, pollTimer, watcher>>

(* Mutant: a refused flush is dropped. *)
FlushDrops(s) ==
    /\ Macrotask
    /\ s \in flush
    /\ Triggered(s) \/ NotTriggered(s)
    /\ flush' = flush \ {s}
    /\ UNCHANGED <<polled, pollTimer, watcher, owed>>

(***************************************************************************)
(* #flush: the debounce window closed.  An accepted sync consumes it; a    *)
(* refusal re-arms it as long as the watcher is registered.                *)
(***************************************************************************)
Flush(s) ==
    /\ Macrotask
    /\ s \in flush
    /\ \/ Triggered(s) /\ flush' = flush \ {s}
       \/ NotTriggered(s) /\ flush' = IF s \in watcher THEN flush ELSE flush \ {s}
    /\ UNCHANGED <<polled, pollTimer, watcher, owed>>

(* triggerSync throws (SQLite): not re-armed, the change is given up until  *)
(* "the next event re-schedules".                                          *)
FlushThrows(s) ==
    /\ Macrotask
    /\ s \in flush
    /\ flush' = flush \ {s}
    /\ owed' = owed \ {s}
    /\ UNCHANGED <<vars, polled, pollTimer, watcher>>
----------------------------------------------------------------------------
(* PollScheduler.upsert / remove. *)
SetPollTimer(s, on) == pollTimer' = IF on THEN pollTimer \union {s} ELSE pollTimer \ {s}

(* Mutant: remove leaves the debounce timer armed. *)
RemoveWatcherOnly(s) ==
    /\ watcher' = watcher \ {s}
    /\ owed' = owed \ {s}
    /\ UNCHANGED flush

(* WatchManager.remove: the watcher and its pending flush go together. *)
RemoveWatcher(s) ==
    /\ watcher' = watcher \ {s}
    /\ flush' = flush \ {s}
    /\ owed' = owed \ {s}

(***************************************************************************)
(* WatchManager.upsert: always tears down first; a new watcher exists only *)
(* for a local source whose configuration can be read and watched.         *)
(***************************************************************************)
UpsertWatcher(s) ==
    /\ \/ watcher' = watcher \ {s}
       \/ s \in LocalSources /\ watcher' = watcher \union {s}
    /\ flush' = flush \ {s}
    /\ owed' = owed \ {s}

(* PATCH with pollingIntervalSeconds. *)
PatchPolling(s) ==
    /\ CallerRuns
    /\ s \in Live
    /\ \E on \in BOOLEAN :
        /\ polled' = IF on THEN polled \union {s} ELSE polled \ {s}
        /\ SetPollTimer(s, on)
    /\ UNCHANGED <<vars, watcher, flush, owed>>

(* PATCH with type or config. *)
PatchConfig(s) ==
    /\ CallerRuns
    /\ s \in Live
    /\ UpsertWatcher(s)
    /\ UNCHANGED <<vars, polled, pollTimer>>

(* DELETE /sources/:id. *)
Trash(s) ==
    /\ TrashSource(s)
    /\ SetPollTimer(s, FALSE)
    /\ RemoveWatcher(s)
    /\ UNCHANGED polled

(* POST /sources/:id/restore: the timer is re-armed from the row. *)
Restore(s) ==
    /\ RestoreSource(s)
    /\ IF s \in polled THEN SetPollTimer(s, TRUE) ELSE UNCHANGED pollTimer
    /\ UpsertWatcher(s)
    /\ UNCHANGED polled

(* DELETE /sources/:id/permanent. *)
Destroy(s) ==
    /\ DestroySource(s)
    /\ SetPollTimer(s, FALSE)
    /\ RemoveWatcher(s)
    /\ polled' = polled \ {s}
----------------------------------------------------------------------------
(* POST /sources/:id/sync and the triggerIndex of the MCP write tools. *)
Request(j) == (AcceptJob(j) \/ RejectJob(j)) /\ UNCHANGED triggerVars

(* Taking a job starts its walk (or reports the source unusable): it covers *)
(* every change noticed before.                                             *)
TakeJob ==
    /\ BeginJob \/ RefuseJob
    /\ owed' = owed \ {SourceOf[Head(queue)]}
    /\ UNCHANGED <<polled, pollTimer, watcher, flush>>

WorkerElse == (LeaveLoop \/ EndJob \/ ClearWorker) /\ UNCHANGED triggerVars

(* Timers, watchers and unflushed changes die with the process. *)
CrashAll ==
    /\ Crash
    /\ pollTimer' = {}
    /\ watcher' = {}
    /\ flush' = {}
    /\ owed' = {}
    /\ UNCHANGED polled

(* Mutant: start() forgets the deleted_at filter. *)
BootAllRows ==
    /\ Boot
    /\ polled' = {s \in polled : source'[s] # "gone"}
    /\ pollTimer' = polled
    /\ watcher' \in SUBSET (LocalSources \intersect Live)
    /\ UNCHANGED <<flush, owed>>

(* PollScheduler.start and WatchManager.start, between the sweep and the cleanup. *)
BootAll ==
    /\ Boot
    /\ polled' = {s \in polled : source'[s] # "gone"}
    /\ pollTimer' = polled \intersect Live
    /\ watcher' \in SUBSET (LocalSources \intersect Live)
    /\ UNCHANGED <<flush, owed>>

(* Model only: a finished row drops out of the bounded window of rows, so  *)
(* that ids never run out.                                                 *)
ForgetRow(j) ==
    /\ status[j] \in Final
    /\ j # current
    /\ status' = [status EXCEPT ![j] = "none"]
    /\ UNCHANGED <<queueVars, source, up, triggerVars>>

Handlers ==
    \E s \in Sources :
        \/ PatchPolling(s)
        \/ PatchConfig(s)
        \/ Trash(s)
        \/ Restore(s)
        \/ Destroy(s)

TriggersNext ==
    \/ \E s \in Sources : PollTick(s) \/ WatchEvent(s) \/ Flush(s) \/ FlushThrows(s)
    \/ Handlers
    \/ \E j \in Jobs : Request(j) \/ ForgetRow(j)
    \/ TakeJob
    \/ WorkerElse
    \/ CrashAll
    \/ BootAll

(***************************************************************************)
(* Due timers run whenever the loop is between macrotasks, which recurs    *)
(* but does not last: strong fairness.  For Flush this also says that      *)
(* bursts end: a debounce window without events eventually comes.          *)
(***************************************************************************)
TriggersFairness ==
    /\ WF_allVars(TakeJob \/ WorkerElse)
    /\ WF_allVars(BootAll)
    /\ \A s \in Sources : SF_allVars(Flush(s)) /\ SF_allVars(PollTick(s))
    /\ \A j \in Jobs : WF_allVars(ForgetRow(j))

TriggersSpec == TriggersInit /\ [][TriggersNext]_allVars /\ TriggersFairness
----------------------------------------------------------------------------
TriggersTypeOK ==
    /\ TypeOK
    /\ polled \subseteq Sources
    /\ pollTimer \subseteq Sources
    /\ watcher \subseteq LocalSources
    /\ flush \subseteq Sources
    /\ owed \subseteq Sources

(***************************************************************************)
(* The registry of intervals always says what the rows say: a live source  *)
(* with an interval has a timer, no other source has one, through every    *)
(* order of PATCH, delete, restore, permanent delete and restart.          *)
(***************************************************************************)
TimersMatchRows == up => pollTimer = polled \intersect Live

(***************************************************************************)
(* Nothing watches, or waits to sync, a source in the trash or gone; and a *)
(* debounce timer never outlives the watcher that armed it.                *)
(***************************************************************************)
NoOrphanWatch == watcher \subseteq Live /\ flush \subseteq watcher

(***************************************************************************)
(* What makes the trailing sync certain to come: until a sync takes it up, *)
(* a noticed change has a debounce timer armed or a job of its source in   *)
(* the queue, whatever is refused, trashed, re-registered or served in the *)
(* meantime.                                                               *)
(***************************************************************************)
NoChangeForgotten == \A s \in owed : s \in flush \/ \E j \in Queued : SourceOf[j] = s

(***************************************************************************)
(* The trailing sync of #flush: a change noticed while a sync was already  *)
(* walking is not forgotten.  Every noticed change is eventually followed  *)
(* by a sync of the source taken after it, unless the watcher is replaced  *)
(* or removed, its flush throws or the process dies (see UpsertWatcher,    *)
(* FlushThrows and CrashAll).                                              *)
(***************************************************************************)
NoticedChangeIsSynced == \A s \in Sources : s \in owed ~> s \notin owed

(***************************************************************************)
(* A source that stays polled while the server stays up is synced again    *)
(* and again: refused ticks (sync active, queue busy) never wear it out.   *)
(***************************************************************************)
PolledSourceKeepsSyncing ==
    \A s \in Sources :
        <>[](up /\ s \in pollTimer) => []<>(\E j \in Jobs : SourceOf[j] = s /\ status[j] \in Final)
============================================================================
