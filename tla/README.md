# Calame in TLA+

A verification development kept beside the code of Calame (an MCP server that
puts company databases, documents and APIs behind one governed endpoint). It
models the parts of the server that keep state and can be interrupted, checks
them with TLC on small instances, and proves the main safety properties with
TLAPS for every value of the constants. Paths in this file are relative to
`src/`; `rag-core` stands for `ee/rag-core/src`, `cli` for `packages/cli/src`.

Calame is one Node.js process over one SQLite database (better-sqlite3, which is
synchronous). Concurrency is therefore that of an event loop: code between two
`await`s is never interrupted, and everything that goes wrong goes wrong *across*
an `await`, a timer, a child process, or the death of the process. An action of a
module is a block from one await to the next; where an action is finer or coarser
than that, the comment above it says so.

## 1. Inventory

| Component | State it keeps | Operations | What is hard | What makes it correct |
|---|---|---|---|---|
| Sync queue (`rag-core/jobs/sync-queue.ts`) | `#queue`, `#running`, `#worker`; the rows of `rag_jobs` | `enqueue`, `#kick`, `#run`, boot sweep `recoverOrphanedJobs` | microtask order between `#run` and the `.finally` of `#kick`; memory against rows; death with rows pending | memory and rows agree, one job at a time, in order, every accepted job ends |
| Poll scheduler, watch manager (`rag-core/jobs`) | interval per source; watcher and debounce timer per source | `start`, `upsert`, `remove`, tick, event, flush | registries that mirror rows changed by five handlers; a flush refused while a sync walks | registries equal the rows; a noticed change is synced |
| Sync job (`rag-core/routes/rag-index.ts`, `pipeline/ingest.ts`, `routes/sync-io.ts`, `pipeline/rejection-memory.ts`, `jobs/embedding-cap.ts`) | job row and counters; `rag_documents`, chunks, vectors; `rejectedByEtag` | walk, fetch, parse, embed, persist, GC pass, final update | files that change under a walk that is no snapshot; soft timeouts that leave the ingestion running; loop cut by cap or breaker; crash anywhere | etags never run ahead of content; nothing searchable lost; `completed` means complete; the index catches up |
| Source rows, dimension, reindex, vector store (`rag-core/routes/rag-sources.ts`, `rag-reindex.ts`, `storage/sqlite-vec-store.ts`, `cli/rag/store-init.ts`) | rows with a dimension, chunks, the vec0 table, the store of the process, the migration job | create (with an await in the middle), PATCH, delete, restore, permanent delete, reindex, boot | three copies of "the dimension"; a running ingestion across a migration; crash between two transactions | every stored vector fits the table; no vector without its chunk; the trash keeps its content |
| Write approval (`cli/write-queue.ts`, `routes/write-queue.ts`, `write-executor.ts`) | `write_queue` rows; the connection map and table | propose, approve, reject, execute, record | two approvals around an await; lost answers; restart between claim and record; names re-pointed | decided once, executed at most once, only if approved, reported truthfully |
| Tunnel and shutdown (`cli/tunnel/manager.ts`, `cli/shutdown.ts`) | `child`, `url`, `startInFlight`; the OS processes | start, stop, events of the child, shutdown steps, forced exit | events of an older child; timer against URL; a second signal and the forced exit against the steps | one tunnel, true status, none left behind, each start answered |
| Connection registry (`cli/routes/connections.ts`, `routes/connect.ts`, `state.ts`, `ssh-tunnel.ts`) | `connections` table; the map of loaded connections; the map of SSH tunnels | lazy load, POST, demo, POST /api/connect, DELETE | an await per tunnel and per introspection inside a load that works from rows read before; closes that delete what is registered by then | requests query what the table says; every open tunnel can be closed |
| Accounts and sessions (`cli/user.ts`, `session.ts`, `routes/auth.ts`, `users.ts`, `onboarding.ts`, `chat-auth.ts`, `ee/sso`) | `users` (status, address, identity, token, invitation), `auth_sessions` | create, invite, activate, disable, enable, delete, rotate, link, every sign-in, renew, revoke, boot sweep | long sequences of legal calls by administrators, users and providers; requests that look at the status only | what was refused stays refused; one identity is one account; no session outlives the disabling |
| OAuth server (`cli/routes/oauth.ts`, `oauth-clients.ts`, `routes/profile-oauth.ts`) | `oauth_clients`; in memory: authorizations at a provider, codes | register with eviction, authorize, callback, exchange, restart | repeated redirects around an await; codes used minutes later; a table at its cap | one token per authorization; the cap holds; a client that was used stays |
| File write-back and write tools (`rag-core/write-tools.ts`, `fs-write.ts`, `native/fsat.c`) | the note on disk, the append queue, the lock per file, helper processes | read, write, append with retries; compare, exchange, verify, confirm; kill after 60 s | an editor outside at every system call; helpers that hang; retries | no lost update outside the one documented window; answers are true; every call is answered |
| Embedding rate limiter, HTTP rate limiter | token buckets, windows | acquire | boundaries | rate never exceeded, every acquire served |
| Desktop shell (`apps/desktop/src-tauri`) | child process, updater | start, restart, recover | events of an older child | one server |
| Connectors, parsers, embedding providers, search, PII masking, chat, LLM router, configuration, audit, e-mail, SSO, web console, scaffolding | none, or none that interleaves | | | not modelled: see section 7 |

Interactions: HTTP handlers, the poll scheduler, the watch manager and the MCP
write tools all start a sync through the queue; the queue runs the sync job, which
writes documents and job rows; the source handlers register and tear down timers
and change the rows the job reads; ingestion uses the vector store whose dimension
the boot and the reindex route decide; approved writes go out through the
connection map; the shutdown stops scheduler, watchers and tunnel; the OAuth server
hands out the bearer tokens of the accounts; the write tools change the files the
sync job reads and trigger a sync.

`PROJECT.json` lists the components with their status, and under `hazards` each
thing in this code that a test would hardly reach, at its line, with the
properties that would catch it.

## 2. Modules

| Module | Models | Composes |
|---|---|---|
| `SyncService` | abstract: a first-come first-served service with at most one job per source inside | |
| `SyncQueue` | queue, worker, job and source rows, crash and boot | implements `SyncService` |
| `SyncTriggers` | timers, watchers, debounce, and the source handlers that drive them | extends `SyncQueue` |
| `ApprovalGate` | abstract: a write is decided once, executed at most once, reported truthfully | |
| `WriteQueue` | entries, approve/reject handlers, executor, connections, crash | implements `ApprovalGate` |
| `TunnelManager` | manager, processes, shutdown | |
| `RagDimensions` | rows, chunks, vectors, vec0 table, store, migration, crash and boot | |
| `SyncRun` | sync jobs of one source against files that change | |
| `Accounts` | users, bearer tokens, invitations, sessions, every sign-in | |
| `OAuthServer` | clients, authorizations, codes, exchange | extends `Accounts` |
| `Connections` | table, map, SSH tunnels, requests in flight | |
| `NoteWriter` | one note under write tools, helper and outside editors | |
| `MC...` | constants, symmetry and instances for TLC | |
| `...Proofs` | theorems and proofs of the module they extend | |

How state and actions correspond to the code:

- **SyncQueue.** `queue`, `running` and `current` are the fields and the local of
  `#run`. `worker` says where the promise of `#worker` stands: `starting` and
  `returned` are continuations already queued, `exiting` is the window in which
  `#run` has left its loop and the `.finally` that clears `#worker` is still due. A
  macrotask (HTTP handler, timer) runs only when no continuation is pending
  (`CallerRuns`); with `MicrotaskCallers = TRUE` a caller may also run between two
  microtasks, as the MCP write tools do (they enqueue in the continuation of an
  async function, `cli/routes/serve/registration.ts:650-655`). `RefuseJob` is a
  `runSyncJob` that returns before its first await; `Boot` is the sweep followed by
  the clean-up of sources whose retention ended.
- **SyncTriggers.** `pollTimer`, `watcher`, `flush` are the three maps. The history
  variable `owed` holds the sources with a noticed change no sync has picked up;
  the actions at which the code gives a change up (the watcher is replaced or
  removed, the flush throws, the process dies) clear it. Handlers that take two
  steps in the code with no await between them are one action.
- **WriteQueue.** An approve handler is one action up to the await of the executor
  (`Approve`) and one from its return (`Settle`). `Land` is the commit in the
  database, which may come after the client has given up. A crash drops the awaits
  and the connection map; statements on the wire may still land. Each map entry
  stands for the database its connection string opens. A load reads the table
  (`StartLoad`) and fills the map entry by entry (`LoadName`) from what it has
  `reading`; POST /api/connect changes the map without a row (`ConnectUnsaved`).
  `repointed` is history: the entries queued while map and table disagreed about
  their name, or whose name was given another database while they waited.
- **TunnelManager.** `attempt` is `startInFlight`; `proc` is what the operating
  system knows, including children that were signalled and whose exit event is
  still to come. Each event names its child; the handlers use, like the code, the
  fields of the manager. `server` follows the shutdown: requests on open connections
  are served until it ends, a second signal (`SecondSignal`) goes on without waiting
  for the responses. Two histories: `late`, a start came before the exit event of a
  stopped child; `overtaken`, the running children whose handle the exit event of
  another child has cleared.
- **RagDimensions.** A source's documents count as one. `handler` is the reindex
  route between two of its transactions; `KilledMidWipe` is the death of the process
  between the vectors and the rows of a purge, `ReindexFails` the `catch` of the
  route, which may come in the same place; `creating` is a POST awaiting
  `testConnection`. `stale` is history: the creations in flight whose comparison
  another change of live sources has overtaken.
- **Accounts.** One row per id, with the number of its token and of its invitation;
  numbers are drawn in order and stand for random values. A handler is one action:
  `await save()` is an empty promise, and the handlers that wait for a provider look
  everything up after its answer. Actions follow the handlers (`Disable`, `Enable`,
  `Activate`, `SsoLogin`, ...). `cutoff` is history: the last session drawn when the
  account was disabled or deleted.
- **OAuthServer.** `clients` is the table; `pending` and `codes` are the two maps;
  `awaiting` holds the handlers between the two halves of a callback or of a form
  with an external token. `Register` is the one transaction with its stale rows, its
  eviction and its test. `AccountStep` is every other step of the accounts.
- **Connections.** `handler[h]` is a request in flight, with what it has read and
  where it waits (`closing`, `dialling`, `introspecting`); a load carries the table
  as it was when the load began. `reg` is the map of tunnels, `open` what exists.
  `overtaken` and `lost` are history: they name the cases in which the code lets map
  and table, or tunnels and registrations, part.
- **NoteWriter.** The note is an inode number and the sequence of the texts in it;
  a file saved under the note's name may get the number of one that is gone. Each
  action is one system call (or one await) of one call; `Fails` is a step that fails
  or whose helper hangs until it is killed, `Unsupported` a file system without
  `link` or `renameat2`. `late` records what others saved between the last check of
  a write and its publication, `kept` whether the last of them left the note under
  the number that was checked. `mode` is the way of
  publishing: the helper, the helper on a mount whose exchange keeps no old entry,
  and rename in the process (Windows).
- **SyncRun.** A version number of a file is its etag, its hash and its content;
  `KindOf` says whether that version is text, corrupt, too large, or of a format
  without parser. `docs[p]` holds the etag stored and the version its chunks were
  made from. `ingest` holds the calls of `ingestDocument` that have not settled,
  those the job no longer waits for included (`waited = FALSE`). `calm` is the
  environment's promise that files and infrastructure are quiet from now on.
  Documents that need no await are a step each, finer than the code.

## 3. What each run checks

Twelve runs; `tlc -config X.cfg M` in this directory repeats one.

| Run | Instance | Properties and what they show |
|---|---|---|
| `queue` | 3 sources, two of them synced twice, callers in macrotasks and in microtasks | `RefusedIffActiveRow`: a source is refused exactly when it has an unfinished row. `OnlyTheWindowStrands`: a queued job is left without a worker only by a caller in the window of `#kick` (section 4), never by the worker. `ServesForEver`: it implements `SyncService`, its order always and its fairness unless a job is stranded for ever; `AcceptedJobFinishes`, likewise, through crash and boot. |
| `triggers` | 2 sources, 1 local, one row per source | `TimersMatchRows`, `NoOrphanWatch` for every order of PATCH, delete, restore, permanent delete, restart. `NoChangeForgotten`: a noticed change is in a pending flush or in a queued sync until one picks it up. `NoticedChangeIsSynced` (the trailing sync), `PolledSourceKeepsSyncing`. |
| `write_queue` | 2 entries (1 corrupt), 2 names, 2 databases, 2 handlers | `ImplementsGate` (refinement), `SilentOnlyAfterCrash`. `OnlyRepointedStray`: a write reaches the database its name stood for when it was queued, unless a request gave the name another one in between. |
| `tunnel` | 3 children | `HandleIsLive` and `StartIsAnswered` whatever happens. `UnstoppedIsHeld`: the manager holds every process nobody has stopped, and `GracefulExitStopsAll`: an exit that ran its steps, after one signal or two, leaves none, but for the children of which another's exit event has cleared the handle (section 4). `StatusIsTrue` until a start overtakes an exit event. |
| `tunnel_second` (violation) | 3 children | `OneTunnel` fails: section 4. |
| `dims` | 3 sources, 2 dimensions, symmetric sources | `IndexIsUniform`, `VectorsHaveChunks`, `StoreFitsTable`, `TrashKeepsContent` in every interleaving; `OnlyTheUncheckedDisagree`: live sources that agree on a dimension go on agreeing through creation, PATCH, delete, migration, failure and restart; what can end it is a restore, or a creation whose comparison was overtaken. |
| `sync_safe` | 2 files of 2 versions (edited; converted to a format without parser), 2 slots, breaker after 1 failure | `EtagNeverAhead`, `SearchableUntilReplaced`, `CompletedIsComplete`, `CountersAddUp` with timeouts, late ingestions, parser, provider, database and GC failures, crashes. |
| `sync_live` | 1 file (text, corrupt, too large, repaired), 2 slots, breaker after 2, cap of 2 documents | `EventuallyFresh`: the index ends at the files. |
| `access` | 2 accounts, 2 addresses, 1 identity, 2 clients under a cap of 1, 1 authorization, time 0..2 | `DeadStaysDead`: a token, invitation or session that is refused once is refused for ever. `SignedOutForGood`, `OneAccountPerIdentity`. `OneTokenPerAuthorization` around repeated redirects and exchanges. `UnderCap`, `FirstGrantKeepsClient`. `CodesKeepTheirAccount`: a code opens at most one account, and after a step none it did not open before. |
| `connections` | 2 names, 2 configurations (one over SSH), 2 requests, 3 tunnels | `MapMatchesTable`: requests query what the table says, but for the names written under a load or by POST /api/connect. `TunnelsAccountedFor`: what is registered is open, and what is open is registered unless another tunnel took its place; a registered tunnel leads where its name says. |
| `connections_leak` (violation) | 1 name over SSH, 1 request | `DeleteClosesTunnels` fails: section 4. |
| `notes` | 2 appends, 1 write, 1 outside text, 3 modes, 2 attempts | `AnswerIsTrue`, `NothingElseLost`. `DroppedFileIsReported`: with the helper, a file saved in the window is dropped under the answer "saved" only if it has the inode number that was checked. `EveryCallIsAnswered` with helpers that hang. |

Types are proved (section 5) and not a run of their own.

Every property of a passing run has a mutant in `PROJECT.json`: a plausible bug in
one definition, under which the run fails. The mutant operators stand in the
modules, before the definition they change, marked `Mutant:`.

### Bounds

- *Queue.* Three sources let two jobs wait behind a running one, so order,
  deduplication and the shift are exercised; a second job of a source is accepted
  after its first has finished, in the window of `#kick` too, and two such sources
  let a stranded job be freed by the other source and strand again. Job ids are
  drawn from a finite set and not reused.
- *Triggers.* Two sources suffice for "refused because another job runs" and
  "refused because its own runs". `ForgetRow` exists in the model only: a finished
  row leaves the window so that ids never run out and "for ever" means something.
- *Write queue.* Two handlers race on the usable entry while the other one is
  refused; entries share nothing but the map, and the proofs have any number of
  them. Two names let POST /api/connect write an entry it was not asked for, two
  databases let a name be re-pointed. `Names` stands for ids of `mcp-tool` sources
  as well, which are resolved by reference in the same way.
- *Tunnel.* With three children, two older ones can still be dying while a third is
  started; an identifier is reused after its exit event.
- *Dimensions.* Three sources allow a creation next to a live and a deleted source;
  two dimensions are all that "equal or not" needs.
- *Access.* Two accounts and two addresses let an address move, an account be
  deleted and its address be taken again; one identity is claimed by both. A cap of
  one makes the second client need the place of the first. Time 0..2 with lifetimes
  of 1 lets every deadline pass and be met. One session at a time: a session depends
  on no other but through the account. One authorization may end in two codes.
- *Connections.* Two requests are every pair of handlers, one name can be worked on
  by both while the other is loaded. Three tunnels let one be replaced twice.
  `MaxTunnels` stops dialling, so a behaviour may end there.
- *Notes.* Two appends and a replacement make a queue, a lock with a waiter, and a
  conflict; two attempts let the first be refused and the last give up. An outside
  editor saves one text, in place or as a file with a new or a reused number, and
  deletes at any moment.
- *Sync run.* `MaxVersion` bounds the versions of a file, `Slots` the ingestions
  alive together; with two slots one late ingestion races a later one of the same
  file. A timeout needs a free slot (bound). One document costs one unit of the
  cap. Not bounded: runs, crashes, disappearances and returns of files.

`CHECK_DEADLOCK FALSE` is set for the tunnel, whose server exits for good; for
`RagDimensions`, where RAG stays off when the boot's reset keeps being refused
(`store-init.ts`); for `access`, whose clock and numbers end; for `connections`, so
that no bound of the model can count as one; and for `notes`, whose calls all end.

### Fairness

- `SyncQueue`: `WF(Worker)` and `WF(Boot)`. The event loop runs queued
  continuations, and `runSyncJob` settles because fetches and parses have timeouts;
  a server that is down is started again. Callers and crashes are free. Nobody has to
  come and free a stranded job, so the liveness properties assume
  `NotStrandedForEver`; `OnlyTheWindowStrands` says what that costs.
- `SyncTriggers`: the same for the worker (`TakeJob \/ WorkerElse`) and the boot, and
  `SF` for `Flush(s)` and `PollTick(s)`: a due timer is run when the loop comes back
  between macrotasks, which recurs but does not last. For `Flush` it also says that
  bursts of events end. `WF(ForgetRow)` belongs to the finite window.
- `TunnelManager`: `WF(Timeout)`. `setTimeout` fires; nothing is assumed of
  cloudflared or of clients.
- `SyncRun`: `WF(Run)` and `WF(Call(i))`. Syncs come again (this is
  `PolledSourceKeepsSyncing`) and calls settle. `EventuallyFresh` assumes `<>calm`
  and that the cap is not reached, both in the formula.
- `NoteWriter`: `WF(Serve(c))` for each call. What the server does for a call is
  local I/O, or a helper that ends or is killed after 60 s (`fs-write.ts:486`).
  Clients and editors are free.
- `WriteQueue`, `RagDimensions`, `Accounts`, `OAuthServer` and `Connections` state
  safety only and assume none: they wait for databases, providers and users.

## 4. Where code and documentation disagree

Each of these is a violation run, with the line quoted in `PROJECT.json`.

1. *Second tunnel* (`manager.ts:217`, run `tunnel_second`). The exit handler clears
   the fields of whichever child is current; after stop and start, the late exit of
   the first child lets the next start spawn another process.
2. *Leaked SSH tunnel* (`connections.ts:199`, run `connections_leak`). A load stores
   the tunnel it opened under its name without looking at what is registered. When
   the introspection then fails, the map stays empty, the next request loads again,
   and the DELETE closes the second tunnel only. What the DELETE does keep is proved
   (`DeletesLeaveOnlyDisplaced`).

Seen while modelling, and part of the models, without a run of their own:

- `#kick` returns while `#worker` is not null, although `#run` may have left its loop
  (`sync-queue.ts:109`); a caller in that window, a microtask, has its job accepted
  and not run until the next enqueue. `OnlyTheWindowStrands` says that this is the
  only way a job is left behind; it is checked with such callers (`MicrotaskCallers =
  TRUE`), and proved for both values.
- The connection of an approved write is resolved by name at approval
  (`write-executor.ts:27`), "so the write executes on the SAME database it was
  proposed for" (`:18-19`). That holds up to the exceptions `OnlyRepointedStray`
  names: a request gave the name another database while the entry waited, a load
  that was overtaken brought the old one back, or the entry was queued on a
  connection of POST /api/connect that no row repeats after a restart. Rows from
  before v15, which name no connection and use the cached one, are left out.
- A creation compares dimensions before its await and inserts after it, and a restore
  does not compare at all (`rag-sources.ts:303`): the two exceptions of
  `OnlyTheUncheckedDisagree`.
- Nothing calls `resumeReindexJobs` (`rag-reindex.ts:368`), said to be called once
  from `initRagRuntime`: a migration cut by a crash is not continued.
- A load that was overtaken puts an old configuration back in the map, where it stays
  until the name is written again; POST /api/connect writes the connection it was
  given into the first entry of the map, whatever that entry's name (`connect.ts:48`).
- The bearer token returned when an account is created by invitation never opens
  anything: activation draws another one (`Activate`).
- `enableUser` and a new invitation do not look at the status they replace: enabling
  an invited account skips the invitation, inviting a disabled one lets it in again.
- The forced exit after 15 s leaves cloudflared running (`shutdown.ts:21`):
  `GracefulExitStopsAll` is stated for the exit that ran its steps. Of those it may
  leave the children of the first finding (`overtaken`).
- A second signal runs the steps of the shutdown beside the first
  (`packages/cli/src/index.ts:187-189`): `SecondSignal`. No tunnel is lost by it.
- Chunks of deleted sources make `resetVecTableIfDimensionMismatch` refuse a
  migration whose error message says that this should not happen
  (`rag-reindex.ts:270`): `RebuildRefused`.
- The boot takes its dimension from the oldest row, deleted ones included
  (`store-init.ts:43`), the running server only from live ones: `BootDim`, `Agrees`.
- A soft-delete that throws in the GC pass counts as a failure and not as processed
  (`rag-index.ts:749`), so `ReportAddsUp` fails in the report of a failed job;
  `CountersAddUp` is what holds.
- The monthly cap counts completed jobs only (`embedding-cap.ts`), so one job, and
  failed jobs, embed past it: `used` grows in `EndRun` alone.
- A crash or slow moment of the parser worker is remembered as a rejection of the
  content (`rejection-memory.ts:10`): `Fresh` accepts a file remembered in its
  present version.
- The progress callback of an ingestion that outlives its job rewrites the finished
  row (`rag-index.ts:606`). Progress is not modelled.

## 5. What is proved

`tlapm X.tla` proves each module from nothing. The constants satisfy only the
`ASSUME` of the module they are declared in: types, distinctness of the `No...`
values, and `IsFiniteSet(Paths)` for `SyncRun` (the GC pass counts a set). All
sizes are arbitrary, `MicrotaskCallers`, `Cap` and `MaxStreak` too unless a theorem
says otherwise.

**SyncQueueProofs.** The queue, and the triggers on top of it. `TypeCorrect`,
`MemoryMatchesRows` (`RefusedIffActiveRow`),
`PerSourceDedupe`, `Serialized`, `EnqueueContract` (`OnlyTheWindowStrands`, and: in a
behaviour in which nobody enqueues in the window, no job is ever stranded),
`QueueServesInOrder` (the refinement of `SyncService`). The properties speak of rows and `Rejects` of memory, so neither is
inductive; `IInv` ties the two together: the rows of queued jobs are pending or
deleted and each source is queued once (`QueueInv`), the row of the current job
follows the worker's position (`WorkerInv`), a row is deleted only with its source
(`RowInv`), and a process that is down has nothing in memory (`DownInv`). From it,
`StrandsInWindow` shows that the step which strands a job, or adds one to those that
are, is an `AcceptJob` while the worker is `exiting` (`InWindow`). `PerSourceDedupe`
and `Serialized` add that a source never has two unfinished rows and that no two
rows are running. Every step of the triggers is a step of the queue or forgets a
finished row (`StepsOfQueue`), so `IInv` holds there too (`QueueSafeUnderTriggers`:
the guarantees of the queue, `OnlyTheWindowStrands` included, with the callers it
really has), and with `DownWatchInv`
(a process that is down watches nothing) gives `TriggersTypeCorrect`,
`TimersFollowRows` (`TimersMatchRows`), `NothingWatchedInTrash` (`NoOrphanWatch`) and
`ChangesAreKept` (`NoChangeForgotten`: a flush is disarmed when its job is
accepted or the change is given up, and a job leaves the queue by being run or with
the process). `WorkerGetsThrough`:
`StepsLeft` drops with every step of the worker and grows only when a job is accepted.

**WriteQueueProofs.** `TypeCorrect`, `SilenceExplained`, `QueueImplementsGate`.
`IInv` adds that a started call belongs to an approved entry, alone, and is
unrecorded while awaited (`CallInv`), and that an entry has at most one effect, none
before approval, and one exactly when its call has landed (`EffectInv`). That a
crash keeps the call but drops the await is what makes "at most once" hold across
restarts: `Claim` never succeeds again. `WritesReachTheirTarget`
(`OnlyRepointedStray`) rests on `TargetInv`: while an entry that was not re-pointed
waits, map and table hold its database under its name or nothing, and a call started
for it goes to that database.

**TunnelProofs.** `TypeCorrect`, `HandleNeverStale`, `NoTunnelLost`
(`UnstoppedIsHeld`), `GracefulExitLeavesNone`, `PromptExitsSuffice`. The first two
follow from `HandleInv`. `HeldInv` gives the next two in every order of events: the
child held is in its attempt or has shown its URL, an attempt is for the child held
or for none, and what runs and is not overtaken is held. `PromptExitsSuffice` is what
the code keeps as long as exit events come before the next start: the status is true,
one process runs at most, and none is overtaken; by `PromptInv` at most one process
exists in any state until `late`. `StartsWaitForTheirOwn`: a start in flight waits
for a process that exists, and only an event of that process or the timer settles it.

**RagDimensionsProofs.** `TypeCorrect`, `IndexStaysUniform`, `NoOrphanVector`,
`StoreKnowsTable`, `TrashSurvives`, `ChecksKeepAgreement`
(`OnlyTheUncheckedDisagree`). The index properties are inductive together with the
shape of the handler (`HandlerInv`: what remains to be purged is live). The last one
needs `AgreeInv`: any set of rows has an oldest one (`OldestInv`), and a creation
that is not `stale` still passes the comparison it passed (`FreshInv`). The code
compares with the oldest row only; for rows that agree, that is comparing with all
(`AgreesWithAll`), and a migration moves all of them in one step.

**SyncRunProofs.** `TypeCorrect`, `EtagsStayBehind`, `CountersAgree`,
`LastVersionKept` (`SearchableUntilReplaced`), `CompletedMeansIndexed`. `IInv`: at
most one ingestion is waited for and it is the one of the current document, and what
embeds is text (`CallInv`); listed, fetched and stored versions are versions the
file has had, in this order (`VersionInv`); and what a loop without failures has
left behind is indexed or rejected (`LoopInv`). Two theorems carry the argument for
`EventuallyFresh`. `SettledRunsRepair`: once nothing changes or fails (`calm`) and no
call, listing entry or passed document is out of date (`Settled`), it stays so, fresh
documents stay fresh, and a job that ends completed leaves all of them fresh, whatever
the calls of earlier jobs still do. `RunsEnd`: a measure of what the current job has
`Left` drops with every step of the job and of the call it waits for, and grows only
when a job begins. Both use `WaitInv`, that job and call agree on the document and
its version.

**AccessProofs.** For the accounts: `AccountsTypeCorrect`, `RefusedForEver`
(`DeadStaysDead`), `OneAccount`, `SessionsEndWithTheirAccount`. A number is drawn
once: tokens, invitations and sessions in use are below their counters and no two
rows share one, so a credential that is refused can only come back by being drawn
again. Each step of the server is a step of the accounts or leaves them be
(lemma `OAuthImplementsAccounts`), which carries those theorems over. For the server:
`OAuthTypeCorrect`; `ClientsStayUnderCap` by counting what eviction leaves
(`CapInv`, finite tables); `HonouredClientsStay` from `ClientInv`, which says that a
client with a code outstanding is registered as long as it is too young to be purged;
`OneTokenEach` from `GrantInv`: an authorization is in one place, at the provider, in
an await, in a code, or exchanged. `ServerKeepsAccounts` states the three properties
of the accounts for the server, as the run checks them. `LateCodesOpenNothing`
(`CodesKeepTheirAccount`) is about the minutes between /authorize and /token. A code's
token has been drawn (`CodesDrawn`), tokens in use are drawn and open one account each
(`HolderInv`), and a token that has lost its account never gets one again.

**ConnectionsProofs.** `TypeCorrect`, `TunnelsAreAccountedFor`, `MapFollowsTable`.
`TypeInv` adds what a request knows at each await; `TunnelInv` that a close concerns
the tunnel registered for its name or none, and that registrations are distinct;
`LoadInv` that a load which still holds a name holds the row of the table, unless the
name was overtaken. `DeletesLeaveOnlyDisplaced` is what is left of the promise that
`connections_leak` refutes: when a DELETE ends, every tunnel of its name that is still
open had been displaced from the registry, by another connect or by a close that was
meant for an earlier tunnel (`lost`).

**NoteWriterProofs.** `TypeCorrect`, `OnlyTheWindowLoses` (`NothingElseLost`),
`DropsAreReported`, `AnswersAreTrue`, for any number of calls, editors and attempts.
`LockInv`: one call at a time is past the lock. `WindowInv`: since its last check, a
call that is about to publish has missed only what is in its `late`. `LateInv`: the
file that was exchanged away has the number that was compared, unless somebody saved
in between and the last to do so left the note under another. `AnswerInv`: the text of a call is in the note at most once, and not
before its publication. `NobodyWaitsForNobody` rests on `WaitInv` (who waits is in the
queue or the lock it waits for, and only a head is past it): behind every waiting call
stands one that the server can serve, so nobody waits in a circle. `CallsGetCloser`:
the `Effort` left to a call drops with each step the server takes for it, retries
included (`TriesInv`), and nobody else's step raises it.

Only model-checked: all liveness, as it needs fairness and `ENABLED`, which the
prover does not handle. What can be proved of a liveness property is its safety half:
nothing is lost on the way, nobody waits for nobody, and a measure says that each fair
step is progress.

| Liveness (TLC) | Its safety half (TLAPS) |
|---|---|
| `AcceptedJobFinishes`, `ServesForEver` | `QueueServesInOrder`, `EnqueueContract`, `WorkerGetsThrough` |
| `NoticedChangeIsSynced` | `ChangesAreKept` |
| `PolledSourceKeepsSyncing` | `TimersFollowRows`, `QueueSafeUnderTriggers` |
| `StartIsAnswered` | `StartsWaitForTheirOwn` |
| `EventuallyFresh` | `SettledRunsRepair`, `RunsEnd` |
| `EveryCallIsAnswered` | `NobodyWaitsForNobody`, `CallsGetCloser` |

What these leave to TLC is that the fair step is enabled when it has to be and, for
`EventuallyFresh`, that calm files are eventually settled. Every safety property of a
passing run is proved.

## 6. Abstractions worth knowing

- One tenant. Tenants share queue, scheduler and store, but every row is read with
  its tenant id.
- In `SyncQueue` sources exist from the start; creation is in `RagDimensions`.
- In `SyncRun` the document row, its chunks and its vectors are written by one
  transaction and are one value; folders, audit rows and logs are left out.
- Every file of `SyncRun` has an etag. Connectors that give none (null or empty) have
  their files fetched and hashed at every sync; they never use the stored etag.
- `runSyncJob`'s outer `catch` (`rag-index.ts:837`), reached when SQLite itself fails
  between documents, is left out: it only fails the row and returns.
- `deleteByDocument` fails in `RagDimensions` only because the table is dropped.
  The callers swallow its errors, so an I/O error of SQLite would leave orphan
  vectors, as a comment in `rag-sources.ts` says.
- `Destroy` stands for the permanent delete and for the boot's clean-up of expired
  trash, which does the same per source.
- Requests that change nothing (a start that finds the tunnel up, a 409) are left
  out or are explicit stutters (`RejectJob`).
- `await save()` in the account and OAuth handlers is an empty promise, so it only
  lets other microtasks run; none of them comes back to what the handler still
  uses. The handlers are therefore one action.
- PKCE, `redirect_uri` and client secrets are tests on the values of one request:
  they pass, or the request changes nothing (`routes/oauth.ts:973-1020` leaves the
  code in the map).
- In `Connections` the order of the map is left out: any entry may be the first one
  that POST /api/connect writes, in `WriteQueue` too. `WriteQueue` needs only what the
  map says at a proposal and at an approval: it leaves tunnels out, lets each entry
  of a load come at its own moment and in any order, and keeps what loads have read
  in one set, so it allows more than `Connections` does.
- In `TunnelManager` the shutdown may go on at any time after a second signal. How soon
  `server.close()` answers its second caller depends on the version of Node; the model
  allows every moment.
- In `NoteWriter` a helper that is killed does nothing after the kill. The code answers
  at the kill and not at the end of the child (`fs-write.ts:486-489`), so a rename
  stuck in the kernel could still land: what is checked and proved assumes it does not.
  Paths (with the await that resolves them before the lock, `:717`), access scopes and
  the staging directory are left out: they decide whether a call starts.

## 7. Not modelled

- *Search and reranking, parsers, chunkers, embedding providers, PII detection and
  masking*: functions over text and floats that keep nothing between calls. What
  they can answer is an outcome of a step of `SyncRun`.
- *Connectors of databases and document stores, chat engine, LLM router, e-mail*:
  remote I/O of one request. `SyncRun` models what a connector may return.
- *Configuration, secrets, audit, notifications, migrations*: synchronous storage;
  nothing comes between a read and its write.
- *MCP serving*: one transport per request, no state in between; its effects go
  through the queue, the triggers and the write queue.
- *Embedding rate limiter*: the calls of a bucket are chained, so only the head of a
  chain acts; what is left is arithmetic on fractions of tokens and milliseconds.
  *HTTP rate limiter*: a window per token, synchronous.
- *Desktop shell*: a Rust process beside the server that starts and watches it. It
  raises the question `TunnelManager` answers for cloudflared.
- *Web console, scaffolding, build scripts*: no state of the server.
- Of what is modelled in part: PATCH fields of a source that concern neither
  dimension nor timers; profile access, custom attributes, tenants, the legacy
  profile tokens and the throttle of log-ins; the exchange with the identity provider;
  uploads into a source (`rag-upload.ts`).

The models cover a small share of the repository's lines on purpose: a third of
them are the console's views, and most of the rest is connectors, parsers, routes
that read, and tests of input. The parts above that keep state across an await are small.

## 8. What is left

All of the original plan but its composition is done: queue, triggers, sync run,
dimensions, write approval, tunnel, accounts, OAuth, connections, file write-back,
with proofs of every safety property. What a next step would take, in this order:

1. `SyncRun` composed with `RagDimensions`: an ingestion of one source while
   another one is migrated. One module has the versions, the other the wipe; the
   property is that `EtagNeverAhead` survives the wipe.
2. `WriteQueue` shown to allow every behaviour of `Connections` on the map, in place of
   its own description of loads.
3. `DesktopSupervisor`, after `TunnelManager`.
4. Uploads as another writer of the files of `NoteWriter` and of the documents of
   `SyncRun`.

New modules follow the same form: constants with a named assumption, an abstract
specification where there is a promise to state, one run per question, recursion
only as functions or folds, proofs in a module of their own.
