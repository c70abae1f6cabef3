-------------------------- MODULE SyncQueueProofs --------------------------
(***************************************************************************)
(* The safety of the sync queue for any sources, jobs and callers.  The    *)
(* dedupe of enqueue looks only at memory (#running and #queue), while the *)
(* properties speak of rag_jobs rows, so the inductive invariant relates   *)
(* the two: QueueInv ties the pending rows to the queue, WorkerInv the     *)
(* running row and #running to the point the worker has reached, and       *)
(* RowInv says that only a destroyed source loses rows under a live job.   *)
(* The last part proves the registries of SyncTriggers on top of it.       *)
(***************************************************************************)
EXTENDS SyncTriggers, TLAPS

QueueInv ==
    /\ \A i \in DOMAIN queue : status[queue[i]] \in {"pending", "deleted"}
    /\ \A i, k \in DOMAIN queue : SourceOf[queue[i]] = SourceOf[queue[k]] => i = k
    /\ up => \A j \in Jobs : status[j] = "pending" => \E i \in DOMAIN queue : queue[i] = j

Holding == worker \in {"busy", "returned"}

WorkerInv ==
    /\ Holding => current \in Jobs /\ running = {SourceOf[current]}
    /\ ~Holding => running = {}
    /\ worker = "busy" => status[current] \in {"running", "deleted"}
    /\ worker = "returned" => status[current] \in Final \union {"deleted"}
    /\ up => \A j \in Jobs : status[j] = "running" => worker = "busy" /\ j = current
    /\ \A i \in DOMAIN queue : SourceOf[queue[i]] \notin running

RowInv == \A j \in Jobs : status[j] = "deleted" => source[SourceOf[j]] = "gone"

DownInv == ~up => queue = <<>> /\ worker = "idle"

IInv == TypeOK /\ QueueInv /\ WorkerInv /\ RowInv /\ DownInv
----------------------------------------------------------------------------
(* What shifting the oldest job leaves, in the terms the invariant uses. *)
LEMMA TailFacts ==
    ASSUME NEW q \in Seq(Jobs), q # <<>>
    PROVE  /\ Tail(q) \in Seq(Jobs)
           /\ Head(q) \in Jobs
           /\ Head(q) = q[1]
           /\ 1 \in DOMAIN q
           /\ \A i \in DOMAIN Tail(q) : i + 1 \in DOMAIN q /\ Tail(q)[i] = q[i + 1] /\ i \in Nat
           /\ \A i \in DOMAIN q : i # 1 => i - 1 \in DOMAIN Tail(q) /\ Tail(q)[i - 1] = q[i]
  OBVIOUS

LEMMA AppendFacts ==
    ASSUME NEW q \in Seq(Jobs), NEW j \in Jobs
    PROVE  /\ Append(q, j) \in Seq(Jobs)
           /\ Append(q, j) # <<>>
           /\ DOMAIN q \subseteq DOMAIN Append(q, j)
           /\ \A i \in DOMAIN q : Append(q, j)[i] = q[i]
           /\ \A i \in DOMAIN Append(q, j) : i \in DOMAIN q \/ (i = Len(q) + 1 /\ Append(q, j)[i] = j)
           /\ Len(q) + 1 \in DOMAIN Append(q, j)
           /\ Append(q, j)[Len(q) + 1] = j
  <1>1. DOMAIN q = 1 .. Len(q) /\ Len(q) \in Nat
    OBVIOUS
  <1>2. /\ Append(q, j) \in Seq(Jobs)
        /\ Len(Append(q, j)) = Len(q) + 1
        /\ DOMAIN Append(q, j) = 1 .. Len(q) + 1
    OBVIOUS
  <1>3. Append(q, j) # <<>>
    BY <1>1, <1>2
  <1>4. /\ \A i \in DOMAIN q : Append(q, j)[i] = q[i]
        /\ Append(q, j)[Len(q) + 1] = j
    OBVIOUS
  <1>5. QED
    BY <1>1, <1>2, <1>3, <1>4

LEMMA InitIInv == Init => IInv
  BY SyncQueueAssumption
  DEF Init, IInv, TypeOK, QueueInv, WorkerInv, RowInv, DownInv, Holding,
      WorkerState, JobStatus, SourceState, Active, Final

(* What an UPDATE of one row does to the table. *)
LEMMA SetStatusFacts ==
    ASSUME TypeOK, NEW j \in Jobs, NEW st \in JobStatus, SetStatus(j, st)
    PROVE  /\ status' \in [Jobs -> JobStatus]
           /\ \A k \in Jobs : k # j => status'[k] = status[k]
           /\ status[j] = "deleted" => status'[j] = "deleted"
           /\ status[j] # "deleted" => status'[j] = st
  BY DEF TypeOK, SetStatus

LEMMA AcceptKeeps == ASSUME IInv, NEW j \in Jobs, AcceptJob(j) PROVE IInv'
  <1>q. queue \in Seq(Jobs) /\ queue' = Append(queue, j)
    BY DEF IInv, TypeOK, AcceptJob, Push
  <1>f. /\ queue' \in Seq(Jobs)
        /\ queue' # <<>>
        /\ DOMAIN queue \subseteq DOMAIN queue'
        /\ \A i \in DOMAIN queue : queue'[i] = queue[i]
        /\ \A i \in DOMAIN queue' : i \in DOMAIN queue \/ (i = Len(queue) + 1 /\ queue'[i] = j)
        /\ Len(queue) + 1 \in DOMAIN queue'
        /\ queue'[Len(queue) + 1] = j
    BY <1>q, AppendFacts
  <1>r. /\ SourceOf[j] \notin running
        /\ \A i \in DOMAIN queue : SourceOf[queue[i]] # SourceOf[j]
    BY DEF AcceptJob, Rejects, Queued
  <1>s. /\ status \in [Jobs -> JobStatus]
        /\ status[j] = "none"
        /\ status' = [status EXCEPT ![j] = "pending"]
        /\ UNCHANGED <<running, current, source, up>>
        /\ up
        /\ MicrotaskPending => MicrotaskCallers
        /\ worker' = IF worker = "idle" THEN "starting" ELSE worker
    BY DEF IInv, TypeOK, AcceptJob, CallerRuns, Kick
  <1>q2. \A i \in DOMAIN queue : queue[i] \in Jobs
    BY <1>q
  <1>1. TypeOK'
    BY <1>f, <1>s DEF IInv, TypeOK, WorkerState, JobStatus, Active
  <1>2. QueueInv'
    BY <1>f, <1>r, <1>s, <1>q2 DEF IInv, QueueInv
  <1>3. WorkerInv'
    BY <1>f, <1>r, <1>s DEF IInv, WorkerInv, Holding, Final
  <1>4. RowInv' /\ DownInv'
    BY <1>s DEF IInv, RowInv, DownInv
  <1>5. QED
    BY <1>1, <1>2, <1>3, <1>4 DEF IInv

(* The facts of TailFacts about the queue left by the worker. *)
LEMMA ShiftFacts ==
    ASSUME IInv, TakeOldest
    PROVE  /\ queue' \in Seq(Jobs)
           /\ 1 \in DOMAIN queue
           /\ current' = queue[1]
           /\ queue[1] \in Jobs
           /\ running' = {SourceOf[queue[1]]}
           /\ \A i \in DOMAIN queue' : /\ i + 1 \in DOMAIN queue
                                       /\ i + 1 # 1
                                       /\ queue'[i] = queue[i + 1]
           /\ \A i, k \in DOMAIN queue' : i + 1 = k + 1 => i = k
           /\ \A i \in DOMAIN queue : i # 1 => \E k \in DOMAIN queue' : queue'[k] = queue[i]
  <1>1. queue \in Seq(Jobs) /\ queue # <<>> /\ queue' = Tail(queue)
    BY DEF IInv, TypeOK, TakeOldest
  <1>2. /\ current' = Head(queue)
        /\ running' = {SourceOf[Head(queue)]}
    BY DEF TakeOldest
  <1>3. \A i, k \in DOMAIN queue' : i + 1 = k + 1 => i = k
    BY <1>1, TailFacts
  <1>4. \A i \in DOMAIN queue' : i + 1 # 1
    BY <1>1
  <1>5. QED
    BY <1>1, <1>2, <1>3, <1>4, TailFacts

(* The two ways out of a shift differ only in the row's status and in whether *)
(* runJob has already settled.                                                *)
LEMMA ShiftKeeps ==
    ASSUME IInv, WorkerResumes, TakeOldest, UNCHANGED <<source, up>>,
           NEW st, SetStatus(Head(queue), st),
           \/ worker' = "busy" /\ st = "running"
           \/ worker' = "returned" /\ st = "failed"
    PROVE  IInv'
  <1>f. /\ queue' \in Seq(Jobs)
        /\ 1 \in DOMAIN queue
        /\ current' = queue[1]
        /\ queue[1] \in Jobs
        /\ running' = {SourceOf[queue[1]]}
        /\ \A i \in DOMAIN queue' : /\ i + 1 \in DOMAIN queue
                                    /\ i + 1 # 1
                                    /\ queue'[i] = queue[i + 1]
        /\ \A i, k \in DOMAIN queue' : i + 1 = k + 1 => i = k
        /\ \A i \in DOMAIN queue : i # 1 => \E k \in DOMAIN queue' : queue'[k] = queue[i]
    BY ShiftFacts
  <1>s. /\ status' \in [Jobs -> JobStatus]
        /\ \A k \in Jobs : k # queue[1] => status'[k] = status[k]
        /\ status[queue[1]] = "deleted" => status'[queue[1]] = "deleted"
        /\ status[queue[1]] # "deleted" => status'[queue[1]] = st
    <2>1. st \in JobStatus
      BY DEF JobStatus, Active, Final
    <2>2. queue[1] = Head(queue)
      BY <1>f DEF TakeOldest
    <2>3. QED
      BY <1>f, <2>1, <2>2, SetStatusFacts DEF IInv
  <1>q. \A i \in DOMAIN queue : queue[i] \in Jobs
    BY DEF IInv, TypeOK
  <1>u. up /\ worker \in {"starting", "returned"}
    BY DEF WorkerResumes
  <1>1. TypeOK'
    <2>1. running' \subseteq Sources
      BY <1>f, SyncQueueAssumption
    <2>2. worker' \in WorkerState
      BY DEF WorkerState
    <2>3. QED
      BY <1>f, <1>s, <1>u, <2>1, <2>2 DEF IInv, TypeOK
  <1>2. QueueInv'
    <2>1. \A i \in DOMAIN queue' : queue'[i] # queue[1]
      BY <1>f DEF IInv, QueueInv
    <2>2. \A i \in DOMAIN queue' : status'[queue'[i]] \in {"pending", "deleted"}
      BY <1>f, <1>s, <1>q, <2>1 DEF IInv, QueueInv
    <2>3. \A i, k \in DOMAIN queue' : SourceOf[queue'[i]] = SourceOf[queue'[k]] => i = k
      <3>1. \A i, k \in DOMAIN queue : SourceOf[queue[i]] = SourceOf[queue[k]] => i = k
        BY DEF IInv, QueueInv
      <3>2. ASSUME NEW i \in DOMAIN queue', NEW k \in DOMAIN queue',
                   SourceOf[queue'[i]] = SourceOf[queue'[k]]
            PROVE  i + 1 = k + 1
        <4>1. /\ i + 1 \in DOMAIN queue /\ queue'[i] = queue[i + 1]
              /\ k + 1 \in DOMAIN queue /\ queue'[k] = queue[k + 1]
          BY <1>f
        <4> QED
          BY <3>1, <3>2, <4>1
      <3> QED
        BY <1>f, <3>2
    <2>4. \A j \in Jobs : status'[j] = "pending" => \E i \in DOMAIN queue' : queue'[i] = j
      BY <1>f, <1>s, <1>u DEF IInv, QueueInv
    <2>5. QED
      BY <2>2, <2>3, <2>4 DEF QueueInv
  <1>3. WorkerInv'
    <2>1. \A i \in DOMAIN queue' : SourceOf[queue'[i]] \notin running'
      BY <1>f DEF IInv, QueueInv
    <2>2. \A j \in Jobs : status[j] # "running"
      BY <1>u DEF IInv, WorkerInv
    <2>3. QED
      BY <1>f, <1>s, <2>1, <2>2 DEF WorkerInv, Holding, Final
  <1>4. RowInv'
    BY <1>f, <1>s DEF IInv, RowInv
  <1>5. DownInv'
    BY <1>u DEF DownInv
  <1>6. QED
    BY <1>1, <1>2, <1>3, <1>4, <1>5 DEF IInv

LEMMA BeginKeeps == ASSUME IInv, BeginJob PROVE IInv'
  BY ShiftKeeps DEF BeginJob

LEMMA RefuseKeeps == ASSUME IInv, RefuseJob PROVE IInv'
  BY ShiftKeeps DEF RefuseJob

LEMMA LeaveKeeps == ASSUME IInv, LeaveLoop PROVE IInv'
  <1> USE DEF IInv, LeaveLoop
  <1>1. TypeOK'
    BY DEF TypeOK, WorkerState
  <1>2. QueueInv' /\ RowInv'
    BY DEF QueueInv, RowInv
  <1>3. WorkerInv'
    BY DEF WorkerInv, Holding, WorkerResumes
  <1>4. DownInv'
    BY DEF DownInv, WorkerResumes
  <1>5. QED
    BY <1>1, <1>2, <1>3, <1>4

LEMMA EndKeeps == ASSUME IInv, EndJob PROVE IInv'
  <1> USE DEF IInv, EndJob
  <1>o. PICK outcome \in Final : SetStatus(current, outcome)
    OBVIOUS
  <1>c. /\ current \in Jobs
        /\ running = {SourceOf[current]}
        /\ status[current] \in {"running", "deleted"}
        /\ outcome \in JobStatus
    BY DEF WorkerInv, Holding, JobStatus
  <1>s. /\ status' \in [Jobs -> JobStatus]
        /\ \A k \in Jobs : k # current => status'[k] = status[k]
        /\ status[current] = "deleted" => status'[current] = "deleted"
        /\ status[current] # "deleted" => status'[current] = outcome
    BY <1>o, <1>c, SetStatusFacts
  <1>q. \A i \in DOMAIN queue : queue[i] \in Jobs
    BY DEF TypeOK
  <1>1. TypeOK'
    BY <1>s DEF TypeOK, WorkerState
  <1>2. QueueInv'
    BY <1>o, <1>c, <1>s, <1>q DEF QueueInv, WorkerInv, Final
  <1>3. WorkerInv'
    BY <1>o, <1>c, <1>s DEF WorkerInv, Holding, Final
  <1>4. RowInv'
    BY <1>o, <1>c, <1>s DEF RowInv, Final
  <1>5. DownInv'
    BY DEF DownInv
  <1>6. QED
    BY <1>1, <1>2, <1>3, <1>4, <1>5

LEMMA ClearKeeps == ASSUME IInv, ClearWorker PROVE IInv'
  BY DEF IInv, TypeOK, QueueInv, WorkerInv, RowInv, DownInv, Holding,
         ClearWorker, WorkerState

(* Trashing and restoring touch no row; destroying only marks the source's. *)
LEMMA SourceKeeps ==
    ASSUME IInv, NEW s \in Sources, TrashSource(s) \/ RestoreSource(s) PROVE IInv'
  <1> USE DEF IInv, queueVars
  <1>1. PICK before, after \in {"live", "trashed"} : SetSource(s, {before}, after)
    BY DEF TrashSource, RestoreSource
  <1>2. /\ UNCHANGED <<queue, running, worker, current, status, up>>
        /\ source[s] # "gone"
        /\ source' = [source EXCEPT ![s] = after]
    BY <1>1 DEF TrashSource, RestoreSource, SetSource
  <1>3. TypeOK'
    BY <1>2 DEF TypeOK, SourceState
  <1>4. RowInv'
    BY <1>2, SyncQueueAssumption DEF RowInv, TypeOK
  <1>5. QueueInv' /\ WorkerInv' /\ DownInv'
    BY <1>2 DEF QueueInv, WorkerInv, DownInv, Holding
  <1>6. QED
    BY <1>3, <1>4, <1>5

LEMMA DestroyKeeps == ASSUME IInv, NEW s \in Sources, DestroySource(s) PROVE IInv'
  <1> USE DEF IInv, queueVars
  <1>1. /\ UNCHANGED <<queue, running, worker, current, up>>
        /\ source' = [source EXCEPT ![s] = "gone"]
    BY DEF DestroySource, SetSource
  <1>2. /\ status' \in [Jobs -> JobStatus]
        /\ \A j \in Jobs : status'[j] = status[j]
                           \/ (status'[j] = "deleted" /\ SourceOf[j] = s /\ status[j] # "none")
    BY DEF DestroySource, WithoutRowsOf, TypeOK, JobStatus
  <1>q. \A i \in DOMAIN queue : queue[i] \in Jobs
    BY DEF TypeOK
  <1>3. TypeOK'
    BY <1>1, <1>2 DEF TypeOK, SourceState
  <1>4. QueueInv'
    BY <1>1, <1>2, <1>q DEF QueueInv
  <1>5. WorkerInv'
    BY <1>1, <1>2 DEF WorkerInv, Holding
  <1>6. RowInv'
    BY <1>1, <1>2, SyncQueueAssumption DEF RowInv, TypeOK
  <1>7. DownInv'
    BY <1>1 DEF DownInv
  <1>8. QED
    BY <1>3, <1>4, <1>5, <1>6, <1>7

LEMMA CrashKeeps == ASSUME IInv, Crash PROVE IInv'
  <1> USE DEF IInv, Crash
  <1>1. queue' \in Seq(Jobs) /\ DOMAIN queue' = {}
    OBVIOUS
  <1>2. TypeOK'
    BY <1>1 DEF TypeOK, WorkerState
  <1>3. QueueInv' /\ RowInv'
    BY <1>1 DEF QueueInv, RowInv
  <1>4. WorkerInv'
    BY <1>1 DEF WorkerInv, Holding
  <1>5. DownInv'
    BY DEF DownInv
  <1>6. QED
    BY <1>2, <1>3, <1>4, <1>5

LEMMA BootKeeps == ASSUME IInv, Boot PROVE IInv'
  <1> USE DEF IInv, queueVars
  <1>p. PICK expired \in SUBSET {s \in Sources : source[s] = "trashed"} :
            /\ status' = WithoutRowsOf(expired, Swept)
            /\ source' = [s \in Sources |-> IF s \in expired THEN "gone" ELSE source[s]]
    BY DEF Boot
  <1>v. ~up /\ up' /\ UNCHANGED <<queue, running, worker, current>>
    BY DEF Boot
  <1>1. /\ status' \in [Jobs -> JobStatus]
        /\ \A j \in Jobs : status'[j] \notin Active
    BY <1>p DEF WithoutRowsOf, Swept, TypeOK, JobStatus, Active, Final
  <1>2. queue = <<>> /\ DOMAIN queue = {} /\ worker = "idle"
    BY <1>v DEF DownInv
  <1>3. TypeOK'
    BY <1>1, <1>p, <1>v DEF TypeOK, SourceState
  <1>4. QueueInv'
    BY <1>1, <1>2, <1>v DEF QueueInv, Active
  <1>5. WorkerInv'
    BY <1>1, <1>2, <1>v DEF WorkerInv, Holding, Active
  <1>6. RowInv'
    <2> SUFFICES ASSUME NEW j \in Jobs, status'[j] = "deleted"
                 PROVE  source'[SourceOf[j]] = "gone"
      BY DEF RowInv
    <2>1. SourceOf[j] \in Sources
      BY SyncQueueAssumption
    <2>2. CASE SourceOf[j] \in expired
      BY <1>p, <2>1, <2>2
    <2>3. CASE SourceOf[j] \notin expired
      <3>1. status[j] = "deleted"
        BY <1>p, <2>3 DEF WithoutRowsOf, Swept
      <3>2. QED
        BY <1>p, <2>1, <2>3, <3>1 DEF RowInv
    <2>4. QED
      BY <2>2, <2>3
  <1>7. DownInv'
    BY <1>2, <1>v DEF DownInv
  <1>8. QED
    BY <1>3, <1>4, <1>5, <1>6, <1>7

(***************************************************************************)
(* Every step of the queue keeps the inductive invariant.                  *)
(***************************************************************************)
LEMMA StepIInv == IInv /\ [Next]_vars => IInv'
  <1> SUFFICES ASSUME IInv, [Next]_vars PROVE IInv'
    OBVIOUS
  <1>1. ASSUME NEW j \in Jobs, AcceptJob(j) PROVE IInv'
    BY <1>1, AcceptKeeps
  <1>2. CASE BeginJob
    BY <1>2, BeginKeeps
  <1>3. CASE RefuseJob
    BY <1>3, RefuseKeeps
  <1>4. CASE LeaveLoop
    BY <1>4, LeaveKeeps
  <1>5. CASE EndJob
    BY <1>5, EndKeeps
  <1>6. CASE ClearWorker
    BY <1>6, ClearKeeps
  <1>7. CASE Crash
    BY <1>7, CrashKeeps
  <1>8. CASE Boot
    BY <1>8, BootKeeps
  <1>9. ASSUME NEW s \in Sources, TrashSource(s) \/ RestoreSource(s) PROVE IInv'
    BY <1>9, SourceKeeps
  <1>10. ASSUME NEW s \in Sources, DestroySource(s) PROVE IInv'
    BY <1>10, DestroyKeeps
  <1>11. CASE UNCHANGED vars
    BY <1>11
    DEF vars, IInv, TypeOK, QueueInv, WorkerInv, RowInv, DownInv, Holding
  <1>12. QED
    BY <1>1, <1>2, <1>3, <1>4, <1>5, <1>6, <1>7, <1>8, <1>9, <1>10, <1>11
    DEF Next, Worker, RejectJob

(***************************************************************************)
(* Type correctness of every reachable state.                              *)
(***************************************************************************)
THEOREM TypeCorrect == Spec => []TypeOK
  <1>1. IInv => TypeOK
    BY DEF IInv
  <1>2. QED
    BY <1>1, InitIInv, StepIInv, PTL DEF Spec

(* The row of a source that is refused, and the refusal a row stands for. *)
LEMMA AgreeFromInv == IInv => RefusedIffActiveRow
  <1> SUFFICES ASSUME IInv, up, ~MicrotaskPending, NEW s \in Sources, source[s] # "gone"
               PROVE  Rejects(s) <=> \E j \in Jobs : SourceOf[j] = s /\ status[j] \in Active
    BY DEF RefusedIffActiveRow
  <1>1. worker \in {"idle", "busy"}
    BY DEF IInv, TypeOK, WorkerState, MicrotaskPending
  <1>d. \A j \in Jobs : SourceOf[j] = s => status[j] # "deleted"
    BY DEF IInv, RowInv
  <1>q. \A i \in DOMAIN queue : queue[i] \in Jobs
    BY DEF IInv, TypeOK
  <1>2. ASSUME Rejects(s)
        PROVE  \E j \in Jobs : SourceOf[j] = s /\ status[j] \in Active
    <2>1. CASE s \in running
      <3>1. current \in Jobs /\ SourceOf[current] = s /\ status[current] \in {"running", "deleted"}
        BY <1>1, <2>1 DEF IInv, WorkerInv, Holding
      <3>2. QED
        BY <1>d, <3>1 DEF Active
    <2>2. CASE \E j \in Queued : SourceOf[j] = s
      <3>1. PICK i \in DOMAIN queue : SourceOf[queue[i]] = s
        BY <2>2 DEF Queued
      <3>2. QED
        BY <1>d, <1>q, <3>1 DEF IInv, QueueInv, Active
    <2>3. QED
      BY <1>2, <2>1, <2>2 DEF Rejects
  <1>3. ASSUME NEW j \in Jobs, SourceOf[j] = s, status[j] \in Active
        PROVE  Rejects(s)
    <2>1. CASE status[j] = "pending"
      BY <1>3, <2>1 DEF IInv, QueueInv, Queued, Rejects
    <2>2. CASE status[j] = "running"
      BY <1>3, <2>2 DEF IInv, WorkerInv, Holding, Rejects
    <2>3. QED
      BY <1>3, <2>1, <2>2 DEF Active
  <1>4. QED
    BY <1>2, <1>3

(***************************************************************************)
(* Memory and rows agree whenever the event loop is between macrotasks:    *)
(* for any number of sources, jobs, restarts and callers.                  *)
(***************************************************************************)
THEOREM MemoryMatchesRows == Spec => []RefusedIffActiveRow
  BY AgreeFromInv, InitIInv, StepIInv, PTL DEF Spec

(* Two unfinished jobs of a source: both queued, both running, or one each. *)
LEMMA DedupeFromInv == IInv => OneActiveJobPerSource
  <1> SUFFICES ASSUME IInv, up, NEW j \in Jobs, NEW k \in Jobs,
                      status[j] \in Active, status[k] \in Active, SourceOf[j] = SourceOf[k]
               PROVE  j = k
    BY DEF OneActiveJobPerSource
  <1>1. CASE status[j] = "pending" /\ status[k] = "pending"
    BY <1>1 DEF IInv, QueueInv
  <1>2. CASE status[j] = "running" /\ status[k] = "running"
    BY <1>2 DEF IInv, WorkerInv
  <1>3. ASSUME NEW p \in Jobs, NEW r \in Jobs, status[p] = "pending", status[r] = "running"
        PROVE  SourceOf[p] # SourceOf[r]
    BY <1>3 DEF IInv, QueueInv, WorkerInv, Holding
  <1>4. QED
    BY <1>1, <1>2, <1>3 DEF Active

(***************************************************************************)
(* Per-source dedupe holds in the database, also when callers enqueue from *)
(* the middle of the worker's continuations.                               *)
(***************************************************************************)
THEOREM PerSourceDedupe == Spec => []OneActiveJobPerSource
  BY DedupeFromInv, InitIInv, StepIInv, PTL DEF Spec

(* Only the worker's current job has a running row. *)
LEMMA SerialFromInv == IInv => OneJobRuns
  BY DEF IInv, WorkerInv, OneJobRuns

(* At most one sync runs at a time. *)
THEOREM Serialized == Spec => []OneJobRuns
  BY SerialFromInv, InitIInv, StepIInv, PTL DEF Spec

(* A caller accepts a job while the .finally of #kick is due. *)
InWindow == worker = "exiting" /\ \E j \in Jobs : AcceptJob(j)

(* A job is stranded, or joins the stranded ones, in the window only: the *)
(* worker leaves an empty queue, and the .finally adds nothing to it.     *)
LEMMA StrandsInWindow ==
    ASSUME IInv, [Next]_vars, Stranded', ~Stranded \/ queue' # queue
    PROVE  InWindow
  <1>1. ASSUME NEW j \in Jobs, AcceptJob(j) PROVE InWindow
    BY <1>1 DEF AcceptJob, Kick, CallerRuns, MicrotaskPending, InWindow, Stranded
  <1>2. CASE BeginJob \/ RefuseJob \/ LeaveLoop \/ EndJob \/ Crash
    BY <1>2 DEF BeginJob, RefuseJob, LeaveLoop, EndJob, Crash, WorkerResumes, Stranded
  <1>3. CASE ClearWorker \/ UNCHANGED vars
    BY <1>3 DEF ClearWorker, vars, Stranded
  <1>4. CASE \/ \E j \in Jobs : RejectJob(j)
             \/ \E s \in Sources : TrashSource(s) \/ RestoreSource(s) \/ DestroySource(s)
             \/ Boot
    BY <1>4
    DEF RejectJob, TrashSource, RestoreSource, DestroySource, Boot, queueVars, vars, Stranded
  <1>5. QED
    BY <1>1, <1>2, <1>3, <1>4 DEF Next, Worker

(***************************************************************************)
(* The contract of enqueue, for every kind of caller: a queued job always  *)
(* has a worker, but for the jobs accepted between the end of the loop and *)
(* the .finally.  A run in which nobody enqueues there strands no job: the *)
(* second half says that this window is the only thing to close.           *)
(***************************************************************************)
THEOREM EnqueueContract ==
    Spec => OnlyTheWindowStrands /\ ([][~InWindow]_vars => []~Stranded)
  <1>1. IInv /\ [Next]_vars => [Stranded' /\ (~Stranded \/ queue' # queue) => InWindow]_vars
    BY StrandsInWindow
  <1>2. Init => ~Stranded
    BY DEF Init, Stranded
  <1>3. IInv /\ [Next]_vars /\ [~InWindow]_vars /\ ~Stranded => ~Stranded'
    BY StrandsInWindow DEF vars, Stranded
  <1>4. Spec => [][Stranded' /\ (~Stranded \/ queue' # queue) => InWindow]_vars
    BY <1>1, InitIInv, StepIInv, PTL DEF Spec
  <1>5. Spec /\ [][~InWindow]_vars => []~Stranded
    BY <1>2, <1>3, InitIInv, StepIInv, PTL DEF Spec
  <1>6. QED
    BY <1>4, <1>5 DEF OnlyTheWindowStrands, InWindow

(***************************************************************************)
(* The queue implements the service: every step of the code is one step of *)
(* SyncService or leaves its state alone.                                  *)
(***************************************************************************)
THEOREM QueueServesInOrder == Spec => ServesInOrder
  <1> DEFINE Busy(j) == worker = "busy" /\ j = current
             Serving == IF worker = "busy" THEN {current} ELSE {}
             Gone == {j \in Jobs : status[j] # "none" /\ j \notin Queued /\ ~Busy(j)}
  <1>1. Init => Service!Init
    BY DEF Init, Service!Init
  <1>2. IInv /\ [Next]_vars => [Service!Next]_(Service!serviceVars)
    <2> SUFFICES ASSUME IInv, [Next]_vars PROVE [Service!Next]_(Service!serviceVars)
      OBVIOUS
    <2>q. \A i \in DOMAIN queue : queue[i] \in Jobs /\ status[queue[i]] # "none"
      BY DEF IInv, TypeOK, QueueInv
    <2>1. ASSUME NEW j \in Jobs, AcceptJob(j) PROVE Service!Accept(j)
      <3>1. \A k \in Service!Inside : SourceOf[k] # SourceOf[j]
        BY <2>1 DEF AcceptJob, Rejects, Queued, Service!Inside, IInv, WorkerInv, Holding
      <3>2. /\ queue' = Append(queue, j)
            /\ Queued' = Queued \union {j}
        <4>1. queue \in Seq(Jobs) /\ queue' = Append(queue, j)
          BY <2>1 DEF AcceptJob, Push, IInv, TypeOK
        <4>2. QED
          BY <4>1, AppendFacts DEF Queued
      <3>3. /\ status[j] = "none"
            /\ status' = [status EXCEPT ![j] = "pending"]
            /\ status \in [Jobs -> JobStatus]
            /\ current' = current
            /\ worker' = "busy" <=> worker = "busy"
        BY <2>1 DEF AcceptJob, Kick, CallerRuns, IInv, TypeOK
      <3>4. j \notin Gone /\ Gone' = Gone /\ Serving' = Serving
        BY <3>2, <3>3
      <3>5. QED
        BY <3>1, <3>2, <3>4 DEF Service!Accept
    <2>s. ASSUME WorkerResumes, TakeOldest,
                 NEW st \in JobStatus \ {"none"}, SetStatus(Head(queue), st)
          PROVE  /\ Queued = Queued' \union {Head(queue)}
                 /\ Head(queue) \notin Queued'
                 /\ Head(queue) \in Jobs
                 /\ \A j \in Jobs : status'[j] = "none" <=> status[j] = "none"
      <3>1. Head(queue) = queue[1] /\ 1 \in DOMAIN queue
        BY <2>s DEF TakeOldest, IInv, TypeOK
      <3>2. /\ \A i \in DOMAIN queue' : i + 1 \in DOMAIN queue /\ i + 1 # 1 /\ queue'[i] = queue[i + 1]
            /\ \A i \in DOMAIN queue : i # 1 => \E k \in DOMAIN queue' : queue'[k] = queue[i]
        BY <2>s, ShiftFacts
      <3>3. Queued = Queued' \union {queue[1]}
        BY <3>1, <3>2 DEF Queued
      <3>4. queue[1] \notin Queued'
        BY <3>1, <3>2 DEF Queued, IInv, QueueInv
      <3>5. \A j \in Jobs : status'[j] = "none" <=> status[j] = "none"
        BY <2>s, <2>q, <3>1, SetStatusFacts DEF IInv
      <3>6. QED
        BY <2>q, <3>1, <3>3, <3>4, <3>5
    <2>2. ASSUME BeginJob PROVE Service!Serve
      <3>1. WorkerResumes /\ TakeOldest /\ worker' = "busy" /\ SetStatus(Head(queue), "running")
        BY <2>2 DEF BeginJob
      <3>2. Gone' = Gone
        BY <2>s, <3>1 DEF WorkerResumes, TakeOldest, JobStatus, Active
      <3>3. QED
        BY <3>1, <3>2 DEF WorkerResumes, TakeOldest, Service!Serve
    <2>3. ASSUME RefuseJob PROVE Service!Decline
      <3>1. WorkerResumes /\ TakeOldest /\ worker' = "returned" /\ SetStatus(Head(queue), "failed")
        BY <2>3 DEF RefuseJob
      <3>2. status[Head(queue)] # "none"
        BY <2>q, <3>1 DEF TakeOldest, IInv, TypeOK
      <3>3. Gone' = Gone \union {Head(queue)}
        BY <2>s, <3>1, <3>2 DEF WorkerResumes, TakeOldest, JobStatus, Final
      <3>4. QED
        BY <3>1, <3>3 DEF WorkerResumes, TakeOldest, Service!Decline
    <2>4. ASSUME LeaveLoop \/ ClearWorker PROVE UNCHANGED <<queue, Serving, Gone>>
      BY <2>4 DEF LeaveLoop, ClearWorker, WorkerResumes, Queued
    <2>5. ASSUME EndJob PROVE Service!Complete
      <3>1. current \in Jobs /\ status[current] # "none" /\ current \notin Queued
        BY <2>5 DEF EndJob, IInv, WorkerInv, Holding, Queued
      <3>2. \A j \in Jobs : status'[j] = "none" <=> status[j] = "none"
        <4>1. PICK outcome \in Final : SetStatus(current, outcome)
          BY <2>5 DEF EndJob
        <4>2. QED
          BY <3>1, <4>1, SetStatusFacts DEF IInv, JobStatus, Final
      <3>3. Gone' = Gone \union {current}
        BY <2>5, <3>1, <3>2 DEF EndJob, Queued
      <3>4. QED
        BY <2>5, <3>3 DEF EndJob, Service!Complete
    <2>6. ASSUME Crash PROVE Service!Drop
      <3>1. Gone' = Gone \union Queued \union Serving
        BY <2>6, <2>q DEF Crash, Queued, IInv, WorkerInv, Holding, Final
      <3>2. QED
        BY <2>6, <3>1 DEF Crash, Service!Drop, Service!Inside, Queued
    <2>7. ASSUME \/ \E s \in Sources : TrashSource(s) \/ RestoreSource(s) \/ DestroySource(s)
                 \/ Boot
          PROVE  UNCHANGED <<queue, Serving, Gone>>
      <3>1. UNCHANGED <<queue, worker, current>>
        BY <2>7 DEF TrashSource, RestoreSource, DestroySource, Boot, queueVars
      <3>2. \A j \in Jobs : status'[j] = "none" <=> status[j] = "none"
        BY <2>7 DEF TrashSource, RestoreSource, DestroySource, Boot, WithoutRowsOf, Swept, Active
      <3>3. QED
        BY <3>1, <3>2 DEF Queued
    <2>8. ASSUME UNCHANGED vars PROVE UNCHANGED <<queue, Serving, Gone>>
      BY <2>8 DEF vars, Queued
    <2>9. QED
      BY <2>1, <2>2, <2>3, <2>4, <2>5, <2>6, <2>7, <2>8
      DEF Next, Worker, RejectJob, Service!Next, Service!serviceVars
  <1>3. QED
    BY <1>1, <1>2, InitIInv, StepIInv, PTL DEF Spec, ServesInOrder, Service!SafeSpec

(***************************************************************************)
(* How far the worker is from having nothing left to do: three steps for   *)
(* each waiting job, and those of the round it is in.                      *)
(***************************************************************************)
StepsLeft ==
    3 * Len(queue) + CASE worker = "busy" -> 3
                       [] worker \in {"starting", "returned"} -> 2
                       [] worker = "exiting" -> 1
                       [] OTHER -> 0

(***************************************************************************)
(* The argument for termination of #run, less the fairness of the event    *)
(* loop: every step of the worker brings it closer to being idle with an   *)
(* empty queue, and only an accepted job ever gives it more to do.         *)
(***************************************************************************)
WorkerDrains ==
    /\ Worker => StepsLeft' < StepsLeft
    /\ StepsLeft' > StepsLeft => \E j \in Jobs : AcceptJob(j)

THEOREM WorkerGetsThrough == Spec => [][WorkerDrains]_vars
  <1>1. IInv /\ [Next]_vars => [WorkerDrains]_vars
    <2> SUFFICES ASSUME IInv, Next PROVE WorkerDrains
      BY DEF WorkerDrains
    <2>t. queue \in Seq(Jobs) /\ worker \in WorkerState
      BY DEF IInv, TypeOK
    <2>t2. queue' \in Seq(Jobs) /\ worker' \in WorkerState
      BY StepIInv DEF IInv, TypeOK
    <2>n. StepsLeft \in Nat /\ Len(queue) \in Nat
      BY <2>t DEF StepsLeft, WorkerState
    <2>1. ASSUME BeginJob \/ RefuseJob PROVE StepsLeft' < StepsLeft
      <3>1. /\ worker \in {"starting", "returned"}
            /\ worker' \in {"busy", "returned"}
            /\ queue # <<>> /\ queue' = Tail(queue)
        BY <2>1 DEF BeginJob, RefuseJob, WorkerResumes, TakeOldest
      <3>2. Len(queue') = Len(queue) - 1 /\ Len(queue) > 0
        BY <2>t, <3>1
      <3>3. QED
        BY <2>n, <3>1, <3>2 DEF StepsLeft
    <2>2. ASSUME LeaveLoop \/ EndJob \/ ClearWorker PROVE StepsLeft' < StepsLeft
      BY <2>2, <2>n DEF LeaveLoop, EndJob, ClearWorker, WorkerResumes, StepsLeft
    <2>3. Worker => StepsLeft' < StepsLeft
      BY <2>1, <2>2 DEF Worker
    <2>4. ASSUME \/ \E j \in Jobs : RejectJob(j)
                 \/ \E s \in Sources : TrashSource(s) \/ RestoreSource(s) \/ DestroySource(s)
                 \/ Boot
          PROVE  StepsLeft' = StepsLeft
      BY <2>4
      DEF RejectJob, TrashSource, RestoreSource, DestroySource, Boot, queueVars, vars, StepsLeft
    <2>5. ASSUME Crash PROVE StepsLeft' = 0
      BY <2>5 DEF Crash, StepsLeft
    <2>6. StepsLeft' > StepsLeft => \E j \in Jobs : AcceptJob(j)
      <3>1. ASSUME ~\E j \in Jobs : AcceptJob(j)
            PROVE  \/ StepsLeft' = StepsLeft
                   \/ StepsLeft' < StepsLeft
                   \/ StepsLeft' = 0
        BY <2>3, <2>4, <2>5, <3>1 DEF Next
      <3>2. StepsLeft' \in Nat
        BY <2>t2 DEF StepsLeft, WorkerState
      <3>3. QED
        BY <2>n, <3>1, <3>2
    <2>7. QED
      BY <2>3, <2>6 DEF WorkerDrains
  <1>2. QED
    BY <1>1, InitIInv, StepIInv, PTL DEF Spec
----------------------------------------------------------------------------
(* The timers and watchers.  A process that is down watches nothing and has *)
(* nothing to flush: what start() registers is all there is after a boot.   *)
DownWatchInv == ~up => watcher = {} /\ flush = {}

TriggersInv ==
    IInv /\ TriggersTypeOK /\ TimersMatchRows /\ NoOrphanWatch /\ DownWatchInv /\ NoChangeForgotten

LEMMA InitTriggersInv == TriggersInit => TriggersInv
  BY InitIInv, SyncTriggersAssumption
  DEF TriggersInit, TriggersInv, IInv, TriggersTypeOK, TimersMatchRows, NoOrphanWatch,
      DownWatchInv, NoChangeForgotten, Live, Init

(* Forgetting a finished row concerns neither the queue nor the worker. *)
LEMMA ForgetKeeps == ASSUME IInv, NEW j \in Jobs, ForgetRow(j) PROVE IInv'
  <1> USE DEF IInv
  <1>1. /\ UNCHANGED <<queue, running, worker, current, source, up>>
        /\ status[j] \in Final
        /\ j # current
        /\ status' \in [Jobs -> JobStatus]
        /\ \A k \in Jobs : status'[k] = IF k = j THEN "none" ELSE status[k]
    BY DEF ForgetRow, queueVars, TypeOK, JobStatus
  <1>2. TypeOK' /\ RowInv' /\ DownInv'
    BY <1>1 DEF TypeOK, RowInv, DownInv
  <1>3. QueueInv'
    <2>1. \A i \in DOMAIN queue : queue[i] \in Jobs /\ queue[i] # j
      BY <1>1 DEF TypeOK, QueueInv, Final
    <2>2. QED
      BY <1>1, <2>1 DEF QueueInv
  <1>4. WorkerInv'
    BY <1>1 DEF WorkerInv, Holding
  <1>5. QED
    BY <1>2, <1>3, <1>4

(* A step of the composition is a step of the queue, or forgets a row. *)
LEMMA StepsOfQueue ==
    ASSUME [TriggersNext]_allVars
    PROVE  [Next]_vars \/ \E j \in Jobs : ForgetRow(j)
  <1>1. ASSUME NEW s \in Sources, Triggered(s) \/ NotTriggered(s) PROVE [Next]_vars
    BY <1>1 DEF Triggered, NotTriggered, Next
  <1>2. ASSUME NEW s \in Sources, PollTick(s) \/ WatchEvent(s) \/ Flush(s) \/ FlushThrows(s)
        PROVE  [Next]_vars
    BY <1>1, <1>2 DEF PollTick, WatchEvent, Flush, FlushThrows
  <1>3. ASSUME Handlers PROVE [Next]_vars
    BY <1>3 DEF Handlers, PatchPolling, PatchConfig, Trash, Restore, Destroy, Next
  <1>4. ASSUME NEW j \in Jobs, Request(j) PROVE [Next]_vars
    BY <1>4 DEF Request, Next
  <1>5. ASSUME TakeJob \/ WorkerElse \/ CrashAll \/ BootAll PROVE [Next]_vars
    BY <1>5 DEF TakeJob, WorkerElse, CrashAll, BootAll, Next, Worker
  <1>6. ASSUME UNCHANGED allVars PROVE [Next]_vars
    BY <1>6 DEF allVars
  <1>7. QED
    BY <1>2, <1>3, <1>4, <1>5, <1>6 DEF TriggersNext

LEMMA QueueStepKeeps == ASSUME IInv, [TriggersNext]_allVars PROVE IInv'
  BY StepsOfQueue, StepIInv, ForgetKeeps

(***************************************************************************)
(* What the steps that touch neither a source row nor the process do to    *)
(* the registries: the rows decide about timers, watchers keep flushes.    *)
(***************************************************************************)
LEMMA QuietStep ==
    ASSUME TriggersInv, UNCHANGED <<source, up, polled, pollTimer, watcher>>,
           flush' \subseteq flush \union watcher, owed' \subseteq owed \union Sources, TypeOK'
    PROVE  TriggersTypeOK' /\ TimersMatchRows' /\ NoOrphanWatch' /\ DownWatchInv'
  BY SyncTriggersAssumption
  DEF TriggersInv, TriggersTypeOK, TimersMatchRows, NoOrphanWatch, DownWatchInv, Live

(* Upserting a live source, or removing a watcher, keeps flushes watched. *)
LEMMA WatchStep ==
    ASSUME TriggersInv, NEW s \in Sources, UpsertWatcher(s) \/ RemoveWatcher(s)
    PROVE  /\ watcher' \subseteq LocalSources
           /\ watcher' \subseteq watcher \union {s}
           /\ flush' \subseteq watcher'
           /\ owed' \subseteq Sources
           /\ RemoveWatcher(s) => s \notin watcher'
  BY DEF UpsertWatcher, RemoveWatcher, TriggersInv, TriggersTypeOK, NoOrphanWatch

(* What becomes of the queued jobs: an accepted one joins them, and only the *)
(* oldest leaves.                                                            *)
LEMMA QueuedFacts ==
    ASSUME IInv
    PROVE  /\ \A j \in Jobs : AcceptJob(j) => Queued \subseteq Queued' /\ j \in Queued'
           /\ TakeOldest => Queued \subseteq Queued' \union {Head(queue)}
  <1>1. ASSUME NEW j \in Jobs, AcceptJob(j) PROVE Queued \subseteq Queued' /\ j \in Queued'
    <2>1. queue \in Seq(Jobs) /\ queue' = Append(queue, j)
      BY <1>1 DEF AcceptJob, Push, IInv, TypeOK
    <2>2. QED
      BY <2>1, AppendFacts DEF Queued
  <1>2. ASSUME TakeOldest PROVE Queued \subseteq Queued' \union {Head(queue)}
    <2>1. queue \in Seq(Jobs) /\ queue # <<>>
      BY <1>2 DEF TakeOldest, IInv, TypeOK
    <2>2. \A i \in DOMAIN queue : i = 1 \/ \E k \in DOMAIN queue' : queue'[k] = queue[i]
      BY <1>2, ShiftFacts
    <2>3. Head(queue) = queue[1]
      BY <2>1
    <2>4. QED
      BY <2>2, <2>3 DEF Queued
  <1>3. QED
    BY <1>1, <1>2

(***************************************************************************)
(* A change is only ever handed on: from the debounce timer to a job, and  *)
(* from the job to the sync that takes it up.                              *)
(***************************************************************************)
LEMMA ChangeHandedOn ==
    ASSUME TriggersInv, [TriggersNext]_allVars PROVE NoChangeForgotten'
  <1> DEFINE HasJob(s) == \E j \in Queued : SourceOf[j] = s
  <1>i. IInv /\ flush \subseteq watcher /\ watcher \subseteq Live
        /\ \A s \in owed : s \in flush \/ HasJob(s)
    BY DEF TriggersInv, NoOrphanWatch, NoChangeForgotten
  <1>k. ASSUME Queued \subseteq Queued', owed' \subseteq owed,
               \A s \in owed' : s \in flush => s \in flush' \/ HasJob(s)'
        PROVE  NoChangeForgotten'
    BY <1>k, <1>i DEF NoChangeForgotten
  <1>s. UNCHANGED vars => Queued' = Queued
    BY DEF vars, Queued
  <1>1. ASSUME NEW s \in Sources, PollTick(s) PROVE NoChangeForgotten'
    <2>1. Queued \subseteq Queued'
      BY <1>1, <1>i, <1>s, QueuedFacts DEF PollTick, Triggered, NotTriggered, vars
    <2>2. QED
      BY <1>1, <1>k, <2>1 DEF PollTick, triggerVars
  <1>2. ASSUME NEW s \in Sources, WatchEvent(s) PROVE NoChangeForgotten'
    BY <1>2, <1>i, <1>s DEF WatchEvent, NoChangeForgotten
  <1>3. ASSUME NEW s \in Sources, Flush(s) PROVE NoChangeForgotten'
    <2>1. s \in watcher /\ UNCHANGED owed
      BY <1>3, <1>i DEF Flush
    <2>2. CASE Triggered(s) /\ flush' = flush \ {s}
      <3>1. Queued \subseteq Queued' /\ HasJob(s)'
        BY <2>2, <1>i, QueuedFacts, SyncQueueAssumption DEF Triggered
      <3>2. QED
        BY <1>k, <2>1, <2>2, <3>1
    <2>3. CASE NotTriggered(s) /\ flush' = IF s \in watcher THEN flush ELSE flush \ {s}
      BY <1>k, <1>s, <2>1, <2>3 DEF NotTriggered
    <2>4. QED
      BY <1>3, <2>2, <2>3 DEF Flush
  <1>4. ASSUME NEW s \in Sources, FlushThrows(s) PROVE NoChangeForgotten'
    BY <1>4, <1>k, <1>s DEF FlushThrows
  <1>5. ASSUME Handlers PROVE NoChangeForgotten'
    <2>1. Queued' = Queued
      BY <1>5, <1>s
      DEF Handlers, PatchPolling, PatchConfig, Trash, Restore, Destroy, TrashSource,
          RestoreSource, DestroySource, queueVars, Queued
    <2>2. /\ owed' \subseteq owed
          /\ \A s \in owed' : s \in flush => s \in flush'
      BY <1>5
      DEF Handlers, PatchPolling, PatchConfig, Trash, Restore, Destroy, UpsertWatcher, RemoveWatcher
    <2>3. QED
      BY <1>k, <2>1, <2>2
  <1>6. ASSUME NEW j \in Jobs, Request(j) \/ ForgetRow(j) PROVE NoChangeForgotten'
    <2>1. UNCHANGED triggerVars
      BY <1>6 DEF Request, ForgetRow
    <2>2. Queued \subseteq Queued'
      BY <1>6, <1>i, <1>s, QueuedFacts DEF Request, RejectJob, ForgetRow, queueVars, Queued
    <2>3. QED
      BY <1>k, <2>1, <2>2 DEF triggerVars
  <1>7. CASE TakeJob
    <2>1. /\ Queued \subseteq Queued' \union {Head(queue)}
          /\ owed' = owed \ {SourceOf[Head(queue)]}
          /\ flush' = flush
      BY <1>7, <1>i, QueuedFacts DEF TakeJob, BeginJob, RefuseJob
    <2>2. QED
      BY <1>i, <2>1 DEF NoChangeForgotten
  <1>8. CASE WorkerElse \/ UNCHANGED allVars
    <2>1. UNCHANGED <<queue, triggerVars>>
      BY <1>8 DEF WorkerElse, LeaveLoop, EndJob, ClearWorker, allVars, vars
    <2>2. QED
      BY <1>k, <2>1 DEF triggerVars, Queued
  <1>9. CASE CrashAll
    BY <1>9 DEF CrashAll, NoChangeForgotten
  <1>10. CASE BootAll
    BY <1>10, <1>k DEF BootAll, Boot, queueVars, Queued
  <1>11. QED
    BY <1>1, <1>2, <1>3, <1>4, <1>5, <1>6, <1>7, <1>8, <1>9, <1>10 DEF TriggersNext

LEMMA StepTriggersInv == TriggersInv /\ [TriggersNext]_allVars => TriggersInv'
  <1> SUFFICES ASSUME TriggersInv, [TriggersNext]_allVars PROVE TriggersInv'
    OBVIOUS
  <1> DEFINE Goal == TriggersTypeOK' /\ TimersMatchRows' /\ NoOrphanWatch' /\ DownWatchInv'
  <1>1. IInv' /\ TypeOK' /\ NoChangeForgotten'
    BY QueueStepKeeps, ChangeHandedOn DEF TriggersInv, IInv
  <1> SUFFICES Goal
    BY <1>1 DEF TriggersInv
  <1>2. ASSUME NEW s \in Sources, Triggered(s) \/ NotTriggered(s) PROVE UNCHANGED <<source, up>>
    BY <1>2 DEF Triggered, NotTriggered, AcceptJob, vars
  <1>3. ASSUME NEW s \in Sources, PollTick(s) \/ WatchEvent(s) \/ Flush(s) \/ FlushThrows(s)
        PROVE  Goal
    <2>1. UNCHANGED <<source, up, polled, pollTimer, watcher>>
      BY <1>2, <1>3 DEF PollTick, WatchEvent, Flush, FlushThrows, triggerVars, vars
    <2>2. flush' \subseteq flush \union watcher /\ owed' \subseteq owed \union Sources
      BY <1>3 DEF PollTick, WatchEvent, Flush, FlushThrows, triggerVars
    <2>3. QED
      BY <1>1, <2>1, <2>2, QuietStep
  <1>4. ASSUME \/ \E j \in Jobs : Request(j) \/ ForgetRow(j)
               \/ TakeJob \/ WorkerElse \/ UNCHANGED allVars
        PROVE  Goal
    <2>1. UNCHANGED <<source, up, polled, pollTimer, watcher, flush>> /\ owed' \subseteq owed
      BY <1>4
      DEF Request, AcceptJob, RejectJob, ForgetRow, TakeJob, BeginJob, RefuseJob, WorkerElse,
          LeaveLoop, EndJob, ClearWorker, triggerVars, allVars, vars
    <2>2. QED
      BY <1>1, <2>1, QuietStep
  <1>5. ASSUME NEW s \in Sources, PatchPolling(s) PROVE Goal
    <2>1. /\ UNCHANGED <<source, up, watcher, flush, owed>>
          /\ s \in Live /\ up
          /\ \/ polled' = polled \union {s} /\ pollTimer' = pollTimer \union {s}
             \/ polled' = polled \ {s} /\ pollTimer' = pollTimer \ {s}
      BY <1>5 DEF PatchPolling, SetPollTimer, CallerRuns, vars
    <2>2. QED
      BY <1>1, <2>1
      DEF TriggersInv, TriggersTypeOK, TimersMatchRows, NoOrphanWatch, DownWatchInv, Live
  <1>6. ASSUME NEW s \in Sources, PatchConfig(s) PROVE Goal
    <2>1. UNCHANGED <<source, up, polled, pollTimer>> /\ s \in Live /\ up
      BY <1>6 DEF PatchConfig, CallerRuns, vars
    <2>2. UpsertWatcher(s)
      BY <1>6 DEF PatchConfig
    <2>3. QED
      BY <1>1, <2>1, <2>2, WatchStep, SyncTriggersAssumption
      DEF TriggersInv, TriggersTypeOK, TimersMatchRows, NoOrphanWatch, DownWatchInv, Live
  <1>7. ASSUME NEW s \in Sources, Trash(s) \/ Destroy(s) PROVE Goal
    <2>1. /\ up /\ up'
          /\ pollTimer' = pollTimer \ {s}
          /\ polled' \subseteq polled /\ polled \ {s} \subseteq polled'
          /\ RemoveWatcher(s)
      BY <1>7
      DEF Trash, Destroy, TrashSource, DestroySource, SetSource, SetPollTimer, CallerRuns
    <2>2. Live' = Live \ {s}
      BY <1>7
      DEF Trash, Destroy, TrashSource, DestroySource, SetSource, Live, TriggersInv, IInv, TypeOK
    <2>3. QED
      BY <1>1, <2>1, <2>2, WatchStep, SyncTriggersAssumption
      DEF TriggersInv, TriggersTypeOK, TimersMatchRows, NoOrphanWatch, DownWatchInv
  <1>8. ASSUME NEW s \in Sources, Restore(s) PROVE Goal
    <2>1. /\ up /\ up'
          /\ polled' = polled
          /\ pollTimer' = IF s \in polled THEN pollTimer \union {s} ELSE pollTimer
          /\ UpsertWatcher(s)
      BY <1>8 DEF Restore, RestoreSource, SetSource, SetPollTimer, CallerRuns
    <2>2. Live' = Live \union {s}
      BY <1>8 DEF Restore, RestoreSource, SetSource, Live, TriggersInv, IInv, TypeOK
    <2>3. QED
      BY <1>1, <2>1, <2>2, WatchStep, SyncTriggersAssumption
      DEF TriggersInv, TriggersTypeOK, TimersMatchRows, NoOrphanWatch, DownWatchInv
  <1>9. CASE CrashAll
    BY <1>1, <1>9
    DEF CrashAll, Crash, TriggersInv, TriggersTypeOK, TimersMatchRows, NoOrphanWatch, DownWatchInv
  <1>10. CASE BootAll
    <2>1. /\ ~up /\ up' /\ UNCHANGED <<flush, owed>>
          /\ polled' = {s \in polled : source'[s] # "gone"}
          /\ pollTimer' = polled \intersect Live
          /\ watcher' \subseteq LocalSources \intersect Live
      BY <1>10 DEF BootAll, Boot
    <2>2. PICK expired \in SUBSET {s \in Sources : source[s] = "trashed"} :
            source' = [s \in Sources |-> IF s \in expired THEN "gone" ELSE source[s]]
      BY <1>10 DEF BootAll, Boot
    <2>3. Live' = Live /\ \A s \in Live : source'[s] # "gone"
      BY <2>2 DEF Live
    <2>4. polled' \intersect Live' = polled \intersect Live
      BY <2>1, <2>3
    <2>5. QED
      BY <1>1, <2>1, <2>3, <2>4, SyncTriggersAssumption
      DEF TriggersInv, TriggersTypeOK, TimersMatchRows, NoOrphanWatch, DownWatchInv
  <1>11. QED
    BY <1>3, <1>4, <1>5, <1>6, <1>7, <1>8, <1>9, <1>10 DEF TriggersNext, Handlers

(***************************************************************************)
(* The queue stays correctly typed under its triggers, and so do they.     *)
(***************************************************************************)
THEOREM TriggersTypeCorrect == TriggersSpec => []TriggersTypeOK
  <1>1. TriggersInv => TriggersTypeOK
    BY DEF TriggersInv
  <1>2. QED
    BY <1>1, InitTriggersInv, StepTriggersInv, PTL DEF TriggersSpec

(***************************************************************************)
(* The interval registry equals the rows, for any number of sources and    *)
(* whatever PATCH, trash, restore, destroy, crash and boot do in between.  *)
(***************************************************************************)
THEOREM TimersFollowRows == TriggersSpec => []TimersMatchRows
  <1>1. TriggersInv => TimersMatchRows
    BY DEF TriggersInv
  <1>2. QED
    BY <1>1, InitTriggersInv, StepTriggersInv, PTL DEF TriggersSpec

(***************************************************************************)
(* No watcher and no pending flush for a source that is not live.          *)
(***************************************************************************)
THEOREM NothingWatchedInTrash == TriggersSpec => []NoOrphanWatch
  <1>1. TriggersInv => NoOrphanWatch
    BY DEF TriggersInv
  <1>2. QED
    BY <1>1, InitTriggersInv, StepTriggersInv, PTL DEF TriggersSpec

(***************************************************************************)
(* A noticed change is never lost between the timer, the queue and the     *)
(* sync: the safety half of NoticedChangeIsSynced.                         *)
(***************************************************************************)
THEOREM ChangesAreKept == TriggersSpec => []NoChangeForgotten
  <1>1. TriggersInv => NoChangeForgotten
    BY DEF TriggersInv
  <1>2. QED
    BY <1>1, InitTriggersInv, StepTriggersInv, PTL DEF TriggersSpec

(***************************************************************************)
(* The queue keeps its promises when its callers are the scheduler, the    *)
(* watchers and the handlers of SyncTriggers, which also forget rows: rows *)
(* and memory agree, a source has one unfinished job, one job runs, and    *)
(* only the window of #kick strands a job.                                 *)
(***************************************************************************)
THEOREM QueueSafeUnderTriggers ==
    TriggersSpec => /\ [](RefusedIffActiveRow /\ OneActiveJobPerSource /\ OneJobRuns)
                    /\ OnlyTheWindowStrands
  <1>1. TriggersInv => RefusedIffActiveRow /\ OneActiveJobPerSource /\ OneJobRuns
    BY AgreeFromInv, DedupeFromInv, SerialFromInv DEF TriggersInv
  <1>2. TriggersInv /\ [TriggersNext]_allVars
          => [Stranded' /\ (~Stranded \/ queue' # queue) => InWindow]_vars
    <2> SUFFICES ASSUME TriggersInv, [TriggersNext]_allVars,
                        Stranded', ~Stranded \/ queue' # queue
                 PROVE  InWindow
      OBVIOUS
    <2>1. CASE [Next]_vars
      BY <2>1, StrandsInWindow DEF TriggersInv
    <2>2. CASE \E j \in Jobs : ForgetRow(j)
      BY <2>2 DEF ForgetRow, queueVars, Stranded
    <2>3. QED
      BY <2>1, <2>2, StepsOfQueue
  <1>3. TriggersSpec => [](RefusedIffActiveRow /\ OneActiveJobPerSource /\ OneJobRuns)
    BY <1>1, InitTriggersInv, StepTriggersInv, PTL DEF TriggersSpec
  <1>4. TriggersSpec => [][Stranded' /\ (~Stranded \/ queue' # queue) => InWindow]_vars
    BY <1>2, InitTriggersInv, StepTriggersInv, PTL DEF TriggersSpec
  <1>5. QED
    BY <1>3, <1>4 DEF OnlyTheWindowStrands, InWindow
============================================================================
