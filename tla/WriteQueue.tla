----------------------------- MODULE WriteQueue -----------------------------
(***************************************************************************)
(* Writes proposed by MCP clients and approved by administrators: the      *)
(* write_queue table (cli/src/write-queue.ts), the approve and reject      *)
(* routes, the executor (write-executor.ts) and the named connections an   *)
(* entry refers to (routes/connections.ts, state.ts).                      *)
(* An approve handler runs without interruption from its first read to the *)
(* moment the executor is awaited; what interleaves with the await is      *)
(* other handlers, changes of the connections and the death of the process.*)
(* A source of kind mcp-tool is resolved by reference in the same way, so  *)
(* Names also stands for source ids and Databases for upstreams.           *)
(***************************************************************************)
EXTENDS Naturals, Sequences, FiniteSets

CONSTANTS
    Entries,    \* ids of the entries that can be proposed
    Corrupt,    \* entries whose stored payload will not parse
    Names,      \* connection names
    Databases,  \* the databases a connection name can stand for
    Handlers,   \* approve requests that can be in flight together
    NoDb,       \* the name stands for nothing
    NoCall      \* the handler awaits no executor

ASSUME WriteQueueAssumption ==
    /\ Corrupt \subseteq Entries
    /\ NoDb \notin Databases
    /\ NoCall \notin [entry : Entries, db : Databases, landed : BOOLEAN, awaited : BOOLEAN]

VARIABLES
    conn,         \* AppState._connections: what each name stands for
    saved,        \* the connections table
    reading,      \* the rows that loads in flight may still put into the map
    status,       \* write_queue.status; "none": not proposed
    target,       \* write_queue.connection_name
    outcome,      \* execution_result / execution_error
    call,         \* per handler, the executor call it started
    effects,      \* history: the databases each write was applied to
    proposedFor,  \* history: the database its target stood for when the write was queued
    interrupted,  \* history: entries whose executor call a crash cut off
    repointed     \* history: entries queued while map and table disagreed about their name,
                  \* or whose name was given another database while they waited

connVars == <<conn, saved, reading>>
rowVars == <<status, target, outcome>>
historyVars == <<effects, proposedFor, interrupted, repointed>>
vars == <<connVars, rowVars, call, historyVars>>

Calls == [entry : Entries, db : Databases, landed : BOOLEAN, awaited : BOOLEAN]

Init ==
    /\ conn \in [Names -> Databases \union {NoDb}]
    /\ saved = conn
    /\ reading = {}
    /\ status = [e \in Entries |-> "none"]
    /\ target \in [Entries -> Names]
    /\ outcome = [e \in Entries |-> "none"]
    /\ call = [h \in Handlers |-> NoCall]
    /\ effects = [e \in Entries |-> <<>>]
    /\ proposedFor = [e \in Entries |-> NoDb]
    /\ interrupted = {}
    /\ repointed = {}
----------------------------------------------------------------------------
(* The `write` tool: onWriteRequest stamps the connection and queues.      *)
Propose(e) ==
    /\ status[e] = "none"
    /\ conn[target[e]] # NoDb
    /\ status' = [status EXCEPT ![e] = "pending"]
    /\ proposedFor' = [proposedFor EXCEPT ![e] = conn[target[e]]]
    /\ repointed' = IF conn[target[e]] = saved[target[e]] THEN repointed ELSE repointed \union {e}
    /\ UNCHANGED <<connVars, target, outcome, call, effects, interrupted>>

(* Mutant: the claim is only written once the executor has answered. *)
ClaimLater(e) ==
    /\ status[e] = "pending"
    /\ UNCHANGED status

(* The conditional UPDATE pending -> approved. *)
Claim(e) ==
    /\ status[e] = "pending"
    /\ status' = [status EXCEPT ![e] = "approved"]

(* Mutant: any loaded connection, as the cached one of the legacy entries. *)
ResolvesCached(e, d) == d \in {conn[n] : n \in Names} \ {NoDb}

(* resolveWriteTarget: the name is looked up in the map; not finding it    *)
(* throws.                                                                 *)
Resolves(e, d) == d = conn[target[e]] /\ d # NoDb

(***************************************************************************)
(* POST /api/write-queue/:id/approve up to the await: refuse a corrupt     *)
(* entry, resolve the target (a throw changes nothing), claim, start the   *)
(* executor.                                                               *)
(***************************************************************************)
Approve(h, e) ==
    /\ call[h] = NoCall
    /\ e \notin Corrupt
    /\ \E d \in Databases :
        /\ Resolves(e, d)
        /\ call' = [call EXCEPT ![h] =
                        [entry |-> e, db |-> d, landed |-> FALSE, awaited |-> TRUE]]
    /\ Claim(e)
    /\ UNCHANGED <<connVars, target, outcome, historyVars>>

(* External: the statement commits, whether or not anyone still waits. *)
Land(h) ==
    /\ call[h] # NoCall
    /\ ~call[h].landed
    /\ call' = [call EXCEPT ![h].landed = TRUE]
    /\ effects' = [effects EXCEPT ![call[h].entry] = Append(@, call[h].db)]
    /\ UNCHANGED <<connVars, rowVars, proposedFor, interrupted, repointed>>

(* Mutant: only a success is recorded. *)
RecordSuccessOnly(h) ==
    /\ call[h] # NoCall
    /\ call[h].awaited
    /\ outcome' = [outcome EXCEPT ![call[h].entry] = IF call[h].landed THEN "result" ELSE @]

(* stmtRecordResult: a success needs the commit, an error (a lost answer,  *)
(* a failing close of the client) does not exclude it.                     *)
Record(h) ==
    /\ call[h] # NoCall
    /\ call[h].awaited
    /\ \E o \in IF call[h].landed THEN {"result", "error"} ELSE {"error"} :
        outcome' = [outcome EXCEPT ![call[h].entry] = o]

(* The executor settles and its outcome is recorded.  A statement still on *)
(* the wire when the client gives up may land later.                       *)
Settle(h) ==
    /\ Record(h)
    /\ call' = IF call[h].landed
               THEN [call EXCEPT ![h] = NoCall]
               ELSE [call EXCEPT ![h].awaited = FALSE]
    /\ UNCHANGED <<connVars, status, target, historyVars>>

(* External: a statement nobody waits for has landed or is gone. *)
Forget(h) ==
    /\ call[h] # NoCall
    /\ ~call[h].awaited
    /\ call' = [call EXCEPT ![h] = NoCall]
    /\ UNCHANGED <<connVars, rowVars, historyVars>>

(* POST /api/write-queue/:id/reject. *)
Reject(e) ==
    /\ status[e] = "pending"
    /\ status' = [status EXCEPT ![e] = "rejected"]
    /\ UNCHANGED <<connVars, target, outcome, call, historyVars>>
----------------------------------------------------------------------------
(* The entries waiting under a name that is given database d. *)
Redirected(n, d) ==
    {e \in Entries : status[e] = "pending" /\ target[e] = n /\ proposedFor[e] # d}

(* POST /api/connections: a known name is simply given its new database,   *)
(* also under the entries that wait for approval.                          *)
Connect(n, d) ==
    /\ conn' = [conn EXCEPT ![n] = d]
    /\ saved' = [saved EXCEPT ![n] = d]
    /\ repointed' = repointed \union Redirected(n, d)
    /\ UNCHANGED <<reading, rowVars, call, effects, proposedFor, interrupted>>

(* POST /api/connect: no row, and whichever entry comes first in the map is *)
(* given the database too.                                                  *)
ConnectUnsaved(n, d) ==
    LET loaded == {m \in Names : conn[m] # NoDb} IN
    /\ \E first \in IF loaded = {} THEN Names ELSE loaded :
        /\ conn' = [conn EXCEPT ![first] = d, ![n] = d]
        /\ repointed' = repointed \union Redirected(first, d) \union Redirected(n, d)
    /\ UNCHANGED <<saved, reading, rowVars, call, effects, proposedFor, interrupted>>

(* DELETE /api/connections/:name. *)
Disconnect(n) ==
    /\ conn' = [conn EXCEPT ![n] = NoDb]
    /\ saved' = [saved EXCEPT ![n] = NoDb]
    /\ UNCHANGED <<reading, rowVars, call, historyVars>>

(* ensureConnectionsLoaded reads the table, only while the map is empty ... *)
StartLoad ==
    /\ \A n \in Names : conn[n] = NoDb
    /\ reading' = reading \union {<<n, saved[n]>> : n \in {m \in Names : saved[m] # NoDb}}
    /\ UNCHANGED <<conn, saved, rowVars, call, historyVars>>

(***************************************************************************)
(* ... and fills the map one awaited introspection after the other: with   *)
(* what it has read, also where the table has moved on; or not at all, when*)
(* the database does not answer or the name was in the map by then.  What  *)
(* was read stays as long as another load holds it as well.                *)
(***************************************************************************)
LoadName(n, d) ==
    /\ <<n, d>> \in reading
    /\ reading' \in {reading, reading \ {<<n, d>>}}
    /\ \/ UNCHANGED <<conn, repointed>>
       \/ /\ conn' = [conn EXCEPT ![n] = d]
          /\ repointed' = IF d = saved[n] THEN repointed ELSE repointed \union Redirected(n, d)
    /\ UNCHANGED <<saved, rowVars, call, effects, proposedFor, interrupted>>

(* The process dies and starts again: rows stay, awaits and the map do not. *)
Crash ==
    /\ conn' = [n \in Names |-> NoDb]
    /\ reading' = {}
    /\ interrupted' = interrupted \union
                        {call[h].entry : h \in {x \in Handlers : call[x] # NoCall /\ call[x].awaited}}
    /\ call' = [h \in Handlers |->
                    IF call[h] = NoCall THEN NoCall ELSE [call[h] EXCEPT !.awaited = FALSE]]
    /\ UNCHANGED <<saved, rowVars, effects, proposedFor, repointed>>

Next ==
    \/ \E e \in Entries : Propose(e) \/ Reject(e) \/ \E h \in Handlers : Approve(h, e)
    \/ \E h \in Handlers : Land(h) \/ Settle(h) \/ Forget(h)
    \/ \E n \in Names : Disconnect(n)
    \/ \E n \in Names, d \in Databases : Connect(n, d) \/ ConnectUnsaved(n, d) \/ LoadName(n, d)
    \/ StartLoad
    \/ Crash

Spec == Init /\ [][Next]_vars
----------------------------------------------------------------------------
TypeOK ==
    /\ conn \in [Names -> Databases \union {NoDb}]
    /\ saved \in [Names -> Databases \union {NoDb}]
    /\ reading \subseteq Names \X Databases
    /\ status \in [Entries -> {"none", "pending", "approved", "rejected"}]
    /\ target \in [Entries -> Names]
    /\ outcome \in [Entries -> {"none", "result", "error"}]
    /\ call \in [Handlers -> Calls \union {NoCall}]
    /\ effects \in [Entries -> Seq(Databases)]
    /\ proposedFor \in [Entries -> Databases \union {NoDb}]
    /\ interrupted \subseteq Entries
    /\ repointed \subseteq Entries

Gate == INSTANCE ApprovalGate WITH
    Writes <- Entries,
    Unusable <- Corrupt,
    decision <- status,
    times <- [e \in Entries |-> Len(effects[e])],
    report <- outcome

(***************************************************************************)
(* The routes implement the gate: through every interleaving of double     *)
(* clicks, approve against reject, lost answers and crashes, a write is    *)
(* decided once, executed at most once and only if approved, and an        *)
(* execution_result is only ever recorded for a write that committed.      *)
(***************************************************************************)
ImplementsGate == Gate!Spec

(***************************************************************************)
(* An approved entry that shows neither a result nor an error is still     *)
(* being executed, unless the process died under its executor: nothing     *)
(* else can leave an administrator in front of a silent entry.             *)
(***************************************************************************)
SilentOnlyAfterCrash ==
    \A e \in Entries :
        status[e] = "approved" /\ outcome[e] = "none" =>
            \/ e \in interrupted
            \/ \E h \in Handlers : call[h] # NoCall /\ call[h].awaited /\ call[h].entry = e

(***************************************************************************)
(* An entry names its target, it does not hold it: resolveWriteTarget      *)
(* looks the name up at approval.  A write nevertheless only reaches the   *)
(* database the name stood for when it was queued: removals, reloads and   *)
(* restarts never redirect it.  What does is a request that gives the name *)
(* another database while the entry waits, a load overtaken by one, or     *)
(* POST /api/connect before, whose database is gone with the process.      *)
(***************************************************************************)
OnlyRepointedStray ==
    \A e \in Entries : \A i \in DOMAIN effects[e] :
        effects[e][i] = proposedFor[e] \/ e \in repointed
=============================================================================
