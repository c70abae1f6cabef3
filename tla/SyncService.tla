---------------------------- MODULE SyncService ----------------------------
(***************************************************************************)
(* What the sync queue promises its callers, without worker, event loop or *)
(* database: accepted jobs are served one at a time, oldest first, at most *)
(* one unfinished job per source, and every accepted job leaves the        *)
(* service (served, declined, or dropped when the process dies).           *)
(***************************************************************************)
EXTENDS Naturals, Sequences

CONSTANTS Jobs, SourceOf

VARIABLES
    waiting,  \* accepted, not started, oldest first
    serving,  \* the job being served: {} or a singleton
    gone      \* jobs that have left

serviceVars == <<waiting, serving, gone>>

Inside == {waiting[i] : i \in DOMAIN waiting} \union serving

Init == waiting = <<>> /\ serving = {} /\ gone = {}

Accept(j) ==
    /\ j \notin gone
    /\ \A k \in Inside : SourceOf[k] # SourceOf[j]
    /\ waiting' = Append(waiting, j)
    /\ UNCHANGED <<serving, gone>>

Serve ==
    /\ serving = {}
    /\ waiting # <<>>
    /\ waiting' = Tail(waiting)
    /\ serving' = {Head(waiting)}
    /\ UNCHANGED gone

Decline ==
    /\ serving = {}
    /\ waiting # <<>>
    /\ waiting' = Tail(waiting)
    /\ gone' = gone \union {Head(waiting)}
    /\ UNCHANGED serving

Complete ==
    /\ serving # {}
    /\ serving' = {}
    /\ gone' = gone \union serving
    /\ UNCHANGED waiting

Drop ==
    /\ waiting' = <<>>
    /\ serving' = {}
    /\ gone' = gone \union Inside

Next ==
    \/ \E j \in Jobs : Accept(j)
    \/ Serve
    \/ Decline
    \/ Complete
    \/ Drop

SafeSpec == Init /\ [][Next]_serviceVars
Fairness == WF_serviceVars(Serve \/ Decline) /\ WF_serviceVars(Complete)
Spec == SafeSpec /\ Fairness
============================================================================
