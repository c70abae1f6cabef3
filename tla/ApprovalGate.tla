---------------------------- MODULE ApprovalGate ----------------------------
(***************************************************************************)
(* What human approval of writes promises, without handlers, connections   *)
(* or crashes: a proposed write is decided once, for good; it takes effect *)
(* at most once, and only after it was granted; a success is only reported *)
(* for a write that took effect, and at most one report is ever made.      *)
(***************************************************************************)
EXTENDS Naturals

CONSTANTS Writes, Unusable

VARIABLES
    decision,  \* "none" (not proposed), "pending", "approved", "rejected"
    times,     \* how often the write took effect
    report     \* "none", "result" or "error"

gateVars == <<decision, times, report>>

Init ==
    /\ decision = [w \in Writes |-> "none"]
    /\ times = [w \in Writes |-> 0]
    /\ report = [w \in Writes |-> "none"]

Propose(w) ==
    /\ decision[w] = "none"
    /\ decision' = [decision EXCEPT ![w] = "pending"]
    /\ UNCHANGED <<times, report>>

Decide(w) ==
    /\ decision[w] = "pending"
    /\ \E d \in IF w \in Unusable THEN {"rejected"} ELSE {"approved", "rejected"} :
        decision' = [decision EXCEPT ![w] = d]
    /\ UNCHANGED <<times, report>>

TakeEffect(w) ==
    /\ decision[w] = "approved"
    /\ times[w] = 0
    /\ times' = [times EXCEPT ![w] = 1]
    /\ UNCHANGED <<decision, report>>

Report(w) ==
    /\ decision[w] = "approved"
    /\ report[w] = "none"
    /\ \E r \in IF times[w] = 1 THEN {"result", "error"} ELSE {"error"} :
        report' = [report EXCEPT ![w] = r]
    /\ UNCHANGED <<decision, times>>

Next == \E w \in Writes : Propose(w) \/ Decide(w) \/ TakeEffect(w) \/ Report(w)

Spec == Init /\ [][Next]_gateVars
============================================================================
