----------------------------- MODULE MCSyncRun -----------------------------
(* Instances of SyncRun for TLC: what the versions of the files are.       *)
EXTENDS SyncRun, TLC

CONSTANTS p1, p2

\* A text that is edited, and one that becomes a format without a parser.
EditedAndConverted == p1 :> <<"text", "text">> @@ p2 :> <<"text", "unsupported">>

\* One file that is corrupted, outgrows the limit and is repaired.
Repaired == p1 :> <<"text", "corrupt", "oversize", "text">>

\* The ingestions in flight differ by what they work on only.
SlotSymmetry == Permutations(Slots)
============================================================================
