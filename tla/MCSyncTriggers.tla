--------------------------- MODULE MCSyncTriggers ---------------------------
(* Instances of SyncTriggers for TLC, with one row per source in the window. *)
EXTENDS SyncTriggers

MCJobs == Sources
MCSourceOf == [j \in MCJobs |-> j]
============================================================================
