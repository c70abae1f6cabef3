---------------------------- MODULE MCSyncQueue ----------------------------
(* Instances of SyncQueue for TLC: ids are numbered per source.  Every     *)
(* source can be synced once, the sources in Again a second time.          *)
EXTENDS SyncQueue

CONSTANT Again

MCJobs == (Sources \X {1}) \union (Again \X {2})
MCSourceOf == [j \in MCJobs |-> j[1]]
============================================================================
