SPECIFICATION TriggersSpec
CONSTANTS
    Sources = {s1, s2}
    LocalSources = {s1}
    Jobs <- MCJobs
    SourceOf <- MCSourceOf
    NoJob = NoJob
    MicrotaskCallers = FALSE
INVARIANTS
    TimersMatchRows
    NoOrphanWatch
    NoChangeForgotten
PROPERTIES
    NoticedChangeIsSynced
    PolledSourceKeepsSyncing
