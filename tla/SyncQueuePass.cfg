SPECIFICATION Spec
CONSTANTS
    Sources = {s1, s2, s3}
    Again = {s1, s2}
    Jobs <- MCJobs
    SourceOf <- MCSourceOf
    NoJob = NoJob
    MicrotaskCallers = TRUE
INVARIANTS
    RefusedIffActiveRow
PROPERTIES
    OnlyTheWindowStrands
    AcceptedJobFinishes
    ServesForEver
