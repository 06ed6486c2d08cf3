SPECIFICATION Spec
CONSTANTS
    CreationEvents = 2
    MaxEvents = 5
    MaxInterrupts = 3
    MaxTorn = 1
INVARIANTS
    TypeOK
    SnapshotAtomic
    CommitsSurvive
    TraceMatchesCommits
CHECK_DEADLOCK FALSE
