SPECIFICATION FairSpec
CONSTANTS
    NumTasks = 4
    Deps <- Branches
    Blockings <- OneBlocked
    MaxResumes = 3
    MaxCrashes = 2
    MaxDamage = 2
INVARIANTS
    TypeOK
    OneAttemptAtATime
    AttemptsAccounted
    EndedRunHasEndedTasks
    ReturnedRunIsReported
PROPERTIES
    RunsOnSuccess
    NothingStartsAfterFailure
    SuccessIsReused
    CallsEnd
CHECK_DEADLOCK FALSE
