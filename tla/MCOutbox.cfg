CONSTANTS
    NumRuns = 2
    Workers = {w1, w2}
    MaxAttempts = 3
    RowLocks = TRUE
    LostAcks = TRUE
    MaxFaults = 3
    MaxCrashes = 2
SPECIFICATION FairSpec
INVARIANTS
    ExclusiveClaim
    AtMostOneExecution
    SettledRunsEnded
    AttemptBudget
    CompletedRowAccounted
    OrphansAreCrashes
    IInv
PROPERTIES
    RefinesLifecycle
    EndsOrOrphaned
    QueueDrains
