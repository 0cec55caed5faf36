CONSTANTS
    NumRuns = 1
    Workers = {w1}
    MaxAttempts = 2
    RowLocks = TRUE
    LostAcks = FALSE
    MaxFaults = 0
    MaxCrashes = 1
SPECIFICATION FairSpec
PROPERTIES
    EveryRunEnds
