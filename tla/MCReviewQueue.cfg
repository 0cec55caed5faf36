CONSTANTS
    Runs = {r1, r2}
    WorkerRuns = {r2}
    Patches = {p1, p2}
    Statuses <- MCStatuses
    Resolvers = {alice}
    Nobody = Nobody
    MayFail = TRUE
SPECIFICATION FairSpec
\* Every run and request of the instance may have ended.
CHECK_DEADLOCK FALSE
INVARIANTS
    IInv
    GaugeExactWhenSerial
    RowIsOneRequests
PROPERTIES
    EveryPatchAnswered
