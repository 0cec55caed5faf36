CONSTANTS
    Runs = {r1}
    WorkerRuns = {}
    Patches = {p1}
    Statuses <- MCStatuses
    Resolvers = {alice}
    Nobody = Nobody
    MayFail = FALSE
SPECIFICATION Spec
\* Every run and request of the instance may have ended.
CHECK_DEADLOCK FALSE
INVARIANTS
    GaugeShowsBacklog
