CONSTANTS
    Requests = {q1, q2, q3}
    Nobody = Nobody
SPECIFICATION FairSpec
\* Every request of the instance may have ended.
CHECK_DEADLOCK FALSE
INVARIANTS
    OneState
    OneFact
    ManifestHonest
    IInv
PROPERTIES
    EveryRequestEnds
