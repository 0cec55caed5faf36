CONSTANTS
    MaxToolCalls = 3
    MaxRetries = 3
    Registered = {"search_documents", "lookup"}
    Asked = {"search_documents", "lookup", "unknown"}
    Tasks = {"chat", "other"}
    Drills <- AllDrills
    Disconnects = TRUE
CHECK_DEADLOCK FALSE
SPECIFICATION FairSpec
INVARIANTS
    IInv
    ToolUseBounded
    Answered
    EvidenceEscalated
    TranscriptMirrorsRun
    StreamHonest
    OnceDrillsAbsorbed
    LabelsHonest
    CountersHonest
PROPERTIES
    RefinesLifecycle
    Terminates
