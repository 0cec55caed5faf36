CONSTANTS
    MaxToolCalls = 1
    MaxRetries = 2
    Registered = {"search_documents", "lookup"}
    Asked = {"search_documents", "lookup", "unknown"}
    Tasks = {"chat", "other"}
    Drills = {"none"}
    Disconnects = FALSE
CHECK_DEADLOCK FALSE
SPECIFICATION Spec
INVARIANTS
    TranscriptOrdered
