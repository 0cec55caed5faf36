CONSTANTS
    Replies <- SmallReplies
    Documents <- SmallDocuments
    NoFile = NoFile
    AsciiAlnum = {"a", "A", "b"}
    Space = {" "}
    Lower <- SmallLower
    MaxScore = 2
    MaxQuery = 500
    MaxMatches = 20
CHECK_DEADLOCK FALSE
SPECIFICATION Spec
INVARIANTS
    EvidenceIsReal
    BestFirst
