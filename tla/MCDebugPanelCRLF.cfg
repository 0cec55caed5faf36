CONSTANTS
    MaxSends = 2
    MaxLoops = 2
    MaxRounds = 3
    Modes = {"sse", "polling", "both"}
    LineEnds = {"crlf"}
    Events <- TwoEvents
CHECK_DEADLOCK FALSE
SPECIFICATION Spec
INVARIANTS
    TimelineFaithful
