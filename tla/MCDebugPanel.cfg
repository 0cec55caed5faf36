CONSTANTS
    MaxSends = 2
    MaxLoops = 2
    MaxRounds = 3
    Modes = {"sse", "polling", "both"}
    LineEnds = {"lf"}
    Events <- TwoEvents
CHECK_DEADLOCK FALSE
SPECIFICATION FairSpec
INVARIANTS
    IInv
    PollHonest
    TimelineFaithful
PROPERTIES
    PollingEnds
