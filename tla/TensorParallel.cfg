CONSTANTS
    r1 = r1
    r2 = r2
    s1 = s1
    s2 = s2
    Ranks <- MCRanks
    OutputRank = r1
    Samples <- MCSamples
    Capacity = 2
    MinSampleLen = 1
    Depth = 2
    Interruptible = TRUE
    Layers = 1
    MaxLag = 2
    MaxInputs = 1
SPECIFICATION FairSpec
INVARIANTS
    VotesMatch
    SameOutcome
    TriggerConserved
PROPERTIES
    ReopensTogether
    ImplementsCoordinator
    BackwardEnds
CHECK_DEADLOCK FALSE
