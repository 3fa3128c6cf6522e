CONSTANTS
    Configs <- MCConfigs
    MaxCycles = 1
    MaxArrivals = 1
SPECIFICATION FairSpec
INVARIANTS
    GrantAccounted
    PrefillProtected
    BlockedFreesGpu
PROPERTIES
    CycleEnds
