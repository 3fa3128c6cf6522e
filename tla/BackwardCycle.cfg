CONSTANTS
    r1 = r1
    r2 = r2
    Configs <- MCConfigs
    Batches <- MCBatches
    L = 3
    GroupLayers = 2
    SMax = 3
    BnMax = 2
    LMax = 2
    MaxCycles = 2
SPECIFICATION FairSpec
INVARIANTS
    LockStep
    FreshInputs
    ServesWhatWasTrained
PROPERTIES
    CycleEnds
CHECK_DEADLOCK FALSE
