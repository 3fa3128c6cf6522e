CONSTANTS
    a = a
    b = b
    c = c
    Samples <- FewSamples
    SampleLen <- FewSampleLen
    Capacity = 2
    TotalEpochs = 2
    Depth = 1
    Setups <- SyncSetups
    RpsEnabled = TRUE
    CloseRps = 1
    OpenRps = 1
    RequestSteps = 1
    Commands = {"add"}
    MaxInputs = 2
    StartOnLaunch = TRUE
    Faults = {}
SPECIFICATION FairSpec
CHECK_DEADLOCK FALSE
PROPERTIES
    TrainsEverything
