CONSTANTS
    a = a
    b = b
    c = c
    Samples <- MCSamples
    SampleLen <- UnitLen
    Capacity = 3
    TotalEpochs = 2
    Depth = 2
    Setups <- OverlapSetups
    RpsEnabled = FALSE
    CloseRps = 1
    OpenRps = 1
    RequestSteps = 2
    Commands = {"add"}
    MaxInputs = 2
    StartOnLaunch = TRUE
    Faults = {}
SPECIFICATION Spec
SYMMETRY Symmetry
CHECK_DEADLOCK FALSE
INVARIANTS
    BackwardReadsSaved
