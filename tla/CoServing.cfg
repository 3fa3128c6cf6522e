CONSTANTS
    a = a
    b = b
    c = c
    Samples <- MCSamples
    SampleLen <- MCSampleLen
    Capacity = 4
    TotalEpochs = 2
    Depth = 2
    Setups <- BothSetups
    RpsEnabled = TRUE
    CloseRps = 1
    OpenRps = 1
    RequestSteps = 2
    Commands = {"add", "start", "stop"}
    MaxInputs = 2
    StartOnLaunch = TRUE
    Faults = {"death", "slow"}
SPECIFICATION Spec
SYMMETRY Symmetry
CHECK_DEADLOCK FALSE
INVARIANTS
    BackwardReadsSaved
PROPERTIES
    CommitsWhatWasTrained
    ImplementsPool
