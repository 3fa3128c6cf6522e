CONSTANTS
    a = a
    b = b
    c = c
    Samples <- FewSamples
    SampleLen <- FewSampleLen
    Capacity = 3
    TotalEpochs = 2
    Depth = 2
    Setups <- LiveSetups
    RpsEnabled = FALSE
    CloseRps = 1
    OpenRps = 1
    RequestSteps = 1
    Commands = {"add", "start", "stop"}
    MaxInputs = 2
    StartOnLaunch = TRUE
    Faults = {"slow", "error", "late_zero"}
SPECIFICATION FairSpec
CHECK_DEADLOCK FALSE
INVARIANTS
    ClaimsTracked
PROPERTIES
    ImplementsCoordinator
    TrainsEverything
    RequestsServed
