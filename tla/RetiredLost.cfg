CONSTANTS
    a = a
    b = b
    Samples <- MCSamples
    SampleLen <- MCSampleLen
    Capacity = 3
    Depth = 2
    PinRing = 2
    TimingRing = 2
    Configs <- EagerConfigs
    Interruptible = TRUE
    LateArrivals = TRUE
SPECIFICATION Spec
INVARIANTS
    NoOrphanedState
