CONSTANTS
    a = a
    b = b
    Samples <- MCSamples
    SampleLen <- MCSampleLen
    Capacity = 3
    Depth = 2
    PinRing = 2
    TimingRing = 2
    Configs <- MCConfigs
    Interruptible = TRUE
    LateArrivals = FALSE
SPECIFICATION Spec
INVARIANTS
    HandsOverSamples
    TimesItsOwnStep
    NoOrphanedState
PROPERTIES
    SlotSettled
