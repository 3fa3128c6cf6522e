CONSTANTS
    Setups <- MCSetups
    MaxCycles = 2
    Options <- MCOptions
    Samples <- MCSamples
    SampleLen <- MCSampleLen
SPECIFICATION Spec
INVARIANTS
    AnswersMatch
    StepAsAdmitted
    FitsClean
    ProfileSeedsRegimes
    ProfileLeavesNoTrace
PROPERTIES
    NoOrphan
    StartsOrFails
CHECK_DEADLOCK FALSE
