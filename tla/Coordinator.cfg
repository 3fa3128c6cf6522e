CONSTANTS
    Capacity = 4
    MinSampleLen = 1
    Samples = {s1, s2, s3}
    Depth = 2
    Interruptible = TRUE
    RpsEnabled = TRUE
    CloseRps = 2
    OpenRps = 1
SPECIFICATION Spec
SYMMETRY Symmetry
INVARIANTS
    TypeOK
    NoOverflow
    ChildOwnsBuffer
    NoAdmissionWedge
    SamplesAccounted
