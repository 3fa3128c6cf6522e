CONSTANTS
    s1 = s1
    s2 = s2
    s3 = s3
    s4 = s4
    s5 = s5
    Corpus <- MCCorpus
    CorpusLen <- MCCorpusLen
    Capacity = 3
    TotalEpochs = 3
SPECIFICATION Spec
INVARIANTS
    BucketsCoherent
    PeeksAgree
PROPERTIES
    ImplementsPool
