SPECIFICATION Spec
CONSTANTS
    NCpus = 3
    RbBatch = 2
    MaxTime = 3
    TimeMod = 8
    Stopwatches <- AllStopwatches
    PipeCpus = {0, 1}
    MaxSeq = 5
    MaxEvents = 4
    MaxMessages = 1
    MaxRecords = 3
    VerifyRecords = 3
    NKeys = 8
INVARIANTS
    LiveIsGapless
    SkipsAreLosses
    MergedInTimeOrder
    EverythingShown
    VerifierIsRight
    TreeKeepsOrder
