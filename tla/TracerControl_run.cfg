SPECIFICATION FairSpec
CONSTANTS
    NCpus = 2
    MaxData = 2
    MaxSignals = 2
    EarlySignals = FALSE
    CanFail = TRUE
    UseDevpaths = TRUE
INVARIANTS
    NothingLeftBehind
    LeavingMeansAll
PROPERTIES
    StartsWhenAllReady
    InterruptEndsRun
