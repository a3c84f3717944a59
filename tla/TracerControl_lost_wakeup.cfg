SPECIFICATION FairSpec
CONSTANTS
    NCpus = 2
    MaxData = 0
    MaxSignals = 0
    EarlySignals = FALSE
    CanFail = TRUE
    UseDevpaths = FALSE
PROPERTIES
    ToldTracersQuit
