SPECIFICATION FairSpec
CONSTANTS
    naios = 1
    MaxPkts = 1
    NBunches = 1
    MaySignal = FALSE
PROPERTIES
    ReaperFinishes
