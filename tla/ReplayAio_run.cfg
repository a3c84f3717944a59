SPECIFICATION FairSpec
CONSTANTS
    naios = 3
    MaxPkts = 4
    NBunches = 2
    MaySignal = TRUE
INVARIANTS
    PoolAccount
    AssertionsHold
    NoLostWakeup
    LeavesNothing
PROPERTIES
    SubFinishes
