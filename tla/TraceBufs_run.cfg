SPECIFICATION FairSpec
CONSTANTS
    NDevs = 1
    NCpus = 2
    EventEnds <- TwoCpus
    BufUnits = 2
INVARIANTS
    EntriesAccount
    NothingLostOrReordered
PROPERTIES
    DeliversTheStream
    InterruptEndsRun
