SPECIFICATION FairSpec
CONSTANTS
    Files = {f1, f2, f3}
    def_iterations = 2
    MaySignal = TRUE
INVARIANTS
    TokenAccount
    Released
PROPERTIES
    ReplayEnds
CHECK_DEADLOCK FALSE
