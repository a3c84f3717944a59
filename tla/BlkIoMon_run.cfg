SPECIFICATION Spec
CONSTANTS
    Keys = {"a", "b"}
    Devs = {1, 2}
    Dev <- DevOfKey
    Us = 2
    Gaps <- SomeGaps
    MaxIos = 3
    MaxIntervals = 2
INVARIANTS
    OneHome
    PairsMatch
    AccountsArePrinted
CHECK_DEADLOCK FALSE
