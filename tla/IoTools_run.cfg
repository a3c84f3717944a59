SPECIFICATION Spec
CONSTANTS
    Pids = {1, 2}
    Cpus = {0, 1}
    Contexts <- TwoProcesses
    NSectors = 2
    MaxBios = 2
    MaxOdd = 1
    Comm <- SameName
    Options <- SomeOptions
    NIos = 2
    MaxTick = 4
    Second = 2
    Interval = 2
    Starts = {1, 3}
    IoLen = 2
    Devs = {1, 2}
    MaxDump = 3
    NCpus = 2
    MaxSamples = 2
    Extents <- SomeExtents
    OffsetBits = 20
    Rows = 5
    Cols = 3
    MaxSignals = 2
    TraceLen = 2
    Margin = 5
    DEF_LEN = 8
    PageSize = 4
    MaxInput = 24
INVARIANTS
    TracksRequests
    AccountsAgree
    DepthsAgree
    BttFollowsBios
    MeasuresAgree
    ReadsEveryTrace
    WatchedWhole
    TracesAreComplete
CHECK_DEADLOCK FALSE
