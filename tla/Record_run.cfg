SPECIFICATION ReplaySpec
CONSTANTS
    NFiles = 2
    MaxTime = 4
    MaxQs = 3
    max_pkts_per_bunch = 2
    max_bunch_tm = 1
    naios = 2
    Stalls = {TRUE, FALSE}
    AccFactors = {1, 2}
    MaxClock = 3
INVARIANTS
    ReplaysTheRecording
PROPERTIES
    NeverEarly
