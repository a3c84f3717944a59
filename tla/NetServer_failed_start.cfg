SPECIFICATION MCSpec
CONSTANTS
    a = a
    b = b
    h = h
    d1 = d1
    d2 = d2
    a1 = a1
    a2 = a2
    b1 = b1
    b2 = b2
    Runs = {a, b}
    Hosts = {h}
    HostOf <- MCHostOf
    Conns = {a1, a2, b1}
    RunOf <- MCRunOf
    DevsOf <- MCDevsOf
    Sendfile = {b}
    Earlier <- MCEarlier
    DataOf <- MCDataOf
    Crashing = {b}
    BufSize = 3
    BufNr = 17
    PageSize = 8
    MaxSize = 200
    CanFail = TRUE
INVARIANT
    KnownBeforeCloses
