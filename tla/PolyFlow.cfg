SPECIFICATION FairSpec
CONSTANTS
    w = w
    v = v
    a = a
    b = b
    x = x
    y = y
    f = f
    g = g
    h = h
    Wallet = {w}
    Rich = {}
    Bot = {a}
    Addr <- OneAddr
    Coalescing = {a}
    Fill = {f, g, h}
    Of <- ThreeFills
    Asset <- SameToken
    Buys = {f, h}
    Undated = {f}
    Keep = 2
    Limit = 2
    MaxTime = 1
    MaxFaults = 1
    MaxCrashes = 0
    MaxRequests = 0
INVARIANTS
    HistoryHasCause
PROPERTIES
    FillSettled
