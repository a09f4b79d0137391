SPECIFICATION FairSpec
CHECK_DEADLOCK FALSE
CONSTANTS
    w = w
    v = v
    a = a
    b = b
    x = x
    y = y
    f = f
    g = g
    h = h
    Wallet = {w}
    Rich = {}
    Bot = {a}
    Addr <- OneAddr
    Coalescing = {a}
    Fill = {f, g}
    Of <- PairMaker
    Asset <- OneToken
    Buys = {f}
    Undated = {}
    Keep = 2
    Limit = 2
    MaxTime = 1
    MaxFaults = 1
    MaxCrashes = 1
    MaxRequests = 1
INVARIANTS
    NeverShort
PROPERTIES
    
    FillSettled
