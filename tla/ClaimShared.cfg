SPECIFICATION Spec
CONSTANTS
    w = w
    v = v
    a = a
    b = b
    x = x
    y = y
    f = f
    g = g
    h = h
    Wallet = {w}
    Rich = {w}
    Bot = {a, b}
    Addr <- SharedAddr
    Coalescing = {}
    Fill = {f, g}
    Of <- PairMaker
    Asset <- PairTokens
    Buys = {f, g}
    Undated = {}
    Keep = 2
    Limit = 2
    MaxTime = 1
    MaxFaults = 0
    MaxCrashes = 0
    MaxRequests = 0
INVARIANTS
    RetriedForEachSeat
