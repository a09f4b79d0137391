SPECIFICATION Spec
CONSTANTS
    w = w
    v = v
    a = a
    b = b
    x = x
    y = y
    f = f
    g = g
    h = h
    Wallet = {w, v}
    Rich = {w, v}
    Bot = {a, b}
    Addr <- TwoAddr
    Coalescing = {a}
    Fill = {f, g}
    Of <- TwoMakers
    Asset <- PairTokens
    Buys = {f, g}
    Undated = {g}
    Keep = 1
    Limit = 1
    MaxTime = 1
    MaxFaults = 1
    MaxCrashes = 1
    MaxRequests = 1
INVARIANTS
    TypeOK
    SeenIsSettled
    DoubleHasCause
PROPERTIES
    KeepsCopyBook
