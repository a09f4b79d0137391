SPECIFICATION Spec
CONSTANTS
    a = a
    b = b
    c = c
    o1 = o1
    o2 = o2
    o3 = o3
    Signal = {a, b}
    NoSignal = NoSignal
    Order = {o1, o2}
    NoOrder = NoOrder
    Full = 2
    Kind <- PairKind
    Side <- PairSide
    Action <- PairAction
    AllowGap = {a}
    Peer <- PairPeer
    Batch <- PairBatch
    MaxFaults = 1
    MaxCrashes = 0
    MaxListings = 1
INVARIANTS
    TypeOK
    ExposureHasCause
    OnceInMarket
    ReceivedIsExecuting
PROPERTIES
    KeepsLifecycle
