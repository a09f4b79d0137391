SPECIFICATION FairSpec
CONSTANTS
    a = a
    b = b
    c = c
    o1 = o1
    o2 = o2
    o3 = o3
    Signal = {a, b, c}
    NoSignal = NoSignal
    Order = {o1, o2}
    NoOrder = NoOrder
    Full = 1
    Kind <- PendingKind
    Side <- PendingSide
    Action <- PendingAction
    AllowGap = {}
    Peer <- PendingPeer
    Batch <- PendingBatch
    MaxFaults = 0
    MaxCrashes = 1
    MaxListings = 0
INVARIANTS
    ExposureHasCause
PROPERTIES
    PendingResolved
