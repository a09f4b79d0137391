SPECIFICATION Spec
CONSTANTS
    a = a
    b = b
    c = c
    o1 = o1
    o2 = o2
    o3 = o3
    Signal = {a}
    NoSignal = NoSignal
    Order = {o1, o2}
    NoOrder = NoOrder
    Full = 1
    Kind <- StopKind
    Side <- LoneSide
    Action <- LoneAction
    AllowGap = {}
    Peer <- LonePeer
    Batch <- Lone
    MaxFaults = 0
    MaxCrashes = 0
    MaxListings = 0
INVARIANTS
    NoDoubleOpen
