SPECIFICATION Spec
CONSTANTS
    a = a
    b = b
    c = c
    o1 = o1
    o2 = o2
    o3 = o3
    Signal = {a, b, c}
    NoSignal = NoSignal
    Order = {o1, o2}
    NoOrder = NoOrder
    Full = 2
    Kind <- DeskKind
    Side <- DeskSide
    Action <- DeskAction
    AllowGap = {}
    Peer <- DeskPeer
    Batch <- DeskBatch
    MaxFaults = 1
    MaxCrashes = 0
    MaxListings = 0
INVARIANTS
    SubmittedHasOrder
    ExposureHasCause
    RetryFindsNothing
    AtMarketInWhole
PROPERTIES
    ProtectedBeforeTraded
