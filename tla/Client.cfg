SPECIFICATION FairSpec
CONSTANTS
    MaxRetries = 2
    Backoff <- DoublingBackoff
    Window = 10
    Delay = {0, 8}
    Threshold = 2
    DualSide = TRUE
    MaxFaults = 3
    MaxEvents = 2
INVARIANTS
    TypeOK
    StaleHasCause
    BreakerHolds
PROPERTIES
    KeepsRestCall
    PauseLifts
