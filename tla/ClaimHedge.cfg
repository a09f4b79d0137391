SPECIFICATION Spec
CONSTANTS
    MaxRetries = 1
    Backoff <- DoublingBackoff
    Window = 10
    Delay = {0, 8}
    Threshold = 2
    DualSide = TRUE
    MaxFaults = 1
    MaxEvents = 0
INVARIANTS
    HedgeAware
