SPECIFICATION Spec
CONSTANTS
    Thread = {t1, t2}
    Scan = {}
    Mode = {}
    Ashare = {}
    AshareEnabled = TRUE
    Key = {auto, tg}
    Value = {"off", "on"}
    Default <- OffConfig
    Code = {c1, c2}
    NoMode = NoMode
    MaxFaults = 1
    MaxCrashes = 1
SYMMETRY Symmetric
INVARIANTS
    TypeOK
    ConfigKept
    PoolKept
