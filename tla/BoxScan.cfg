SPECIFICATION FairSpec
CONSTANTS
    Thread = {t1, t2}
    Scan = {s1, s2, s3}
    Mode = {crypto, pool}
    Ashare = {pool}
    AshareEnabled = TRUE
    Key = {}
    Value = {"off", "on"}
    Default <- OffConfig
    Code = {}
    NoMode = NoMode
    MaxFaults = 2
    MaxCrashes = 1
INVARIANTS
    OneScan
    ModeTold
    ErrorTold
PROPERTIES
    ScanEndsOrStrands
