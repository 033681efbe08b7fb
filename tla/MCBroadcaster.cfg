SPECIFICATION FairSpec
CONSTANTS
    Symbols = {"btc", "eth"}
    Keys <- MCKeys
    NoSource = NoSource
    UseDB = TRUE
    UseQueryPool = TRUE
    EngineCap = 1
    MultiCap = 1
    ProxyCap = 1
    MaxDrain = 2
    MaxEvents <- MCMaxEvents
    MaxAttempts = 1
INVARIANTS NothingBeforeRuntime Accounted
PROPERTIES FeedSpec LatestDelivered
CHECK_DEADLOCK FALSE
