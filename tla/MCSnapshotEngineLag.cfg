SPECIFICATION Spec
CONSTANTS
    None = None
    Venues = {1, 2}
    TradePrices = {0, 400}
    QuotePairs <- MCQuotePairs
    MaxPrice = 404
    TradeFreshness = 2
    QuoteFreshness = 1
    SingleVenueMode = FALSE
    MinimumHealthySources = 2
    OutlierNum = 1
    OutlierDen = 100
    Second = 2
    Grace = 1
    CarryForwardMax = 10
    SourceThrottle = 1
    MaxFinalizers = 2
    LoopLag = 1
    FinalizeLag = 2
    MaxDelay = 1
    MaxEvents = 2
    MaxSecond = 2
    MaxTime = 6
INVARIANTS SemaphoreMatches CarryNeedsPrice SnapshotGrounded CanonicalAnnounced
PROPERTY LogSpec
CHECK_DEADLOCK FALSE
