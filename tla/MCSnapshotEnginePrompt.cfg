SPECIFICATION FairSpec
CONSTANTS
    None = None
    Venues = {1}
    TradePrices = {400, 404}
    QuotePairs <- MCQuotePairs
    MaxPrice = 404
    TradeFreshness = 2
    QuoteFreshness = 1
    SingleVenueMode = FALSE
    MinimumHealthySources = 2
    OutlierNum = 1
    OutlierDen = 100
    Second = 3
    Grace = 1
    CarryForwardMax = 10
    SourceThrottle = 1
    MaxFinalizers = 1
    LoopLag = 0
    FinalizeLag = 1
    MaxDelay = 1
    MaxEvents = 2
    MaxSecond = 3
    MaxTime = 11
PROPERTIES EverySecondPublished RunReturns
INVARIANTS NoGap QualityDecays
