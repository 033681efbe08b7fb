SPECIFICATION MarketSpec
CONSTANTS
    None = None
    Venues = {1, 2, 3, 4}
    MaxPrice = 1000
    TradeFreshness = 2
    QuoteFreshness = 1
    SingleVenueMode = FALSE
    MinimumHealthySources = 2
    OutlierNum = 1
    OutlierDen = 100
    MarketPrices = {0, 400, 402, 404, 408, 440}
CHECK_DEADLOCK FALSE
INVARIANTS MedianMatchesSort MajorityWins OneFaultyVenueBounded
