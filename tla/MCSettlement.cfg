SPECIFICATION FairSpec
CONSTANTS
    Sources = {"binance", "kraken"}
    Symbols = {"btc", "eth"}
    Requests = {r1, r2}
    Boundary = 1
    Interval = 1
    Grace = 1
    Window = 1
    MinHealthy = 2
    RawRetention = 4
    SnapshotRetention = 3
    BatchSize = 1
    TimescaleDB = TRUE
    Detected = FALSE
    RawPolicy = 4
    SnapshotPolicy = 3
    RawChunk = 1
    SnapshotChunk = 2
    SnapshotRows <- MCRows
    Trades <- MCTrades
    WriteDelay = 1
    MaxNow = 5
    MaxFaults = 1
    NoRow = NoRow
INVARIANTS ConfirmedHolds PriceFinal
PROPERTIES ExpiredPruned
CHECK_DEADLOCK FALSE
