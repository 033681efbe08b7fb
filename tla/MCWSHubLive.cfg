SPECIFICATION FairSpec
CONSTANTS
    Symbols = {btc}
    Blank = Blank
    NoSymbol = NoSymbol
    Clients = {c1}
    Adapters = {}
    MaxClients = 1
    SendBuffer = 1
    MaxDrops = 2
    Requests <- MCRequests
    Actions <- MCActions
    MaxActions = 1
    MaxSeq = 3
    MaxTick = 1
PROPERTIES GoneLeaves SlowLeaves ShutdownReachesAll
CHECK_DEADLOCK FALSE
