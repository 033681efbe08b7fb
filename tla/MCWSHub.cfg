SPECIFICATION Spec
CONSTANTS
    Symbols = {btc}
    Blank = Blank
    NoSymbol = NoSymbol
    Clients = {c1, c2}
    Adapters = {a1}
    MaxClients = 1
    SendBuffer = 1
    MaxDrops = 1
    Requests <- MCRequests
    Actions <- MCActions
    MaxActions = 0
    MaxSeq = 3
    MaxTick = 1
INVARIANTS ClosedOnce CaughtUp
PROPERTIES StreamSpec
CHECK_DEADLOCK FALSE
SYMMETRY Connections
