SPECIFICATION FairSpec
CONSTANTS
    EngineWriters = {snapshots, others}
    OtherSymbol = others
    RawWriter = raw
    QueueCap = 1
    MaxRows = 2
    Key <- MCKey
    MaxItems <- MCMaxItems
    MaxFaults = 1
PROPERTIES StoresOnce Settled WritersReturn
CHECK_DEADLOCK FALSE
