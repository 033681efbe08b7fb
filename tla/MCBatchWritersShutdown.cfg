SPECIFICATION Spec
CONSTANTS
    EngineWriters = {snapshots, others}
    OtherSymbol = others
    RawWriter = raw
    QueueCap = 1
    MaxRows = 2
    Key <- MCKey
    MaxItems <- MCMaxItems
    MaxFaults = 1
INVARIANT ShutdownWrites
CHECK_DEADLOCK FALSE
