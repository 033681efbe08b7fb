SPECIFICATION FairSpec
CONSTANTS
    NoKey = NoKey
    Keys = {k1, k2}
    MaxEntries = 1
    Sources = {s1}
    MaxMessages = 3
    RawCap = 1
    NormalizedCap = 1
    WriterCap = 1
    EngineCap = 1
    HasDB = TRUE
INVARIANTS DuplicatesApart Balanced
PROPERTIES EngineFifo WriterFifo PipelineStops PipelineDrains
CHECK_DEADLOCK FALSE
