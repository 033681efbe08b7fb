SPECIFICATION DedupSpec
CONSTANTS
    NoKey = NoKey
    Keys = {k1, k2, k3, k4, k5}
    MaxEntries = 3
INVARIANTS SetMatchesRing
PROPERTY WindowSpec
