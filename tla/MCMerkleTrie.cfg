SPECIFICATION Spec
CONSTANTS
    Char = {0, 1}
    Key <- MCKey
    Batch <- MCBatch
    Sentinel <- MCSentinel
    TimestampLength = 1
    RootPrefix = 11
INVARIANTS
    TypeOK
    NodesAccurate
    DatabaseAccurate
    HoldsKeys
