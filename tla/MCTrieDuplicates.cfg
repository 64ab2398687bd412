SPECIFICATION Spec
CONSTANTS
    Char = {0, 1}
    Key <- MCKey
    Batch <- DuplicateBatch
    Sentinel <- MCSentinel
    TimestampLength = 1
    RootPrefix = 11
INVARIANT NodesAccurate
