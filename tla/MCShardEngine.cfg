SPECIFICATION Spec
CONSTANTS
    Msg = {m1, m2}
    MempoolSize = 1
    MaxHeight = 2
    MaxCrashes = 1
    MaxEras = 1
INVARIANTS
    TypeOK
    TrieIsCommittedChunks
    PanicOnlyAfterGap
    MessageOnce
    UnlinkedOnlyWhereStarted
PROPERTY StoreWriteOnce
CHECK_DEADLOCK FALSE
SYMMETRY Symmetry
