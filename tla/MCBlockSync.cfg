SPECIFICATION Spec
CONSTANTS
    Peer = {p1, p2}
    MaxChain = 3
    PageSize = 2
    QueueCap = 1
INVARIANTS
    TypeOK
    StoreIsPrefix
PROPERTIES
    SyncContinues
