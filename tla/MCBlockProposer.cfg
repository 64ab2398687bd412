SPECIFICATION FairSpec
CONSTANTS
    NumNodes = 2
    NumShards = 2
    MaxHeight = 2
    MaxRound = 0
    ChannelCap = 2
    Time = {0}
    Genesis = Genesis
INVARIANTS
    TypeOK
    ChunksFitBlock
    NoChunkLost
PROPERTIES
    BlocksKeepComing
CHECK_DEADLOCK FALSE
