SPECIFICATION Spec
CONSTANTS
    NumNodes = 2
    NumShards = 2
    MaxHeight = 1
    MaxRound = 1
    ChannelCap = 2
    Time = {0}
    Genesis = Genesis
INVARIANT BlockContentsAgree
CHECK_DEADLOCK FALSE
