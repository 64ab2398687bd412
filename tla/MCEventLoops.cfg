SPECIFICATION Spec
CONSTANTS
    Actor = {shard0, shard1}
    SystemSize = 2
    GossipSize = 3
PROPERTY RegistrationGoesOut
CHECK_DEADLOCK FALSE
