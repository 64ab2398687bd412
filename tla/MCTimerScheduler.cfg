SPECIFICATION FairSpec
CONSTANTS
    Round = {0, 1}
    MaxGeneration = 3
    TimeoutBase <- MCBase
    TimeoutDelta <- MCDelta
INVARIANTS
    TypeOK
    NoStaleTimeout
    ActiveTimerHasDelivery
PROPERTIES
    BackoffOnlyOnLiveTimeout
    EveryTimerEnds
