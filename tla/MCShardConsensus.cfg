SPECIFICATION ScopedSpec
CONSTANTS
    Node = {1, 2, 3}
    Msg = {m1}
    MaxHeight = 2
    MaxRound = 1
    Genesis = Genesis
    MaxMissing = 2
INVARIANTS
    TypeOK
    AgreementOfOverlappingViews
    NoCommitPanic
    ChainLinked
PROPERTIES
    NeverGoesBack
    KeepsStarting
    Implements
CHECK_DEADLOCK FALSE
