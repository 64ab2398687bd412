SPECIFICATION ViewsSpec
CONSTANTS
    Node = {1, 2, 3, 4}
    Msg = {m1}
    MaxHeight = 1
    MaxRound = 1
    Genesis = Genesis
    MaxMissing = 2
INVARIANT AgreementOfOverlappingViews
CHECK_DEADLOCK FALSE
