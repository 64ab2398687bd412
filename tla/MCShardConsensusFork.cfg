SPECIFICATION Spec
CONSTANTS
    Node = {1, 2, 3}
    Msg = {m1}
    MaxHeight = 1
    MaxRound = 0
    Genesis = Genesis
INVARIANT Agreement
CHECK_DEADLOCK FALSE
