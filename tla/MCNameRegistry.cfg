SPECIFICATION RegistrySpec
CONSTANTS
    Thread = {t1, t2}
    Lock = {l1, l2}
    Unlocked = Unlocked
    TimeLimit = 3
    SeqSize = 2
    MaxIds = 3
    Name = {"a", "b"}
    Fid = {1, 2}
    Proof <- MCProof
INVARIANTS
    TypeOK
    EventIdsUnique
    NewestProofWins
    ByFidExact
PROPERTIES
    LockedEventsInOrder
SYMMETRY Symmetry
CHECK_DEADLOCK FALSE
