SPECIFICATION Spec
CONSTANTS
    Stores <- MCStores
    Messages <- Offers
    Legacy <- MCLegacy
    Extends <- UrlPrefixes
    Thread = {t1, t2}
    FidLocks = 4
    MaxPrune = 2
INVARIANTS TypeOK IndexesMatch Converges CompactRespected QueriesExact
PROPERTY AtomicStore
SYMMETRY ThreadSymmetry
