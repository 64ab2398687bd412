SPECIFICATION Spec
CONSTANTS
    Stores = {"verification"}
    Messages <- Offers
    Legacy <- MCLegacy
    Extends <- UrlPrefixes
    Thread = {t1, t2}
    FidLocks = 4
    MaxPrune = 2
INVARIANT OneOwner
