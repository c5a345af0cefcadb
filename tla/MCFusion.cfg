SPECIFICATION Spec
CONSTANTS
    a = a
    b = b
    c = c
    d = d
    RrfK = 2
    IdOrder <- MCIdOrder
    Listings <- MCListings
    TopN = 3
INVARIANTS
    RankedByFraction
    ConsensusFirst
    PromotionHelps
CHECK_DEADLOCK FALSE
