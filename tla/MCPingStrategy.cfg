SPECIFICATION FairSpec
CONSTANTS
    full = full
    storage = storage
    cache = cache
    Nodes <- MCNodes
    Mode <- MCMode
    OwnPriority <- MCOwnPriority
    SslNodes <- MCNodes
    SslRequired = FALSE
    Offers <- MCOffers
    Calls = {c1, c2}
    Threshold = 2
    ThresholdInc = 1
    LatencyGroup = 1
    AbortTimeout = 2
    None = None
INVARIANTS
    EnoughPinged
PROPERTIES
    UnresponsiveIsLast
    BestOfItsLevel
    CallSelects
