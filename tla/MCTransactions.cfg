SPECIFICATION FairSpec
CONSTANTS
    Sends = {s1, s2}
    Foreign = Foreign
    Requests <- MCRequests
    MaxRetractions = 2
    MaxForeign = 1
INVARIANTS
    ResolvedIsFinal
    RemovedIsReported
    DepositIsRefusedForAReason
PROPERTY
    SettlesUnlessLost
