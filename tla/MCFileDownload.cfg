SPECIFICATION FairSpec
CONSTANTS
    b1 = b1
    b2 = b2
    Chunks = {b1, b2}
    Cid <- MCCid
    MaxMessages = 3
INVARIANTS
    AcknowledgedWasRead
    ReadIsSent
    EndIsAuthentic
PROPERTY
    StreamEnds
