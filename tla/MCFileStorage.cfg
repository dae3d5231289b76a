SPECIFICATION FairSpec
CONSTANTS
    MinBufferSize = 2
    MaxBufferSize = 5
    DefaultBufferSize = 5
    MaxTotal = 8
    MaxChunk = 4
    None = None
INVARIANTS
    PartsTileTheBody
    FulfilledIsWhole
    HeldIsBounded
PROPERTY
    StoreSettles
