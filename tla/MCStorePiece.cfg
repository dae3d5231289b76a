SPECIFICATION StoreFairSpec
CONSTANTS
    Eligible = {n1, n2}
    Retries = 2
    RetryableErrors = {Unavailable}
    FatalErrors = {PermissionDenied, StreamLocked, BadSize}
    NoNodes = NoNodes
    RouterFaults = {ChainError}
    MaxFaults = 1
    None = None
    Kinds = {"bytes", "iterable", "contentStream", "inputStream", "iterator", "unary"}
    MaxTotal = 3
    MaxPieceSize = 2
    StreamLocked = StreamLocked
    BadSize = BadSize
INVARIANTS
    NoDanglingName
    NothingPartialIsStored
