SPECIFICATION FairSpec
CONSTANTS
    Eligible = {n1, n2, n3}
    Retries = 5
    RetryableErrors = {Unavailable, Cancelled}
    FatalErrors = {PermissionDenied}
    NoNodes = NoNodes
    RouterFaults = {ChainError}
    MaxFaults = 4
    None = None
INVARIANTS
    LoadIsBalanced
    NodeErrorIsReported
PROPERTY
    KeepsContract
