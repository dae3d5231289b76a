SPECIFICATION ReadSpec
CONSTANTS
    Eligible = {n1, n2}
    Retries = 2
    RetryableErrors = {Unavailable, NoResult}
    FatalErrors = {PermissionDenied, NameUnknown, HashMismatch}
    NoNodes = NoNodes
    RouterFaults = {ChainError}
    MaxFaults = 0
    None = None
    Contents = {c1, c2}
    Name = Name
    Undefined = Undefined
    NoResult = NoResult
    NameUnknown = NameUnknown
    HashMismatch = HashMismatch
    MaxWrites = 2
INVARIANTS
    ContentFitsCid
    NameIsOfTheAttempt
    MissingIsMissing
