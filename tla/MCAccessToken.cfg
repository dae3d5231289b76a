SPECIFICATION Spec
CONSTANTS
    Zero = Zero
    None = None
    UnknownNo = 1000
    Owner = Owner
    Users = {Alice, Bob}
    Limits <- MCLimits
    DefaultExpiry = 2
    MaxLinks = 2
    DepthLimit = 3
    Sent <- Samples
    MaxDepth = 2
    Encode <- NestedWrite
    Decode <- NestedRead
    IsNested <- NestedIsMessage
    PrevHolds <- PrevChainHolds
    PrevMentions <- PrevChainMentions
    MaxFields = 2
INVARIANTS
    MessageSurvives
    SignatureSurvives
    GrantWorks
    UseAddsNothing
CHECK_DEADLOCK FALSE
