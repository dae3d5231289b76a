SPECIFICATION FairSpec
CONSTANTS
    Accounts = {a1, a2}
    NoAccount = NoAccount
    MaxCalls = 3
    MaxSwitches = 1
INVARIANTS
    PromptsAreNeeded
    TokenIsOfAccount
    RequestIsSignedBySubject
PROPERTY
    CallsEnd
