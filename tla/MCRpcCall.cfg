SPECIFICATION CallSpec
CONSTANTS
    Codes = {"NOT_FOUND", "UNAVAILABLE"}
    MaxChunks = 2
    MaxMessages = 2
INVARIANTS
    NodeStatusIsReported
    AnsweredIsNotTimedOut
PROPERTY
    NoCallHangs
CHECK_DEADLOCK FALSE
