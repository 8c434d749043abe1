CONSTANTS
    Messages = {m1, m2}
    TxMessages = {m1}
    Workers = {w1, w2}
    RetryDelays = 2
    FaultKinds = {"publishError", "storeError", "timeout"}
    MaxFaults = 2
    NoJob = NoJob
SPECIFICATION RefSpec
INVARIANTS
    TypeOK
    NothingLost
    CompletedMeansExecuted
PROPERTIES
    IgnoredIsDuplicateOrActive
    EventuallySettled
    ImplementsContract
CHECK_DEADLOCK FALSE
