CONSTANTS
    Messages = {m1}
    TxMessages = {m1}
    Workers = {w1, w2, w3}
    RetryDelays = 2
    FaultKinds = {"publishError", "storeError", "markFailedError", "slowRelease", "timeout", "connectionLoss", "crash"}
    MaxFaults = 3
    NoJob = NoJob
SPECIFICATION MCSpec
SYMMETRY Symmetry
INVARIANTS
    Conservation
    LockedAtMostOnce
    LockedSoleOwner
CHECK_DEADLOCK FALSE
