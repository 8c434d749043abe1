CONSTANTS
    Messages = {m1}
    TxMessages = {m1}
    Workers = {w1, w2}
    RetryDelays = 1
    FaultKinds = {"connectionLoss"}
    MaxFaults = 1
    NoJob = NoJob
SPECIFICATION Spec
INVARIANTS
    FailedIsDeadLettered
CHECK_DEADLOCK FALSE
