CONSTANTS
    Callers = {p1, p2}
    NoCaller = NoCaller
    Overlaps = {"refresh", "webhook"}
    MaxTokens = 2
    FaultKinds = {"redisError", "readError", "responseLost", "saveError", "markError", "crash", "crashBeforeSave", "slowHolder", "webhookError"}
    MaxFaults = 1
SPECIFICATION FairSpec
INVARIANTS
    TokenTypeOK
PROPERTIES
    RefreshEnds
    LockIsFreed
