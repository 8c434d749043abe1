CONSTANTS
    Callers = {p1, p2, p3}
    NoCaller = NoCaller
    Overlaps = {}
    MaxTokens = 4
    FaultKinds = {"redisError", "readError", "markError", "crash"}
    MaxFaults = 2
SPECIFICATION Spec
INVARIANTS
    OneRefresher
    ExpiredIsRevoked
    ConnectedIsUsable
    UninstallIsFinal
    StoreFollowsInstallation
