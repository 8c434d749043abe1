CONSTANTS
    Kinds = {"trial.started", "started", "unpriced", "extended", "trial.expired", "canceled"}
    QuotaKinds = {"started", "extended", "canceled"}
    MaxEvents = 2
    Handlers = {h1, h2}
    Chats = {c1, c2}
    Limit = 1
    MaxUsage = 5
    Disorders = {"reorder", "tie", "overlap", "race"}
SPECIFICATION Spec
SYMMETRY Symmetry
CONSTRAINT Focus
INVARIANTS
    SubTypeOK
    LatestEventDecides
    NewestStartWins
    TrialEndSparesPaid
    StartIsSynced
    UsageWithinLimit
PROPERTIES
    LastEventMonotone
    RefusalMeansExceeded
CHECK_DEADLOCK FALSE
