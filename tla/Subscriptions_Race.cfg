CONSTANTS
    Kinds = {"trial.started", "started"}
    MaxEvents = 2
    Handlers = {h1, h2}
    Chats = {}
    Limit = 1
    MaxUsage = 1
    Disorders = {"reorder", "race"}
SPECIFICATION Spec
INVARIANTS
    IgnoredIsStale
CHECK_DEADLOCK FALSE
