CONSTANTS
    Readers = {r1}
    Writers = {w1, w2}
    Changes = {{"isEnabled"}, {"customPersona", "storePolicies"}}
    MaxUpdates = 2
    MaxErrors = 1
    SUMMARY_MESSAGE_INTERVAL = 4
    HISTORY_TAIL_CEILING = 8
    Sizes = {2, 4}
    TTL = 2
    MaxRunning = 2
    MaxTurns = 3
    MaxTicks = 2
    MaxFailures = 1
SPECIFICATION ChatSpec
INVARIANTS
    MCTypeOK
    PromptsAreSound
    SettingsAreCurrent
    NothingForgotten
    SummaryKeepsUp
    ArchiveIsShown
    SeededPlansAreUsed
    PagesAgree
PROPERTIES
    SearchKeepsPromise
    TaggedAreShownOnce
    StaleHeals
CONSTRAINT Focus
CHECK_DEADLOCK FALSE
