CONSTANTS
    N = 3
    Varied = {2}
    Limits = {2}
    Workers = {w1, w2}
    MaxEvents = 2
    MaxQueue = 1
SPECIFICATION Spec
SYMMETRY Symmetry
INVARIANT ProductTypeOK
PROPERTIES
    FullSyncReconciles
    SweepSparesLive
    FullSyncWithinLimit
