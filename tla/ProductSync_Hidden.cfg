CONSTANTS
    N = 2
    Varied = {2}
    Limits = {2}
    Workers = {w1}
    MaxEvents = 0
    MaxQueue = 1
SPECIFICATION Spec
PROPERTY HiddenIsStale
