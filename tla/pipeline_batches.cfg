CONSTANTS
    Events = {e1, e2}
    Workers = {w1, w2}
    FetchLimit = 2
    ReadCount = 2
    MaxAttempts = 1
    MaxCrashes = 1
    MaxFaults = 0
SPECIFICATION Spec
SYMMETRY Symmetry
CHECK_DEADLOCK FALSE
INVARIANTS
    SentOnce
PROPERTIES
    ImplementsDelivery
