CONSTANTS
    Events = {e1}
    Workers = {w1, w2}
    FetchLimit = 2
    ReadCount = 2
    MaxAttempts = 2
    MaxCrashes = 1
    MaxFaults = 2
SPECIFICATION Spec
SYMMETRY Symmetry
CHECK_DEADLOCK FALSE
INVARIANTS
    TypeOK
    NothingDropped
    HandledOnce
    EntryHandledOnce
PROPERTIES
    ImplementsDelivery
