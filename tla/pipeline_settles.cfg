CONSTANTS
    Events = {e1}
    Workers = {w1, w2}
    FetchLimit = 2
    ReadCount = 2
    MaxAttempts = 2
    MaxCrashes = 1
    MaxFaults = 1
SPECIFICATION FairSpec

CHECK_DEADLOCK FALSE
PROPERTIES
    EventSettles
