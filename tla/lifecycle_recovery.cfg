CONSTANTS
    Tasks = {t1}
    Workers = {w1, w2}
    Runners = {r1, r2}
    Clients = {}
    NoTask = NoTask
    NoWorker = NoWorker
    NoRunner = NoRunner
    LeaseTime = 1
    MaxClock = 4
    MaxCrashes = 1
    Faults = TRUE
SPECIFICATION FairSpec

CHECK_DEADLOCK FALSE
PROPERTIES
    RunningIsLeft
