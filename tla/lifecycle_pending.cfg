CONSTANTS
    Tasks = {t1, t2}
    Workers = {w1}
    Runners = {r1, r2}
    Clients = {c1}
    NoTask = NoTask
    NoWorker = NoWorker
    NoRunner = NoRunner
    LeaseTime = 1
    MaxClock = 2
    MaxCrashes = 0
    Faults = FALSE
SPECIFICATION FairSpec
CHECK_DEADLOCK FALSE
INVARIANTS
    QueuedIsPending
    RetryOfFinished
PROPERTIES
    QueuedFinishes
