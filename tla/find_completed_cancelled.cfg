CONSTANTS
    Tasks = {t1}
    Workers = {w1}
    Runners = {r1}
    Clients = {c1}
    NoTask = NoTask
    NoWorker = NoWorker
    NoRunner = NoRunner
    LeaseTime = 1
    MaxClock = 1
    MaxCrashes = 0
    Faults = FALSE
SPECIFICATION Spec

CHECK_DEADLOCK FALSE
PROPERTIES
    CompletedNotCancelled
