CONSTANTS
    Tasks = {t1}
    Workers = {w1, w2}
    Runners = {r1, r2, r3}
    Clients = {c1}
    NoTask = NoTask
    NoWorker = NoWorker
    NoRunner = NoRunner
    LeaseTime = 1
    MaxClock = 2
    MaxCrashes = 1
    Faults = TRUE
SPECIFICATION Spec
SYMMETRY Symmetry
CHECK_DEADLOCK FALSE
INVARIANTS
    TypeOK
    LeaseExclusive
    LeaseShape
    OutcomeAnnounced
    ActiveIsLive
PROPERTIES
    NoResurrection
    OutcomeFinal
    ImplementsContract
