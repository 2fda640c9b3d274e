CONSTANTS
    Models = {m1, m2}
    Requests = {r1, r2, r3}
    CpuFallback = {m1}
    MaxPending = 2
    NoRequest = none
SPECIFICATION FairSpec

CHECK_DEADLOCK FALSE
INVARIANTS
    TypeOK
    PendingExact
    CountsLeases
    NoMissedWakeup
PROPERTIES
    UnloadSafe
    WaiterLeaves
