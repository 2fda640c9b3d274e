CONSTANTS
    Models = {m1}
    Requests = {r1, r2}
    CpuFallback = {m1}
    MaxPending = 2
    NoRequest = none
SPECIFICATION Spec

CHECK_DEADLOCK FALSE
PROPERTIES
    NoUnloadInUse
