CONSTANTS
    Tools = {t1, t2}
    Registered = {t1, t2}
    ApprovalRequired = {t2}
    MaxSteps = 2
    MaxRetries = 2
    RecursionLimit = 18
    PlanLength = 2
SPECIFICATION Spec
CHECK_DEADLOCK FALSE
INVARIANTS
    FailedRunIsFailed
