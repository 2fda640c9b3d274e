CONSTANTS
    Absent = Absent
    Clients = {c1, c2}
    ReadCount = 2
    MaxEntries = 3
    MaxCancels = 2
    Uploads = {u1, u2}
    Extractions = {e1, e2}
    MaxChunks = 2
    Providers = {p1, p2}
    Models = {m1}
    Streams = {s1}
    HistoryLimit = 2
    SubscriberQueueSize = 2
    MaxEvents = 3
    Filled = {"projects", "tasks", "agent_runs", "files", "resource_metrics", "event_records"}
SPECIFICATION Spec
CHECK_DEADLOCK FALSE
INVARIANTS
    TypeOK
    WholeExtractions
    CallsAccounted
    ReportTrue
    StreamsKeepNewest
PROPERTIES
    ReachesAll
    TailHasNoGap
    CleanedUp
    UpgradesFit
