SPECIFICATION FairSpec
CONSTANTS
    Job = {j1, j2}
    Env = {e1}
    Worker = {w1}
    Action = {"deploy", "destroy"}
    QueueCap = 1
    HistoryLimit = 1
    Faults = TRUE
    MaxCrashes = 1
    NoJob = NoJob
    NoRequest = NoRequest
PROPERTIES
    EverySubmissionEnds
CHECK_DEADLOCK FALSE
