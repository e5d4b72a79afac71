SPECIFICATION Spec
CONSTANTS
    Job = {j1, j2}
    Env = {e1}
    Worker = {w1}
    Action = {"deploy"}
    QueueCap = 2
    HistoryLimit = 2
    Faults = FALSE
    MaxCrashes = 1
    NoJob = NoJob
    NoRequest = NoRequest
INVARIANT EnvironmentMutex
CHECK_DEADLOCK FALSE
