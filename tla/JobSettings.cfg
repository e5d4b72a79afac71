SPECIFICATION SettingsSpec
CONSTANTS
    Job = {j1, j2, j3}
    Env = {e1, e2}
    Worker = {w1, w2}
    Action = {"deploy", "destroy"}
    QueueCap = 1
    HistoryLimit = 1
    Faults = FALSE
    MaxCrashes = 2
    NoJob = NoJob
    NoRequest = NoRequest
SYMMETRY Symmetry
INVARIANTS
    TypeOK
    OneWorkerPerEnvironment
    NoJobIsStranded
    ActiveIsDurable
    SuccessMeansCleaned
    SoundMemory
PROPERTIES
    KeepsEnvironmentsExclusive
    OverStaysOver
CHECK_DEADLOCK FALSE
