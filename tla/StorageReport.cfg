SPECIFICATION ResizeSpec
CONSTANTS
    Workloads = {"a", "b"}
    MaxResizes = 1
    MaxWrites = 1
    MaxFailures = 1
INVARIANTS ReportedServiceRuns
CHECK_DEADLOCK FALSE
