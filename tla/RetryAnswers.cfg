SPECIFICATION BuildSpec
CONSTANTS
    MaxHandlers = 1
    Deliveries = {"d"}
    Results = {"succeeded", "failed"}
    MaxItems = 2
    MaxBuilds = 2
INVARIANTS RetryRuns
CHECK_DEADLOCK FALSE
