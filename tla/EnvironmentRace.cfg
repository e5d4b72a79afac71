CONSTANTS
    Request = {r1, r2}
    Operation = {"create", "save", "delete", "project", "teardown", "plan", "deploy", "destroy"}
    MaxJobs = 2
    MaxFaults = 0
    MaxCrashes = 0
    MaxErasures = 0
SPECIFICATION Spec
INVARIANTS
    ResourcesKeepTheirDocument
CHECK_DEADLOCK FALSE
