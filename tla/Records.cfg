SPECIFICATION RecordsSpec
VIEW Moving
CONSTANTS
    Request = {r1}
    Operation = {"create", "save", "delete", "project", "teardown", "plan", "deploy", "destroy"}
    MaxJobs = 3
    MaxFaults = 2
    MaxCrashes = 2
    MaxErasures = 2
    Visits = {1, 2}
    MaxTokens = 2
    MaxSessions = 1
    MaxChanges = 2
    Group = {"app", "ops"}
    Class <- OldClass
    MaxSaves = 1
    MaxRuns = 2
    NodeGroup = {"g", "h"}
    Address = {"x", "y"}
    MaxSize = 2
    Quota = 3
    Reserve = 2
    MaxStageSaves = 1
    MaxStages = 2
    MaxOutside = 1
    Host = {"h"}
    Route <- OnePath
    Name = {"h", "b"}
    MaxRules = 2
    MaxWork = 3
    Rotations = {q1, q2}
    MaxDeployTokens = 2
    MaxRevoked = 1
    Groups = {"g", "h"}
    Provisioners = {p1, p2}
    MaxRepositories = 2
    MaxBindings = 1
INVARIANTS
    LedgerOrHistorySpeaks
    GateKeepsDocuments
    GateKeepsTracked
    SessionsFollowAccount
    RoomIsLeft NothingIsInTheWay
    JenkinsCanClone DeliveriesAreOwn
PROPERTIES
    EndedSessionsStayEnded
    UpgradeIsSafe DeployedGroupsStay ConsoleAddressesStay
    SyncFollowsCluster ManualChangesStay
CHECK_DEADLOCK FALSE
