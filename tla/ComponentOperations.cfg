SPECIFICATION OperationsSpec
VIEW Moving
CONSTANTS
    Kinds = {"data", "console", "stack", "monitoring", "custom", "base"}
    MaxTries = 5
    MaxEdits = 3
    Centres = {"A", "B"}
    Lineages = {"L", "M"}
    MaxSerial = 2
    MaxApplies = 1
    Workloads = {"a", "b"}
    MaxResizes = 2
    MaxWrites = 1
    MaxFailures = 1
    Executors = {"server", "cli"}
    Operators = {"operator"}
    MaxLocks = 4
    MaxPods = 3
    Deployers = {"d1", "d2", "d3"}
    MaxHolders = 3
    MaxHandlers = 2
    Deliveries = {"d"}
    Results = {"failed"}
    MaxItems = 2
    MaxBuilds = 2
    MaxRequests = 2
    MaxDistributions = 2
    Environments = {"e1", "e2"}
    Endpoints = {"x", "y"}
    Callers = {"c1", "c2"}
    MaxTunnels = 3
    Env = {"a", "b"}
    Start <- FirstDocuments
    Changes = {"stack", "loki", "remove", "move"}
    MaxForms = 2
    MaxPlans = 2
    RowRequests = {w1, w2}
    MaxConfigs = 2
    MaxSecrets = 1
INVARIANTS
    RunningReleasesStay TerraformMeetsNoPending
    StatesAreAccountedFor RunsOnCurrentState
    DocumentFollowsCluster
    OneTerraform OneDeployment NothingBuildsUnseen RowNamesEverything
    EveryTunnelIsKnown
    NamespacesAgree PipelineFollowsRow
PROPERTIES
    RecoveryKeepsVolumes SwitchKeepsWrites
CHECK_DEADLOCK FALSE
