SPECIFICATION RoutesSpec
CONSTANTS
    Host = {"h"}
    Route <- SomeRoutes
    Name = {"h", "b"}
    MaxRules = 2
    MaxWork = 2
PROPERTIES
    SyncKeepsPendingRoutes
CHECK_DEADLOCK FALSE
