SPECIFICATION PlanSpec
CONSTANTS
    Env = {"a", "b"}
    Start <- FirstDocuments
    Changes = {"stack"}
    MaxForms = 2
    MaxPlans = 0
INVARIANTS
    ScopesAreApart
CHECK_DEADLOCK FALSE
