CONSTANTS
    t1 = t1
    t2 = t2
    Turns = {t1}
    MaxIters = 3
    Cap = 1
    PlanCosts = {0, 2}
    MaxCost = 2
    MaxCalls = 1
    Kinds = {"keyed", "unkeyed", "throwing", "failing", "denied", "malformed", "unknown"}
    MaxRetries = 2
    MaxFailures = 3
SPECIFICATION FairSpec
CHECK_DEADLOCK FALSE
INVARIANTS TypeOK CostBounded InputKept OneTaskPerKey ExecutionsAudited
PROPERTIES TurnsEnd
