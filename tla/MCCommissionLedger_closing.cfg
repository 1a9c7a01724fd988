CONSTANTS
    i1 = i1
    u1 = u1
    u2 = u2
    closer = closer
    setter = setter
    AnyRole = AnyRole
    NoRule = NoRule
    NoWorker = NoWorker
    Installments = {i1}
    Recipients = {u1, u2}
    Roles = {closer, setter}
    Rules = {r1}
    SeedRules = {r1}
    NoRuleSlots = {n1, n2}
    Stages = {"closed", "refunded"}
    DefaultHold = 1
    Workers = {w1}
    MaxRetries = 1
    MaxTime = 1
    MaxEdits = 0
    MaxRequests = 3
    MaxFailures = 1
    RoleOf <- CloserAndSetter
    Terms <- HeldTerm
    ExpectedDate <- DueAtOnce
SPECIFICATION FairSpec
PROPERTIES
    ClosedSaleSettles
    HoldsEnd
    RunsEnd
    SettledKept
CHECK_DEADLOCK FALSE
