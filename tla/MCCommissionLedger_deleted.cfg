CONSTANTS
    i1 = i1
    u1 = u1
    u2 = u2
    closer = closer
    setter = setter
    AnyRole = AnyRole
    NoRule = NoRule
    NoWorker = NoWorker
    Installments = {i1}
    Recipients = {u1}
    Roles = {closer}
    SeedRules = {r1}
    Rules = {r1}
    NoRuleSlots = {n1, n2}
    Stages = {"closed", "refunded"}
    DefaultHold = 0
    Workers = {w1, w2}
    MaxRetries = 1
    MaxTime = 0
    MaxEdits = 0
    MaxRequests = 2
    MaxFailures = 0
    RoleOf <- OneRecipient
    Terms <- OneTerm
    ExpectedDate <- DueAtOnce
SPECIFICATION Spec
SYMMETRY Symmetric
INVARIANT
    DeletedSaleSettled
CHECK_DEADLOCK FALSE
