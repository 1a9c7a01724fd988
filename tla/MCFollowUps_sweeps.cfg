CONSTANTS
    o1 = o1
    o2 = o2
    o3 = o3
    f1 = f1
    a1 = a1
    a2 = a2
    u1 = u1
    u2 = u2
    cron = cron
    manual = manual
    Optins = {o1, o2}
    FollowUpKeys = {f1}
    Setters = {a1, a2}
    Users = {u1, u2}
    Sweepers = {cron, manual}
    Job = cron
    SweepLimit = 2
    MaxEdits = 3
    MaxFailures = 2
    NoSetter = NoSetter
    NoKey = NoKey
SPECIFICATION FairSpec
INVARIANTS TypeOK OneTaskPerKey ContactedOnce
PROPERTIES SweepsLeaveTasks LateLeadsChased
CHECK_DEADLOCK FALSE
