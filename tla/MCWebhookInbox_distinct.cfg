CONSTANTS
    Provider = "gohighlevel"
    Feed <- Rescheduled
    Stages <- Slugs
    Workers = {"w1"}
    MaxRetries = 1
    MaxBackfillRetries = 1
    MaxDups = 0
    MaxReplays = 0
    MaxFailures = 0
SPECIFICATION Spec
CHECK_DEADLOCK FALSE
INVARIANTS DistinctEventsKept
