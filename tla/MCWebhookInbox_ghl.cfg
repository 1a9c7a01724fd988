CONSTANTS
    Provider = "gohighlevel"
    Feed <- Showed
    Stages <- Slugs
    Workers = {"w1", "w2"}
    MaxRetries = 1
    MaxBackfillRetries = 1
    MaxDups = 0
    MaxReplays = 1
    MaxFailures = 1
SPECIFICATION Spec
CHECK_DEADLOCK FALSE
INVARIANTS TypeOK EventsOfStoredPayload OneCallPerRun
PROPERTIES ContractKept
