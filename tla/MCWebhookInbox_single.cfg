CONSTANTS
    Provider = "gohighlevel"
    Feed <- Mixed
    Stages <- Slugs
    Workers = {"w1"}
    MaxRetries = 1
    MaxBackfillRetries = 1
    MaxDups = 0
    MaxReplays = 1
    MaxFailures = 1
SPECIFICATION FairSpec
CHECK_DEADLOCK FALSE
PROPERTIES AcceptedProcessed
