SPECIFICATION FairSpec
CONSTANTS
    Ids = {1, 2}
    Workers = {w1}
    Sweepers = {1}
    MaxAttempts = 2
    Limit = 2
    Timeout = 0
    Skews = {0}
    BadShapes = {"list_extra_info"}
    FailSchedule <- CappedDelay
    SweepSchedule <- SweepDelay
    MaxDelay = 2
    MaxOverdue = 0
    MaxElapsed = 0
PROPERTIES
    StaleReleased
