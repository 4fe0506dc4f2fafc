SPECIFICATION InboxFairSpec
CONSTANTS
    Ids = {1, 2}
    Workers = {w1}
    Sweepers = {1}
    MaxAttempts = 2
    Limit = 1
    Timeout = 1
    Skews = {0, 1}
    BadShapes = {"bad_extra_info", "bad_meta"}
    FailSchedule <- InboxRetryDelay
    SweepSchedule <- InboxTimeoutDelay
    MaxDelay = 2
    MaxOverdue = 1
    MaxElapsed = 0
PROPERTIES
    EverySettles
