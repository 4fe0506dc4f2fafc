SPECIFICATION EventSpec
CONSTANTS
    Ids = {1, 2}
    Workers = {w1}
    Sweepers = {1, 2}
    MaxAttempts = 2
    Limit = 2
    Timeout = 0
    Skews = {0}
    BadShapes = {}
    FailSchedule <- EventRetryDelay
    SweepSchedule <- EventTimeoutDelay
    MaxDelay = 2
    MaxOverdue = 0
    MaxElapsed = 1
INVARIANTS
    SweepReadStable
    NoSweepDeadlock
