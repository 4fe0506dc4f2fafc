SPECIFICATION OutboxSpec
CONSTANTS
    Ids = {1}
    Workers = {w1, w2}
    Sweepers = {1, 2}
    MaxAttempts = 3
    Limit = 2
    Timeout = 0
    Skews = {0}
    BadShapes = {"bad_meta", "list_extra_info"}
    FailSchedule <- FailureDelay
    SweepSchedule <- TimeoutDelay
    MaxDelay = 3
    MaxOverdue = 0
    MaxElapsed = 1
SYMMETRY Symmetry
INVARIANTS
    LastErrorAgrees
    BurialsAccounted
PROPERTIES
    BuriedAsSeen
    DeadIsFinal
    KeepsPromise
