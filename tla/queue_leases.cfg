SPECIFICATION Spec
CONSTANTS
    Ids = {1, 2}
    Workers = {w1, w2}
    Sweepers = {1}
    MaxAttempts = 2
    Limit = 2
    Timeout = 0
    Skews = {0}
    BadShapes = {"bad_meta"}
    FailSchedule <- CappedDelay
    SweepSchedule <- SweepDelay
    MaxDelay = 2
    MaxOverdue = 0
    MaxElapsed = 0
SYMMETRY Symmetry
INVARIANTS
    TypeOK
    LeaseExclusive
    CompletionBacked
    AttemptsAccounted
    ReservedDecodes
PROPERTIES
    CompletedIsFinal
    KeepsPromise
