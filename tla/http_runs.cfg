SPECIFICATION FairSpec
CONSTANTS
    k1 = k1
    k2 = k2
    q1 = q1
    x = x
    y = y
    bad = bad
    odd = odd
    Keys = {k1, k2, q1}
    QueueOf <- Home
    Generated = {k2}
    Contents = {x, y}
    Unfit = {bad}
    Garbled = {odd}
    InitialRows <- Queued
    NoContent = NoContent
    NoKey = NoKey
    NoCount = NoCount
    Calls = {c1, c2, c3}
    Asked <- Sent
    Limits = {0, 2, 3}
    MaxLimit = 2
    Publishing = FALSE
    MaxAttempts = 2
    MaxFaults = 1
CHECK_DEADLOCK FALSE
INVARIANTS
    ApiTypeOK
    ProcessedIsCompleted
    AnswersFit
PROPERTIES
    FirstSubmissionStays
    HeldIsGivenBack
