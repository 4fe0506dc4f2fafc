SPECIFICATION TwitterSpec
CONSTANTS
    u1 = u1
    u2 = u2
    t0 = t0
    t1 = t1
    none = none
    Callers = {c1, c2}
    InboxWorkers = {}
    CommandWorkers = {}
    EventWorkers = {}
    Ids = {1, 2, 3}
    Data <- Carried
    NoData = NoData
    Requests <- AllRequests
    Plain <- Asked
    Mail = {}
    MaxAttempts = 2
    Rounds = 2
    Limit = 4
    ClocksAgree = TRUE
    Swept = {}
    MaxFaults = 1
    InitDb <- StartDb
    NoMemory = NoMemory
    NoError = NoError
    StorageError = StorageError
    Execute <- Handle
    Deliver <- Receive
    Subscribers <- Listeners
    Route <- NoRoute
    Inbound <- Sent
    Messages = {m1, m2}
    NoMessage = NoMessage
    NoRequest = NoRequest
SYMMETRY Symmetry
CHECK_DEADLOCK FALSE
INVARIANTS
    OnlyRealChanges
    FanOutDelivers
    CompletedAnnounced
    DeliveredToAll
