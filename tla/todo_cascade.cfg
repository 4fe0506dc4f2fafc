SPECIFICATION TodoFairSpec
CONSTANTS
    t1 = t1
    a = a
    b = b
    d = d
    Callers = {c1}
    InboxWorkers = {}
    CommandWorkers = {cw}
    EventWorkers = {ew}
    Ids = {1, 2}
    Data <- Carried
    NoData = NoData
    Requests <- Commands
    Mail = {}
    MaxAttempts = 2
    Rounds = 0
    Limit = 4
    ClocksAgree = TRUE
    Swept = {"command", "event"}
    MaxFaults = 2
    InitDb <- StartDb
    NoMemory = NoMemory
    NoError = NoError
    StorageError = StorageError
    Execute <- Handle
    Deliver <- Receive
    Subscribers <- Listeners
    Route <- Readable
    Todos = {t1}
    NoTodo = NoTodo
    Blank = Blank
    Plain <- Asked
    Inbound <- Sent
    Messages = {}
    NoMessage = NoMessage
    NoRequest = NoRequest
CHECK_DEADLOCK FALSE
INVARIANTS
    CauseUnique
    JournalCoversDone
PROPERTY
    EveryRowSettles
