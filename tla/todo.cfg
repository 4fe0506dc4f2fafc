SPECIFICATION TodoSpec
CONSTANTS
    t1 = t1
    a = a
    b = b
    d = d
    Callers = {c1}
    InboxWorkers = {iw}
    CommandWorkers = {cw}
    EventWorkers = {}
    Ids = {1, 2, 3, 4}
    Data <- Carried
    NoData = NoData
    Requests <- Commands
    Mail <- Posted
    MaxAttempts = 2
    Rounds = 1
    Limit = 2
    ClocksAgree = TRUE
    Swept = {}
    MaxFaults = 1
    InitDb <- StartDb
    NoMemory = NoMemory
    NoError = NoError
    StorageError = StorageError
    Execute <- Handle
    Deliver <- Receive
    Subscribers <- Listeners
    Route <- Readable
    Todos = {t1}
    NoTodo = NoTodo
    Blank = Blank
    Plain <- Asked
    Inbound <- Sent
    Messages = {m1}
    NoMessage = NoMessage
    NoRequest = NoRequest
CHECK_DEADLOCK FALSE
INVARIANTS
    TodoTypeOK
    AnnouncedAsMade
    MessageBecomesCommand
    OkMeansTaken
