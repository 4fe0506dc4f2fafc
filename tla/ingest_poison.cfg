SPECIFICATION QuietSpec
CONSTANTS
    m1 = m1
    m1again = m1again
    m3 = m3
    m4 = m4
    m5 = m5
    Messages = {m1, m3, m4, m5}
    Workers = {w1}
    KeyOf <- Key
    Unreadable = {m4}
    Unstorable = {m5}
    NoKey = NoKey
    NoMessage = NoMessage
    MaxCopies = 2
PROPERTIES
    EveryMessageStored
    CancelledStops
