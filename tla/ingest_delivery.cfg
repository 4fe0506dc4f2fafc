SPECIFICATION Spec
CONSTANTS
    m1 = m1
    m1again = m1again
    m3 = m3
    m4 = m4
    m5 = m5
    Messages = {m1, m1again, m4}
    Workers = {w1, w2}
    KeyOf <- Key
    Unreadable = {m4}
    Unstorable = {}
    NoKey = NoKey
    NoMessage = NoMessage
    MaxCopies = 2
SYMMETRY WorkerSymmetry
INVARIANTS
    SettledIsStored
    OneRowPerKey
    NoneForgotten
