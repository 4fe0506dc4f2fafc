SPECIFICATION FairSpec
CONSTANTS
    Callers = {c1, c2}
    MaxCalls = 2
    Timeout = 2
CHECK_DEADLOCK FALSE
INVARIANTS
    OkMeansRouted
    NothingPending
    BoundedByPeers
PROPERTIES
    EveryCallReturns
