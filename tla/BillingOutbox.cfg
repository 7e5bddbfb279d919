CONSTANTS
    e1 = e1
    w1 = w1
    w2 = w2
    w3 = w3
    Events = {e1}
    Workers = {w1, w2, w3}
    Timings <- AllTimings
    MaxLogs = 3
SPECIFICATION FairSpec
INVARIANTS
    NothingLost
    FinalLogStays
PROPERTIES
    EventuallyDelivered
CHECK_DEADLOCK FALSE
