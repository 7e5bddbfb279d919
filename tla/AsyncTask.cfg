CONSTANTS
    p1 = p1
    p2 = p2
    u1 = u1
    w1 = w1
    w2 = w2
    Pollers = {p1, p2}
    Users = {u1}
    Workers = {w1, w2}
    Actuals = {1, 3}
    Worlds <- FourSettings
SPECIFICATION FairSpec
INVARIANTS
    BilledOnce
    StageTellsRefund
PROPERTIES
    RefundCompletes
    TaskEnds
CHECK_DEADLOCK FALSE
