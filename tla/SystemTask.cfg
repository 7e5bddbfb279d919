CONSTANTS
    r1 = r1
    r2 = r2
    Runners = {r1, r2}
    TTL = 1
    Bounds <- StallOrSucceed
SPECIFICATION FairSpec
INVARIANTS
    OneRunnerPerTask
    LoserRecordsNothing
PROPERTY
    TaskEnds
CHECK_DEADLOCK FALSE
