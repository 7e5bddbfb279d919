CONSTANTS
    Kinds <- AllKinds
    Quotas = {0, 1, 2}
    FeeQuota = 1
    MaxRetry = 2
    MaxUse = 2
SPECIFICATION Spec
INVARIANTS
    ReportedWasTaken
    IntentCoversTaken
    UnbilledFailureIsFree
    AtMostOneSpentAttempt
    FeeOnlyAfterBaseReturned
PROPERTIES
    Terminates
