CONSTANTS
    s1 = s1
    s2 = s2
    Sessions <- TwoSessions
    NSubs = 2
    SubTotal <- TwoSubs
    AllowOverflow = FALSE
    KeyUnlimited = TRUE
    InitWallet = 2
    InitKey = 0
    Amounts = {1, 2}
    Prefs = {"subscription_first", "wallet_only"}
    PlaygroundModes = {TRUE}
    ForcePreConsume = FALSE
    TrustQuota = 1
    MaxPeriods = 2
SYMMETRY SessionSymmetry
SPECIFICATION Spec
INVARIANTS
    NoPhantomUsage
CHECK_DEADLOCK FALSE
