CONSTANTS
    s1 = s1
    s2 = s2
    Sessions <- TwoSessions
    NSubs = 1
    SubTotal <- OneLimitedSub
    AllowOverflow = TRUE
    KeyUnlimited = FALSE
    InitWallet = 3
    InitKey = 3
    Amounts = {0, 1, 2}
    Prefs <- AllPrefs
    PlaygroundModes = {TRUE, FALSE}
    ForcePreConsume = TRUE
    TrustQuota = 1
    MaxPeriods = 0
SYMMETRY SessionSymmetry
SPECIFICATION Spec
INVARIANTS
    TypeOK
    BooksMatchLedger
    QuotaConserved
    WalletOverdraftBounded
    PlanNotOversold
PROPERTIES
    FinishedIsFinal
    ImplementsLedger
CHECK_DEADLOCK FALSE
