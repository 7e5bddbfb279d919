CONSTANTS
    t1 = t1
    t2 = t2
    t3 = t3
    Txns = {t1, t2, t3}
SPECIFICATION Spec
SYMMETRY TxnSymmetry
INVARIANTS
    CreditedOnce
    CreditedIsSuccess
PROPERTY ExpiredNotCredited
CHECK_DEADLOCK FALSE
