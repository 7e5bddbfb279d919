CONSTANTS
  o1 = o1
  o2 = o2
  a1 = a1
  a2 = a2
  w1 = w1
  w2 = w2
  Orders = {o1, o2}
  Amounts = {a1, a2}
  Other = other
  Watchers = {w1, w2}
  None = none
  TTL = 1
  MaxTransfers = 2
  Worlds <- FiveWorlds
SPECIFICATION Spec
SYMMETRY Symmetry
INVARIANTS
  OneVerdict
  PaidInTimeByItsBuyer
PROPERTIES
  ImplementsInvoice
  DoneIsJudged
  TimelyIsPaid
