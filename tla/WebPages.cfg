CONSTANTS
  Keys = {"address", "name"}
  Values = {0, 1, 2}
  First = 0
  Stored <- TrimmedFirst
  NoValue = NoValue
  MaxEdits = 2
  MaxSaves = 2
  MaxOthers = 1
  MaxFetches = 1
  MaxPutFaults = 1
  MaxGetFaults = 1
  o1 = o1
  o2 = o2
  Orders = {o1, o2}
  Pages = 2
  all = all
  search = search
  Filters = {all, search}
  FirstFilter = all
  None = None
  MaxMoves = 2
  MaxPosts = 2
  Order = o1
  MaxCancels = 3
  MaxFaults = 1
  Closed = Closed
SPECIFICATION FairSpec
INVARIANTS
  ShownIsTrue
PROPERTIES
  OnlyTypedIsSent
  EveryWaitEnds
CHECK_DEADLOCK FALSE
