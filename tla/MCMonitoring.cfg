SPECIFICATION Spec
CONSTANTS
  Threads = 2
  MaxAmount = 1
  MaxConnections = 2
  MaxTraffic = 2
INVARIANTS
  CurrentWasTrue
  LastsCountOnce
  TotalCoversLasts
CHECK_DEADLOCK FALSE
