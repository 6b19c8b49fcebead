SPECIFICATION PartSpec
CONSTANTS
  Parts = {"calls", "start", "requests", "refused", "kubernetes"}
  Hosts = {1, 2, 3}
  BadHosts = {3}
  Metrics = {1}
  Hash <- MCHash
  Calls = {1}
  List <- MCList
  MaxUpdates = 3
  SharedRing = FALSE
INVARIANT GracePeriod
PROPERTIES PrunesOnlyStale  
CHECK_DEADLOCK FALSE
