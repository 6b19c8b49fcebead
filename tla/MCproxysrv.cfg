CONSTANTS
  Hosts = {1, 2}
  BadHosts = {2}
  Metrics = {1, 2}
  Hash <- MCHash
  Calls = {1, 2}
  List <- MCList
  MaxUpdates = 1
  SharedRing = TRUE
SPECIFICATION FairSpec
INVARIANT Accounted
PROPERTY CallsComplete
CHECK_DEADLOCK FALSE
