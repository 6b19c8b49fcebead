CONSTANTS
  Hosts = {1, 2}
  BadHosts = {}
  Metrics = {1, 2}
  Hash <- MCHash
  Calls = {1}
  List <- MCList
  MaxUpdates = 2
  SharedRing = TRUE
SPECIFICATION Spec
PROPERTY PrunesOnlyStale
CHECK_DEADLOCK FALSE
