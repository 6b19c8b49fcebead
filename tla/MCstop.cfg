CONSTANTS
  Hosts = {1, 2}
  BadHosts = {}
  Metrics = {1, 2}
  Hash <- MCHash
  Calls = {1}
  List <- MCList
  MaxUpdates = 1
  SharedRing = FALSE
SPECIFICATION Spec
INVARIANT StopClosesAll
CHECK_DEADLOCK FALSE
