CONSTANTS
  leaf = leaf
  mid = mid
  root = root
  Servers = {root}
  NoServer = NoServer
  Upstream <- Single
  NumWorkers = 2
  Names <- MCNames
  Metrics <- Published
  Digest <- MCDigest
  PacketChanCap = 1
  ImportChanCap = 1
  Events = {"e1"}
  NumSinks = 2
  NumPlugins = 2
  NumAggregates = 3
  NumPercentiles = 3
  MayShutdown = {root}
SPECIFICATION Spec
PROPERTY ImplementsAccounting
CHECK_DEADLOCK FALSE
