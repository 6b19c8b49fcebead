CONSTANTS
  leaf = leaf
  mid = mid
  root = root
  Servers = {leaf, mid, root}
  NoServer = NoServer
  Upstream <- Chain
  NumWorkers = 1
  Names <- MCNames
  Metrics <- TwoTimers
  Digest <- MCDigest
  PacketChanCap = 1
  ImportChanCap = 1
  Events = {}
  NumSinks = 1
  NumPlugins = 0
  NumAggregates = 3
  NumPercentiles = 3
  MayShutdown = {}
SPECIFICATION Spec
PROPERTY ImplementsAccounting
