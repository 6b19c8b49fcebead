CONSTANTS
  leaf = leaf
  mid = mid
  root = root
  Servers = {root}
  NoServer = NoServer
  Upstream <- Single
  NumWorkers = 2
  Names <- MCNames
  Metrics <- Published
  Digest <- MCDigest
  PacketChanCap = 1
  ImportChanCap = 1
  Events = {}
  NumSinks = 1
  NumPlugins = 0
  NumAggregates = 3
  NumPercentiles = 3
  MayShutdown = {}
SPECIFICATION Spec
INVARIANT TallyOverestimates
