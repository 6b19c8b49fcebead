CONSTANTS
  leaf = leaf
  mid = mid
  root = root
  Servers = {leaf, root}
  NoServer = NoServer
  Upstream <- TwoTier
  NumWorkers = 2
  Names <- MCNames
  Metrics <- TwoHistos
  Digest <- MCDigest
  PacketChanCap = 1
  ImportChanCap = 1
  Events = {}
  NumSinks = 1
  NumPlugins = 0
  NumAggregates = 3
  NumPercentiles = 3
  MayShutdown = {}
SPECIFICATION Spec
INVARIANTS SeriesOncePerFlush AggregatesAreLocal ScopeHonoured CountedOnce
PROPERTY ImplementsAccounting
