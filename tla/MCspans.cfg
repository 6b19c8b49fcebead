SPECIFICATION PartSpec
CONSTANTS
  Parts = {"pipeline", "client", "unbuffered", "foreign", "traces", "finishes", "emit"}
  id1 = id1
  id2 = id2
  Spans <- MCSpanSet
  Waiting <- MCSpanSet
  Samples = {}
  Empty = {}
  Flushers = {"f1", "tick"}
  Ticker = "tick"
  DefaultCapacity = 1
  DefaultParallelism = 2
  ChanCap = 1
  MaxBackends = 2
  MaxTicks = 1
  MaxReports = 1
  OptionSets <- MCBuffered
  Kinds = {"unix"}
SYMMETRY MCSymmetry
INVARIANTS SpansServed  StreamFramed TracesConsistent CallsNest
CHECK_DEADLOCK FALSE
