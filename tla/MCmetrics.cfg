SPECIFICATION PartSpec
CONSTANT Parts = {"digest", "merge", "plugins", "packets", "split", "events", "datadog", "chunks", "signalfx",
  "prometheus", "gauges"}
INVARIANTS DigestSound     SignalFxRouted 
PROPERTIES GaugesOnce
CHECK_DEADLOCK FALSE
