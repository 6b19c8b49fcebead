SPECIFICATION PartSpec
CONSTANT Parts = {"pipeline", "client", "stream", "extract", "kafka", "kafkarates", "datadog", "grpc", "lightstep"}
INVARIANTS StreamComplete ExtractionExact  
PROPERTIES NothingWaits KeepsNewest
CHECK_DEADLOCK FALSE
