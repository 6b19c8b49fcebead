SPECIFICATION PartSpec
CONSTANTS
  Parts = {"tcp", "readers", "listeners", "listenerrors", "settings", "startup", "settling", "stopping"}
  Clients <- MCClients
  Script <- MCScript
  TLS = TRUE
  Sentry = TRUE
  SystemErrors = TRUE
INVARIANTS LinesInOrder EOFComplete   StartsConfigured
PROPERTIES ListenersReturn QueuesDrain FlushCompletes
CHECK_DEADLOCK FALSE
