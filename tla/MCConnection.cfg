CONSTANTS
  Server = server
  Client = client
  Modulus = 16
  Window = 2
  ClientIds = {0, 15}
  Capacity = 3
  MaxCommands = 2
SPECIFICATION FairSpec
CHECK_DEADLOCK FALSE
INVARIANTS
  StreamIntact
  IdsDistinct
PROPERTIES
  NothingLostByShutdown
  ShutdownCompletes
