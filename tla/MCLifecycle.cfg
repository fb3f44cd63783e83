CONSTANTS
  Daemons = {1, 2}
  Clients = {11, 12}
  Renderers = {r1}
  Nobody = nobody
  MaxCommands = 1
SPECIFICATION FairSpec
CHECK_DEADLOCK FALSE
INVARIANTS
  NoStaleSocket

  
  
