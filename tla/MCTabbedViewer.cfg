CONSTANTS
  Sockets = {1, 2}
  Renderers = {r1}
  NoView = none
  MaxViews = 2
  MaxEvents = 2
SPECIFICATION FairSpec
CHECK_DEADLOCK FALSE
INVARIANTS
  QueuesSignalled
  RegistryFollowsTabs
  FocusFollowsPage
PROPERTIES
  ViewerEnds
