CONSTANTS
  Controllers = {c1}
  Viewers = {w1}
  Renderers = {r1, r2}
  Views = {v1}
  ViewIds = {i1}
  Types = {none, x}
  NoType = none
  NULL = NULL
SPECIFICATION Spec
SYMMETRY Symmetry
VIEW AliveOrFault
CHECK_DEADLOCK FALSE
INVARIANTS
  LinkKeysLive
  LinksInverse
  NoDanglingLink
PROPERTIES
  LinkedUntilRelinked
