CONSTANTS
  Controllers = {c1}
  Viewers = {w1}
  Renderers = {r1, r2}
  Views = {v1}
  ViewIds = {i1}
  Types = {none}
  NoType = none
  NULL = NULL
SPECIFICATION Spec
SYMMETRY Symmetry
VIEW AliveOrFault
CHECK_DEADLOCK FALSE
PROPERTIES
  LinkedWhileBothExist
