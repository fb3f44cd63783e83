CONSTANTS
  Controllers = {c1}
  Viewers = {w1}
  Renderers = {r1}
  Views = {v1, v2}
  ViewIds = {i1}
  Types = {none}
  NoType = none
  NULL = NULL
SPECIFICATION FairSpec
CHECK_DEADLOCK FALSE
INVARIANTS
  TypeOK
  RegistriesAgree
  ViewTablesAgree

  
