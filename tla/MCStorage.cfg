CONSTANTS
  Storages = {s1, s2}
  Names = {n1}
  FirstLines <- Lines
  MaxVersion = 3
  Compacting = TRUE
  NULL = NULL
SPECIFICATION Spec
SYMMETRY Symmetry
INVARIANTS
  QueueSound
  NoLostWakeup
  NothingElseForgotten
  FileMatchesMemory
  
PROPERTIES
  LeftAsRecorded
  FileFollowsMemory
