CONSTANTS
  Controllers = {c1}
  Viewers = {w1}
  Renderers = {r1}
  Jobs = {j1, j2, j3}
  Commands = {k1, k2}
  MaxId = 2
  NULL = NULL
SPECIFICATION FairSpec
CHECK_DEADLOCK FALSE
INVARIANTS
  TypeOK
  JobGraphSound
  
  OwedIsTracked
  
PROPERTIES
  KeepsPromise
  AnswersComeBack
