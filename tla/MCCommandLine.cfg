CONSTANTS
  Configurations <- Files
  SpecFiles <- NetSpecs
  SpecPath <- Path
  Lines <- Typed
  MaxLines = 4
  NoTarget = NoTarget
SPECIFICATION Spec
CHECK_DEADLOCK FALSE
INVARIANTS
  PackageIsItsLine
  WhatIsTypedArrives
  OfferedIsAccepted
