CONSTANTS
  Descriptors = {1, 2}
  MaxFiles = 3
  MaxStarts = 2
SPECIFICATION FairSpec
CHECK_DEADLOCK FALSE
INVARIANTS
  StoppedIsNeverCalled
  EpollKnows
PROPERTIES
  CalledForItsOwn
  HangUpsAreSeen
