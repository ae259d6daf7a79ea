SPECIFICATION FairSpec
CONSTANTS
  Modes <- AllModes
  MaxChunks = 2
INVARIANTS
  NothingIsLost
  NeverClosedWhileRunning
  EndIsSettled
PROPERTY StreamEnds
CHECK_DEADLOCK FALSE
