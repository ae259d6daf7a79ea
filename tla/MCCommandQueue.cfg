SPECIFICATION FairSpec
CONSTANTS
  Producers = {p1, p2, p3}
  Commands = {c1, c2, c3, c4}
  Capacity = 1
  NoCommand = NoCommand
INVARIANTS
  ExclusiveCells
PROPERTIES
  ImplementsBoundedFifo
  AcceptedIsDelivered
CHECK_DEADLOCK FALSE
