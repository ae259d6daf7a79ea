SPECIFICATION FairSpec
CONSTANTS
  Clients = {c1, c2, c3}
  Closer = closer
  c1 = c1
  c2 = c2
  c3 = c3
  RouteMixes <- Mixes
  Schedulers = {TRUE, FALSE}
  MaxQueued = 1
  BatchSize = 1
  MaxCancels = 2
INVARIANTS
  SlotHasOneOwner
  GateIsExact
  LeaseCoversWork
  RuntimeOutlivesWork
  DisconnectStopsWork
PROPERTY CloseReturns
CHECK_DEADLOCK FALSE
