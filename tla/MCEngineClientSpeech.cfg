SPECIFICATION Spec
CONSTANTS
  Clients = {c1, c2, c3}
  Closer = closer
  c1 = c1
  c2 = c2
  c3 = c3
  RouteMixes <- Speech
  Schedulers = {TRUE, FALSE}
  MaxQueued = 1
  BatchSize = 1
  MaxCancels = 1
INVARIANT SlotIsReleased
CHECK_DEADLOCK FALSE
