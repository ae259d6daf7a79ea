SPECIFICATION Spec
CONSTANTS
  Requests = {r1, r2, r3, r4}
  OtherKind = {r3}
  Guided = {r4}
  Kind <- TwoKinds
  Cancellable = {}
  Modes = {"kDrain"}
  QueueCapacity = 2
  MaxPendingRequests = 3
  MaxBatchSize = 3
  MaxGenerateLength = 2
  MayFail = FALSE
  NoRequest = NoRequest
  kShutdown = kShutdown
SYMMETRY symmetry
INVARIANTS
  ServedInOrder
  BatchIsCompatible
  ExitStrandsNobody
  DrainCancelsNobody
  NoLostWakeup
