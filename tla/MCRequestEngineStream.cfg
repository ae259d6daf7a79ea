SPECIFICATION Spec
CONSTANTS
  Requests = {r1, r2}
  Kind <- OneKind
  Guided = {}
  Cancellable = {}
  Modes = {}
  QueueCapacity = 2
  MaxPendingRequests = 2
  MaxBatchSize = 2
  MaxGenerateLength = 2
  MayFail = FALSE
  NoRequest = NoRequest
  kShutdown = kShutdown
INVARIANT CompletedStreamIsFinished
