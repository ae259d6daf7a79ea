SPECIFICATION FairSpec
CONSTANTS
  Requests = {r1, r2}
  Kind <- OneKind
  Guided = {}
  Cancellable = {r1}
  Modes = {"kDrain", "kCancel"}
  QueueCapacity = 2
  MaxPendingRequests = 2
  MaxBatchSize = 2
  MaxGenerateLength = 2
  MayFail = TRUE
  NoRequest = NoRequest
  kShutdown = kShutdown
INVARIANTS
  AccountsBalance
  LedgerMatchesBatch
PROPERTIES
  
  AcceptedIsAnswered
  ShutdownReturns
