SPECIFICATION FairSpec
CONSTANTS
  NumRanks = 2
  Workload <- Mixed
  MaxDispatches = 2
  NoThread = NoThread
  NoRequest = NoRequest
INVARIANTS TaskIsStable SuccessIsUnanimous
PROPERTY CallsReturn
CHECK_DEADLOCK FALSE
