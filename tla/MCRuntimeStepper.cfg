SPECIFICATION Spec
CONSTANTS
  Capacity = 3
  MaxBatchSize = 3
  MaxPrompt = 2
  MaxGenerateLength = 2
  MaxIndex = 5
  MaxEpoch = 3
INVARIANTS
  TablesAgree
  SeatsAreFresh
  DeltasAreExact
  OutcomesReachOwners
