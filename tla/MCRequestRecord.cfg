SPECIFICATION RecordFairSpec
CONSTANT Cancellers = {c1, c2}
INVARIANTS
  ErrorsAreReported
  CancelIsNotContradicted
PROPERTY GetReturns
CHECK_DEADLOCK FALSE
