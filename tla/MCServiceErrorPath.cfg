CONSTANTS
  MaxTransactionId = 1
  Amounts <- MCAmounts
  ClientId = {1, 2}
  Messages <- MCFewMessages
  Completions = {k1, k2}
  NoCompletion = none
  BatchSize = 2

SPECIFICATION Spec

INVARIANT FlushedBeforeReturning

CHECK_DEADLOCK FALSE
