CONSTANTS
  MaxTransactionId = 2
  Amounts <- MCAmounts

SPECIFICATION Spec

INVARIANT ResolvedCanBeRedisputed
