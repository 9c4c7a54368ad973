CONSTANTS
  Decimals = 2
  Width = 11
  OverflowChecks = TRUE
  MaxLength = 5
  Files <- MCFiles
  Unreadable = unreadable
  Absent = absent
  ClientBits = 4
  TransactionBits = 5

SPECIFICATION Spec

INVARIANT EmptyOrAbsentIsZero
