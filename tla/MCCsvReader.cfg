CONSTANTS
  Decimals = 2
  Width = 11
  OverflowChecks = TRUE
  MaxLength = 6
  Files <- MCFiles
  Unreadable = unreadable
  Absent = absent
  ClientBits = 4
  TransactionBits = 5

SPECIFICATION Spec

INVARIANTS
  TypeOK
  NumeralsAreExact
  RoundTrip
  NoAliases
  RowsAreNumbered
