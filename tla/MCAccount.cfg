CONSTANTS
  MaxTransactionId = 2
  Amounts <- MCAmounts

SPECIFICATION Spec

INVARIANTS
  TypeOK
  AssertionsHold
  HeldNonNegative
  DebtIsChargedBack
  AtMostOnce
  IInv

PROPERTIES
  LockedIsFinal
  ImplementsLedger
