CONSTANTS
  MaxTransactionId = 1
  Amounts <- MCAmounts
  ClientId = {1, 2}
  Messages <- MCMessages
  Completions = {k1, k2}
  NoCompletion = none
  BatchSize = 2

SYMMETRY MCSymmetry

SPECIFICATION Spec

INVARIANTS
  TypeOK
  AccountsSound
  NothingLostOrRepeated
  HeapBounded
  AcknowledgedIsApplied
  InversionsAreLateArrivals
  StopsCleanly
  IInv

PROPERTY ImplementsBank

CHECK_DEADLOCK FALSE
