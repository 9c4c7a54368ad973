CONSTANTS
  MaxTransactionId = 1
  Amounts <- MCAmounts
  ClientId = {1, 2}
  BatchSize = 2
  MaxRows = 3
  Files <- MCFiles
  BadRecord = bad_record
  BadField = bad_field
  Signal = signal
  NoCompletion = none
  Shards = 1
  ShardOf <- MCShardOf

SPECIFICATION MeteredFairSpec

INVARIANTS
  TypeOK
  ProcessedInFileOrder
  OutputIsSequential
  SnapshotIsUndisturbed
  OnlyWholeFilesArePrinted
  NoSendFails
  IInv
  CountersTrailByABatch
  CountersAgree
  CountersSound

PROPERTIES
  Terminates
  LoadedFilesArePrinted
