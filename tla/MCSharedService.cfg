CONSTANTS
  MaxTransactionId = 0
  Amounts <- MCAmounts
  ClientId = {1, 2, 3}
  Shards = 2
  ShardOf <- MCShardOf
  Messages <- MCMessages
  Completions = {k1}
  NoCompletion = none
  BatchSize = 2

SPECIFICATION SharedSpec

INVARIANTS
  ShardsAreRead
  ReaderSound

PROPERTIES
  SnapshotEnds
  CompletionsAreAcknowledged
  StopsWhenTold
  DrainsWhenClosed

CHECK_DEADLOCK FALSE
