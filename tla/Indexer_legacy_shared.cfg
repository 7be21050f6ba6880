CONSTANTS
  Blocks <- TreeBlocks
  Genesis = "g"
  Anc <- TreeAnc
  Txs <- TreeTxs
  TxsOf <- TreeTxsOf
  Spends <- TreeSpends
  None = None
  BatchSize = 1
  LightMode = TRUE
  JsonrpcImport = TRUE
  LegacyTip = "a3"
  LegacyStale <- LegacyStaleB
  MaxReorgs = 1
  MaxCrashes = 1
  MaxFailures = 1
SPECIFICATION Spec
INVARIANT PublishedHistoryComplete
