CONSTANTS
  Blocks <- ShortBlocks
  Genesis = "g"
  Anc <- ShortAnc
  Txs <- TreeTxs
  TxsOf <- ShortTxsOf
  Spends <- TreeSpends
  None = None
  BatchSize = 2
  LightMode = FALSE
  JsonrpcImport = FALSE
  LegacyTip = None
  LegacyStale = {}
  MaxReorgs = 1
  MaxCrashes = 1
  MaxFailures = 2
SPECIFICATION Spec
INVARIANTS
  PublishedChainIndexed
  UncommittedAsAfterRestart
