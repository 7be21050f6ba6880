CONSTANTS
  Blocks <- TreeBlocks
  Genesis = "g"
  Anc <- TreeAnc
  Txs <- TreeTxs
  TxsOf <- TreeTxsOf
  Spends <- TreeSpends
  None = None
  BatchSize = 1
  LightMode = FALSE
  JsonrpcImport = TRUE
  LegacyTip = None
  LegacyStale = {}
  MaxReorgs = 2
  MaxCrashes = 2
  MaxFailures = 1
SPECIFICATION Spec
INVARIANTS
  SavedChainIndexed
  StaleRowsTracked
  PublishedIndexExact
  
PROPERTIES
  ImplementsPublishedIndex
