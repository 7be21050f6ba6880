CONSTANTS
  Blocks <- TreeBlocks
  Genesis = "g"
  Anc <- TreeAnc
  Txs <- TreeTxs
  TxsOf <- DisjointTxsOf
  Spends <- TreeSpends
  None = None
  BatchSize = 1
  LightMode = TRUE
  JsonrpcImport = TRUE
  LegacyTip = "a3"
  LegacyStale <- LegacyStaleB
  MaxReorgs = 1
  MaxCrashes = 2
  MaxFailures = 1
SPECIFICATION FairSpec
INVARIANTS
  SettledInvariant
  SharedRowsProtected
  SettledIndexExact
PROPERTIES
  CatchesUp
