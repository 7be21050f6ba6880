CONSTANTS
  Blocks <- TreeBlocks
  Genesis = "g"
  Anc <- TreeAnc
  Txs <- TreeTxs
  TxsOf <- TreeTxsOf
  Spends <- TreeSpends
  None = None
  Scripts <- TwoScripts
  ScriptOf <- TreeScriptOf
  Queries = {q1, q2}
  Asked <- AskedUtxo
  LegacyBlocks = {}
  HistoryScanLimit = 2
  CheckpointLimit = 2
  MinItemsToCache = 0
  MaxUpdates = 1
  MaxCrashes = 0
  MaxQueries = 2
SPECIFICATION Spec
INVARIANTS
  ValidCacheResolves
