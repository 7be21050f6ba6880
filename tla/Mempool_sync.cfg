CONSTANTS
  Txs <- PoolTxs
  Coins = {"coin"}
  Spends <- PoolSpends
  None = None
  Clients = {b1}
  Packages <- PoolPackages
  MaxSyncFailures = 2
  MaxInitialRetries = 2
  MaxRelays = 1
  MaxEvictions = 1
  MaxBlocks = 1
  MaxDisconnects = 1
  MaxSubmits = 1
  MaxIndexFailures = 1
SPECIFICATION FairSpec
INVARIANTS
  HistoryExact
  EdgesOwned
  RemovesIndexed
  FailuresNeedReorgs
PROPERTIES
  EdgesKept
  Converges
