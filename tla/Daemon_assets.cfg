CONSTANTS
  Callers = {1, 2}
  MaxRequests = 2
  MaxFaults = 2
  Free = 0
  Proxies = {1, 2, 3}
  Permits = {0, 2}
  MaxProxied = 5
  MaxLine = 3
  MaxHeaders = 2
  MaxHeaderBytes = 3
  MaxBody = 4
  Budget = 4
  Pieces = {1, 2, 3}
  Lengths = {0, 2, 4, 5}
  Unknown = Unknown
  Parent <- TwoBranches
  Origin = 0
  Chunk = 2
  MaxAttempts = 2
  MaxSwitches = 2
  Files <- Contents
  NewHeaders = {{1, 2}, {1, 2, 3}}
  Batches <- FourBatches
  Main = 0
  Helpers = {1}
  Patience = 2
  MaxBreaks = 2
  MaxBackoffs = 1
  MaxTerms = 1
  OldBlocks = {"b1", "b2", "s1", "s2"}
  OldHeight <- TwoHeights
  BestChain = {"b1", "b2"}
  OldTxs <- TwoVersions
  SpentBy <- Conflict
  Addresses = {"x", "y", "z"}
  BatchRows = 2
  MaxCrashes = 2
  Lights = {"full", "light"}
  Flags = {"f", "g"}
  MaxStarts = 2
  Askers = {1, 2}
  AssetTxs = {"i", "b"}
  Changes <- IssuedAndBurned
  MaxHeight = 2
  MaxReorgs = 1
  MaxAsks = 3
  Lookups = {1, 2}
  RegisteredSets = {{}, {"meta"}}
  MaxBlocks = 2
  MaxSyncs = 2
SPECIFICATION MCSpec
INVARIANT PollingGoesOn
CHECK_DEADLOCK FALSE
