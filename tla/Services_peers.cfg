CONSTANTS
  Conns = {1, 2}
  Requests <- SomeRequests
  MaxBatch = 2
  Floor = 3
  Chunk = 3
  LineLimit = 12
  Budget = 12
  Envelope <- Envelopes
  MaxRequests = 3
  Piece = 3
  None = None
  Size = 4
  SendBuffer = 2
  Timeouts = {3, Never}
  MaxAssembly = 1
  Never = Never
  MaxAge = 3
  CompactMin = 2
  MaxLive = 2
  MaxConnections = 4
  LastTick = 4
  Endless = Endless
  Threads = {1, 2}
  Chains <- ThreeChains
  Proofs <- TwoProofs
  MaxLeaves = 8
  MaxEntries = 1
  TreeCapacity = 22
  Limits = {1, 2}
  MaxProofs = 3
  MaxReorgs = 1
  Nil = Nil
  Clients = {1, 2}
  Blocks <- Tips
  HeightOf <- TipHeight
  MaxFetches = 2
  MaxTips = 2
  Absent = Absent
  Callers = {1, 2}
  MaxAsks = 3
  NoFee = NoFee
  Services = {1, 2}
  ServerOf <- OneServer
  Defaults = {2}
  MaxQueue = 3
  MaxServices = 2
  MaxFailures = 2
  MaxAdded = 2
  Txids = {1, 2}
  ParentsOf <- ChildOfOne
  Funding = {1, 2}
  Spending = {1, 2}
  PageSize = 1
  ScanLimits = {3, 4}
  MaxHeight = 3
  MaxPops = 1
  Nothing = Nothing
  HttpConns = {1, 2}
SPECIFICATION MCSpec
INVARIANT RemovesListed
CHECK_DEADLOCK FALSE
