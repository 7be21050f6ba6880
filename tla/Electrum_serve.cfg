CONSTANTS
  Conns = {1, 2}
  Scripts = {"s"}
  Requests <- AllRequests
  ChannelBound = 1
  TxsLimit = 1
  SubscriptionLimit = 1
  None = None
  Budgets <- OneOrTwo
  MaxNotifications = 1
SPECIFICATION Spec
INVARIANTS
  
  GaugesExact
PROPERTIES
  ShutdownCompletes
  
