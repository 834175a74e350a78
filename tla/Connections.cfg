CONSTANTS
  Kinds = {"relay", "wormhole", "layerzero"}
  EvmNets = {e}
  JavaNets = {j}
  SorobanNets = {s}
  CwNets = {c}
  FeePairs <- Fees
  PricedNets = {s}
  Values = {0, 2}
  MaxMsgs = 2
  Networks = {"a", "b"}
  Chain = {1, 2}
  Endpoint = {"ea", "eb"}
  Absent = "none"
  Response <- DistinctSns
  Delivery <- Deliveries
  Money = {0, 1}
  MaxCalls = 1
  MaxBalance = 1
SPECIFICATION MCSpec
INVARIANTS
  ChannelInv
  ResponsesKept
  BroughtOnce
PROPERTIES
  ImplementsChannel
  AllReceived
  ResponsesSent
CHECK_DEADLOCK FALSE
