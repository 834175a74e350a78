CONSTANTS
  Here = h
  b = b
  k1 = k1
  k2 = k2
  None = None
  Chain = {h, b}
  Conn = {k1, k2}
  Protocols <- Lists
  Ports = {"evm", "java", "sui", "solana"}
  Wire <- ExecuteWire
  Outgoing <- ExecuteOutgoing
  SolanaWire <- SolanaAnswerWire
  SolanaOutgoing <- SolanaAnswerOutgoing
  FeeValues = {0}
  MsgValues = {0}
  CoinValues = {0}
  MaxHeard = 3
  MaxDepth = 2
  MaxTickets = 2
  MaxConnSn = 3
  DAY_IN_LEDGERS = 1
  MaxSn = 2
  MaxReqId = 3
  Handler = {}
  MaxChanges = 0
  MaxSends = 0
  Xcall = Xcall
SPECIFICATION PortsSpec
CONSTRAINT ExecuteFocus
INVARIANTS
  ExecutedOnceAndAnswered
  RepliesStayInside
CHECK_DEADLOCK FALSE
