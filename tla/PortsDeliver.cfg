CONSTANTS
  Here = h
  b = b
  k1 = k1
  k2 = k2
  None = None
  Chain = {h, b}
  Conn = {k1, k2, k3}
  Protocols <- Lists
  Ports = {"evm", "java", "soroban", "sui", "solana"}
  Wire <- DeliverWire
  Outgoing <- SettleOutgoing
  SolanaWire <- SolanaDeliverWire
  SolanaOutgoing <- SolanaSettleOutgoing
  FeeValues = {0}
  MsgValues = {0}
  CoinValues = {0}
  MaxHeard = 5
  MaxDepth = 1
  MaxTickets = 1
  MaxConnSn = 2
  DAY_IN_LEDGERS = 1
  MaxSn = 2
  MaxReqId = 2
  Handler = {}
  MaxChanges = 0
  MaxSends = 0
  Xcall = Xcall
SPECIFICATION PortsSpec
CONSTRAINT DeliverFocus
INVARIANTS
  RequestsEndorsed
  SettlementEndorsed
  SettledOnce
  TimeToAct
CHECK_DEADLOCK FALSE
