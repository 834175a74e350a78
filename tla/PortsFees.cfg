CONSTANTS
  Here = h
  b = b
  k1 = k1
  k2 = k2
  None = None
  Chain = {h, b}
  Conn = {k1, k2}
  Protocols <- Lists
  Ports = {"evm", "java", "soroban", "sui", "solana", "cosmwasm"}
  Wire <- FeeWire
  Outgoing <- FeeOutgoing
  SolanaWire <- FeeWire
  SolanaOutgoing <- SolanaFeeOutgoing
  FeeValues = {0, 1}
  MsgValues = {0, 2}
  CoinValues = {0, 2}
  MaxHeard = 1
  MaxDepth = 1
  MaxTickets = 1
  MaxConnSn = 2
  DAY_IN_LEDGERS = 1
  MaxSn = 2
  MaxReqId = 1
  Handler = {f, g}
  MaxChanges = 3
  MaxSends = 1
  Xcall = Xcall
SPECIFICATION PortsSpec
CONSTRAINT FeesFocus
INVARIANTS
  TypeOK
  QuoteSuffices
  ChargedAsQuoted
CHECK_DEADLOCK FALSE
