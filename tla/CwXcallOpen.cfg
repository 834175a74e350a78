CONSTANTS
  a = a
  b = b
  k1 = k1
  k2 = k2
  None = None
  Chain = {a, b}
  Conn = {k1, k2}
  Protocols <- OnlyBoth
  Senders = {a}
  DefaultConns = {}
  Reverters = {}
  MaxSn = 1
  MaxReqId = 1
SPECIFICATION OpenSpec
CONSTRAINT Bounded
INVARIANTS
  SettlementEndorsed
  RequestsEndorsed
  SettledOnce
  ExecutedOnce
  XcallInv
CHECK_DEADLOCK FALSE
