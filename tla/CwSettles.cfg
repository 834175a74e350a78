CONSTANTS
  a = a
  b = b
  k1 = k1
  k2 = k2
  None = None
  Chain = {a, b}
  Conn = {k1, k2}
  Protocols <- OneOrBoth
  Senders = {a}
  DefaultConns = {}
  Reverters = {k1, k2}
  MaxSn = 1
  MaxReqId = 1
SPECIFICATION FairSpec
INVARIANTS
  RollbackMeansFailed
PROPERTIES
  ImplementsTwoWayCalls
  EveryCallSettles
CHECK_DEADLOCK FALSE
