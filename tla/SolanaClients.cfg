CONSTANTS
  b = b
  k1 = k1
  k2 = k2
  None = None
  Here = here
  Chain = {here, b}
  Conn = {k1, k2}
  ClusterConn = {k2}
  Admins = {1, 2}
  Limits = {3, 30}
  Protocols <- OneOrBoth
  Wire <- ClientWire
  Outgoing <- SendsTwoWay
  FeeValues = {0}
  MaxSn = 2
  MaxReqId = 2
  MaxConnSn = 1
SPECIFICATION ClientsSpec
INVARIANTS
  PlansStayGood
CHECK_DEADLOCK FALSE
