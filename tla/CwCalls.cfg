CONSTANTS
  a = a
  b = b
  k1 = k1
  k2 = k2
  None = None
  Chain = {a, b}
  Conn = {k1, k2}
  Protocols <- DefaultOrBoth
  Senders = {a}
  DefaultConns = {k1}
  Reverters = {}
  MaxSn = 2
  MaxReqId = 2
SPECIFICATION Spec
CONSTRAINT CallsFocus
INVARIANTS
  TypeOK
  AtMostOnce
  ReplyOfOneCall
  SuccessMeansExecuted
CHECK_DEADLOCK FALSE
