CONSTANTS
  Ports = {"cosmwasm", "evm", "java", "soroban", "sui", "solana",
           "store"}
  v1 = v1
  v2 = v2
  f1 = f1
  Nets = {a}
  Here = here
  Msgs = {m1, m2}
  Key = {v1, v2, f1}
  Faulty = {f1}
  None = None
  Base = 2
  Updates <- MCUpdates
  Thresholds = {0, 1, 3}
  FeeValues <- MCFees
  MsgValues = {2}
  MaxConnSn = 2
  MaxSigs = 2
  MaxSlots = 4
  MaxValidators = 2
SPECIFICATION PortsSpec
SYMMETRY Symmetry
INVARIANTS
  ThresholdReachable
  DeliveredOnce
  DeliveredAuthentic
  SuiConnectionsApart
CHECK_DEADLOCK FALSE
