CONSTANTS
  Message <- Messages
  Receiver = {"evm", "soroban", "sui", "solana"}
  Failed = Failed
  None = None
SPECIFICATION Spec
INVARIANTS
  OneWireFormat
  ReadUnlessFull
