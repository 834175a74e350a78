CONSTANTS
  Relayer = {r1, r2, r3, r4}
  Pkt = {p}
  MaxChanges = 2
  m1 = m1
  m2 = m2
  m3 = m3
  Tx = {t, u}
  Digests = {u}
  MaxWallets = 2
  MaxProposals = 2
SPECIFICATION MCSpec
INVARIANTS
  LookupMatchesList
  AcknowledgedOnceByQuorum
  ApprovedMeansExecutable
  CommandAccepted
PROPERTIES
  AcknowledgedByRelayers
  Acknowledged
CHECK_DEADLOCK FALSE
