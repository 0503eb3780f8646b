CONSTANTS
  p1 = p1
  p2 = p2
  Peers <- MCPeers
  MaxTransfers = 1
  MaxSessions = 1
  PendingCap = 3
  InCap = 4
  OutCap = 2
  MaxReplaced = 1
  Faults = {"reset"}
SPECIFICATION Spec
SYMMETRY PeerSymmetry
INVARIANTS
  AttachedCoreIsOn
