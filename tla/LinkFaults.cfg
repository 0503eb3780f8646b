CONSTANTS
  p1 = p1
  p2 = p2
  Peers <- MCPeers
  MaxTransfers = 1
  MaxSessions = 1
  PendingCap = 2
  InCap = 3
  OutCap = 2
  MaxReplaced = 2
  Faults = {"reset", "load", "quick"}
SPECIFICATION Spec
SYMMETRY PeerSymmetry
INVARIANTS
  CoreQueueStaysEmpty
