CONSTANTS
  p1 = p1
  p2 = p2
  Peers <- MCPeers
  MaxTransfers = 3
  MaxSessions = 1
  PendingCap = 3
  InCap = 3
  OutCap = 2
  MaxReplaced = 0
  Faults = {"close", "fail"}
SPECIFICATION FairSpec
INVARIANTS
  TypeOK
  StalledMasterIsOwed
  AtMostTwoAhead
PROPERTIES
  ExchangeRefinement
  NoStandoff
