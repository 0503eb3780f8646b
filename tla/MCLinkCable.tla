---------------------------- MODULE MCLinkCable ----------------------------
EXTENDS LinkCable, TLC

CONSTANTS p1, p2

MCPeers == {p1, p2}
PeerSymmetry == Permutations(MCPeers)
=============================================================================
