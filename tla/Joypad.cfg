SPECIFICATION JoypadSpec
CONSTANTS
  PacketBits = 3
  MaxPackets = 2
  PacketQueueCap = 1
  Lines = {"P10"}
  Length <- MCLength
  Players <- MCPlayers
  Feeds <- MCFeeds
INVARIANTS
  PacketIsFramed
  CommandIsItsPackets
PROPERTIES
  InterruptIsAFall
