SPECIFICATION FairSpec
CONSTANTS
  BufferSize = 4
  Capacity = 12
  HeaderSize = 2
  MaxPacket = 3
  Packets = 5
  Streams <- MCStreams
INVARIANTS
  PacketsIntact
  RoomToReceive
  CopiesDisjoint
  NoPacketWaits
PROPERTIES
  PacketsDelivered
CHECK_DEADLOCK FALSE
