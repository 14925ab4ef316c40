SPECIFICATION FairChatSpec
CONSTANTS
  Server = s
  Clients = {a}
  MessageCells = 2
  ReadLength = 2
  StreamCapacity = 6
  BufferCapacity = 8
  Pings = 2
  MaxSays = 1
PROPERTIES
  PingAnsweredInPieces
CHECK_DEADLOCK FALSE
