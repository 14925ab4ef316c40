SPECIFICATION FairChatSpec
CONSTANTS
  Server = s
  Clients = {a}
  MessageCells = 2
  ReadLength = 2
  StreamCapacity = 6
  BufferCapacity = 8
  Pings = 2
  MaxSays = 2
INVARIANTS
  PingsAccounted
PROPERTIES
  PingAnswered
  MultipingEnds
CHECK_DEADLOCK FALSE
