SPECIFICATION FairSpec
CONSTANTS
  ByteValues = 6
  WriteCapacity = 3
  ReadCapacity = 4
  MaxUnderWay = 5
  Chunk = 2
  Counts = {1, 3}
INVARIANTS
  NothingLost
  NobodyStuck
PROPERTIES
  FlushedArrives
  FullBufferSent
