SPECIFICATION Spec
CONSTANTS
  Length = 3
  ByteValues = 6
  Counts = {0, 1, 2, 3, 4}
  EmptyReads = TRUE
PROPERTY
  ImplementsByteQueue
