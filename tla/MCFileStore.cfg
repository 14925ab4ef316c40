SPECIFICATION Spec
CONSTANTS
  Ids = {i1, i2, i3}
  small = small
  large = large
  Values = {small, large}
  Size <- MCSize
  None = None
  HeaderLength = 2
  EntryLength = 2
  MaxData = 5
  MaxEntries = 3
  FreshIds = TRUE
  MayFail = TRUE
SYMMETRY Symmetry
INVARIANTS
  EntriesIntact
  CrashSafe
  AllEntriesRead
  CanReopen
PROPERTY
  ImplementsDocumentStore
