SPECIFICATION FairAccessSpec
CONSTANTS
  Threads = {t1, t2}
  Keys = {f, g}
  None = None
  Values = {u, v}
  DocLength = 2
  LockedFiles = {f}
  RetryCount = 1
INVARIANTS
  WritersAlone
  NoSharingViolation
  WholeDocuments
PROPERTIES
  LockForGood
  SomebodyReturns
  ImplementsAtomicFiles
CHECK_DEADLOCK FALSE
