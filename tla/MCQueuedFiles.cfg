SPECIFICATION FairSystemSpec
CONSTANTS
  Callers = {c1, c2}
  Workers = {w1, w2}
  None = None
  Outcomes = {"Success", "FailThrow", "FailRequeue"}
  Files = {f}
  Values = {u}
  DocLength = 2
INVARIANTS
  InOnePlace
  AnswersOwnItem
  DisposeLeavesNothingHalf
  DisposeLeavesFilesWhole
PROPERTIES
  ExecuteReturns
  QueuedFilesAreAtomic
CHECK_DEADLOCK FALSE
