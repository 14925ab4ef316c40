SPECIFICATION FairSpec
CONSTANTS
  Workers = {p1, p2}
  MaxRecord = 3
  MaxDay = 2
INVARIANTS
  CompleteWhenQuiet
PROPERTIES
  TotalsOnlyGrow
  AppendedCounted
  TodayUpdated
