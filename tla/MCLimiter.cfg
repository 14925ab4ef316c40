SPECIFICATION FairSpec
CONSTANTS
  Threads = {t1, t2, t3}
  Interval = 2
  MaxCalls = 2
  MaxConcurrent = 2
INVARIANTS
  CountsThoseInside
  AtMostTwicePerInterval
PROPERTIES
  KeepsAdmitting
