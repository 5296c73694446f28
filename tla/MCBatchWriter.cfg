CONSTANTS
  p1 = p1
  p2 = p2
  f1 = f1
  known = known
  unknown = unknown
  Producers = {p1, p2}
  Flushers = {f1}
  Kinds = {known, unknown}
  Registered = {known}
  MaxBatchSize = 2
  InputCap = 2
  Ticker = TRUE
  Faulty = TRUE
  MaxItems = 3
SPECIFICATION FairSpec
INVARIANTS StatsMatchTable KindStatsMatchTable FlushIsSynchronous CloseDrains
PROPERTIES ImplementsWriteQueue CallsReturn EveryItemResolved
