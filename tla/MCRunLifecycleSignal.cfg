CONSTANTS
  row = row
  Kinds = {row}
  MaxBatchSize = 2
  Processors = 2
  RecreateSettings = {TRUE}
  Faulty = TRUE
  MaxItems = 1
  MaxSignals = 2
  MaxRuns = 1
SPECIFICATION Spec
INVARIANT SecondSignalHeard
