CONSTANTS
  row = row
  Kinds = {row}
  MaxBatchSize = 2
  Processors = 2
  RecreateSettings = {TRUE}
  Faulty = TRUE
  MaxItems = 2
  MaxSignals = 0
  MaxRuns = 1
SPECIFICATION Spec
INVARIANT CompletedMeansExported
