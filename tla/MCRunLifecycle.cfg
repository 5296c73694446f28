CONSTANTS
  row = row
  Kinds = {row}
  MaxBatchSize = 2
  Processors = 2
  RecreateSettings = {TRUE, FALSE}
  Faulty = TRUE
  MaxItems = 3
  MaxSignals = 2
  MaxRuns = 2
SPECIFICATION FairSpec
PROPERTIES ArchiveIsDrained FinalizedAfterAllProcessors SignalEnds
