SPECIFICATION FairSpec
CONSTANTS
  MaxUnits = 1
  Domains = {"a.example"}
  MaxEpochs = 2
  MaxClock = 1
  TicksPerSecond = 1
  Bucket = 2
  DaySeconds = 1
  MonthStarts <- OneMonth
  RetainMonths = 1
  MaxEntries = 3
  MaxSteps = 0
  MaxFaults = 1
  MaxRows = 2
  MaxBatches = 2
  MaxBatchRows = 4
  DrainLimit = 3
  FutureSlack = 1
  SlowListing = FALSE
INVARIANTS
  SpoolWithinDrainLimit
PROPERTIES
  EveryBatchIsAcknowledged
  KeepsThePromise
