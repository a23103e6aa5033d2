SPECIFICATION Spec
CONSTANTS
  MaxUnits = 3
  Domains = {"a.example", "b.example", "c.example"}
  MaxEpochs = 1
  MaxClock = 1
  TicksPerSecond = 1
  Bucket = 1
  DaySeconds = 1
  MonthStarts <- OneMonth
  RetainMonths = 1
  MaxEntries = 10
  MaxSteps = 0
  MaxFaults = 0
  MaxRows = 1
  MaxBatches = 3
  MaxBatchRows = 3
  DrainLimit = 10
  FutureSlack = 1
  SlowListing = TRUE
INVARIANTS
  BatchesAreImportable
