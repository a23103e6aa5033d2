SPECIFICATION Spec
CONSTANTS
  MaxUnits = 1
  Domains = {"a.example"}
  MaxEpochs = 1
  MaxClock = 4
  TicksPerSecond = 1
  Bucket = 1
  DaySeconds = 2
  MonthStarts <- ShortMonthFirst
  RetainMonths = 1
  MaxEntries = 10
  MaxSteps = 0
  MaxFaults = 0
  MaxRows = 2
  MaxBatches = 3
  MaxBatchRows = 4
  DrainLimit = 10
  FutureSlack = 1
  SlowListing = TRUE
INVARIANTS
  RetainedIsCounted
