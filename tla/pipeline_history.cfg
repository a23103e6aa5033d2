SPECIFICATION Spec
CONSTANTS
  MaxUnits = 1
  Domains = {"a.example"}
  MaxEpochs = 2
  MaxClock = 3
  TicksPerSecond = 1
  Bucket = 1
  DaySeconds = 1
  MonthStarts <- EvenMonths
  RetainMonths = 2
  MaxEntries = 10
  MaxSteps = 0
  MaxFaults = 0
  MaxRows = 2
  MaxBatches = 2
  MaxBatchRows = 4
  DrainLimit = 10
  FutureSlack = 1
  SlowListing = TRUE
INVARIANTS
  ObservationIsSound
  RetainedIsCounted
