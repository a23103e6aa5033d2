SPECIFICATION Spec
CONSTANTS
  MaxUnits = 1
  Domains = {"a.example"}
  MaxEpochs = 2
  MaxClock = 1
  TicksPerSecond = 1
  Bucket = 2
  DaySeconds = 1
  MonthStarts <- OneMonth
  RetainMonths = 1
  MaxEntries = 10
  MaxSteps = 1
  MaxFaults = 2
  MaxRows = 2
  MaxBatches = 2
  MaxBatchRows = 4
  DrainLimit = 10
  FutureSlack = 0
  SlowListing = TRUE
INVARIANTS
  TypeOK
  ExactlyOnce
  TotalIsImported
  CheckpointSeparates
  LossIsReported
PROPERTIES
  UnlinkFollowsCommit
CONSTRAINT TwoUpsets
