SPECIFICATION Spec
CONSTANTS
  Conns = {c1}
  HostOrder <- Sniffed
  Unattributed = "[unattributed]"
  IpOnly = "[ip-only]"
  Untracked = TRUE
  Interval = 1
  MaxBytes = 2
  MaxBoots = 2
  MaxFaults = 1
  MaxClock = 3
  TicksPerSecond = 1
  Bucket = 2
  DaySeconds = 1
  MonthStarts <- OneMonth
  RetainMonths = 1
INVARIANTS
  TypeOK
  BilledIsSampled
  CursorIsOfItsEpoch
  SecondsOnce
  DomainsAreBounded
CONSTRAINT OneUpset
