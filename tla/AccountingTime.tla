--------------------------- MODULE AccountingTime ---------------------------
(***************************************************************************)
(* Time as traffic accounting sees it: a clock of fine ticks (EmittedNS),  *)
(* the whole seconds of time.Unix, buckets of Bucket seconds, and the      *)
(* retention horizon some calendar months back.                            *)
(***************************************************************************)
EXTENDS Integers, Sequences

CONSTANTS
  MaxClock,        \* bound: last clock tick
  TicksPerSecond,  \* resolution of the nanosecond clock
  Bucket,          \* seconds in an accounting bucket (900)
  DaySeconds,      \* seconds in a day
  MonthStarts,     \* first day of each calendar month, in order
  RetainMonths     \* months a bucket is kept (3)

Times == 0 .. MaxClock

Unix(t) == t \div TicksPerSecond
BucketStart(s) == (s \div Bucket) * Bucket

MonthDays(m) == MonthStarts[m + 1] - MonthStarts[m]
MonthOf(t) ==
  CHOOSE m \in 1 .. Len(MonthStarts) - 1 :
    /\ MonthStarts[m] * DaySeconds <= t
    /\ t < MonthStarts[m + 1] * DaySeconds

\* cutoff: the same day and time of day RetainMonths earlier, the day clamped
\* to the length of that month, rounded down to a bucket.
Cutoff(t) ==
  LET then   == MonthOf(t) - RetainMonths
      within == t - MonthStarts[MonthOf(t)] * DaySeconds
      day    == within \div DaySeconds
      kept   == IF day < MonthDays(then) THEN day ELSE MonthDays(then) - 1
  IN  IF then < 1 THEN 0
      ELSE BucketStart((MonthStarts[then] + kept) * DaySeconds
                         + (within % DaySeconds))

ASSUME TimeAssumption ==
  /\ MaxClock \in Nat
  /\ TicksPerSecond \in Nat \ {0} /\ Bucket \in Nat \ {0}
  /\ \A t \in Times : Unix(t) \in Times /\ BucketStart(t) \in Times
  /\ \A t \in Times : Cutoff(t) \in Times
=============================================================================
