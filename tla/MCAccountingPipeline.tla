------------------------ MODULE MCAccountingPipeline ------------------------
(* Calendars for small instances of AccountingPipeline: the first day of   *)
(* each month.                                                             *)
EXTENDS AccountingPipeline

\* One month as long as the bounded clock: the horizon expires nothing.
OneMonth == <<0, MaxClock + 1>>

\* Months of one length: no day is ever clamped.
EvenMonths == [m \in 1 .. MaxClock + 2 |-> m - 1]

\* A month of one day before a month of two, as February before the others.
ShortMonthFirst == <<0, 1, 3, 5>>

\* Bound: two faults while the clock stands still, or one once it has moved,
\* or its backward step alone; the second engine acknowledges one batch.
TwoUpsets ==
  /\ faults + steps + (IF now > 0 \/ steps > 0 THEN 1 ELSE 0) <= 2
  /\ epoch = MaxEpochs => seq <= 1
=============================================================================
