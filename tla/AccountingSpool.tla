-------------------------- MODULE AccountingSpool --------------------------
(***************************************************************************)
(* The private spool directory through which the forked proxy engine hands *)
(* traffic batches to the Python collector, and the wall clock both read.  *)
(*                                                                         *)
(* A payload increment that a tracker reports (an amount of upload or      *)
(* download bytes) is a UNIT 1, 2, 3, ...: a sum of bytes is the set of    *)
(* units it is made of, so "counted twice" and "never counted" are visible *)
(* whatever the amounts are.                                               *)
(*                                                                         *)
(* A directory entry is VISIBLE to both processes at once (spool) and is   *)
(* on disk only after an fsync of the directory (synced).  A host crash    *)
(* keeps what is in both, and any part of what is in one of them: a batch  *)
(* renamed into place may vanish, an unlinked one may come back.           *)
(***************************************************************************)
EXTENDS AccountingTime, FiniteSets

CONSTANTS
  MaxUnits,        \* bound: payload increments in a behaviour
  Domains,         \* destination host names the trackers report
  MaxEpochs,       \* bound: engine starts in a behaviour
  MaxEntries,      \* directory entries at which the engine gives up (10000)
  MaxSteps,        \* bound: backward steps of the wall clock
  MaxFaults        \* bound: I/O errors, kills and host crashes together

DomainLimit == "[domain-limit]"
ASSUME SpoolAssumption ==
  /\ MaxUnits \in Nat /\ MaxEpochs \in Nat
  /\ MaxSteps \in Nat /\ MaxFaults \in Nat /\ MaxEntries \in Nat
  /\ DomainLimit \notin Domains

VARIABLES
  now,      \* the wall clock, in ticks
  steps,    \* backward clock steps so far
  faults,   \* faults so far
  spool,    \* batch files the directory lists
  synced,   \* batch files of the directory as of its last fsync
  tmp,      \* .batch.tmp exists
  marker,   \* .running: "absent", "visible" or, once fsynced, "durable"
  row       \* [unit -> the row add() put it in]: what the rows of a batch say

spoolVars == <<spool, synced, tmp, marker>>
clockVars == <<now, steps>>

Units  == 1 .. MaxUnits
Epochs == 1 .. MaxEpochs

NoRow == [start |-> 0, domain |-> "none"]
RowKeys == [start: Times, domain: Domains \cup {DomainLimit}]

\* One durable engine batch.  rows is the set of units its rows add up, the
\* row of a unit being fixed when the unit enters the journal.  data says
\* whether the bytes of the file reached the disk.
Batches == [epoch: Epochs, seq: Nat, from: Times, to: Times, emitted: Times,
            unclean: BOOLEAN, rows: SUBSET Units,
            data: {"cached", "synced", "torn"}]

NoBatch == [epoch |-> 0]

\* The names os.ReadDir returns: the batches, .writer.lock, .running and,
\* when a write was cut short, .batch.tmp.
Entries == Cardinality(spool) + 1 + (IF marker = "absent" THEN 0 ELSE 1)
                              + (IF tmp THEN 1 ELSE 0)

SpoolTypeOK ==
  /\ now \in Times /\ steps \in 0 .. MaxSteps /\ faults \in 0 .. MaxFaults
  /\ spool \in SUBSET Batches /\ synced \in SUBSET Batches
  /\ tmp \in BOOLEAN
  /\ marker \in {"absent", "visible", "durable"}
  /\ row \in [Units -> RowKeys \cup {NoRow}]

SpoolInit ==
  /\ now = 0 /\ steps = 0 /\ faults = 0
  /\ spool = {} /\ synced = {} /\ tmp = FALSE /\ marker = "absent"
  /\ row = [u \in Units |-> NoRow]

Fault == faults < MaxFaults /\ faults' = faults + 1

\* syncDirectory: every name now in the directory is on disk, every name
\* removed from it is gone for good.
SyncDirectory ==
  /\ synced' = spool
  /\ marker' = IF marker = "visible" THEN "durable" ELSE marker

Tick ==
  /\ now < MaxClock /\ now' = now + 1
  /\ UNCHANGED <<steps, faults, spoolVars, row>>

\* The wall clock is set back (NTP, an operator, a resumed guest).
StepBack ==
  /\ steps < MaxSteps /\ steps' = steps + 1
  /\ now' \in 0 .. now - 1
  /\ UNCHANGED <<faults, spoolVars, row>>

AfterCrash(b) == IF b.data = "cached" THEN [b EXCEPT !.data = "torn"] ELSE b

\* The directory after a power loss: names only half persisted may be there
\* or not, and a file whose contents were not fsynced is torn.
CrashDirectory ==
  /\ \E half \in SUBSET ((spool \ synced) \cup (synced \ spool)) :
       spool' = {AfterCrash(b) : b \in (spool \cap synced) \cup half}
  /\ synced' = spool'
  /\ tmp' \in {tmp, spool' # spool}
  /\ marker' \in IF marker = "visible" THEN {"absent", "durable"} ELSE {marker}
=============================================================================
