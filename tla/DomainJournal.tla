--------------------------- MODULE DomainJournal ---------------------------
(***************************************************************************)
(* The engine side of traffic accounting: domainJournal in                 *)
(* engine/mihomo/overlay/tunnel/statistic/domain_accounting.go, with the   *)
(* tracker and main.go hooks of engine/mihomo/accounting.patch.            *)
(*                                                                         *)
(* Relay goroutines read the clock (Pass), then take the journal's mutex   *)
(* and add to its rows (Add).  A flush holds the mutex from its first check*)
(* to its last fsync: FlushWrite (checks, encode, write and fsync          *)
(* .batch.tmp), FlushRename, FlushSync.  The temporary file is invisible to*)
(* the collector, so what precedes the rename is one step.                 *)
(***************************************************************************)
EXTENDS AccountingSpool

CONSTANTS
  MaxRows,    \* rows in memory before [domain-limit] (10000)
  MaxBatches  \* bound: batches an epoch writes
ASSUME JournalAssumption == MaxRows \in Nat \ {0} /\ MaxBatches \in Nat

VARIABLES
  phase,    \* of the engine process
  flush,    \* the flush in progress: "idle", "rename" or "dirsync"
  epoch,    \* random identity of this start; 0 before the first
  seq,      \* batches acknowledged by the file system in this epoch
  from,     \* second at which the next batch begins
  unclean,  \* the next batch reports that the previous run left .running
  rows,     \* units in memory
  batch,    \* the batch being written, NoBatch outside a flush
  relay,    \* a relay goroutine between time.Now() and the mutex
  passed,   \* units 1 .. passed went through a tracker
  passedIn  \* history: the epoch in which a unit passed, 0 before

journalVars == <<phase, flush, epoch, seq, from, unclean, rows, batch, relay,
                 passed, row, passedIn>>

NoSample == [unit |-> 0, at |-> 0, domain |-> "none"]

Phases == {"down", "marked", "opening", "listening", "stopping", "closing"}

JournalTypeOK ==
  /\ phase \in Phases
  /\ flush \in {"idle", "rename", "dirsync"}
  /\ epoch \in 0 .. MaxEpochs /\ seq \in Nat /\ from \in Times
  /\ unclean \in BOOLEAN
  /\ rows \in SUBSET Units
  /\ batch \in Batches \cup {NoBatch}
  /\ relay \in [unit: Units, at: Times, domain: Domains] \cup {NoSample}
  /\ passed \in 0 .. MaxUnits
  /\ passedIn \in [Units -> 0 .. MaxEpochs]

JournalInit ==
  /\ phase = "down" /\ flush = "idle" /\ epoch = 0 /\ seq = 0 /\ from = 0
  /\ unclean = FALSE /\ rows = {} /\ batch = NoBatch /\ relay = NoSample
  /\ passed = 0
  /\ passedIn = [u \in Units |-> 0]

\* The process is gone: what was only in its memory is lost.
ProcessGone ==
  /\ phase' = "down" /\ flush' = "idle" /\ rows' = {} /\ batch' = NoBatch
  /\ relay' = NoSample
  /\ seq' = 0 /\ from' = 0 /\ unclean' = FALSE
  /\ UNCHANGED <<epoch, passed, row, passedIn>>

\* StartDomainAccounting up to the marker file: a new epoch begins now, and
\* it is unclean when an earlier start left its marker.
StartMark ==
  /\ phase = "down" /\ epoch < MaxEpochs
  /\ phase' = "marked"
  /\ epoch' = epoch + 1 /\ seq' = 0 /\ from' = Unix(now)
  /\ unclean' = (marker # "absent")
  /\ marker' = IF marker = "absent" THEN "visible" ELSE marker
  /\ UNCHANGED <<flush, rows, batch, relay, passed, row, passedIn,
                 faults, spool, synced, tmp, clockVars>>

\* The marker is on disk before the first flush and before any listener.
StartSync ==
  /\ phase = "marked"
  /\ phase' = "opening"
  /\ SyncDirectory
  /\ UNCHANGED <<flush, epoch, seq, from, unclean, rows, batch, relay, passed,
                 row, passedIn, faults, spool, tmp, clockVars>>

Relaying == phase \in {"listening", "stopping", "closing"}

\* A tracker moves a payload and recordDomain reads the clock before it asks
\* for the mutex.
Pass(d) ==
  /\ Relaying /\ relay = NoSample /\ passed < MaxUnits
  /\ passed' = passed + 1
  /\ relay' = [unit |-> passed', at |-> Unix(now), domain |-> d]
  /\ passedIn' = [passedIn EXCEPT ![passed'] = epoch]
  /\ UNCHANGED <<phase, flush, epoch, seq, from, unclean, rows, batch, row,
                 faults, spoolVars, clockVars>>

RowsInMemory == {row[u] : u \in rows}

\* Mutant: add does not move an old sample to the interval's beginning.
RowForUnclamped(s) ==
  [start |-> BucketStart(s.at), domain |-> s.domain]

\* add: a sample older than the interval is moved to its beginning, and a
\* new row beyond the limit is merged into [domain-limit].
RowFor(s) ==
  LET at  == IF s.at < from THEN from ELSE s.at
      key == [start |-> BucketStart(at), domain |-> s.domain]
  IN  IF key \notin RowsInMemory /\ Cardinality(RowsInMemory) >= MaxRows
      THEN [key EXCEPT !.domain = DomainLimit]
      ELSE key

Add ==
  /\ relay # NoSample /\ flush = "idle"
  /\ row' = [row EXCEPT ![relay.unit] = RowFor(relay)]
  /\ rows' = rows \cup {relay.unit}
  /\ relay' = NoSample
  /\ UNCHANGED <<phase, flush, epoch, seq, from, unclean, batch, passed,
                 passedIn, faults, spoolVars, clockVars>>

\* A flush runs once in StartDomainAccounting, on every tick of the two
\* second ticker, and once more in StopDomainAccounting.
Flushing == phase \in {"opening", "listening", "stopping"}

\* Mutant: an error of a ticker flush is tried again instead of exiting.
FlushAbandonedRetry ==
  /\ phase' = IF phase = "stopping" THEN "closing" ELSE phase
  /\ flush' = "idle" /\ batch' = NoBatch
  /\ UNCHANGED <<epoch, seq, from, unclean, rows, relay, passed, row, passedIn>>

\* What an error of flush() means to its three callers: the start fails, the
\* ticker goroutine exits the process, the stop only prints a message.
FlushAbandoned ==
  IF phase = "stopping"
  THEN /\ phase' = "closing" /\ flush' = "idle" /\ batch' = NoBatch
       /\ UNCHANGED <<epoch, seq, from, unclean, rows, relay, passed, row,
                      passedIn>>
  ELSE ProcessGone

\* Mutant: the capacity check counts the batches only.
FlushRefusedByBatches == Cardinality(spool) > MaxEntries \/ Unix(now) < from

FlushRefused == Entries > MaxEntries \/ Unix(now) < from

\* Capacity exceeded, or the clock is behind the interval's beginning.
FlushRefuse ==
  /\ Flushing /\ flush = "idle" /\ FlushRefused
  /\ FlushAbandoned
  /\ UNCHANGED <<faults, spoolVars, clockVars>>

\* Mutant: the interval of a batch begins one second early.
NextBatchEarly ==
  [epoch |-> epoch, seq |-> seq + 1, from |-> from - 1, to |-> Unix(now),
   emitted |-> now, unclean |-> unclean, rows |-> rows, data |-> "synced"]

NextBatch ==
  [epoch |-> epoch, seq |-> seq + 1, from |-> from, to |-> Unix(now),
   emitted |-> now, unclean |-> unclean, rows |-> rows, data |-> "synced"]

FlushWrite ==
  /\ Flushing /\ flush = "idle" /\ ~FlushRefused /\ seq < MaxBatches
  /\ flush' = "rename" /\ batch' = NextBatch /\ tmp' = TRUE
  /\ UNCHANGED <<phase, epoch, seq, from, unclean, rows, relay, passed, row,
                 passedIn, faults, spool, synced, marker, clockVars>>

SameName(b, c) == b.epoch = c.epoch /\ b.seq = c.seq

\* From here the collector sees the batch.  os.Rename replaces a file of the
\* same name.
FlushRename ==
  /\ flush = "rename"
  /\ flush' = "dirsync" /\ tmp' = FALSE
  /\ spool' = {b \in spool : ~SameName(b, batch)} \cup {batch}
  /\ UNCHANGED <<phase, epoch, seq, from, unclean, rows, batch, relay, passed,
                 row, passedIn, faults, synced, marker, clockVars>>

\* Mutant: flush does not fsync the directory.
FlushSyncNone ==
  /\ flush = "dirsync"
  /\ flush' = "idle" /\ batch' = NoBatch
  /\ rows' = {} /\ seq' = seq + 1 /\ from' = batch.to /\ unclean' = FALSE
  /\ phase' = IF phase = "stopping" THEN "closing" ELSE "listening"
  /\ UNCHANGED <<epoch, relay, passed, row, passedIn, faults, spoolVars,
                 clockVars>>

\* Only a batch whose name is on disk leaves the journal's memory.
FlushSync ==
  /\ flush = "dirsync"
  /\ SyncDirectory
  /\ flush' = "idle" /\ batch' = NoBatch
  /\ rows' = {} /\ seq' = seq + 1 /\ from' = batch.to /\ unclean' = FALSE
  /\ phase' = IF phase = "stopping" THEN "closing" ELSE "listening"
  /\ UNCHANGED <<epoch, relay, passed, row, passedIn, faults, spool, tmp,
                 clockVars>>

\* A failing open, write, fsync, rename or directory fsync.
FlushError ==
  /\ Flushing /\ Fault
  /\ FlushAbandoned
  /\ tmp' \in IF flush = "idle" THEN {tmp, TRUE} ELSE {tmp}
  /\ UNCHANGED <<spool, synced, marker, clockVars>>

\* SIGTERM: main returns, StopDomainAccounting ends the ticker loop and waits
\* for a flush in progress.
Stop ==
  /\ phase = "listening" /\ flush = "idle"
  /\ phase' = "stopping"
  /\ UNCHANGED <<flush, epoch, seq, from, unclean, rows, batch, relay, passed,
                 row, passedIn, faults, spoolVars, clockVars>>

\* The process ends; relay goroutines may have added after the last flush.
Exit ==
  /\ phase = "closing"
  /\ ProcessGone
  /\ UNCHANGED <<faults, spoolVars, clockVars>>

\* SIGKILL, a panic, the OOM killer, or a start that fails on an I/O error.
EngineKill ==
  /\ phase # "down" /\ Fault
  /\ ProcessGone
  /\ UNCHANGED <<spoolVars, clockVars>>

JournalNext ==
  \/ StartMark \/ StartSync
  \/ \E d \in Domains : Pass(d)
  \/ Add
  \/ FlushRefuse \/ FlushWrite \/ FlushRename \/ FlushSync \/ FlushError
  \/ Stop \/ Exit \/ EngineKill
=============================================================================
