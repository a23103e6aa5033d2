---------------------------- MODULE EngineImport ----------------------------
(***************************************************************************)
(* The collector side of traffic accounting: collect_engine, drain_engine, *)
(* validate_batch and Store.import_batch of deploy/traffic/traffic.py.     *)
(*                                                                         *)
(* The collector lists the spool, reads and validates every batch before   *)
(* it imports any, then imports them in order: one SQLite transaction      *)
(* (synchronous=FULL, so a commit is durable) and one unlink per batch, and*)
(* an fsync of the directory at the end.                                   *)
(***************************************************************************)
EXTENDS AccountingSpool

CONSTANTS
  MaxBatchRows,   \* rows a batch may have (10002)
  DrainLimit,     \* batches one drain accepts (10000)
  FutureSlack,    \* seconds a batch may end after the collector's clock (5)
  SlowListing     \* one directory listing can outlast an engine restart
ASSUME ImportAssumption ==
  /\ MaxBatchRows \in Nat /\ DrainLimit \in Nat /\ FutureSlack \in Nat
  /\ SlowListing \in BOOLEAN

VARIABLES
  collector,     \* "down", "idle", "scan", "drain" or "unlink"
  todo,          \* the validated batches of this drain, as listed
  current,       \* the batch committed and not yet unlinked
  kernel_epochs, \* [epoch -> its checkpoint]
  kernel_started,\* second at which engine accounting began, -1 before
  cursor,        \* the durable total: time and units
  counted,       \* [unit -> times it was added to both bucket tables]
  observed,      \* [bucket start -> observed_seconds]
  imported       \* history: the units a committed transaction has read

ledgerVars == <<kernel_epochs, kernel_started, cursor, counted, observed, imported>>
importVars == <<collector, todo, current, ledgerVars>>

Starts == {s \in Times : s % Bucket = 0}

\* The row of kernel_epochs for an epoch; sequence 0 stands for no row.  The
\* digest of a batch is the batch.
NoEpoch == [sequence |-> 0, digest |-> NoBatch, at |-> 0,
            possible_tail_loss |-> FALSE]
NoCursor == [at |-> -1, total |-> 0]

ImportTypeOK ==
  /\ collector \in {"down", "idle", "scan", "drain", "unlink"}
  /\ todo \in SUBSET Batches
  /\ current \in Batches \cup {NoBatch}
  /\ kernel_epochs \in [Epochs -> [sequence: Nat, digest: Batches \cup {NoBatch},
                                   at: Times, possible_tail_loss: BOOLEAN]]
  /\ kernel_started \in Times \cup {-1}
  /\ cursor \in [at: Times \cup {-1}, total: Nat]
  /\ counted \in [Units -> Nat]
  /\ observed \in [Starts -> Nat]
  /\ imported \in SUBSET Units

ImportInit ==
  /\ collector = "down" /\ todo = {} /\ current = NoBatch
  /\ kernel_epochs = [e \in Epochs |-> NoEpoch]
  /\ kernel_started = -1 /\ cursor = NoCursor
  /\ counted = [u \in Units |-> 0]
  /\ observed = [s \in Starts |-> 0]
  /\ imported = {}

-----------------------------------------------------------------------------
\* validate_batch.
RowKeysOf(b) == {row[u] : u \in b.rows}

ValidBatch(b) ==
  /\ b.data # "torn"
  /\ b.to * TicksPerSecond <= b.emitted
  /\ b.emitted < (b.to + 2) * TicksPerSecond
  /\ b.from <= b.to
  /\ b.to <= Unix(now) + FutureSlack
  /\ Cardinality(RowKeysOf(b)) <= MaxBatchRows
  /\ \A k \in RowKeysOf(b) :
       BucketStart(b.from) <= k.start /\ k.start <= BucketStart(b.to)

\* The order of sorted(): from, emitted_ns, epoch, sequence.  Epoch names are
\* random, so two epochs may come in either order.
Before(b, c) ==
  \/ b.from < c.from
  \/ b.from = c.from /\ b.emitted < c.emitted
  \/ b.from = c.from /\ b.emitted = c.emitted /\ b.epoch = c.epoch /\ b.seq < c.seq

IsNext(b) == b \in todo /\ \A c \in todo : ~Before(c, b)

-----------------------------------------------------------------------------
\* The guards of import_batch, in its order.
Checkpoint(b) == kernel_epochs[b.epoch]

\* Mutant: replays are not recognised.
DuplicateNever(b) == FALSE

Duplicate(b) ==
  /\ b.seq <= Checkpoint(b).sequence
  /\ ~(b.seq = Checkpoint(b).sequence /\ b # Checkpoint(b).digest)

Conflict(b) == b.seq = Checkpoint(b).sequence /\ b # Checkpoint(b).digest

\* Mutant: a replay counts as a gap.
GapOnReplay(b) == b.seq # Checkpoint(b).sequence + 1

Gap(b) ==
  /\ b.seq > Checkpoint(b).sequence
  /\ \/ b.seq # Checkpoint(b).sequence + 1
     \/ Checkpoint(b).sequence > 0 /\ b.from # Checkpoint(b).at

Overlap(b) ==
  /\ b.seq > Checkpoint(b).sequence
  /\ Checkpoint(b).sequence = 0 /\ cursor # NoCursor /\ b.from < cursor.at

Refused(b) == Conflict(b) \/ Gap(b) \/ Overlap(b)

\* Mutant: prune also deletes the boundary bucket.
PrunedUnitsBoundary(table, t) ==
  [u \in Units |-> IF row[u].start <= Cutoff(t) THEN 0 ELSE table[u]]

\* prune: buckets before the horizon are deleted, from every table.
PrunedUnits(table, t) ==
  [u \in Units |-> IF row[u].start < Cutoff(t) THEN 0 ELSE table[u]]
PrunedStarts(table, t) ==
  [s \in Starts |-> IF s < Cutoff(t) THEN 0 ELSE table[s]]

\* Mutant: seconds are not split at a bucket boundary.
OverlappingWhole(lo, hi, s) ==
  IF BucketStart(lo) = s /\ lo < hi THEN hi - lo ELSE 0

\* Seconds of [lo, hi) that fall in the bucket that begins at s.
Overlapping(lo, hi, s) ==
  LET first == IF lo < s THEN s ELSE lo
      last  == IF hi > s + Bucket THEN s + Bucket ELSE hi
  IN  IF first < last THEN last - first ELSE 0

\* Mutant: the boundary bucket is skipped.
RetainedAfter(b) == {u \in b.rows : row[u].start > Cutoff(b.to)}

\* Units whose row is still inside the retention window of the batch's end.
Retained(b) == {u \in b.rows : row[u].start >= Cutoff(b.to)}

\* Mutant: the flag of the latest batch replaces the flag of the epoch.
TailLossLatest(b) == b.unclean

\* possible_tail_loss of an epoch, once set, stays.
TailLoss(b) == b.unclean \/ Checkpoint(b).possible_tail_loss

\* accounting_meta's kernel_started is inserted once.
KernelStart(b) == IF kernel_started = -1 THEN b.from ELSE kernel_started

\* The transaction of import_batch for a batch no guard refuses.
ImportTransaction(b) ==
  LET position == IF b.from < Cutoff(b.to) THEN Cutoff(b.to) ELSE b.from
      added    == [u \in Units |-> counted[u] + (IF u \in Retained(b) THEN 1 ELSE 0)]
      seen     == [s \in Starts |-> observed[s] + Overlapping(position, b.to, s)]
  IN  /\ counted' = PrunedUnits(added, b.to)
      /\ observed' = PrunedStarts(seen, b.to)
      /\ kernel_started' = KernelStart(b)
      /\ kernel_epochs' = [kernel_epochs EXCEPT ![b.epoch] =
           [sequence |-> b.seq, digest |-> b, at |-> b.to,
            possible_tail_loss |-> TailLoss(b)]]
      /\ cursor' = [at |-> b.to,
                    total |-> cursor.total + Cardinality(Retained(b))]
      /\ imported' = imported \cup b.rows

\* store.prune(int(time.time())), which ends every turn of the loop.
PruneNow ==
  /\ counted' = PrunedUnits(counted, Unix(now))
  /\ observed' = PrunedStarts(observed, Unix(now))
  /\ UNCHANGED <<kernel_epochs, kernel_started, cursor, imported>>

\* A drain raised: logged, pruned, tried again in two seconds.  The
\* directory is not fsynced on this path.
DrainRaises ==
  /\ collector' = "idle" /\ todo' = {} /\ current' = NoBatch
  /\ PruneNow
  /\ UNCHANGED spoolVars

-----------------------------------------------------------------------------
CollectorStart ==
  /\ collector = "down"
  /\ collector' = "idle"
  /\ UNCHANGED <<todo, current, ledgerVars, faults, spoolVars, clockVars>>

\* glob("*.json") begins: it returns at least the names present now.
ScanBegin ==
  /\ collector = "idle"
  /\ collector' = "scan" /\ todo' = spool
  /\ UNCHANGED <<current, ledgerVars, faults, spoolVars, clockVars>>

\* What the listing may return: of the names that appeared meanwhile any, in
\* hash order, so possibly a batch without its predecessor.
Listings ==
  {todo \cup late : late \in SUBSET (spool \ todo)}

InEpochOrder(listed) ==
  \A b \in listed, c \in spool : c.epoch < b.epoch => c \in listed

\* One invalid batch fails the whole drain.
ScanEnd ==
  /\ collector = "scan"
  /\ \E listed \in Listings :
       /\ SlowListing \/ InEpochOrder(listed)
       /\ IF /\ \A b \in listed : ValidBatch(b)
             /\ Cardinality(listed) <= DrainLimit
          THEN /\ collector' = "drain" /\ todo' = listed
               /\ UNCHANGED <<current, ledgerVars, spoolVars>>
          ELSE DrainRaises
  /\ UNCHANGED <<faults, clockVars>>

\* One import_batch that commits, or that finds the batch already imported.
Import ==
  /\ collector = "drain"
  /\ \E b \in todo :
       /\ IsNext(b) /\ ValidBatch(b) /\ ~Refused(b)
       /\ IF Duplicate(b) THEN UNCHANGED ledgerVars ELSE ImportTransaction(b)
       /\ current' = b
  /\ collector' = "unlink"
  /\ UNCHANGED <<todo, faults, spoolVars, clockVars>>

\* Mutant: a batch that cannot be imported is removed.
ImportRefusedSkip ==
  /\ collector = "drain"
  /\ \E b \in todo : IsNext(b) /\ (~ValidBatch(b) \/ Refused(b)) /\ current' = b
  /\ collector' = "unlink"
  /\ UNCHANGED <<todo, ledgerVars, faults, spoolVars, clockVars>>

\* One that raises: ROLLBACK, and the rest of the drain is dropped.
ImportRefused ==
  /\ collector = "drain"
  /\ \E b \in todo : IsNext(b) /\ (~ValidBatch(b) \/ Refused(b))
  /\ DrainRaises
  /\ UNCHANGED <<faults, clockVars>>

\* path.unlink(): the acknowledgement.
Unlink ==
  /\ collector = "unlink"
  /\ collector' = "drain"
  /\ spool' = spool \ {current}
  /\ todo' = todo \ {current} /\ current' = NoBatch
  /\ UNCHANGED <<ledgerVars, faults, synced, tmp, marker, clockVars>>

\* Everything listed is imported: fsync the directory, prune, wait.
DrainEnd ==
  /\ collector = "drain" /\ todo = {}
  /\ collector' = "idle"
  /\ SyncDirectory
  /\ PruneNow
  /\ UNCHANGED <<todo, current, faults, spool, tmp, clockVars>>

\* A read, SQLite, unlink or fsync error anywhere in a drain.
DrainError ==
  /\ collector \in {"scan", "drain", "unlink"} /\ Fault
  /\ DrainRaises
  /\ UNCHANGED clockVars

CollectorGone == collector' = "down" /\ todo' = {} /\ current' = NoBatch

CollectorKill ==
  /\ collector # "down" /\ Fault
  /\ CollectorGone
  /\ UNCHANGED <<ledgerVars, spoolVars, clockVars>>

ImportNext ==
  \/ CollectorStart \/ ScanBegin \/ ScanEnd
  \/ Import \/ ImportRefused \/ Unlink \/ DrainEnd
  \/ DrainError \/ CollectorKill
=============================================================================
