------------------------- MODULE AccountingPipeline -------------------------
(***************************************************************************)
(* Engine, spool directory and collector together: every interleaving of   *)
(* relay goroutines, flushes and drains, with kills of either process,     *)
(* host crashes, I/O errors and backward steps of the wall clock.          *)
(***************************************************************************)
EXTENDS DomainJournal, EngineImport

vars == <<journalVars, importVars, spoolVars, row, faults, clockVars>>

TypeOK == SpoolTypeOK /\ JournalTypeOK /\ ImportTypeOK

Init == SpoolInit /\ JournalInit /\ ImportInit

\* Power loss or a kernel panic: both processes die, the directory keeps what
\* was on disk, committed SQLite transactions survive.
HostCrash ==
  /\ phase # "down" \/ collector # "down" \/ spool # synced \/ marker = "visible"
  /\ Fault
  /\ ProcessGone /\ CollectorGone /\ CrashDirectory
  /\ UNCHANGED <<ledgerVars, row, clockVars>>

Engine    == JournalNext /\ UNCHANGED importVars
Collector == ImportNext /\ UNCHANGED <<journalVars, row>>
Clock     == (Tick \/ StepBack) /\ UNCHANGED <<journalVars, importVars>>

Next == Engine \/ Collector \/ Clock \/ HostCrash

Spec == Init /\ [][Next]_vars

\* The collector's loop never gives up and its calls return; systemd or
\* Compose restarts it.  Nothing is assumed of the engine, of the clock or of
\* faults.
CollectorStep ==
  /\ CollectorStart \/ ScanBegin \/ ScanEnd \/ Import \/ ImportRefused
     \/ Unlink \/ DrainEnd
  /\ UNCHANGED <<journalVars, row>>

FairSpec == Spec /\ WF_vars(CollectorStep)

-----------------------------------------------------------------------------
OnDisk  == spool \cup synced
Journaled == UNION {b.rows : b \in OnDisk}

\* A unit nobody has any more.
Lost(u) ==
  /\ u <= passed /\ u # relay.unit
  /\ u \notin rows /\ u \notin Journaled /\ u \notin imported

(***************************************************************************)
(* A unit is in the two bucket tables at most once, and only if a committed*)
(* transaction read it: no crash between the commit and the unlink, no     *)
(* batch that comes back after a power loss and no batch whose flush failed*)
(* after the rename is counted again (import_batch, drain_engine, flush).  *)
(***************************************************************************)
ExactlyOnce ==
  \A u \in Units : counted[u] <= (IF u \in imported THEN 1 ELSE 0)

(***************************************************************************)
(* The synthetic cumulative total of the cursor row is the number of units *)
(* imported, across engine epochs, restarts and replays (import_batch).    *)
(* For runs whose horizon expires nothing.                                 *)
(***************************************************************************)
TotalIsImported == cursor.total = Cardinality(imported)

(***************************************************************************)
(* The checkpoint of an epoch separates the batches of the spool exactly:  *)
(* what a batch at or before it says is imported, nothing of a later one   *)
(* is.  "Missing sequences ... never silently advance the checkpoint."     *)
(***************************************************************************)
CheckpointSeparates ==
  \A b \in OnDisk :
    IF b.seq <= kernel_epochs[b.epoch].sequence
    THEN b.rows \subseteq imported
    ELSE b.rows \cap imported = {}

(***************************************************************************)
(* If traffic of an epoch was lost, every later epoch the ledger knows is  *)
(* marked possible_tail_loss: by the marker written before any listener    *)
(* and never removed, by the unclean flag kept until a flush succeeds, and *)
(* by the sticky flag of kernel_epochs.                                    *)
(***************************************************************************)
LossIsReported ==
  \A u \in Units : Lost(u) =>
    \A e \in Epochs :
      passedIn[u] < e /\ kernel_epochs[e].sequence > 0
        => kernel_epochs[e].possible_tail_loss

(***************************************************************************)
(* A batch the engine writes is one the collector accepts: while the clock *)
(* does not go back, no file of the spool can make a drain fail for good   *)
(* (flush and add against validate_batch).                                 *)
(***************************************************************************)
BatchesAreValid == steps = 0 => \A b \in spool : ValidBatch(b)

(***************************************************************************)
(* However many host names pass between two flushes, a batch has at most   *)
(* MaxRows rows and one [domain-limit] row for each bucket of its interval *)
(* (add): an interval of two buckets stays within what validate_batch      *)
(* accepts.                                                                *)
(***************************************************************************)
RowsAreBounded ==
  \A b \in spool :
    Cardinality(RowKeysOf(b)) <=
      MaxRows + Cardinality({BucketStart(t) : t \in b.from .. b.to})

(***************************************************************************)
(* Writer and reader agree on the batch format: whatever reaches the spool *)
(* is accepted and has a bounded size.                                     *)
(***************************************************************************)
BatchesAreImportable == BatchesAreValid /\ RowsAreBounded

(***************************************************************************)
(* The engine's directory limit, which also counts the marker, the lock    *)
(* and a leftover .batch.tmp, keeps the spool within what one drain        *)
(* accepts, even when one host crash brings unlinked batches back (flush   *)
(* against drain_engine).  Each further crash with unsynced unlinks may    *)
(* bring back one more.                                                    *)
(***************************************************************************)
SpoolWithinDrainLimit == faults <= 1 => Cardinality(spool) <= DrainLimit

(***************************************************************************)
(* No second of a bucket is counted as observed twice while the clock does *)
(* not go back, however many epochs, crashes and replays there were        *)
(* (import_batch): a report's "complete" means observed = width.           *)
(***************************************************************************)
ObservedAtMostOnce ==
  steps = 0 => \A s \in Starts : observed[s] <= Bucket

(***************************************************************************)
(* Pruning deletes only what has left the retention window: every imported *)
(* unit whose bucket is inside the window that now begins at cutoff(now)   *)
(* is in the tables (prune, import_batch).  "Retain three calendar months  *)
(* in UTC, clamping short months."                                         *)
(***************************************************************************)
RetainedIsCounted ==
  \A u \in imported : row[u].start >= Cutoff(Unix(now)) => counted[u] = 1

(***************************************************************************)
(* kernel_started, from which reports call a period exact, is never later  *)
(* than a row that was imported (import_batch, domain_report).             *)
(***************************************************************************)
KernelStartIsEarliest ==
  \A u \in imported :
    kernel_started # -1 /\ BucketStart(kernel_started) <= row[u].start

(***************************************************************************)
(* What a report says of how much of a period was observed, and since when,*)
(* is never too much (domain_report: "complete", "exact").                 *)
(***************************************************************************)
ObservationIsSound == ObservedAtMostOnce /\ KernelStartIsEarliest

(***************************************************************************)
(* A file the collector has not committed is never unlinked: the           *)
(* acknowledgement follows the durable commit (drain_engine).              *)
(***************************************************************************)
UnlinkFollowsCommit ==
  [][collector = "unlink" /\ collector' = "drain" =>
       \A b \in spool \ spool' : b.seq <= kernel_epochs[b.epoch].sequence]_vars

(***************************************************************************)
(* While the clock does not go back, every batch that is on disk is        *)
(* imported and acknowledged in the end, whatever finite number of crashes *)
(* and errors happen (collect_engine, drain_engine).                       *)
(***************************************************************************)
EveryBatchIsAcknowledged ==
  \A e \in Epochs, s \in 1 .. MaxBatches :
    (\E b \in spool \cap synced : b.epoch = e /\ b.seq = s)
      ~> (/\ kernel_epochs[e].sequence >= s
          /\ \A b \in spool : b.epoch # e \/ b.seq # s)

-----------------------------------------------------------------------------
(* The promise, and the mapping under which the pipeline keeps it. *)

\* A unit is durable once its batch is on disk or its flush has returned.
Acknowledged(b) == phase # "down" /\ b.epoch = epoch /\ b.seq <= seq
Durable(u) ==
  \E b \in spool : u \in b.rows /\ (b \in synced \/ Acknowledged(b))

Fate(u) ==
  CASE u > passed                       -> "unseen"
    [] u \in imported                   -> "counted"
    [] u \notin imported /\ Durable(u)  -> "durable"
    [] Lost(u)                          -> "lost"
    [] OTHER                            -> "volatile"

Promise == INSTANCE AccountingPromise WITH
             fate <- [u \in Units |-> Fate(u)],
             total <- cursor.total

(***************************************************************************)
(* Every step of the pipeline is a step of AccountingPromise or changes    *)
(* nothing it can see: a unit whose batch is on disk is never lost and a   *)
(* counted one is never counted again, whatever crashes (the whole of      *)
(* domain_accounting.go and of the engine importer).  For runs whose       *)
(* horizon expires nothing.                                                *)
(***************************************************************************)
KeepsThePromise == Promise!PromiseSpec
=============================================================================
