---------------------- MODULE AccountingPipelineProofs ----------------------
(***************************************************************************)
(* Proofs about AccountingPipeline, for any number of units, domains, epochs*)
(* and batches, any clock, calendar and limits, and any number of faults and*)
(* backward clock steps.                                                   *)
(***************************************************************************)
EXTENDS AccountingPipeline, FiniteSetTheorems, TLAPS

-----------------------------------------------------------------------------
(* The inductive invariant. *)

\* What is on disk: whole files, one for each name, no unit in two of them.
DiskInv ==
  /\ \A b \in OnDisk : b.data = "synced" /\ b.epoch <= epoch
  /\ \A b, c \in OnDisk : SameName(b, c) => b = c
  /\ \A b, c \in OnDisk : b = c \/ b.rows \cap c.rows = {}

\* Every unit in memory, on disk or imported has passed, and is not the one
\* a relay goroutine still holds.
PassedInv ==
  /\ relay.unit <= passed
  /\ \A u \in rows \cup imported : u <= passed /\ u # relay.unit
  /\ \A b \in OnDisk : \A u \in b.rows : u <= passed /\ u # relay.unit

\* The flush in progress writes the whole memory of the current epoch.
FlushInv ==
  /\ phase # "down" => epoch \in Epochs
  /\ phase \in {"down", "marked"} => flush = "idle" /\ rows = {} /\ relay = NoSample
  /\ flush # "idle" =>
       /\ Flushing
       /\ batch \in Batches
       /\ batch.epoch = epoch /\ batch.seq = seq + 1
       /\ batch.rows = rows /\ batch.data = "synced"

\* Phases from which a batch may still be written.
Writing == phase \in {"marked", "opening", "listening", "stopping"}
Renamed(b) == flush = "dirsync" /\ b = batch

\* While batches may be written: no later batch of this epoch is on disk or
\* known to the ledger, and what is in memory is nowhere else.
FreshInv ==
  Writing =>
    /\ \A b \in OnDisk :
         /\ b.epoch = epoch => b.seq <= seq \/ Renamed(b)
         /\ Renamed(b) \/ b.rows \cap rows = {}
    /\ \/ kernel_epochs[epoch].sequence <= seq
       \/ flush = "dirsync" /\ kernel_epochs[epoch].sequence = seq + 1
    /\ flush # "dirsync" => rows \cap imported = {}

\* The collector works on files that are there, and what it unlinks is
\* imported.
CollectorInv ==
  /\ todo \subseteq spool
  /\ collector = "unlink" =>
       current \in todo /\ current.seq <= kernel_epochs[current.epoch].sequence
  /\ \A e \in Epochs : kernel_epochs[e].sequence > 0 => e <= epoch

IInv ==
  /\ TypeOK
  /\ DiskInv /\ PassedInv /\ FlushInv /\ FreshInv /\ CollectorInv
  /\ CheckpointSeparates
  /\ ExactlyOnce

-----------------------------------------------------------------------------
(* Type correctness. *)

JournalTypes == SpoolTypeOK /\ JournalTypeOK

\* The process of the engine ends.
LEMMA ProcessGoneType ==
  ASSUME JournalTypeOK, ProcessGone
  PROVE  JournalTypeOK'
<1>1. 0 \in Times
  BY TimeAssumption DEF Times
<1> QED BY <1>1 DEF ProcessGone, JournalTypeOK, Phases

LEMMA AbandonedType ==
  ASSUME JournalTypeOK, FlushAbandoned
  PROVE  JournalTypeOK' /\ row' = row
BY ProcessGoneType DEF FlushAbandoned, ProcessGone, JournalTypeOK, Phases

\* The row of a payload increment names a bucket and a domain.
LEMMA RowForType ==
  ASSUME JournalTypeOK, relay # NoSample
  PROVE  RowFor(relay) \in RowKeys
<1>1. /\ relay \in [unit: Units, at: Times, domain: Domains]
      /\ from \in Times
  BY DEF JournalTypeOK
<1>2. (IF relay.at < from THEN from ELSE relay.at) \in Times
  BY <1>1
<1>3. BucketStart(IF relay.at < from THEN from ELSE relay.at) \in Times
  BY <1>2, TimeAssumption
<1>4. [start |-> BucketStart(IF relay.at < from THEN from ELSE relay.at),
       domain |-> relay.domain] \in RowKeys
  BY <1>1, <1>3 DEF RowKeys
<1>5. \A k \in RowKeys : [k EXCEPT !.domain = DomainLimit] \in RowKeys
  BY DEF RowKeys
<1> HIDE DEF BucketStart
<1> QED BY <1>4, <1>5 DEF RowFor

LEMMA InitTypeOK == Init => TypeOK
<1> SUFFICES ASSUME Init PROVE TypeOK
  OBVIOUS
<1>1. 0 \in Times
  BY TimeAssumption DEF Times
<1>2. SpoolTypeOK
  <2>1. 0 \in 0 .. MaxSteps /\ 0 \in 0 .. MaxFaults
    BY SpoolAssumption
  <2>2. [u \in Units |-> NoRow] \in [Units -> RowKeys \cup {NoRow}]
    OBVIOUS
  <2> QED BY <1>1, <2>1, <2>2 DEF Init, SpoolInit, SpoolTypeOK
<1>3. JournalTypeOK
  <2>1. 0 \in 0 .. MaxUnits /\ 0 \in 0 .. MaxEpochs
    BY SpoolAssumption
  <2>2. [u \in Units |-> 0] \in [Units -> 0 .. MaxEpochs]
    BY <2>1
  <2> QED BY <1>1, <2>1, <2>2 DEF Init, JournalInit, JournalTypeOK, Phases
<1>4. ImportTypeOK
  <2>1. NoEpoch \in [sequence: Nat, digest: Batches \cup {NoBatch},
                    at: Times, possible_tail_loss: BOOLEAN]
    BY <1>1 DEF NoEpoch
  <2>2. NoCursor \in [at: Times \cup {-1}, total: Nat]
    BY DEF NoCursor
  <2> QED BY <2>1, <2>2 DEF Init, ImportInit, ImportTypeOK
<1> QED BY <1>2, <1>3, <1>4 DEF TypeOK

LEMMA JournalNextType ==
  ASSUME JournalTypes, FlushInv, JournalNext
  PROVE  JournalTypes'
<1> USE DEF JournalTypes, spoolVars, clockVars
<1>1. CASE StartMark
  <2>1. SpoolTypeOK'
    BY <1>1, TimeAssumption, SpoolAssumption DEF StartMark, SpoolTypeOK, Fault, SyncDirectory
  <2>2. JournalTypeOK'
    BY <1>1, TimeAssumption, SpoolAssumption, ProcessGoneType DEF StartMark, JournalTypeOK, SpoolTypeOK, FlushInv, FlushAbandoned, Phases, NoSample
  <2> QED BY <2>1, <2>2
<1>2. CASE StartSync
  <2>1. SpoolTypeOK'
    BY <1>2, TimeAssumption, SpoolAssumption DEF StartSync, SpoolTypeOK, Fault, SyncDirectory
  <2>2. JournalTypeOK'
    BY <1>2, TimeAssumption, SpoolAssumption, ProcessGoneType DEF StartSync, JournalTypeOK, SpoolTypeOK, FlushInv, FlushAbandoned, Phases, NoSample
  <2> QED BY <2>1, <2>2
<1>3. CASE Add
  <2>1. SpoolTypeOK'
    <3>1. relay.unit \in Units /\ row' = [row EXCEPT ![relay.unit] = RowFor(relay)]
      BY <1>3 DEF Add, JournalTypeOK
    <3>2. RowFor(relay) \in RowKeys
      BY <1>3, RowForType DEF Add
    <3>3. row' \in [Units -> RowKeys \cup {NoRow}]
      BY <3>1, <3>2 DEF SpoolTypeOK
    <3> QED BY <1>3, <3>3 DEF Add, SpoolTypeOK
  <2>2. JournalTypeOK'
    BY <1>3, TimeAssumption, SpoolAssumption, ProcessGoneType DEF Add, JournalTypeOK, SpoolTypeOK, FlushInv, FlushAbandoned, Phases, NoSample
  <2> QED BY <2>1, <2>2
<1>4. CASE FlushRefuse
  <2>1. SpoolTypeOK'
    BY <1>4, SpoolAssumption, AbandonedType DEF FlushRefuse, SpoolTypeOK, Fault
  <2>2. JournalTypeOK'
    BY <1>4, AbandonedType DEF FlushRefuse
  <2> QED BY <2>1, <2>2
<1>5. CASE FlushWrite
  <2>1. SpoolTypeOK'
    BY <1>5, TimeAssumption, SpoolAssumption DEF FlushWrite, SpoolTypeOK, Fault, SyncDirectory
  <2>2. JournalTypeOK'
    <3>1. NextBatch \in Batches
      <4>1. epoch \in Epochs /\ seq + 1 \in Nat /\ from \in Times /\ Unix(now) \in Times
            /\ now \in Times /\ unclean \in BOOLEAN /\ rows \in SUBSET Units
        BY <1>5, TimeAssumption DEF FlushWrite, Flushing, FlushInv, JournalTypeOK, SpoolTypeOK
      <4> HIDE DEF Unix
      <4> QED BY <4>1 DEF NextBatch, Batches
    <3> QED BY <1>5, <3>1 DEF FlushWrite, JournalTypeOK
  <2> QED BY <2>1, <2>2
<1>6. CASE FlushRename
  <2>1. SpoolTypeOK'
    <3>1. batch \in Batches
      BY <1>6 DEF FlushRename, FlushInv
    <3> QED BY <1>6, <3>1 DEF FlushRename, SpoolTypeOK
  <2>2. JournalTypeOK'
    BY <1>6, TimeAssumption, SpoolAssumption, ProcessGoneType DEF FlushRename, JournalTypeOK, SpoolTypeOK, FlushInv, FlushAbandoned, Phases, NoSample
  <2> QED BY <2>1, <2>2
<1>7. CASE FlushSync
  <2>1. SpoolTypeOK'
    BY <1>7, TimeAssumption, SpoolAssumption DEF FlushSync, SpoolTypeOK, Fault, SyncDirectory
  <2>2. JournalTypeOK'
    <3>1. batch.to \in Times
      BY <1>7 DEF FlushSync, FlushInv, Batches
    <3>2. /\ phase' \in {"closing", "listening"} /\ flush' = "idle" /\ batch' = NoBatch
          /\ rows' = {} /\ seq' = seq + 1 /\ from' = batch.to /\ unclean' = FALSE
          /\ UNCHANGED <<epoch, relay, passed, passedIn>>
      BY <1>7 DEF FlushSync
    <3>3. seq' \in Nat
      BY <3>2 DEF JournalTypeOK
    <3>4. unclean' \in BOOLEAN
      BY <3>2
    <3> QED BY <3>1, <3>2, <3>3, <3>4 DEF JournalTypeOK, Phases
  <2> QED BY <2>1, <2>2
<1>8. CASE FlushError
  <2>1. SpoolTypeOK'
    <3>1. /\ faults < MaxFaults /\ faults' = faults + 1 /\ tmp' \in {tmp, TRUE}
          /\ UNCHANGED <<spool, synced, marker, now, steps>>
      BY <1>8 DEF FlushError, Fault
    <3>2. row' = row
      BY <1>8, AbandonedType DEF FlushError
    <3>3. tmp' \in BOOLEAN
      BY <3>1, Zenon DEF SpoolTypeOK
    <3>4. faults' \in 0 .. MaxFaults
      BY <3>1, SpoolAssumption DEF SpoolTypeOK
    <3> QED BY <3>1, <3>2, <3>3, <3>4 DEF SpoolTypeOK
  <2>2. JournalTypeOK'
    BY <1>8, AbandonedType DEF FlushError
  <2> QED BY <2>1, <2>2
<1>9. CASE Stop
  <2>1. SpoolTypeOK'
    BY <1>9, TimeAssumption, SpoolAssumption DEF Stop, SpoolTypeOK, Fault, SyncDirectory
  <2>2. JournalTypeOK'
    BY <1>9, TimeAssumption, SpoolAssumption, ProcessGoneType DEF Stop, JournalTypeOK, SpoolTypeOK, FlushInv, FlushAbandoned, Phases, NoSample
  <2> QED BY <2>1, <2>2
<1>10. CASE Exit
  <2>1. SpoolTypeOK'
    BY <1>10, SpoolAssumption DEF Exit, ProcessGone, SpoolTypeOK, Fault
  <2>2. JournalTypeOK'
    BY <1>10, ProcessGoneType DEF Exit
  <2> QED BY <2>1, <2>2
<1>11. CASE EngineKill
  <2>1. SpoolTypeOK'
    BY <1>11, SpoolAssumption DEF EngineKill, ProcessGone, SpoolTypeOK, Fault
  <2>2. JournalTypeOK'
    BY <1>11, ProcessGoneType DEF EngineKill
  <2> QED BY <2>1, <2>2
<1>12. ASSUME NEW d \in Domains, Pass(d) PROVE JournalTypes'
  <2>1. SpoolTypeOK'
    BY <1>12 DEF Pass, SpoolTypeOK
  <2>2. JournalTypeOK'
    BY <1>12, TimeAssumption, SpoolAssumption DEF Pass, JournalTypeOK, SpoolTypeOK, FlushInv, Relaying, Units, Epochs
  <2> QED BY <2>1, <2>2
<1> QED BY <1>1, <1>2, <1>3, <1>4, <1>5, <1>6, <1>7, <1>8, <1>9, <1>10, <1>11, <1>12 DEF JournalNext

\* Deleting old buckets keeps the tables' types.
LEMMA PruneType ==
  ASSUME NEW t \in Times, NEW f \in [Units -> Nat], NEW g \in [Starts -> Nat]
  PROVE  /\ PrunedUnits(f, t) \in [Units -> Nat]
         /\ PrunedStarts(g, t) \in [Starts -> Nat]
<1> HIDE DEF Cutoff
<1> QED BY DEF PrunedUnits, PrunedStarts

LEMMA NowIsTime == SpoolTypeOK => now \in Times /\ Unix(now) \in Times
BY TimeAssumption DEF SpoolTypeOK

LEMMA PruneNowType ==
  ASSUME SpoolTypeOK, ImportTypeOK, PruneNow, UNCHANGED <<collector, todo, current>>
         \/ (collector' = "idle" /\ todo' = {} /\ current' = NoBatch)
         \/ (collector' = "idle" /\ UNCHANGED <<todo, current>>)
  PROVE  ImportTypeOK'
<1>1. counted' \in [Units -> Nat] /\ observed' \in [Starts -> Nat]
  BY NowIsTime, PruneType DEF PruneNow, ImportTypeOK
<1> QED BY <1>1 DEF PruneNow, ImportTypeOK

LEMMA DrainRaisesType ==
  ASSUME SpoolTypeOK, ImportTypeOK, DrainRaises
  PROVE  ImportTypeOK'
BY PruneNowType DEF DrainRaises

\* A committed transaction leaves a well-typed ledger.
LEMMA TransactionType ==
  ASSUME ImportTypeOK, NEW b \in Batches, ImportTransaction(b)
  PROVE  /\ counted' \in [Units -> Nat] /\ observed' \in [Starts -> Nat]
         /\ kernel_epochs' \in [Epochs -> [sequence: Nat, digest: Batches \cup {NoBatch},
                                           at: Times, possible_tail_loss: BOOLEAN]]
         /\ kernel_started' \in Times \cup {-1}
         /\ cursor' \in [at: Times \cup {-1}, total: Nat]
         /\ imported' \in SUBSET Units
<1> DEFINE position == IF b.from < Cutoff(b.to) THEN Cutoff(b.to) ELSE b.from
           added == [u \in Units |-> counted[u] + (IF u \in Retained(b) THEN 1 ELSE 0)]
           seen  == [s \in Starts |-> observed[s] + Overlapping(position, b.to, s)]
<1>b. /\ b.epoch \in Epochs /\ b.seq \in Nat /\ b.from \in Times /\ b.to \in Times
      /\ b.unclean \in BOOLEAN /\ b.rows \in SUBSET Units
  BY DEF Batches
<1>1. /\ counted' = PrunedUnits(added, b.to)
      /\ observed' = PrunedStarts(seen, b.to)
      /\ kernel_started' = KernelStart(b)
      /\ kernel_epochs' = [kernel_epochs EXCEPT ![b.epoch] =
           [sequence |-> b.seq, digest |-> b, at |-> b.to,
            possible_tail_loss |-> TailLoss(b)]]
      /\ cursor' = [at |-> b.to, total |-> cursor.total + Cardinality(Retained(b))]
      /\ imported' = imported \cup b.rows
  BY DEF ImportTransaction
<1>2. position \in Times
  BY <1>b, TimeAssumption
<1>3. added \in [Units -> Nat]
  BY DEF ImportTypeOK
<1>4. seen \in [Starts -> Nat]
  <2> SUFFICES ASSUME NEW s \in Starts PROVE observed[s] + Overlapping(position, b.to, s) \in Nat
    OBVIOUS
  <2>1. s \in Int /\ b.to \in Int /\ position \in Int /\ Bucket \in Int
    BY <1>b, <1>2, TimeAssumption DEF Starts, Times
  <2> HIDE DEF position
  <2>2. Overlapping(position, b.to, s) \in Nat
    BY <2>1 DEF Overlapping
  <2> QED BY <2>2 DEF ImportTypeOK
<1>5. Cardinality(Retained(b)) \in Nat
  <2>1. IsFiniteSet(Units)
    BY FS_Interval, SpoolAssumption DEF Units
  <2>2. Retained(b) \in SUBSET Units
    BY <1>b DEF Retained
  <2> QED BY <2>1, <2>2, FS_Subset, FS_CardinalityType
<1>6. TailLoss(b) \in BOOLEAN
  BY DEF TailLoss
<1> HIDE DEF added, seen, position
<1>7. counted' \in [Units -> Nat] /\ observed' \in [Starts -> Nat]
  BY <1>b, <1>1, <1>3, <1>4, PruneType
<1>8. kernel_epochs' \in [Epochs -> [sequence: Nat, digest: Batches \cup {NoBatch},
                                    at: Times, possible_tail_loss: BOOLEAN]]
  <2>1. [sequence |-> b.seq, digest |-> b, at |-> b.to, possible_tail_loss |-> TailLoss(b)]
          \in [sequence: Nat, digest: Batches \cup {NoBatch},
              at: Times, possible_tail_loss: BOOLEAN]
    BY <1>b, <1>6
  <2> QED BY <1>1, <2>1 DEF ImportTypeOK
<1>9. kernel_started' \in Times \cup {-1}
  BY <1>b, <1>1 DEF KernelStart, ImportTypeOK
<1>10. cursor' \in [at: Times \cup {-1}, total: Nat]
  <2>1. cursor.total \in Nat
    BY DEF ImportTypeOK
  <2> QED BY <1>b, <1>1, <1>5, <2>1
<1>11. imported' \in SUBSET Units
  BY <1>b, <1>1 DEF ImportTypeOK
<1> QED BY <1>7, <1>8, <1>9, <1>10, <1>11

LEMMA ImportNextType ==
  ASSUME SpoolTypeOK, ImportTypeOK, ImportNext, UNCHANGED row
  PROVE  SpoolTypeOK' /\ ImportTypeOK'
<1> USE DEF spoolVars, clockVars
<1>s. SpoolTypeOK'
  <2>1. /\ spool' \subseteq spool /\ synced' \in {synced, spool}
        /\ UNCHANGED <<now, steps, tmp>> /\ marker' \in {marker, "durable"}
    BY DEF ImportNext, CollectorStart, ScanBegin, ScanEnd, Import, ImportRefused, Unlink,
           DrainEnd, DrainError, CollectorKill, DrainRaises, SyncDirectory
  <2>2. faults' = faults \/ Fault
    BY DEF ImportNext, CollectorStart, ScanBegin, ScanEnd, Import, ImportRefused, Unlink,
           DrainEnd, DrainError, CollectorKill
  <2>3. faults' \in 0 .. MaxFaults
    BY <2>2, SpoolAssumption DEF Fault, SpoolTypeOK
  <2> QED BY <2>1, <2>3 DEF SpoolTypeOK
<1>1. CASE CollectorStart
  BY <1>s, <1>1 DEF CollectorStart, ImportTypeOK, ledgerVars
<1>2. CASE ScanBegin
  BY <1>s, <1>2 DEF ScanBegin, ImportTypeOK, ledgerVars, SpoolTypeOK
<1>3. CASE ScanEnd
  <2>1. PICK listed \in Listings :
          \/ collector' = "drain" /\ todo' = listed /\ UNCHANGED <<current, ledgerVars>>
          \/ DrainRaises
    BY <1>3 DEF ScanEnd
  <2>2. listed \in SUBSET Batches
    BY DEF Listings, SpoolTypeOK, ImportTypeOK
  <2> QED BY <1>s, <2>1, <2>2, DrainRaisesType DEF ImportTypeOK, ledgerVars
<1>4. CASE Import
  <2>1. PICK b \in todo :
          /\ UNCHANGED ledgerVars \/ ImportTransaction(b)
          /\ current' = b
    BY <1>4 DEF Import
  <2>2. b \in Batches /\ collector' = "unlink" /\ todo' = todo
    BY <1>4 DEF Import, ImportTypeOK
  <2>3. CASE UNCHANGED ledgerVars
    BY <1>s, <2>1, <2>2, <2>3 DEF ImportTypeOK, ledgerVars
  <2>4. CASE ImportTransaction(b)
    BY <1>s, <2>1, <2>2, <2>4, TransactionType DEF ImportTypeOK
  <2> QED BY <2>1, <2>3, <2>4
<1>5. CASE ImportRefused
  BY <1>s, <1>5, DrainRaisesType DEF ImportRefused
<1>6. CASE Unlink
  BY <1>s, <1>6 DEF Unlink, ImportTypeOK, ledgerVars
<1>7. CASE DrainEnd
  BY <1>s, <1>7, PruneNowType DEF DrainEnd
<1>8. CASE DrainError
  BY <1>s, <1>8, DrainRaisesType DEF DrainError
<1>9. CASE CollectorKill
  BY <1>s, <1>9 DEF CollectorKill, CollectorGone, ImportTypeOK, ledgerVars
<1> QED BY <1>1, <1>2, <1>3, <1>4, <1>5, <1>6, <1>7, <1>8, <1>9 DEF ImportNext

LEMMA ClockType ==
  ASSUME SpoolTypeOK, Tick \/ StepBack
  PROVE  SpoolTypeOK'
<1>1. now' \in Times /\ steps' \in 0 .. MaxSteps
  BY SpoolAssumption, TimeAssumption DEF Tick, StepBack, SpoolTypeOK, Times
<1> QED BY <1>1 DEF Tick, StepBack, SpoolTypeOK, spoolVars

LEMMA CrashType ==
  ASSUME TypeOK, HostCrash
  PROVE  TypeOK'
<1>1. JournalTypeOK'
  BY ProcessGoneType DEF HostCrash, TypeOK
<1>2. ImportTypeOK'
  BY DEF HostCrash, CollectorGone, TypeOK, ImportTypeOK, ledgerVars
<1>3. SpoolTypeOK'
  <2>1. \A b \in Batches : AfterCrash(b) \in Batches
    BY DEF AfterCrash, Batches
  <2>2. spool' \in SUBSET Batches /\ synced' \in SUBSET Batches
    <3>1. PICK half \in SUBSET ((spool \ synced) \cup (synced \ spool)) :
            spool' = {AfterCrash(b) : b \in (spool \cap synced) \cup half}
      BY DEF HostCrash, CrashDirectory
    <3>2. \A b \in (spool \cap synced) \cup half : b \in Batches
      BY DEF TypeOK, SpoolTypeOK
    <3> QED BY <2>1, <3>1, <3>2 DEF HostCrash, CrashDirectory
  <2>3. tmp' \in BOOLEAN
    <3>1. tmp' \in {tmp, spool' # spool}
      BY DEF HostCrash, CrashDirectory
    <3> QED BY <3>1, Zenon DEF TypeOK, SpoolTypeOK
  <2>4. marker' \in {"absent", "visible", "durable"}
    BY DEF HostCrash, CrashDirectory, TypeOK, SpoolTypeOK
  <2>5. faults' \in 0 .. MaxFaults /\ UNCHANGED <<now, steps, row>>
    BY SpoolAssumption DEF HostCrash, Fault, TypeOK, SpoolTypeOK, clockVars
  <2> QED BY <2>2, <2>3, <2>4, <2>5 DEF TypeOK, SpoolTypeOK
<1> QED BY <1>1, <1>2, <1>3 DEF TypeOK

LEMMA NextType ==
  ASSUME TypeOK, FlushInv, Next
  PROVE  TypeOK'
<1>1. CASE Engine
  BY <1>1, JournalNextType DEF Engine, TypeOK, JournalTypes, ImportTypeOK, importVars, ledgerVars
<1>2. CASE Collector
  BY <1>2, ImportNextType DEF Collector, TypeOK, JournalTypeOK, journalVars
<1>3. CASE Clock
  BY <1>3, ClockType DEF Clock, TypeOK, JournalTypeOK, ImportTypeOK, journalVars, importVars, ledgerVars
<1>4. CASE HostCrash
  BY <1>4, CrashType
<1> QED BY <1>1, <1>2, <1>3, <1>4 DEF Next

-----------------------------------------------------------------------------
(* Steps of the engine. *)

LEMMA DiskTypes ==
  ASSUME TypeOK
  PROVE  /\ OnDisk \subseteq Batches
         /\ \A b \in OnDisk : b.rows \subseteq Units /\ b.seq \in Nat /\ b.epoch \in Epochs
         /\ rows \subseteq Units /\ imported \subseteq Units
         /\ seq \in Nat /\ epoch \in Nat /\ passed \in Nat
         /\ \A u \in Units : u \in Nat /\ u # 0
         /\ \A e \in Epochs : e \in Nat /\ kernel_epochs[e].sequence \in Nat
BY SpoolAssumption
DEF TypeOK, SpoolTypeOK, JournalTypeOK, ImportTypeOK, OnDisk, Batches, Units, Epochs

\* A step that writes no batch and leaves the ledger alone.
LEMMA LedgerFrame ==
  ASSUME DiskInv, CollectorInv, CheckpointSeparates, ExactlyOnce, TypeOK,
         UNCHANGED importVars, spool' = spool, OnDisk' \subseteq OnDisk,
         epoch' \in Nat, epoch <= epoch'
  PROVE  DiskInv' /\ CollectorInv' /\ CheckpointSeparates' /\ ExactlyOnce'
<1> USE DiskTypes DEF importVars, ledgerVars
<1>1. DiskInv'
  BY DEF DiskInv, SameName, Epochs
<1>2. CollectorInv'
  BY DEF CollectorInv
<1>3. CheckpointSeparates' /\ ExactlyOnce'
  BY DEF CheckpointSeparates, ExactlyOnce
<1> QED BY <1>1, <1>2, <1>3

\* The engine's process ends.
LEMMA GoneFrame ==
  ASSUME TypeOK, PassedInv, ProcessGone, imported' = imported, OnDisk' \subseteq OnDisk
  PROVE  PassedInv' /\ FlushInv' /\ FreshInv'
<1>1. phase' = "down" /\ flush' = "idle" /\ rows' = {} /\ relay' = NoSample /\ passed' = passed
  BY DEF ProcessGone
<1>2. PassedInv'
  BY <1>1, DiskTypes DEF PassedInv, NoSample
<1>3. FlushInv' /\ FreshInv'
  BY <1>1 DEF FlushInv, FreshInv, Writing
<1> QED BY <1>2, <1>3

LEMMA AbandonedFrame ==
  ASSUME TypeOK, PassedInv, FlushInv, FreshInv, FlushAbandoned, Flushing,
         UNCHANGED <<spool, synced, importVars>>
  PROVE  PassedInv' /\ FlushInv' /\ FreshInv' /\ epoch' = epoch
<1> USE DEF OnDisk, importVars, ledgerVars
<1>1. CASE phase = "stopping"
  <2>1. /\ phase' = "closing" /\ flush' = "idle"
        /\ UNCHANGED <<epoch, rows, relay, passed>>
    BY <1>1 DEF FlushAbandoned
  <2>2. PassedInv'
    BY <2>1 DEF PassedInv
  <2>3. FlushInv' /\ FreshInv'
    BY <1>1, <2>1 DEF FlushInv, FreshInv, Writing
  <2> QED BY <2>1, <2>2, <2>3
<1>2. CASE phase # "stopping"
  BY <1>2, GoneFrame DEF FlushAbandoned, ProcessGone
<1> QED BY <1>1, <1>2

LEMMA JournalNextInv ==
  ASSUME IInv, JournalNext, UNCHANGED importVars
  PROVE  /\ DiskInv' /\ PassedInv' /\ FlushInv' /\ FreshInv' /\ CollectorInv'
         /\ CheckpointSeparates' /\ ExactlyOnce'
<1> USE DEF spoolVars, clockVars
<1>i. UNCHANGED <<kernel_epochs, imported>>
  BY DEF importVars, ledgerVars
<1>t. /\ TypeOK /\ DiskInv /\ PassedInv /\ FlushInv /\ FreshInv /\ CollectorInv
      /\ CheckpointSeparates /\ ExactlyOnce
  BY DEF IInv
<1>1. CASE StartMark
  <2>a. /\ phase = "down" /\ phase' = "marked" /\ epoch' = epoch + 1 /\ seq' = 0
        /\ epoch < MaxEpochs
        /\ UNCHANGED <<flush, rows, relay, passed, spool, synced>>
    BY <1>1 DEF StartMark
  <2>b. rows = {} /\ flush = "idle" /\ relay = NoSample
    BY <2>a, <1>t DEF FlushInv
  <2>e. epoch' \in Epochs /\ epoch' \in Nat /\ epoch <= epoch'
    BY <2>a, <1>t, SpoolAssumption DEF TypeOK, JournalTypeOK, Epochs
  <2>1. PassedInv'
    BY <2>a, <1>i, <1>t DEF PassedInv, OnDisk
  <2>2. FlushInv'
    BY <2>a, <2>b, <2>e DEF FlushInv
  <2>3. FreshInv'
    <3>1. \A b \in OnDisk : b.epoch # epoch'
      BY <2>a, <1>t, DiskTypes DEF DiskInv
    <3>2. kernel_epochs[epoch'].sequence = 0
      BY <2>a, <2>e, <1>t, DiskTypes DEF CollectorInv
    <3> QED BY <2>a, <2>b, <1>i, <3>1, <3>2 DEF FreshInv, OnDisk
  <2>4. DiskInv' /\ CollectorInv' /\ CheckpointSeparates' /\ ExactlyOnce'
    BY <2>a, <2>e, <1>t, LedgerFrame DEF OnDisk
  <2> QED BY <2>1, <2>2, <2>3, <2>4
<1>2. CASE StartSync
  <2>a. /\ phase = "marked" /\ phase' = "opening" /\ synced' = spool
        /\ UNCHANGED <<flush, epoch, seq, rows, batch, relay, passed, spool>>
    BY <1>2 DEF StartSync, SyncDirectory
  <2>b. OnDisk' \subseteq OnDisk
    BY <2>a DEF OnDisk
  <2>1. PassedInv' /\ FlushInv' /\ FreshInv'
    BY <2>a, <2>b, <1>i, <1>t DEF PassedInv, FlushInv, FreshInv, Writing, Renamed
  <2>2. DiskInv' /\ CollectorInv' /\ CheckpointSeparates' /\ ExactlyOnce'
    BY <2>a, <2>b, <1>t, LedgerFrame, DiskTypes
  <2> QED BY <2>1, <2>2
<1>3. ASSUME NEW d \in Domains, Pass(d)
      PROVE  /\ DiskInv' /\ PassedInv' /\ FlushInv' /\ FreshInv' /\ CollectorInv'
             /\ CheckpointSeparates' /\ ExactlyOnce'
  <2>a. /\ relay = NoSample /\ passed' = passed + 1 /\ relay'.unit = passed + 1 /\ Relaying
        /\ UNCHANGED <<phase, flush, epoch, seq, rows, batch, spool, synced>>
    BY <1>3 DEF Pass
  <2>1. PassedInv'
    BY <2>a, <1>i, <1>t, DiskTypes DEF PassedInv, OnDisk
  <2>2. FlushInv' /\ FreshInv'
    BY <2>a, <1>i, <1>t DEF FlushInv, FreshInv, Writing, Renamed, OnDisk, Relaying, Flushing
  <2>3. DiskInv' /\ CollectorInv' /\ CheckpointSeparates' /\ ExactlyOnce'
    BY <2>a, <1>t, LedgerFrame, DiskTypes DEF OnDisk
  <2> QED BY <2>1, <2>2, <2>3
<1>4. CASE Add
  <2>a. /\ relay # NoSample /\ flush = "idle" /\ relay' = NoSample
        /\ rows' = rows \cup {relay.unit}
        /\ UNCHANGED <<phase, flush, epoch, seq, batch, passed, spool, synced>>
    BY <1>4 DEF Add
  <2>b. relay.unit \in Units /\ relay.unit <= passed
    BY <2>a, <1>t DEF TypeOK, JournalTypeOK, PassedInv
  <2>1. PassedInv'
    BY <2>a, <2>b, <1>i, <1>t, DiskTypes DEF PassedInv, OnDisk, NoSample
  <2>2. FlushInv'
    BY <2>a, <1>t DEF FlushInv
  <2>3. FreshInv'
    <3>1. relay.unit \notin imported /\ \A b \in OnDisk : relay.unit \notin b.rows
      BY <1>t DEF PassedInv
    <3> QED BY <2>a, <3>1, <1>i, <1>t DEF FreshInv, Writing, Renamed, OnDisk
  <2>4. DiskInv' /\ CollectorInv' /\ CheckpointSeparates' /\ ExactlyOnce'
    BY <2>a, <1>t, LedgerFrame, DiskTypes DEF OnDisk
  <2> QED BY <2>1, <2>2, <2>3, <2>4
<1>5. CASE FlushRefuse
  <2>1. FlushAbandoned /\ Flushing /\ UNCHANGED <<spool, synced>>
    BY <1>5 DEF FlushRefuse
  <2>2. PassedInv' /\ FlushInv' /\ FreshInv' /\ epoch' = epoch
    BY <2>1, <1>t, AbandonedFrame
  <2>3. DiskInv' /\ CollectorInv' /\ CheckpointSeparates' /\ ExactlyOnce'
    BY <2>1, <2>2, <1>t, LedgerFrame, DiskTypes DEF OnDisk
  <2> QED BY <2>2, <2>3
<1>6. CASE FlushWrite
  <2>a. /\ Flushing /\ flush = "idle" /\ flush' = "rename" /\ batch' = NextBatch
        /\ UNCHANGED <<phase, epoch, seq, rows, relay, passed, spool, synced>>
    BY <1>6 DEF FlushWrite
  <2>1. PassedInv'
    BY <2>a, <1>i, <1>t DEF PassedInv, OnDisk
  <2>2. FlushInv'
    <3>1. batch' \in Batches
      BY <1>6, <1>t, JournalNextType DEF TypeOK, JournalTypes, JournalTypeOK, NextBatch,
         NoBatch, FlushWrite, JournalNext
    <3> QED BY <2>a, <3>1, <1>t DEF FlushInv, Flushing, NextBatch
  <2>3. FreshInv'
    BY <2>a, <1>i, <1>t DEF FreshInv, Writing, Renamed, OnDisk
  <2>4. DiskInv' /\ CollectorInv' /\ CheckpointSeparates' /\ ExactlyOnce'
    BY <2>a, <1>t, LedgerFrame, DiskTypes DEF OnDisk
  <2> QED BY <2>1, <2>2, <2>3, <2>4
<1>7. CASE FlushRename
  <2>a. /\ flush = "rename" /\ flush' = "dirsync"
        /\ spool' = {b \in spool : ~SameName(b, batch)} \cup {batch}
        /\ UNCHANGED <<phase, epoch, seq, rows, batch, relay, passed, synced>>
    BY <1>7 DEF FlushRename
  <2>b. /\ Flushing /\ Writing /\ batch \in Batches /\ epoch \in Epochs
        /\ batch.epoch = epoch /\ batch.seq = seq + 1
        /\ batch.rows = rows /\ batch.data = "synced"
    BY <2>a, <1>t DEF FlushInv, Flushing, Writing
  <2>c. \A b \in OnDisk : ~SameName(b, batch)
    BY <2>a, <2>b, <1>t, DiskTypes DEF FreshInv, Renamed, SameName
  <2>d. spool' = spool \cup {batch} /\ OnDisk' = OnDisk \cup {batch}
    BY <2>a, <2>c DEF OnDisk
  <2>1. DiskInv'
    <3>1. \A b \in OnDisk : b.rows \cap batch.rows = {}
      BY <2>a, <2>b, <1>t DEF FreshInv, Renamed
    <3>2. SameName(batch, batch) /\ \A b \in OnDisk : ~SameName(batch, b)
      BY <2>c DEF SameName
    <3>3. batch.epoch <= epoch
      BY <2>b, <1>t, DiskTypes
    <3>4. \A b \in OnDisk' : b.data = "synced" /\ b.epoch <= epoch
      BY <2>b, <2>d, <3>3, <1>t DEF DiskInv
    <3>5. \A b, c \in OnDisk' : SameName(b, c) => b = c
      BY <2>c, <2>d, <3>2, <1>t DEF DiskInv
    <3>6. \A b, c \in OnDisk' : b = c \/ b.rows \cap c.rows = {}
      BY <2>d, <3>1, <1>t DEF DiskInv
    <3> QED BY <2>a, <3>4, <3>5, <3>6 DEF DiskInv, SameName
  <2>2. PassedInv'
    BY <2>a, <2>b, <2>d, <1>i, <1>t DEF PassedInv
  <2>3. FlushInv'
    BY <2>a, <2>b, <1>t DEF FlushInv, Flushing
  <2>4. FreshInv'
    BY <2>a, <2>b, <2>d, <1>i, <1>t DEF FreshInv, Writing, Renamed
  <2>5. CollectorInv' /\ ExactlyOnce'
    BY <2>a, <2>d, <1>t DEF CollectorInv, ExactlyOnce, importVars, ledgerVars
  <2>6. CheckpointSeparates'
    <3>1. kernel_epochs[batch.epoch].sequence < batch.seq /\ batch.rows \cap imported = {}
      BY <2>a, <2>b, <1>t, DiskTypes DEF FreshInv
    <3>2. ~(batch.seq <= kernel_epochs[batch.epoch].sequence)
      BY <2>b, <3>1, <1>t, DiskTypes
    <3> QED BY <2>d, <3>1, <3>2, <1>i, <1>t DEF CheckpointSeparates
  <2> QED BY <2>1, <2>2, <2>3, <2>4, <2>5, <2>6
<1>8. CASE FlushSync
  <2>a. /\ flush = "dirsync" /\ flush' = "idle" /\ rows' = {} /\ seq' = seq + 1
        /\ phase' \in {"closing", "listening"} /\ synced' = spool
        /\ UNCHANGED <<epoch, relay, passed, spool>>
    BY <1>8 DEF FlushSync, SyncDirectory
  <2>b. OnDisk' \subseteq OnDisk
    BY <2>a DEF OnDisk
  <2>c. Writing /\ batch.seq = seq + 1 /\ epoch \in Epochs
    BY <2>a, <1>t DEF FlushInv, Flushing, Writing
  <2>1. PassedInv' /\ FlushInv'
    BY <2>a, <2>b, <2>c, <1>i, <1>t DEF PassedInv, FlushInv
  <2>2. FreshInv'
    BY <2>a, <2>b, <2>c, <1>i, <1>t, DiskTypes DEF FreshInv, Renamed
  <2>3. DiskInv' /\ CollectorInv' /\ CheckpointSeparates' /\ ExactlyOnce'
    BY <2>a, <2>b, <1>t, LedgerFrame, DiskTypes
  <2> QED BY <2>1, <2>2, <2>3
<1>9. CASE FlushError
  <2>1. FlushAbandoned /\ Flushing /\ UNCHANGED <<spool, synced>>
    BY <1>9 DEF FlushError
  <2>2. PassedInv' /\ FlushInv' /\ FreshInv' /\ epoch' = epoch
    BY <2>1, <1>t, AbandonedFrame
  <2>3. DiskInv' /\ CollectorInv' /\ CheckpointSeparates' /\ ExactlyOnce'
    BY <2>1, <2>2, <1>t, LedgerFrame, DiskTypes DEF OnDisk
  <2> QED BY <2>2, <2>3
<1>10. CASE Stop
  <2>a. /\ phase = "listening" /\ flush = "idle" /\ phase' = "stopping"
        /\ UNCHANGED <<flush, epoch, seq, rows, batch, relay, passed, spool, synced>>
    BY <1>10 DEF Stop
  <2>1. PassedInv' /\ FlushInv' /\ FreshInv'
    BY <2>a, <1>i, <1>t DEF PassedInv, FlushInv, FreshInv, Writing, Renamed, OnDisk
  <2>2. DiskInv' /\ CollectorInv' /\ CheckpointSeparates' /\ ExactlyOnce'
    BY <2>a, <1>t, LedgerFrame, DiskTypes DEF OnDisk
  <2> QED BY <2>1, <2>2
<1>11. CASE Exit \/ EngineKill
  <2>1. ProcessGone /\ UNCHANGED <<spool, synced>> /\ epoch' = epoch
    BY <1>11 DEF Exit, EngineKill, ProcessGone
  <2>2. PassedInv' /\ FlushInv' /\ FreshInv'
    BY <2>1, <1>i, <1>t, GoneFrame DEF OnDisk
  <2>3. DiskInv' /\ CollectorInv' /\ CheckpointSeparates' /\ ExactlyOnce'
    BY <2>1, <1>t, LedgerFrame, DiskTypes DEF OnDisk
  <2> QED BY <2>2, <2>3
<1> QED BY <1>1, <1>2, <1>3, <1>4, <1>5, <1>6, <1>7, <1>8, <1>9, <1>10, <1>11 DEF JournalNext

-----------------------------------------------------------------------------
(* Steps of the collector and of the host. *)

\* A step of the collector that leaves the ledger's counts no higher and
\* imports nothing.
LEMMA CollectorFrame ==
  ASSUME IInv, UNCHANGED <<journalVars, kernel_epochs, imported>>,
         OnDisk' \subseteq OnDisk,
         \A u \in Units : counted'[u] = counted[u] \/ counted'[u] = 0
  PROVE  /\ DiskInv' /\ PassedInv' /\ FlushInv' /\ FreshInv'
         /\ CheckpointSeparates' /\ ExactlyOnce'
<1> USE DEF journalVars, IInv
<1>1. DiskInv'
  BY DEF DiskInv, SameName
<1>2. PassedInv'
  BY DEF PassedInv
<1>3. FlushInv'
  BY DEF FlushInv, Flushing
<1>4. FreshInv'
  BY DEF FreshInv, Writing, Renamed
<1>5. CheckpointSeparates'
  BY DEF CheckpointSeparates
<1>6. ExactlyOnce'
  BY DEF ExactlyOnce
<1> QED BY <1>1, <1>2, <1>3, <1>4, <1>5, <1>6

LEMMA DrainRaisesInv ==
  ASSUME IInv, DrainRaises, UNCHANGED <<journalVars>>
  PROVE  /\ DiskInv' /\ PassedInv' /\ FlushInv' /\ FreshInv' /\ CollectorInv'
         /\ CheckpointSeparates' /\ ExactlyOnce'
<1>1. /\ UNCHANGED <<spool, synced, kernel_epochs, imported, epoch>>
      /\ collector' = "idle" /\ todo' = {}
      /\ counted' = PrunedUnits(counted, Unix(now))
  BY DEF DrainRaises, PruneNow, spoolVars, journalVars
<1>2. \A u \in Units : counted'[u] = counted[u] \/ counted'[u] = 0
  BY <1>1 DEF PrunedUnits
<1>3. OnDisk' \subseteq OnDisk
  BY <1>1 DEF OnDisk
<1>4. CollectorInv'
  BY <1>1 DEF CollectorInv, IInv
<1> QED BY <1>1, <1>2, <1>3, <1>4, CollectorFrame

\* The transaction of a batch that no guard refuses and that is no replay
\* reads units nobody has imported.
LEMMA TransactionInv ==
  ASSUME IInv, NEW b \in todo, ~Refused(b), ~Duplicate(b), ImportTransaction(b),
         collector' = "unlink", current' = b,
         UNCHANGED <<journalVars, spool, synced, todo>>
  PROVE  /\ DiskInv' /\ PassedInv' /\ FlushInv' /\ FreshInv' /\ CollectorInv'
         /\ CheckpointSeparates' /\ ExactlyOnce'
<1> USE DEF journalVars
<1>t. /\ TypeOK /\ DiskInv /\ PassedInv /\ FlushInv /\ FreshInv /\ CollectorInv
      /\ CheckpointSeparates /\ ExactlyOnce
  BY DEF IInv
<1>b. /\ b \in OnDisk /\ b \in Batches /\ b.rows \subseteq Units
      /\ b.seq \in Nat /\ b.epoch \in Epochs /\ b.epoch <= epoch
      /\ kernel_epochs[b.epoch].sequence \in Nat
  BY <1>t, DiskTypes DEF CollectorInv, OnDisk, DiskInv
<1>d. OnDisk' = OnDisk
  BY DEF OnDisk
<1>s. b.seq = kernel_epochs[b.epoch].sequence + 1
  BY <1>b DEF Refused, Duplicate, Conflict, Gap, Checkpoint
<1>n. b.rows \cap imported = {}
  BY <1>b, <1>s, <1>t DEF CheckpointSeparates
<1>k. /\ \A e \in Epochs : kernel_epochs'[e].sequence =
            IF e = b.epoch THEN b.seq ELSE kernel_epochs[e].sequence
      /\ imported' = imported \cup b.rows
  <2>1. kernel_epochs' = [kernel_epochs EXCEPT ![b.epoch] =
           [sequence |-> b.seq, digest |-> b, at |-> b.to,
            possible_tail_loss |-> TailLoss(b)]]
    BY DEF ImportTransaction
  <2>2. \E T : kernel_epochs \in [Epochs -> T]
    BY <1>t DEF TypeOK, ImportTypeOK
  <2> QED BY <1>b, <2>1, <2>2 DEF ImportTransaction
<1>1. DiskInv'
  BY <1>d, <1>t DEF DiskInv, SameName
<1>2. PassedInv'
  BY <1>b, <1>d, <1>k, <1>t DEF PassedInv
<1>3. FlushInv'
  BY <1>t DEF FlushInv, Flushing
<1>4. FreshInv'
  <2> SUFFICES ASSUME Writing PROVE FreshInv'
    BY DEF FreshInv, Writing
  <2>1. epoch \in Epochs /\ seq \in Nat /\ kernel_epochs[epoch].sequence \in Nat
    BY <1>t, DiskTypes DEF FlushInv, Writing
  <2>2. \/ kernel_epochs'[epoch].sequence <= seq
        \/ flush = "dirsync" /\ kernel_epochs'[epoch].sequence = seq + 1
    <3>1. CASE b.epoch # epoch
      BY <1>k, <1>t, <2>1, <3>1 DEF FreshInv
    <3>2. CASE b.epoch = epoch
      <4>1. b.seq <= seq \/ Renamed(b)
        BY <1>b, <1>t, <3>2 DEF FreshInv
      <4>2. Renamed(b) => flush = "dirsync" /\ b.seq = seq + 1
        BY <1>t DEF Renamed, FlushInv
      <4> QED BY <1>k, <2>1, <3>2, <4>1, <4>2
    <3> QED BY <3>1, <3>2
  <2>3. flush # "dirsync" => rows \cap imported' = {}
    BY <1>b, <1>k, <1>t DEF FreshInv, Renamed
  <2> QED BY <1>d, <1>t, <2>2, <2>3 DEF FreshInv, Writing, Renamed
<1>5. CollectorInv'
  BY <1>b, <1>k, <1>s, <1>t, DiskTypes DEF CollectorInv
<1>6. CheckpointSeparates'
  <2> SUFFICES ASSUME NEW c \in OnDisk
               PROVE  IF c.seq <= kernel_epochs'[c.epoch].sequence
                      THEN c.rows \subseteq imported' ELSE c.rows \cap imported' = {}
    BY <1>d DEF CheckpointSeparates
  <2>1. /\ c.seq \in Nat /\ c.epoch \in Epochs
        /\ IF c.seq <= kernel_epochs[c.epoch].sequence
           THEN c.rows \subseteq imported ELSE c.rows \cap imported = {}
        /\ c = b \/ c.rows \cap b.rows = {}
    BY <1>b, <1>t, DiskTypes DEF CheckpointSeparates, DiskInv
  <2>2. CASE c.epoch # b.epoch
    BY <1>k, <2>1, <2>2
  <2>3. CASE c.epoch = b.epoch
    <3>1. c.seq = b.seq => c = b
      BY <1>b, <1>t, <2>3 DEF DiskInv, SameName
    <3>2. kernel_epochs'[c.epoch].sequence = b.seq
      BY <1>k, <2>1, <2>3
    <3>3. CASE c.seq < b.seq
      BY <1>b, <1>k, <1>s, <2>1, <2>3, <3>2, <3>3
    <3>4. CASE c.seq = b.seq
      <4>1. c = b
        BY <3>1, <3>4
      <4>2. c.seq <= kernel_epochs'[c.epoch].sequence
        BY <2>1, <3>2, <3>4
      <4>3. c.rows \subseteq imported'
        BY <1>k, <4>1
      <4> QED BY <4>2, <4>3
    <3>5. CASE c.seq > b.seq
      BY <1>b, <1>k, <1>s, <2>1, <2>3, <3>2, <3>5
    <3> QED BY <1>b, <2>1, <3>3, <3>4, <3>5
  <2> QED BY <2>2, <2>3
<1>7. ExactlyOnce'
  <2> SUFFICES ASSUME NEW u \in Units
               PROVE  counted'[u] <= (IF u \in imported' THEN 1 ELSE 0)
    BY DEF ExactlyOnce
  <2> DEFINE added == [v \in Units |-> counted[v] + (IF v \in Retained(b) THEN 1 ELSE 0)]
  <2>1. counted' = PrunedUnits(added, b.to)
    BY DEF ImportTransaction
  <2>2. counted'[u] = 0 \/ counted'[u] = added[u]
    BY <2>1 DEF PrunedUnits
  <2>3. counted[u] \in Nat /\ counted[u] <= (IF u \in imported THEN 1 ELSE 0)
    BY <1>t DEF ExactlyOnce, TypeOK, ImportTypeOK
  <2>4. u \in Retained(b) => u \in b.rows
    BY DEF Retained
  <2>5. added[u] <= (IF u \in imported' THEN 1 ELSE 0)
    BY <1>k, <1>n, <2>3, <2>4
  <2> QED BY <2>2, <2>5
<1> QED BY <1>1, <1>2, <1>3, <1>4, <1>5, <1>6, <1>7

LEMMA ImportNextInv ==
  ASSUME IInv, ImportNext, UNCHANGED <<journalVars>>
  PROVE  /\ DiskInv' /\ PassedInv' /\ FlushInv' /\ FreshInv' /\ CollectorInv'
         /\ CheckpointSeparates' /\ ExactlyOnce'
<1> USE DEF spoolVars, clockVars, ledgerVars
<1>e. epoch' = epoch
  BY DEF journalVars
<1>1. CASE CollectorStart
  <2>1. /\ UNCHANGED <<spool, synced, kernel_epochs, imported, counted, todo>>
        /\ collector' = "idle"
    BY <1>1 DEF CollectorStart
  <2> QED BY <1>e, <2>1, CollectorFrame DEF CollectorInv, IInv, OnDisk
<1>2. CASE ScanBegin
  <2>1. /\ UNCHANGED <<spool, synced, kernel_epochs, imported, counted>>
        /\ collector' = "scan" /\ todo' = spool
    BY <1>2 DEF ScanBegin
  <2> QED BY <1>e, <2>1, CollectorFrame DEF CollectorInv, IInv, OnDisk
<1>3. CASE ScanEnd
  <2>1. PICK listed \in Listings :
          \/ /\ collector' = "drain" /\ todo' = listed
             /\ UNCHANGED <<current, ledgerVars, spoolVars>>
          \/ DrainRaises
    BY <1>3 DEF ScanEnd
  <2>2. listed \subseteq spool
    BY DEF Listings, CollectorInv, IInv
  <2> QED BY <1>e, <2>1, <2>2, CollectorFrame, DrainRaisesInv DEF CollectorInv, IInv, OnDisk
<1>4. CASE Import
  <2>1. PICK b \in todo :
          /\ ~Refused(b)
          /\ IF Duplicate(b) THEN UNCHANGED ledgerVars ELSE ImportTransaction(b)
          /\ current' = b
    BY <1>4 DEF Import
  <2>2. collector' = "unlink" /\ UNCHANGED <<todo, spool, synced>>
    BY <1>4 DEF Import
  <2>3. CASE Duplicate(b)
    <3>1. b.seq <= kernel_epochs[b.epoch].sequence
      BY <2>3 DEF Duplicate, Checkpoint
    <3>2. CollectorInv'
      BY <1>e, <2>1, <2>2, <2>3, <3>1 DEF CollectorInv, IInv
    <3> QED BY <2>1, <2>2, <2>3, <3>2, CollectorFrame DEF OnDisk
  <2>4. CASE ~Duplicate(b)
    BY <2>1, <2>2, <2>4, TransactionInv
  <2> QED BY <2>3, <2>4
<1>5. CASE ImportRefused \/ DrainError
  BY <1>5, DrainRaisesInv DEF ImportRefused, DrainError
<1>6. CASE Unlink
  <2>1. /\ UNCHANGED <<synced, kernel_epochs, imported, counted>>
        /\ collector' = "drain" /\ spool' = spool \ {current} /\ todo' = todo \ {current}
    BY <1>6 DEF Unlink
  <2>2. OnDisk' \subseteq OnDisk
    BY <2>1 DEF OnDisk
  <2> QED BY <1>e, <2>1, <2>2, CollectorFrame DEF CollectorInv, IInv
<1>7. CASE DrainEnd
  <2>1. /\ UNCHANGED <<spool, kernel_epochs, imported, todo>>
        /\ collector' = "idle" /\ synced' = spool
        /\ counted' = PrunedUnits(counted, Unix(now))
    BY <1>7 DEF DrainEnd, PruneNow, SyncDirectory
  <2>2. OnDisk' \subseteq OnDisk
    BY <2>1 DEF OnDisk
  <2>3. \A u \in Units : counted'[u] = counted[u] \/ counted'[u] = 0
    BY <2>1 DEF PrunedUnits
  <2> QED BY <1>e, <2>1, <2>2, <2>3, CollectorFrame DEF CollectorInv, IInv
<1>8. CASE CollectorKill
  <2>1. /\ UNCHANGED <<spool, synced, kernel_epochs, imported, counted>>
        /\ collector' = "down" /\ todo' = {}
    BY <1>8 DEF CollectorKill, CollectorGone
  <2> QED BY <1>e, <2>1, CollectorFrame DEF CollectorInv, IInv, OnDisk
<1> QED BY <1>1, <1>2, <1>3, <1>4, <1>5, <1>6, <1>7, <1>8 DEF ImportNext

\* What a power loss leaves was on disk before it.
LEMMA CrashInv ==
  ASSUME IInv, HostCrash
  PROVE  /\ DiskInv' /\ PassedInv' /\ FlushInv' /\ FreshInv' /\ CollectorInv'
         /\ CheckpointSeparates' /\ ExactlyOnce'
<1>t. TypeOK /\ DiskInv /\ PassedInv /\ CollectorInv /\ CheckpointSeparates /\ ExactlyOnce
  BY DEF IInv
<1>1. OnDisk' \subseteq OnDisk
  <2>1. PICK half \in SUBSET ((spool \ synced) \cup (synced \ spool)) :
          spool' = {AfterCrash(b) : b \in (spool \cap synced) \cup half}
    BY DEF HostCrash, CrashDirectory
  <2>2. \A b \in OnDisk : AfterCrash(b) = b
    BY <1>t DEF DiskInv, AfterCrash
  <2>3. (spool \cap synced) \cup half \subseteq OnDisk
    BY DEF OnDisk
  <2>4. spool' \subseteq OnDisk
    BY <2>1, <2>2, <2>3
  <2> QED BY <2>4 DEF HostCrash, CrashDirectory, OnDisk
<1>2. /\ ProcessGone /\ todo' = {} /\ collector' = "down" /\ epoch' = epoch
      /\ UNCHANGED <<kernel_epochs, imported, counted>>
  BY DEF HostCrash, CollectorGone, ProcessGone, ledgerVars
<1>3. PassedInv' /\ FlushInv' /\ FreshInv'
  BY <1>1, <1>2, <1>t, GoneFrame
<1>4. DiskInv'
  BY <1>1, <1>2, <1>t DEF DiskInv, SameName
<1>5. CollectorInv'
  BY <1>2, <1>t DEF CollectorInv
<1>6. CheckpointSeparates'
  BY <1>1, <1>2, <1>t DEF CheckpointSeparates
<1>7. ExactlyOnce'
  BY <1>2, <1>t DEF ExactlyOnce
<1> QED BY <1>3, <1>4, <1>5, <1>6, <1>7

-----------------------------------------------------------------------------
(* Theorems. *)

LEMMA InitIInv == Init => IInv
<1> SUFFICES ASSUME Init PROVE IInv
  OBVIOUS
<1>1. TypeOK
  BY InitTypeOK
<1>2. /\ phase = "down" /\ flush = "idle" /\ rows = {} /\ relay = NoSample
      /\ passed = 0 /\ spool = {} /\ synced = {} /\ collector = "down" /\ todo = {}
      /\ imported = {}
      /\ kernel_epochs = [e \in Epochs |-> NoEpoch]
      /\ counted = [u \in Units |-> 0]
  BY DEF Init, SpoolInit, JournalInit, ImportInit
<1>3. OnDisk = {}
  BY <1>2 DEF OnDisk
<1>4. DiskInv /\ PassedInv /\ FlushInv /\ FreshInv /\ CheckpointSeparates
  BY <1>2, <1>3 DEF DiskInv, PassedInv, FlushInv, FreshInv, CheckpointSeparates, Writing, NoSample
<1>5. CollectorInv /\ ExactlyOnce
  BY <1>2 DEF CollectorInv, ExactlyOnce, NoEpoch
<1> QED BY <1>1, <1>4, <1>5 DEF IInv

LEMMA NextIInv == IInv /\ [Next]_vars => IInv'
<1> SUFFICES ASSUME IInv, [Next]_vars PROVE IInv'
  OBVIOUS
<1>1. CASE Engine
  <2>1. TypeOK'
    BY <1>1, NextType DEF IInv, Next
  <2> QED BY <1>1, <2>1, JournalNextInv DEF Engine, IInv
<1>2. CASE Collector
  <2>1. TypeOK'
    BY <1>2, NextType DEF IInv, Next
  <2> QED BY <1>2, <2>1, ImportNextInv DEF Collector, IInv
<1>3. CASE Clock
  <2>1. TypeOK'
    BY <1>3, NextType DEF IInv, Next
  <2>2. UNCHANGED <<journalVars, importVars, spoolVars>>
    BY <1>3 DEF Clock, Tick, StepBack
  <2>3. /\ UNCHANGED <<kernel_epochs, imported, counted, todo, collector, current, epoch>>
        /\ OnDisk' \subseteq OnDisk /\ spool' = spool
    BY <2>2 DEF importVars, ledgerVars, spoolVars, journalVars, OnDisk
  <2>4. CollectorInv'
    BY <2>3 DEF CollectorInv, IInv
  <2> QED BY <2>1, <2>2, <2>3, <2>4, CollectorFrame DEF IInv
<1>4. CASE HostCrash
  <2>1. TypeOK'
    BY <1>4, NextType DEF IInv, Next
  <2> QED BY <1>4, <2>1, CrashInv DEF IInv
<1>5. CASE UNCHANGED vars
  <2>1. UNCHANGED <<journalVars, importVars, spoolVars, row, faults, clockVars>>
    BY <1>5 DEF vars
  <2>2. TypeOK'
    BY <2>1 DEF IInv, TypeOK, SpoolTypeOK, JournalTypeOK, ImportTypeOK, journalVars, importVars,
       ledgerVars, spoolVars, clockVars
  <2>3. /\ UNCHANGED <<kernel_epochs, imported, counted, todo, collector, current, epoch>>
        /\ OnDisk' \subseteq OnDisk /\ spool' = spool
    BY <2>1 DEF importVars, ledgerVars, spoolVars, journalVars, OnDisk
  <2>4. CollectorInv'
    BY <2>3 DEF CollectorInv, IInv
  <2> QED BY <2>1, <2>2, <2>3, <2>4, CollectorFrame DEF IInv
<1> QED BY <1>1, <1>2, <1>3, <1>4, <1>5 DEF Next

\* The inductive invariant holds in every behaviour.
LEMMA Invariance == Spec => []IInv
BY InitIInv, NextIInv, PTL DEF Spec

\* Type correctness of engine, spool and collector together.
THEOREM PipelineTypeOK == Spec => []TypeOK
<1>1. IInv => TypeOK
  BY DEF IInv
<1> QED BY <1>1, Invariance, PTL

\* No payload increment is ever in the bucket tables twice, nor without a
\* committed transaction that read it: whatever crashes, errors, replays and
\* clock steps there are.
THEOREM CountedExactlyOnce == Spec => []ExactlyOnce
<1>1. IInv => ExactlyOnce
  BY DEF IInv
<1> QED BY <1>1, Invariance, PTL

\* The checkpoint of an epoch tells exactly which batches on disk are
\* imported.
THEOREM CheckpointIsExact == Spec => []CheckpointSeparates
<1>1. IInv => CheckpointSeparates
  BY DEF IInv
<1> QED BY <1>1, Invariance, PTL

\* The collector unlinks only a batch whose import is committed.
THEOREM AcknowledgedAfterCommit == Spec => UnlinkFollowsCommit
<1> DEFINE Committed == collector = "unlink" /\ collector' = "drain" =>
             \A b \in spool \ spool' : b.seq <= kernel_epochs[b.epoch].sequence
<1>1. IInv /\ [Next]_vars => [Committed]_vars
  <2> SUFFICES ASSUME IInv, Next, collector = "unlink", collector' = "drain"
               PROVE  \A b \in spool \ spool' : b.seq <= kernel_epochs[b.epoch].sequence
    OBVIOUS
  <2>1. Unlink
    BY DEF Next, Engine, Collector, Clock, HostCrash, importVars, CollectorGone, ImportNext,
       CollectorStart, ScanBegin, ScanEnd, Import, ImportRefused, DrainEnd, DrainError,
       CollectorKill, DrainRaises
  <2> QED BY <2>1 DEF Unlink, IInv, CollectorInv
<1> QED BY <1>1, Invariance, PTL DEF Spec, UnlinkFollowsCommit

-----------------------------------------------------------------------------
(***************************************************************************)
(* What the ledger says of lost traffic, of the cumulative total, of       *)
(* observed time and of retention, on top of the inductive invariant; and  *)
(* at the end that engine, spool and collector implement AccountingPromise.*)
(***************************************************************************)

-----------------------------------------------------------------------------
(***************************************************************************)
(* Tail loss.  The marker is on disk before a relay is accepted, and       *)
(* nothing removes it, so that an epoch that began after a unit passed     *)
(* knows that its predecessor left the marker.                             *)
(***************************************************************************)
MarkerInv ==
  /\ passed > 0 => marker = "durable"
  /\ phase = "marked" => marker # "absent"
  /\ phase \notin {"down", "marked"} => marker = "durable"

\* An epoch that began after traffic had passed.
Late(e) == \E u \in Units : u <= passed /\ passedIn[u] < e

\* Its first batch says so, and the ledger once it knows that batch.
UncleanInv ==
  /\ \A u \in Units : u <= passed => passedIn[u] <= epoch
  /\ \A e \in Epochs : Late(e) =>
       /\ epoch = e /\ phase # "down" /\ seq = 0 => unclean
       /\ flush # "idle" /\ batch.epoch = e /\ batch.seq = 1 => batch.unclean
       /\ \A b \in OnDisk : b.epoch = e /\ b.seq = 1 => b.unclean
       /\ kernel_epochs[e].sequence > 0 => kernel_epochs[e].possible_tail_loss

\* What a power loss leaves was on disk before it.
LEMMA CrashShrinks ==
  ASSUME IInv, HostCrash PROVE OnDisk' \subseteq OnDisk
<1>1. PICK half \in SUBSET ((spool \ synced) \cup (synced \ spool)) :
        spool' = {AfterCrash(b) : b \in (spool \cap synced) \cup half}
  BY DEF HostCrash, CrashDirectory
<1>2. \A b \in OnDisk : AfterCrash(b) = b
  BY DEF IInv, DiskInv, AfterCrash
<1>3. (spool \cap synced) \cup half \subseteq OnDisk
  BY DEF OnDisk
<1>4. spool' \subseteq OnDisk
  BY <1>1, <1>2, <1>3
<1> QED BY <1>4 DEF HostCrash, CrashDirectory, OnDisk

\* No step removes the marker once it is on disk.
LEMMA NextMarker ==
  ASSUME IInv, MarkerInv, [Next]_vars PROVE MarkerInv'
<1>t. TypeOK /\ FlushInv /\ passed \in Nat
  BY DiskTypes DEF IInv
<1>1. CASE Engine
  <2> USE DEF spoolVars, clockVars
  <2>1. CASE StartMark \/ StartSync \/ Stop
    BY <2>1, <1>t DEF StartMark, StartSync, Stop, SyncDirectory, MarkerInv, TypeOK, SpoolTypeOK
  <2>2. CASE Add \/ FlushWrite \/ FlushRename
    BY <2>2 DEF Add, FlushWrite, FlushRename, MarkerInv
  <2>3. CASE FlushSync
    BY <2>3, <1>t DEF FlushSync, SyncDirectory, MarkerInv, FlushInv, Flushing
  <2>4. CASE FlushRefuse \/ FlushError
    <3>1. FlushAbandoned /\ marker' = marker /\ Flushing
      BY <2>4 DEF FlushRefuse, FlushError
    <3> QED BY <3>1 DEF FlushAbandoned, ProcessGone, MarkerInv, Flushing
  <2>5. CASE Exit \/ EngineKill
    BY <2>5 DEF Exit, EngineKill, ProcessGone, MarkerInv
  <2>6. ASSUME NEW d \in Domains, Pass(d) PROVE MarkerInv'
    BY <2>6 DEF Pass, Relaying, MarkerInv
  <2> QED BY <1>1, <2>1, <2>2, <2>3, <2>4, <2>5, <2>6 DEF Engine, JournalNext
<1>2. CASE Collector
  <2>1. UNCHANGED <<phase, passed>> /\ marker' \in {marker, "durable"}
    BY <1>2 DEF Collector, journalVars, ImportNext, CollectorStart, ScanBegin, ScanEnd, Import,
       ImportRefused, Unlink, DrainEnd, DrainError, CollectorKill, DrainRaises, SyncDirectory,
       spoolVars
  <2> QED BY <2>1 DEF MarkerInv
<1>3. CASE Clock
  BY <1>3 DEF Clock, Tick, StepBack, spoolVars, journalVars, MarkerInv
<1>4. CASE HostCrash
  BY <1>4 DEF HostCrash, ProcessGone, CrashDirectory, MarkerInv
<1>5. CASE UNCHANGED vars
  BY <1>5 DEF vars, spoolVars, journalVars, MarkerInv
<1> QED BY <1>1, <1>2, <1>3, <1>4, <1>5 DEF Next

\* A step that writes no batch and forgets no import leaves it alone.
LEMMA UncleanFrame ==
  ASSUME UncleanInv, UNCHANGED <<passed, passedIn, epoch>>,
         OnDisk' \subseteq OnDisk, kernel_epochs' = kernel_epochs,
         \/ phase' = "down"
         \/ UNCHANGED <<seq, unclean>> /\ phase # "down"
         \/ seq' # 0,
         \/ flush' = "idle"
         \/ flush # "idle" /\ batch' = batch
  PROVE  UncleanInv'
BY DEF UncleanInv, Late

LEMMA NextUnclean ==
  ASSUME IInv, MarkerInv, UncleanInv, [Next]_vars PROVE UncleanInv'
<1>t. TypeOK /\ FlushInv /\ DiskInv /\ CollectorInv
  BY DEF IInv
<1>k. /\ passed \in Nat /\ epoch \in Nat /\ seq \in Nat
      /\ \A u \in Units : u \in Nat /\ u > 0 /\ passedIn[u] \in Nat
      /\ \A b \in OnDisk : b.epoch \in Epochs /\ b.seq \in Nat
  BY <1>t, DiskTypes DEF TypeOK, JournalTypeOK, Units
<1>1. CASE Engine
  <2>i. kernel_epochs' = kernel_epochs
    BY <1>1 DEF Engine, importVars, ledgerVars
  <2> USE DEF spoolVars, clockVars
  <2>1. CASE StartMark
    <3>1. /\ epoch' = epoch + 1 /\ unclean' = (marker # "absent") /\ flush' = flush
          /\ phase = "down" /\ UNCHANGED <<passed, passedIn, batch, spool, synced>>
      BY <2>1 DEF StartMark
    <3>2. flush = "idle" /\ OnDisk' = OnDisk
      BY <3>1, <1>t DEF FlushInv, OnDisk
    <3>3. \A e \in Epochs : Late(e)' => Late(e) /\ passed > 0
      BY <3>1, <1>k DEF Late
    <3>4. \A e \in Epochs : Late(e)' => unclean'
      BY <3>1, <3>3 DEF MarkerInv
    <3> QED BY <2>i, <3>1, <3>2, <3>3, <3>4, <1>k DEF UncleanInv
  <2>2. CASE StartSync \/ Stop
    <3>1. /\ UNCHANGED <<passed, passedIn, epoch, seq, unclean, flush, batch>> /\ phase # "down"
          /\ OnDisk' \subseteq OnDisk
      BY <2>2 DEF StartSync, Stop, SyncDirectory, OnDisk
    <3> QED BY <2>i, <3>1, UncleanFrame
  <2>3. CASE Add
    <3>1. /\ UNCHANGED <<passed, passedIn, epoch, seq, unclean, phase>> /\ flush' = "idle"
          /\ OnDisk' = OnDisk
      BY <2>3 DEF Add, OnDisk
    <3>2. phase # "down"
      BY <2>3, <1>t DEF Add, FlushInv
    <3> QED BY <2>i, <3>1, <3>2, UncleanFrame
  <2>4. CASE FlushWrite
    <3>1. /\ UNCHANGED <<passed, passedIn, epoch, seq, unclean, phase>> /\ batch' = NextBatch
          /\ OnDisk' = OnDisk /\ phase # "down"
      BY <2>4 DEF FlushWrite, Flushing, OnDisk
    <3>2. batch'.epoch = epoch /\ batch'.seq = seq + 1 /\ batch'.unclean = unclean
      BY <3>1 DEF NextBatch
    <3>3. \A e \in Epochs : Late(e)' <=> Late(e)
      BY <3>1 DEF Late
    <3> QED BY <2>i, <3>1, <3>2, <3>3, <1>k DEF UncleanInv
  <2>5. CASE FlushRename
    <3>1. /\ UNCHANGED <<passed, passedIn, epoch, seq, unclean, phase, batch>> /\ flush = "rename"
          /\ OnDisk' \subseteq OnDisk \cup {batch}
      BY <2>5 DEF FlushRename, OnDisk
    <3>2. \A e \in Epochs : Late(e)' <=> Late(e)
      BY <3>1 DEF Late
    <3> QED BY <2>i, <3>1, <3>2, <1>k DEF UncleanInv
  <2>6. CASE FlushSync
    <3>1. /\ UNCHANGED <<passed, passedIn, epoch>> /\ seq' = seq + 1 /\ flush' = "idle"
          /\ OnDisk' \subseteq OnDisk
      BY <2>6 DEF FlushSync, SyncDirectory, OnDisk
    <3> QED BY <2>i, <3>1, <1>k, UncleanFrame
  <2>7. CASE FlushRefuse \/ FlushError
    <3>1. FlushAbandoned /\ Flushing /\ OnDisk' = OnDisk
      BY <2>7 DEF FlushRefuse, FlushError, OnDisk
    <3>2. /\ UNCHANGED <<passed, passedIn, epoch>> /\ flush' = "idle"
          /\ phase' = "down" \/ (UNCHANGED <<seq, unclean>> /\ phase # "down")
      BY <3>1 DEF FlushAbandoned, ProcessGone, Flushing
    <3> QED BY <2>i, <3>1, <3>2, UncleanFrame
  <2>8. CASE Exit \/ EngineKill
    <3>1. ProcessGone /\ OnDisk' = OnDisk
      BY <2>8 DEF Exit, EngineKill, OnDisk
    <3> QED BY <2>i, <3>1, UncleanFrame DEF ProcessGone
  <2>9. ASSUME NEW d \in Domains, Pass(d) PROVE UncleanInv'
    <3>1. /\ passed' = passed + 1 /\ passed < MaxUnits
          /\ passedIn' = [passedIn EXCEPT ![passed + 1] = epoch]
          /\ UNCHANGED <<epoch, seq, unclean, flush, batch, phase>> /\ OnDisk' = OnDisk
      BY <2>9 DEF Pass, OnDisk
    <3>2. \A u \in Units : passedIn'[u] = IF u = passed + 1 THEN epoch ELSE passedIn[u]
      BY <3>1, <1>t DEF TypeOK, JournalTypeOK
    <3>3. \A e \in Epochs : Late(e)' => Late(e) \/ epoch < e
      BY <3>1, <3>2, <1>k DEF Late
    <3>4. \A u \in Units : u <= passed' => passedIn'[u] <= epoch'
      BY <3>1, <3>2, <1>k DEF UncleanInv
    <3>5. \A e \in Epochs : epoch < e =>
            /\ epoch # e /\ kernel_epochs[e].sequence = 0
            /\ flush # "idle" => batch.epoch # e
            /\ \A b \in OnDisk : b.epoch # e
      BY <1>k, <1>t, DiskTypes DEF CollectorInv, DiskInv, FlushInv
    <3> QED BY <2>i, <3>1, <3>3, <3>4, <3>5, DiskTypes, <1>t DEF UncleanInv
  <2> QED BY <1>1, <2>1, <2>2, <2>3, <2>4, <2>5, <2>6, <2>7, <2>8, <2>9 DEF Engine, JournalNext
<1>2. CASE Collector
  <2>1. UNCHANGED journalVars /\ ImportNext
    BY <1>2 DEF Collector
  <2>2. OnDisk' \subseteq OnDisk
    BY <2>1 DEF ImportNext, CollectorStart, ScanBegin, ScanEnd, Import, ImportRefused, Unlink,
       DrainEnd, DrainError, CollectorKill, DrainRaises, SyncDirectory, spoolVars, OnDisk
  <2>3. \A e \in Epochs : Late(e)' <=> Late(e)
    BY <2>1 DEF Late, journalVars
  <2>4. CASE kernel_epochs' = kernel_epochs
    BY <2>1, <2>2, <2>3, <2>4 DEF UncleanInv, journalVars
  <2>5. ASSUME NEW b \in todo, ~Refused(b), ~Duplicate(b), ImportTransaction(b)
        PROVE  UncleanInv'
    <3>1. /\ b \in OnDisk /\ b.epoch \in Epochs /\ b.seq \in Nat
          /\ kernel_epochs[b.epoch].sequence \in Nat
      BY <1>t, <1>k, DiskTypes DEF CollectorInv, OnDisk
    <3>2. b.seq = kernel_epochs[b.epoch].sequence + 1
      BY <2>5, <3>1 DEF Refused, Duplicate, Conflict, Gap, Checkpoint
    <3>3. kernel_epochs' = [kernel_epochs EXCEPT ![b.epoch] =
            [sequence |-> b.seq, digest |-> b, at |-> b.to, possible_tail_loss |-> TailLoss(b)]]
      BY <2>5 DEF ImportTransaction
    <3>4. \A e \in Epochs : kernel_epochs'[e] =
            IF e = b.epoch
            THEN [sequence |-> b.seq, digest |-> b, at |-> b.to, possible_tail_loss |-> TailLoss(b)]
            ELSE kernel_epochs[e]
      BY <3>1, <3>3, <1>t DEF TypeOK, ImportTypeOK
    <3>5. Late(b.epoch) => TailLoss(b)
      BY <3>1, <3>2 DEF UncleanInv, TailLoss, Checkpoint
    <3>6. \A e \in Epochs : Late(e) /\ kernel_epochs'[e].sequence > 0
              => kernel_epochs'[e].possible_tail_loss
      BY <3>4, <3>5 DEF UncleanInv
    <3> QED BY <2>1, <2>2, <2>3, <3>6 DEF UncleanInv, journalVars
  <2>6. \/ kernel_epochs' = kernel_epochs
        \/ \E b \in todo : ~Refused(b) /\ ~Duplicate(b) /\ ImportTransaction(b)
    BY <2>1 DEF ImportNext, CollectorStart, ScanBegin, ScanEnd, Import, ImportRefused, Unlink,
       DrainEnd, DrainError, CollectorKill, DrainRaises, PruneNow, ledgerVars
  <2> QED BY <2>4, <2>5, <2>6
<1>3. CASE Clock
  <2>1. UNCHANGED <<journalVars, importVars, spoolVars>>
    BY <1>3 DEF Clock, Tick, StepBack
  <2> QED BY <2>1 DEF UncleanInv, Late, OnDisk, journalVars, importVars, ledgerVars, spoolVars
<1>4. CASE HostCrash
  <2>1. /\ ProcessGone /\ kernel_epochs' = kernel_epochs /\ OnDisk' \subseteq OnDisk
    BY <1>4, CrashShrinks DEF HostCrash, ledgerVars
  <2> QED BY <2>1, UncleanFrame DEF ProcessGone
<1>5. CASE UNCHANGED vars
  BY <1>5 DEF UncleanInv, Late, OnDisk, vars, journalVars, importVars, ledgerVars, spoolVars
<1> QED BY <1>1, <1>2, <1>3, <1>4, <1>5 DEF Next

LEMMA InitTail == Init => MarkerInv /\ UncleanInv
<1> SUFFICES ASSUME Init PROVE MarkerInv /\ UncleanInv
  OBVIOUS
<1>1. /\ passed = 0 /\ phase = "down" /\ flush = "idle" /\ spool = {} /\ synced = {}
      /\ kernel_epochs = [e \in Epochs |-> NoEpoch]
  BY DEF Init, SpoolInit, JournalInit, ImportInit
<1>2. \A u \in Units : ~(u <= passed)
  BY <1>1 DEF Units
<1> QED BY <1>1, <1>2 DEF MarkerInv, UncleanInv, Late, OnDisk

(***************************************************************************)
(* If traffic of an epoch was lost, every later epoch the ledger knows is  *)
(* marked possible_tail_loss, whatever crashes, failed flushes, replays and*)
(* clock steps there were: the marker outlives them all.                   *)
(***************************************************************************)
THEOREM LossesAreReported == Spec => []LossIsReported
<1>1. IInv /\ MarkerInv /\ UncleanInv /\ [Next]_vars => MarkerInv' /\ UncleanInv'
  BY NextMarker, NextUnclean
<1>2. UncleanInv => LossIsReported
  BY DEF UncleanInv, LossIsReported, Late, Lost
<1> QED BY InitTail, <1>1, <1>2, Invariance, PTL DEF Spec

-----------------------------------------------------------------------------
(***************************************************************************)
(* What a step does to the ledger: one batch of the spool becomes known by *)
(* one committed transaction, or old buckets are deleted, or nothing.      *)
(***************************************************************************)
Known(b) == b.seq <= kernel_epochs[b.epoch].sequence

\* The transaction of one batch, and everything that it leaves alone.
Commits(b) ==
  /\ ValidBatch(b) /\ ~Refused(b) /\ ImportTransaction(b)
  /\ UNCHANGED <<spool, synced, marker, journalVars, clockVars, faults>>

Prunes ==
  /\ counted' = PrunedUnits(counted, Unix(now))
  /\ observed' = PrunedStarts(observed, Unix(now))

LEMMA LedgerSteps ==
  ASSUME IInv, [Next]_vars
  PROVE  \/ \E b \in OnDisk : ~Known(b) /\ Commits(b)
         \/ /\ UNCHANGED <<kernel_epochs, kernel_started, cursor, imported>>
            /\ UNCHANGED <<counted, observed>> \/ (Prunes /\ UNCHANGED journalVars)
<1> USE DEF spoolVars, clockVars
<1>1. CASE Collector
  <2>1. UNCHANGED <<journalVars, now>> /\ ImportNext
    BY <1>1 DEF Collector, ImportNext, CollectorStart, ScanBegin, ScanEnd, Import, ImportRefused,
       Unlink, DrainEnd, DrainError, CollectorKill
  <2>2. CASE Import
    <3>1. PICK b \in todo :
            /\ ValidBatch(b) /\ ~Refused(b)
            /\ IF Duplicate(b) THEN UNCHANGED ledgerVars ELSE ImportTransaction(b)
      BY <2>2 DEF Import
    <3>2. b \in OnDisk /\ b.seq \in Nat /\ kernel_epochs[b.epoch].sequence \in Nat
      BY DiskTypes DEF IInv, CollectorInv, OnDisk
    <3>3. ~Duplicate(b) => ~Known(b)
      BY <3>1, <3>2 DEF Duplicate, Refused, Conflict, Known, Checkpoint
    <3> QED BY <2>1, <2>2, <3>1, <3>2, <3>3 DEF Commits, Import, ledgerVars
  <2>3. CASE ~Import
    <3>1. \/ UNCHANGED ledgerVars
          \/ PruneNow
      BY <2>1, <2>3 DEF ImportNext, CollectorStart, ScanBegin, ScanEnd, ImportRefused,
         Unlink, DrainEnd, DrainError, CollectorKill, DrainRaises
    <3> QED BY <2>1, <3>1 DEF PruneNow, Prunes, ledgerVars
  <2> QED BY <2>2, <2>3
<1>2. CASE ~Collector
  BY <1>2 DEF Next, Engine, Clock, HostCrash, vars, importVars, ledgerVars
<1> QED BY <1>1, <1>2

\* What the ledger learns from a transaction.
LEMMA CommitFacts ==
  ASSUME IInv, NEW b \in OnDisk, ~Known(b), Commits(b)
  PROVE  /\ b \in Batches /\ b.rows \cap imported = {} /\ b.rows \subseteq Units
         /\ b.seq = kernel_epochs[b.epoch].sequence + 1
         /\ imported' = imported \cup b.rows
         /\ \A e \in Epochs : kernel_epochs'[e] =
              IF e = b.epoch
              THEN [sequence |-> b.seq, digest |-> b, at |-> b.to,
                    possible_tail_loss |-> TailLoss(b)]
              ELSE kernel_epochs[e]
<1>1. /\ b \in Batches /\ b.rows \subseteq Units /\ b.epoch \in Epochs /\ b.seq \in Nat
      /\ kernel_epochs[b.epoch].sequence \in Nat
  BY DiskTypes DEF IInv
<1>2. b.seq = kernel_epochs[b.epoch].sequence + 1
  BY <1>1 DEF Commits, Known, Refused, Gap, Checkpoint
<1>3. b.rows \cap imported = {}
  BY DEF IInv, CheckpointSeparates, Known
<1>4. /\ imported' = imported \cup b.rows
      /\ kernel_epochs' = [kernel_epochs EXCEPT ![b.epoch] =
           [sequence |-> b.seq, digest |-> b, at |-> b.to, possible_tail_loss |-> TailLoss(b)]]
  BY DEF Commits, ImportTransaction
<1>5. \E T : kernel_epochs \in [Epochs -> T]
  BY DEF IInv, TypeOK, ImportTypeOK
<1> QED BY <1>1, <1>2, <1>3, <1>4, <1>5

-----------------------------------------------------------------------------
(***************************************************************************)
(* The cumulative total.                                                   *)
(***************************************************************************)
NothingExpires == \A t \in Times : Cutoff(t) = 0

TotalInv ==
  /\ cursor.total <= Cardinality(imported)
  /\ NothingExpires => TotalIsImported

\* Every row is at or after second 0.
LEMMA AllRetained ==
  ASSUME TypeOK, NothingExpires, NEW b \in Batches PROVE Retained(b) = b.rows
<1>1. Cutoff(b.to) = 0 /\ b.rows \subseteq Units
  BY DEF Batches, NothingExpires
<1>2. \A u \in Units : row[u].start >= 0
  BY DEF TypeOK, SpoolTypeOK, RowKeys, NoRow, Times
<1> HIDE DEF Cutoff
<1> QED BY <1>1, <1>2 DEF Retained

\* The units of a batch are new, so that their number adds to that of the
\* units imported before.
LEMMA NextTotal ==
  ASSUME IInv, TotalInv, [Next]_vars PROVE TotalInv'
<1>1. ASSUME NEW b \in OnDisk, ~Known(b), Commits(b) PROVE TotalInv'
  <2>1. /\ b \in Batches /\ b.rows \cap imported = {} /\ b.rows \subseteq Units
        /\ imported' = imported \cup b.rows /\ imported \subseteq Units
    BY <1>1, CommitFacts, DiskTypes DEF IInv
  <2>2. IsFiniteSet(Units)
    BY FS_Interval, SpoolAssumption DEF Units
  <2>3. /\ IsFiniteSet(imported) /\ IsFiniteSet(b.rows) /\ IsFiniteSet(Retained(b))
        /\ Cardinality(Retained(b)) <= Cardinality(b.rows)
        /\ Cardinality(Retained(b)) \in Nat /\ Cardinality(b.rows) \in Nat
        /\ Cardinality(imported) \in Nat
    BY <2>1, <2>2, FS_Subset, FS_CardinalityType DEF Retained
  <2>4. Cardinality(imported') = Cardinality(imported) + Cardinality(b.rows)
    <3>1. Cardinality(imported \cup b.rows) =
            Cardinality(imported) + Cardinality(b.rows) - Cardinality(imported \cap b.rows)
      BY <2>3, FS_Union
    <3>2. Cardinality(imported \cap b.rows) = 0
      BY <2>1, FS_EmptySet
    <3> QED BY <2>1, <2>3, <3>1, <3>2
  <2>5. cursor'.total = cursor.total + Cardinality(Retained(b)) /\ cursor.total \in Nat
    BY <1>1 DEF Commits, ImportTransaction, IInv, TypeOK, ImportTypeOK
  <2>6. NothingExpires => Retained(b) = b.rows
    BY <2>1, AllRetained DEF IInv
  <2> QED BY <2>3, <2>4, <2>5, <2>6 DEF TotalInv, TotalIsImported
<1>2. CASE UNCHANGED <<cursor, imported>>
  BY <1>2 DEF TotalInv, TotalIsImported
<1> QED BY <1>1, <1>2, LedgerSteps

LEMMA InitTotal == Init => TotalInv
BY FS_EmptySet DEF Init, ImportInit, NoCursor, TotalInv, TotalIsImported

(***************************************************************************)
(* The cumulative total of the cursor row never exceeds the number of units*)
(* imported: no replay, no batch restored by a power loss and no restart   *)
(* counts a unit again.                                                    *)
(***************************************************************************)
THEOREM TotalNeverExceedsImports ==
  Spec => [](cursor.total <= Cardinality(imported))
<1>1. IInv /\ TotalInv /\ [Next]_vars => TotalInv'
  BY NextTotal
<1>2. TotalInv => cursor.total <= Cardinality(imported)
  BY DEF TotalInv
<1> QED BY InitTotal, <1>1, <1>2, Invariance, PTL DEF Spec

(***************************************************************************)
(* While the horizon expires nothing, the total is the number of units     *)
(* imported: import_batch adds to the cursor exactly what its transaction  *)
(* puts into the tables.                                                   *)
(***************************************************************************)
THEOREM TotalIsExact ==
  ASSUME NothingExpires PROVE Spec => []TotalIsImported
<1>1. IInv /\ TotalInv /\ [Next]_vars => TotalInv'
  BY NextTotal
<1>2. TotalInv => TotalIsImported
  BY DEF TotalInv
<1> QED BY InitTotal, <1>1, <1>2, Invariance, PTL DEF Spec

-----------------------------------------------------------------------------
(***************************************************************************)
(* When engine accounting began.                                           *)
(***************************************************************************)
StartedInv ==
  /\ kernel_started = -1 =>
       cursor = NoCursor /\ \A e \in Epochs : kernel_epochs[e].sequence = 0
  /\ kernel_started # -1 =>
       /\ cursor # NoCursor /\ kernel_started <= cursor.at
       /\ \A e \in Epochs :
            kernel_epochs[e].sequence > 0 => kernel_started <= kernel_epochs[e].at
  /\ KernelStartIsEarliest

LEMMA BucketMonotone ==
  ASSUME NEW s \in Times, NEW t \in Times, s <= t
  PROVE  /\ BucketStart(s) \in Times /\ BucketStart(t) \in Times
         /\ BucketStart(s) <= BucketStart(t)
<1>1. s \in Nat /\ t \in Nat /\ Bucket \in Nat \ {0}
  BY TimeAssumption DEF Times
<1>2. s \div Bucket <= t \div Bucket /\ s \div Bucket \in Nat /\ t \div Bucket \in Nat
  BY <1>1
<1>3. \A i, j, n \in Nat : i <= j => i * n <= j * n
  OBVIOUS
<1>4. BucketStart(s) <= BucketStart(t)
  BY <1>1, <1>2, <1>3 DEF BucketStart
<1> QED BY <1>4, TimeAssumption

\* Only add() decides the row of a unit.
LEMMA OnlyAddSetsRows ==
  ASSUME [Next]_vars, ~Add PROVE row' = row
BY DEF Next, Engine, Collector, Clock, HostCrash, JournalNext, StartMark, StartSync, Pass,
   FlushRefuse, FlushWrite, FlushRename, FlushSync, FlushError, FlushAbandoned, Stop, Exit,
   EngineKill, ProcessGone, Tick, StepBack, vars

\* A unit that is imported is no longer in a relay, so its row stays.
LEMMA RowsStay ==
  ASSUME IInv, [Next]_vars
  PROVE  \A u \in imported : row'[u] = row[u]
<1>1. CASE Add
  <2>1. row' = [row EXCEPT ![relay.unit] = RowFor(relay)] /\ relay.unit \notin imported
    BY <1>1 DEF Add, IInv, PassedInv
  <2>2. \A u \in imported : u \in Units
    BY DiskTypes DEF IInv
  <2> QED BY <2>1, <2>2 DEF IInv, TypeOK, SpoolTypeOK
<1>2. CASE ~Add
  BY <1>2, OnlyAddSetsRows
<1> QED BY <1>1, <1>2

LEMMA NextStarted ==
  ASSUME IInv, StartedInv, [Next]_vars PROVE StartedInv'
<1>t. /\ kernel_started \in Times \cup {-1} /\ cursor \in [at: Times \cup {-1}, total: Nat]
      /\ imported \subseteq Units
      /\ \A e \in Epochs : kernel_epochs[e].sequence \in Nat /\ kernel_epochs[e].at \in Times
      /\ \A t \in Times : t \in Nat
  BY DEF IInv, TypeOK, ImportTypeOK, Times
<1>1. ASSUME NEW b \in OnDisk, ~Known(b), Commits(b) PROVE StartedInv'
  <2>1. /\ b \in Batches /\ b.rows \subseteq Units
        /\ b.seq = kernel_epochs[b.epoch].sequence + 1
        /\ imported' = imported \cup b.rows
        /\ \A e \in Epochs : kernel_epochs'[e] =
             IF e = b.epoch
             THEN [sequence |-> b.seq, digest |-> b, at |-> b.to,
                   possible_tail_loss |-> TailLoss(b)]
             ELSE kernel_epochs[e]
    BY <1>1, CommitFacts
  <2>2. /\ b.from \in Times /\ b.to \in Times /\ b.epoch \in Epochs /\ b.seq \in Nat
        /\ b.from <= b.to /\ ~Gap(b) /\ ~Overlap(b)
        /\ \A u \in b.rows : BucketStart(b.from) <= row[u].start
    BY <1>1, <2>1 DEF Commits, ValidBatch, Refused, Batches, RowKeysOf
  <2>3. /\ kernel_started' = (IF kernel_started = -1 THEN b.from ELSE kernel_started)
        /\ cursor'.at = b.to
    BY <1>1 DEF Commits, ImportTransaction, KernelStart
  <2>4. kernel_started # -1 => kernel_started <= b.from
    <3>1. CASE kernel_epochs[b.epoch].sequence > 0
      <4>1. b.seq > kernel_epochs[b.epoch].sequence
        BY <1>t, <2>1, <2>2
      <4>2. b.from = kernel_epochs[b.epoch].at
        BY <2>2, <3>1, <4>1 DEF Gap, Checkpoint
      <4> QED BY <2>2, <3>1, <4>2 DEF StartedInv
    <3>2. CASE kernel_epochs[b.epoch].sequence = 0
      BY <1>t, <2>1, <2>2, <3>2 DEF Overlap, Checkpoint, StartedInv
    <3> QED BY <3>1, <3>2, <2>2, <1>t
  <2>5. kernel_started' \in Times /\ kernel_started' <= b.from /\ kernel_started' <= b.to
    BY <1>t, <2>2, <2>3, <2>4
  <2>6. kernel_started' # -1 /\ cursor' # NoCursor
    BY <2>2, <2>3, <2>5, <1>t DEF NoCursor
  <2>7. \A e \in Epochs : kernel_epochs'[e].sequence > 0 => kernel_started' <= kernel_epochs'[e].at
    BY <2>1, <2>2, <2>3, <2>5 DEF StartedInv
  <2>8. KernelStartIsEarliest'
    <3> SUFFICES ASSUME NEW u \in imported'
                 PROVE  BucketStart(kernel_started') <= row'[u].start
      BY <2>6 DEF KernelStartIsEarliest
    <3>1. row' = row
      BY <1>1 DEF Commits, journalVars
    <3>2. CASE u \in b.rows
      <4>1. BucketStart(kernel_started') <= BucketStart(b.from) /\ BucketStart(kernel_started') \in Times
            /\ BucketStart(b.from) \in Times
        BY <2>2, <2>5, BucketMonotone
      <4>2. row[u].start \in Times
        <5>1. row[u] \in RowKeys \cup {NoRow}
          BY <2>1, <3>2 DEF IInv, TypeOK, SpoolTypeOK
        <5>2. \A k \in RowKeys : k.start \in Times
          BY DEF RowKeys
        <5>3. NoRow.start \in Times
          BY TimeAssumption DEF NoRow, Times
        <5> QED BY <5>1, <5>2, <5>3
      <4> HIDE DEF BucketStart
      <4> QED BY <1>t, <2>2, <3>1, <3>2, <4>1, <4>2
    <3>3. CASE u \in imported
      BY <2>3, <3>1, <3>3 DEF StartedInv, KernelStartIsEarliest
    <3> QED BY <2>1, <3>2, <3>3
  <2> QED BY <2>3, <2>5, <2>6, <2>7, <2>8 DEF StartedInv
<1>2. CASE UNCHANGED <<kernel_epochs, kernel_started, cursor, imported>>
  BY <1>2, RowsStay DEF StartedInv, KernelStartIsEarliest
<1> QED BY <1>1, <1>2, LedgerSteps

LEMMA InitStarted == Init => StartedInv
BY DEF Init, ImportInit, StartedInv, KernelStartIsEarliest, NoEpoch

(***************************************************************************)
(* Reports may call a period exact from kernel_started on: no imported row *)
(* is older, also when epochs are imported in another order than they ran  *)
(* and when the clock was set back.                                        *)
(***************************************************************************)
THEOREM KernelStartIsNeverLate == Spec => []KernelStartIsEarliest
<1>1. IInv /\ StartedInv /\ [Next]_vars => StartedInv'
  BY NextStarted
<1>2. StartedInv => KernelStartIsEarliest
  BY DEF StartedInv
<1> QED BY InitStarted, <1>1, <1>2, Invariance, PTL DEF Spec

-----------------------------------------------------------------------------
(***************************************************************************)
(* Time.  While the clock has not gone back, the intervals of the batches  *)
(* on disk are disjoint, and the one in memory begins where they end.      *)
(***************************************************************************)
Intervals ==
  /\ from <= Unix(now)
  /\ relay.at <= Unix(now)
  /\ flush # "idle" => batch.from = from /\ from <= batch.to /\ batch.to <= Unix(now)
  /\ \A b \in OnDisk : b.from <= b.to /\ b.to <= Unix(now)
  /\ Writing => \A b \in OnDisk : Renamed(b) \/ b.to <= from
  /\ \A b, c \in OnDisk : b = c \/ b.to <= c.from \/ c.to <= b.from

ClockInv == steps = 0 => Intervals

LEMMA UnixMonotone ==
  ASSUME NEW s \in Times, NEW t \in Times, s <= t
  PROVE  Unix(s) \in Times /\ Unix(t) \in Times /\ Unix(s) <= Unix(t)
<1>1. s \in Nat /\ t \in Nat /\ TicksPerSecond \in Nat \ {0}
  BY TimeAssumption DEF Times
<1>2. s \div TicksPerSecond <= t \div TicksPerSecond
  BY <1>1
<1> QED BY <1>2, TimeAssumption DEF Unix

\* Only the clock moves the clock.
LEMMA ClockSteps ==
  ASSUME [Next]_vars PROVE UNCHANGED clockVars \/ Clock
BY DEF Next, Engine, Collector, HostCrash, JournalNext, StartMark, StartSync, Pass, Add, FlushRefuse,
   FlushWrite, FlushRename, FlushSync, FlushError, Stop, Exit, EngineKill, ImportNext,
   CollectorStart, ScanBegin, ScanEnd, Import, ImportRefused, Unlink, DrainEnd, DrainError,
   CollectorKill, vars

LEMMA ClockForward ==
  ASSUME IInv, [Next]_vars, steps' = 0
  PROVE  /\ steps = 0 /\ now \in Times /\ now' \in Times
         /\ Unix(now) <= Unix(now') /\ Unix(now) \in Times /\ Unix(now') \in Times
<1> HIDE DEF Unix
<1>1. now \in Times /\ steps \in Nat /\ \A t \in Times : t \in Nat
  BY DEF IInv, TypeOK, SpoolTypeOK, Times
<1>2. CASE UNCHANGED clockVars
  BY <1>1, <1>2, UnixMonotone DEF clockVars
<1>3. CASE Clock
  <2>1. Tick
    BY <1>1, <1>3 DEF Clock, StepBack
  <2>2. now' = now + 1 /\ now < MaxClock /\ steps' = steps
    BY <2>1 DEF Tick
  <2>3. now' \in Times /\ now <= now'
    BY <1>1, <2>2, TimeAssumption DEF Times
  <2> QED BY <1>1, <2>2, <2>3, UnixMonotone
<1> QED BY <1>2, <1>3, ClockSteps

\* The seconds that the invariant compares are natural numbers.
LEMMA IntervalTypes ==
  ASSUME IInv
  PROVE  /\ from \in Nat /\ relay.at \in Nat
         /\ flush # "idle" => batch.from \in Nat /\ batch.to \in Nat
         /\ \A b \in OnDisk : b \in Batches /\ b.from \in Nat /\ b.to \in Nat
<1>1. \A t \in Times : t \in Nat
  BY DEF Times
<1>2. from \in Nat /\ relay.at \in Nat
  BY <1>1 DEF IInv, TypeOK, JournalTypeOK, NoSample
<1>3. flush # "idle" => batch.from \in Nat /\ batch.to \in Nat
  BY <1>1 DEF IInv, FlushInv, Batches
<1>4. \A b \in OnDisk : b \in Batches
  BY DiskTypes DEF IInv
<1> QED BY <1>1, <1>2, <1>3, <1>4 DEF Batches

\* A step that writes no batch and does not begin a new interval.
LEMMA IntervalsFrame ==
  ASSUME IInv, Intervals, now \in Times, now' \in Times,
         Unix(now) \in Times, Unix(now') \in Times, Unix(now) <= Unix(now'),
         OnDisk' \subseteq OnDisk, relay' \in {relay, NoSample},
         \/ UNCHANGED <<flush, batch, from>> /\ (Writing' => Writing)
         \/ flush' = "idle" /\ ~Writing' /\ from' \in {from, 0}
  PROVE  Intervals'
<1> HIDE DEF Unix
<1>1. Unix(now) \in Nat /\ Unix(now') \in Nat
  BY DEF Times
<1>2. from' <= Unix(now')
  BY <1>1, IntervalTypes DEF Intervals
<1>3. relay'.at <= Unix(now')
  BY <1>1, IntervalTypes DEF Intervals, NoSample
<1>4. flush' # "idle" => batch'.from = from' /\ from' <= batch'.to /\ batch'.to <= Unix(now')
  BY <1>1, IntervalTypes DEF Intervals
<1>5. \A b \in OnDisk' : b.from <= b.to /\ b.to <= Unix(now')
  BY <1>1, IntervalTypes DEF Intervals
<1>6. Writing' => \A b \in OnDisk' : (flush' = "dirsync" /\ b = batch') \/ b.to <= from'
  BY DEF Intervals, Renamed
<1>7. \A b, c \in OnDisk' : b = c \/ b.to <= c.from \/ c.to <= b.from
  BY DEF Intervals
<1> QED BY <1>2, <1>3, <1>4, <1>5, <1>6, <1>7 DEF Intervals, Renamed

LEMMA NextClock ==
  ASSUME IInv, ClockInv, [Next]_vars PROVE ClockInv'
<1> SUFFICES ASSUME steps' = 0 PROVE Intervals'
  BY DEF ClockInv
<1> HIDE DEF Unix
<1>n. /\ now \in Times /\ now' \in Times /\ Unix(now) <= Unix(now')
      /\ Unix(now) \in Times /\ Unix(now') \in Times
      /\ Unix(now) \in Nat /\ Unix(now') \in Nat
  BY ClockForward DEF Times
<1>i. Intervals
  BY ClockForward DEF ClockInv
<1>t. DiskInv /\ FlushInv /\ FreshInv
  BY DEF IInv
<1>1. CASE Engine
  <2> USE DEF spoolVars, clockVars
  <2>1. CASE StartMark
    <3>1. /\ phase = "down" /\ flush' = flush /\ from' = Unix(now) /\ relay' = relay
          /\ OnDisk' = OnDisk /\ now' = now
      BY <2>1 DEF StartMark, OnDisk
    <3>2. flush = "idle"
      BY <1>t, <3>1 DEF FlushInv
    <3> QED BY <1>i, <1>n, <3>1, <3>2 DEF Intervals, Renamed
  <2>2. CASE StartSync \/ Stop
    <3>1. /\ UNCHANGED <<flush, batch, from, relay>> /\ Writing /\ OnDisk' \subseteq OnDisk
      BY <2>2 DEF StartSync, Stop, SyncDirectory, OnDisk, Writing
    <3> QED BY <1>i, <1>n, <3>1, IntervalsFrame
  <2>3. CASE Add
    <3>1. /\ UNCHANGED <<flush, batch, from, phase>> /\ relay' = NoSample /\ OnDisk' = OnDisk
      BY <2>3 DEF Add, OnDisk
    <3> QED BY <1>i, <1>n, <3>1, IntervalsFrame DEF Writing
  <2>4. CASE FlushWrite
    <3>1. /\ UNCHANGED <<phase, from, relay>> /\ flush' = "rename" /\ batch' = NextBatch
          /\ OnDisk' = OnDisk /\ now' = now /\ flush = "idle" /\ ~(Unix(now) < from)
      BY <2>4 DEF FlushWrite, FlushRefused, OnDisk
    <3>2. batch'.from = from /\ batch'.to = Unix(now)
      BY <3>1 DEF NextBatch
    <3> QED BY <1>i, <1>n, <3>1, <3>2 DEF Intervals, Renamed, Writing
  <2>5. CASE FlushRename
    <3>1. /\ UNCHANGED <<phase, from, relay, batch>> /\ flush' = "dirsync" /\ flush = "rename"
          /\ OnDisk' \subseteq OnDisk \cup {batch} /\ now' = now
      BY <2>5 DEF FlushRename, OnDisk
    <3>2. Writing /\ \A b \in OnDisk : b.to <= from
      BY <1>i, <1>t, <3>1 DEF Intervals, FlushInv, Flushing, Writing, Renamed
    <3>3. batch.from = from /\ batch.from <= batch.to /\ batch.to <= Unix(now)
      BY <1>i, <3>1 DEF Intervals
    <3>4. \A b, c \in OnDisk' : b = c \/ b.to <= c.from \/ c.to <= b.from
      BY <1>i, <3>1, <3>2, <3>3 DEF Intervals
    <3>5. \A b \in OnDisk' : b.from <= b.to /\ b.to <= Unix(now)
      BY <1>i, <3>1, <3>3 DEF Intervals
    <3> QED BY <1>i, <1>n, <3>1, <3>2, <3>3, <3>4, <3>5 DEF Intervals, Renamed
  <2>6. CASE FlushSync
    <3>1. /\ flush = "dirsync" /\ flush' = "idle" /\ from' = batch.to /\ relay' = relay
          /\ OnDisk' \subseteq OnDisk /\ now' = now
      BY <2>6 DEF FlushSync, SyncDirectory, OnDisk
    <3>2. Writing
      BY <1>t, <3>1 DEF FlushInv, Flushing, Writing
    <3>3. \A b \in OnDisk : b.to <= batch.to
      BY <1>i, <3>1, <3>2, IntervalTypes DEF Intervals, Renamed
    <3> QED BY <1>i, <1>n, <3>1, <3>3 DEF Intervals, Renamed
  <2>7. CASE FlushRefuse \/ FlushError
    <3>1. FlushAbandoned /\ OnDisk' = OnDisk
      BY <2>7 DEF FlushRefuse, FlushError, OnDisk
    <3>2. flush' = "idle" /\ ~Writing' /\ from' \in {from, 0} /\ relay' \in {relay, NoSample}
      BY <3>1 DEF FlushAbandoned, ProcessGone, Writing
    <3> QED BY <1>i, <1>n, <3>1, <3>2, IntervalsFrame
  <2>8. CASE Exit \/ EngineKill
    <3>1. ProcessGone /\ OnDisk' = OnDisk
      BY <2>8 DEF Exit, EngineKill, OnDisk
    <3> QED BY <1>i, <1>n, <3>1, IntervalsFrame DEF ProcessGone, Writing
  <2>9. ASSUME NEW d \in Domains, Pass(d) PROVE Intervals'
    <3>1. /\ UNCHANGED <<phase, flush, batch, from>> /\ OnDisk' = OnDisk /\ now' = now
          /\ relay'.at = Unix(now)
      BY <2>9 DEF Pass, OnDisk
    <3> QED BY <1>i, <1>n, <3>1 DEF Intervals, Renamed, Writing
  <2> QED BY <1>1, <2>1, <2>2, <2>3, <2>4, <2>5, <2>6, <2>7, <2>8, <2>9 DEF Engine, JournalNext
<1>2. CASE Collector
  <2>1. UNCHANGED <<phase, flush, batch, from, relay>> /\ OnDisk' \subseteq OnDisk
    BY <1>2 DEF Collector, journalVars, ImportNext, CollectorStart, ScanBegin, ScanEnd, Import,
       ImportRefused, Unlink, DrainEnd, DrainError, CollectorKill, DrainRaises, SyncDirectory,
       spoolVars, OnDisk
  <2> QED BY <1>i, <1>n, <2>1, IntervalsFrame DEF Writing
<1>3. CASE Clock \/ UNCHANGED vars
  <2>1. UNCHANGED <<phase, flush, batch, from, relay, spool, synced>>
    BY <1>3 DEF Clock, Tick, StepBack, vars, journalVars, spoolVars
  <2>2. OnDisk' = OnDisk
    BY <2>1 DEF OnDisk
  <2> QED BY <1>i, <1>n, <2>1, <2>2, IntervalsFrame DEF Writing
<1>4. CASE HostCrash
  <2>1. ProcessGone /\ OnDisk' \subseteq OnDisk
    BY <1>4, CrashShrinks DEF HostCrash
  <2> QED BY <1>i, <1>n, <2>1, IntervalsFrame DEF ProcessGone, Writing
<1> QED BY <1>1, <1>2, <1>3, <1>4 DEF Next

LEMMA InitClock == Init => ClockInv
<1> SUFFICES ASSUME Init PROVE Intervals
  BY DEF ClockInv
<1>1. /\ now = 0 /\ from = 0 /\ relay = NoSample /\ flush = "idle" /\ spool = {} /\ synced = {}
  BY DEF Init, SpoolInit, JournalInit
<1>2. Unix(now) \in Nat
  BY <1>1, TimeAssumption DEF Times
<1> QED BY <1>1, <1>2 DEF Intervals, OnDisk, NoSample

-----------------------------------------------------------------------------
(***************************************************************************)
(* Observed seconds.  A second is settled when no batch will report it any *)
(* more: it is behind the interval in memory and in no batch on disk that  *)
(* the ledger does not know.  A bucket counts settled seconds only.        *)
(***************************************************************************)
Seconds(s) == s .. s + Bucket - 1

\* Where the next batch that is not on disk yet begins, at the earliest.
Ahead ==
  IF ~Writing THEN Unix(now) ELSE IF flush = "dirsync" THEN batch.to ELSE from

Within(b, t) == b.from <= t /\ t < b.to
Settled(s) ==
  {t \in Seconds(s) : t < Ahead /\ \A b \in OnDisk : Known(b) \/ ~Within(b, t)}

ObservedInv ==
  steps = 0 => \A s \in Starts : observed[s] <= Cardinality(Settled(s))

LEMMA AheadGrows ==
  ASSUME IInv, ClockInv, [Next]_vars, steps' = 0
  PROVE  Ahead \in Nat /\ Ahead' \in Nat /\ Ahead <= Ahead'
<1> HIDE DEF Unix
<1>n. /\ Unix(now) <= Unix(now') /\ Unix(now) \in Nat /\ Unix(now') \in Nat
  BY ClockForward DEF Times
<1>i. Intervals /\ Intervals'
  BY ClockForward, NextClock DEF ClockInv
<1>t. FlushInv /\ IInv'
  BY NextIInv DEF IInv
<1>1. Ahead \in Nat /\ Ahead <= Unix(now)
  BY <1>n, <1>i, IntervalTypes DEF Ahead, Intervals
<1>2. CASE ~Writing'
  BY <1>n, <1>1, <1>2 DEF Ahead, Writing
<1>3. CASE Writing /\ Writing' /\ UNCHANGED <<flush, batch, from>>
  BY <1>1, <1>3 DEF Ahead, Writing
<1>4. CASE StartMark
  <2>1. phase' = "marked" /\ flush' = "idle" /\ from' = Unix(now)
    BY <1>4, <1>t DEF StartMark, FlushInv
  <2> QED BY <2>1, <1>n, <1>1 DEF Ahead, Writing
<1>5. CASE FlushWrite
  <2>1. Writing /\ Writing' /\ flush = "idle" /\ flush' = "rename" /\ from' = from
    BY <1>5 DEF FlushWrite, Flushing, Writing
  <2> QED BY <2>1, <1>1 DEF Ahead, Writing
<1>6. CASE FlushRename
  <2>1. Writing /\ Writing' /\ flush = "rename" /\ flush' = "dirsync" /\ batch' = batch
    BY <1>6, <1>t DEF FlushRename, FlushInv, Flushing, Writing
  <2>2. from <= batch.to /\ batch.to \in Nat
    BY <1>i, <2>1, IntervalTypes DEF Intervals
  <2> QED BY <2>1, <2>2, <1>1 DEF Ahead, Writing
<1>7. CASE FlushSync
  <2>1. Writing /\ flush = "dirsync" /\ flush' = "idle" /\ from' = batch.to
    BY <1>7, <1>t DEF FlushSync, FlushInv, Flushing, Writing
  <2> QED BY <2>1, <1>1, <1>2 DEF Ahead, Writing
<1>8. CASE Engine /\ ~(StartMark \/ FlushWrite \/ FlushRename \/ FlushSync)
  <2>1. \/ ~Writing'
        \/ Writing /\ UNCHANGED <<flush, batch, from>>
    <3>1. CASE FlushRefuse \/ FlushError
      BY <3>1 DEF FlushRefuse, FlushError, FlushAbandoned, ProcessGone, Writing
    <3>2. CASE StartSync \/ Add \/ Stop \/ Exit \/ EngineKill
      BY <3>2 DEF StartSync, Add, Stop, Exit, EngineKill, ProcessGone, Writing
    <3>3. ASSUME NEW d \in Domains, Pass(d) PROVE Writing' => Writing /\ UNCHANGED <<flush, batch, from>>
      BY <3>3 DEF Pass, Writing
    <3> QED BY <1>8, <3>1, <3>2, <3>3 DEF Engine, JournalNext
  <2> QED BY <2>1, <1>2, <1>3
<1>9. CASE Collector \/ Clock \/ UNCHANGED vars
  <2>1. UNCHANGED <<phase, flush, batch, from>>
    BY <1>9 DEF Collector, Clock, Tick, StepBack, vars, journalVars
  <2> QED BY <2>1, <1>2, <1>3 DEF Writing
<1>10. CASE HostCrash
  <2>1. ~Writing'
    BY <1>10 DEF HostCrash, ProcessGone, Writing
  <2> QED BY <2>1, <1>2
<1> QED BY <1>4, <1>5, <1>6, <1>7, <1>8, <1>9, <1>10 DEF Next

\* Only a rename brings a batch to the disk.
LEMMA NewOnDisk ==
  ASSUME IInv, [Next]_vars
  PROVE  OnDisk' \subseteq OnDisk \/ (FlushRename /\ OnDisk' \subseteq OnDisk \cup {batch})
<1> USE DEF spoolVars
<1>1. CASE Engine
  <2>1. ASSUME ~FlushRename PROVE OnDisk' \subseteq OnDisk
    BY <1>1, <2>1 DEF Engine, JournalNext, StartMark, StartSync, Pass, Add, FlushRefuse, FlushWrite,
       FlushSync, FlushError, Stop, Exit, EngineKill, SyncDirectory, OnDisk
  <2>2. FlushRename => OnDisk' \subseteq OnDisk \cup {batch}
    BY DEF FlushRename, OnDisk
  <2> QED BY <2>1, <2>2
<1>2. CASE Collector
  BY <1>2 DEF Collector, ImportNext, CollectorStart, ScanBegin, ScanEnd, Import,
     ImportRefused, Unlink, DrainEnd, DrainError, CollectorKill, DrainRaises, SyncDirectory, OnDisk
<1>3. CASE Clock \/ UNCHANGED vars
  BY <1>3 DEF Clock, Tick, StepBack, vars, OnDisk
<1>4. CASE HostCrash
  BY <1>4, CrashShrinks
<1> QED BY <1>1, <1>2, <1>3, <1>4 DEF Next

\* The ledger never forgets a batch.
LEMMA KnownStays ==
  ASSUME IInv, [Next]_vars, NEW b \in Batches, Known(b)
  PROVE  Known(b)'
<1>1. b.epoch \in Epochs /\ b.seq \in Nat
  BY DEF Batches
<1>2. CASE \E c \in OnDisk : ~Known(c) /\ Commits(c)
  <2>1. PICK c \in OnDisk : ~Known(c) /\ Commits(c)
    BY <1>2
  <2>2. /\ c.seq = kernel_epochs[c.epoch].sequence + 1
        /\ \A e \in Epochs : kernel_epochs'[e] =
             IF e = c.epoch
             THEN [sequence |-> c.seq, digest |-> c, at |-> c.to,
                   possible_tail_loss |-> TailLoss(c)]
             ELSE kernel_epochs[e]
    BY <2>1, CommitFacts
  <2>3. kernel_epochs[b.epoch].sequence \in Nat
    BY <1>1, DiskTypes DEF IInv
  <2> QED BY <1>1, <2>2, <2>3 DEF Known
<1>3. CASE kernel_epochs' = kernel_epochs
  BY <1>3 DEF Known
<1> QED BY <1>2, <1>3, LedgerSteps

LEMMA SettledGrows ==
  ASSUME IInv, ClockInv, [Next]_vars, steps' = 0, NEW s \in Starts
  PROVE  Settled(s) \subseteq Settled(s)'
<1> SUFFICES ASSUME NEW t \in Settled(s) PROVE t \in Settled(s)'
  OBVIOUS
<1>1. t \in Seconds(s) /\ t < Ahead /\ \A b \in OnDisk : Known(b) \/ ~Within(b, t)
  BY DEF Settled
<1>2. t \in Int
  <2>1. s \in Int /\ Bucket \in Int
    BY TimeAssumption DEF Starts, Times
  <2> QED BY <1>1, <2>1 DEF Seconds
<1>3. t < Ahead'
  BY <1>1, <1>2, AheadGrows
<1>4. \A b \in OnDisk : Known(b)' \/ ~Within(b, t)
  BY <1>1, KnownStays, DiskTypes DEF IInv
<1>5. \A b \in OnDisk' : Known(b)' \/ ~Within(b, t)
  <2>1. CASE FlushRename /\ OnDisk' \subseteq OnDisk \cup {batch}
    <3>1. flush = "rename" /\ Writing
      BY <2>1 DEF FlushRename, IInv, FlushInv, Flushing, Writing
    <3>2. Ahead = from /\ batch.from = from
      BY <3>1, ClockForward DEF Ahead, ClockInv, Intervals
    <3>3. from \in Nat
      BY IntervalTypes
    <3>4. ~Within(batch, t)
      BY <1>1, <1>2, <3>2, <3>3 DEF Within
    <3> QED BY <1>4, <2>1, <3>4
  <2>2. CASE OnDisk' \subseteq OnDisk
    BY <1>4, <2>2
  <2> QED BY <2>1, <2>2, NewOnDisk
<1>6. Seconds(s)' = Seconds(s)
  BY DEF Seconds
<1> QED BY <1>1, <1>3, <1>5, <1>6 DEF Settled, Within

\* What a transaction adds to a bucket is the part of the batch's interval in
\* it, or the part that the horizon leaves.
LEMMA OverlapIsWithin ==
  ASSUME NEW b \in Batches, NEW lo \in Nat, b.from <= lo, NEW s \in Starts
  PROVE  /\ IsFiniteSet({t \in Seconds(s) : Within(b, t)})
         /\ Overlapping(lo, b.to, s) \in Nat
         /\ Overlapping(lo, b.to, s) <= Cardinality({t \in Seconds(s) : Within(b, t)})
<1> DEFINE covered == {t \in Seconds(s) : Within(b, t)}
           first == IF lo < s THEN s ELSE lo
           last  == IF b.to > s + Bucket THEN s + Bucket ELSE b.to
<1>1. /\ s \in Nat /\ Bucket \in Nat /\ b.from \in Nat /\ b.to \in Nat
      /\ first \in Int /\ last \in Int
  BY TimeAssumption DEF Starts, Times, Batches
<1>2. Overlapping(lo, b.to, s) = IF first < last THEN last - first ELSE 0
  BY DEF Overlapping
<1>3. IsFiniteSet(covered) /\ Cardinality(covered) \in Nat
  <2>1. IsFiniteSet(Seconds(s))
    BY <1>1, FS_Interval DEF Seconds
  <2> QED BY <2>1, FS_Subset, FS_CardinalityType
<1>4. CASE first < last
  <2>1. first .. last - 1 \subseteq covered
    BY <1>1 DEF Seconds, Within
  <2>2. Cardinality(first .. last - 1) = last - first
    <3>1. last - 1 \in Int /\ ~(first > last - 1)
      BY <1>1, <1>4
    <3> HIDE DEF first, last
    <3>2. Cardinality(first .. last - 1) = (last - 1) - first + 1
      BY <1>1, <3>1, FS_Interval
    <3> QED BY <1>1, <3>2
  <2> HIDE DEF first, last, covered
  <2>3. Cardinality(first .. last - 1) <= Cardinality(covered)
    BY <1>3, <2>1, FS_Subset
  <2> QED BY <1>1, <1>2, <1>3, <1>4, <2>2, <2>3 DEF covered
<1>5. CASE ~(first < last)
  BY <1>2, <1>3, <1>5
<1> QED BY <1>4, <1>5

\* A committed batch settles its interval, which no one else has reported.
LEMMA CommitSettles ==
  ASSUME IInv, ClockInv, [Next]_vars, steps' = 0, NEW s \in Starts,
         NEW b \in OnDisk, ~Known(b), Commits(b)
  PROVE  /\ {t \in Seconds(s) : Within(b, t)} \subseteq Settled(s)'
         /\ {t \in Seconds(s) : Within(b, t)} \cap Settled(s) = {}
<1> HIDE DEF Unix
<1>1. {t \in Seconds(s) : Within(b, t)} \cap Settled(s) = {}
  BY DEF Settled
<1>2. ASSUME NEW t \in Seconds(s), Within(b, t) PROVE t \in Settled(s)'
  <2>1. t \in Int
    <3>1. s \in Int /\ Bucket \in Int
      BY TimeAssumption DEF Starts, Times
    <3> QED BY <1>2, <3>1 DEF Seconds
  <2>2. Intervals
    BY ClockForward DEF ClockInv
  <2>3. b.to <= Ahead
    <3>1. CASE ~Writing
      BY <2>2, <3>1 DEF Intervals, Ahead
    <3>2. CASE Writing /\ Renamed(b)
      BY <3>2, IntervalTypes DEF Renamed, Ahead
    <3>3. CASE Writing /\ ~Renamed(b)
      <4>1. b.to <= from /\ b.to \in Nat /\ from \in Nat
        BY <2>2, <3>3, IntervalTypes DEF Intervals
      <4>2. flush = "dirsync" => from <= batch.to /\ batch.to \in Nat
        BY <2>2, IntervalTypes DEF Intervals
      <4> QED BY <3>3, <4>1, <4>2 DEF Ahead
    <3> QED BY <3>1, <3>2, <3>3
  <2>4. t < Ahead'
    <3>1. b.to \in Nat /\ t < b.to
      BY <1>2, IntervalTypes DEF Within
    <3> QED BY <2>1, <2>3, <3>1, AheadGrows
  <2>5. OnDisk' = OnDisk
    BY DEF Commits, OnDisk
  <2>6. \A c \in OnDisk : c = b \/ ~Within(c, t)
    <3>1. \A c \in OnDisk : c = b \/ b.to <= c.from \/ c.to <= b.from
      BY <2>2 DEF Intervals
    <3> QED BY <1>2, <2>1, <3>1, IntervalTypes DEF Within
  <2>7. Known(b)'
    <3>1. b.epoch \in Epochs /\ kernel_epochs'[b.epoch] =
            [sequence |-> b.seq, digest |-> b, at |-> b.to, possible_tail_loss |-> TailLoss(b)]
      BY CommitFacts DEF Batches
    <3>2. b.seq \in Nat
      BY CommitFacts DEF Batches
    <3> QED BY <3>1, <3>2 DEF Known
  <2>8. Seconds(s)' = Seconds(s)
    BY DEF Seconds
  <2> QED BY <1>2, <2>4, <2>5, <2>6, <2>7, <2>8 DEF Settled, Within
<1> QED BY <1>1, <1>2

LEMMA NextObserved ==
  ASSUME IInv, ClockInv, ObservedInv, [Next]_vars PROVE ObservedInv'
<1> SUFFICES ASSUME steps' = 0, NEW s \in Starts
             PROVE  observed'[s] <= Cardinality(Settled(s)')
  BY DEF ObservedInv
<1>1. /\ observed[s] \in Nat /\ observed[s] <= Cardinality(Settled(s))
      /\ observed \in [Starts -> Nat]
  BY ClockForward DEF ObservedInv, IInv, TypeOK, ImportTypeOK
<1>2. Settled(s) \subseteq Settled(s)'
  BY SettledGrows
<1>3. /\ IsFiniteSet(Settled(s)) /\ IsFiniteSet(Settled(s)')
      /\ Cardinality(Settled(s)) \in Nat /\ Cardinality(Settled(s)') \in Nat
      /\ Cardinality(Settled(s)) <= Cardinality(Settled(s)')
  <2>1. IsFiniteSet(Seconds(s))
    <3>1. s \in Int /\ s + Bucket - 1 \in Int
      BY TimeAssumption DEF Starts, Times
    <3> QED BY <3>1, FS_Interval DEF Seconds
  <2>2. Settled(s) \subseteq Seconds(s) /\ Settled(s)' \subseteq Seconds(s)
    BY DEF Settled, Seconds
  <2> HIDE DEF Settled
  <2> QED BY <1>2, <2>1, <2>2, FS_Subset, FS_CardinalityType
<1>4. ASSUME NEW b \in OnDisk, ~Known(b), Commits(b)
      PROVE  observed'[s] <= Cardinality(Settled(s)')
  <2> DEFINE position == IF b.from < Cutoff(b.to) THEN Cutoff(b.to) ELSE b.from
             covered  == {t \in Seconds(s) : Within(b, t)}
             seen     == [r \in Starts |-> observed[r] + Overlapping(position, b.to, r)]
  <2>1. b \in Batches /\ b.from \in Nat /\ position \in Nat /\ b.from <= position
    <3>1. b \in Batches /\ b.from \in Times /\ b.to \in Times /\ \A t \in Times : t \in Nat
      BY DiskTypes DEF IInv, Batches, Times
    <3>2. Cutoff(b.to) \in Nat
      BY <3>1, TimeAssumption
    <3> HIDE DEF Cutoff
    <3> QED BY <3>1, <3>2
  <2>2. observed' = PrunedStarts(seen, b.to)
    BY <1>4 DEF Commits, ImportTransaction
  <2> HIDE DEF position
  <2>3. observed'[s] = 0 \/ observed'[s] = observed[s] + Overlapping(position, b.to, s)
    BY <2>2 DEF PrunedStarts
  <2>4. /\ IsFiniteSet(covered) /\ Overlapping(position, b.to, s) \in Nat
        /\ Overlapping(position, b.to, s) <= Cardinality(covered)
    BY <2>1, OverlapIsWithin
  <2>5. covered \subseteq Settled(s)' /\ covered \cap Settled(s) = {}
    BY <1>4, CommitSettles
  <2> HIDE DEF covered
  <2>6. Cardinality(Settled(s) \cup covered) = Cardinality(Settled(s)) + Cardinality(covered)
    <3>1. Settled(s) \cap covered = {}
      BY <2>5
    <3>2. Cardinality(Settled(s) \cap covered) = 0
      BY <3>1, FS_EmptySet
    <3>3. Cardinality(covered) \in Nat
      BY <2>4, FS_CardinalityType
    <3>4. Cardinality(Settled(s) \cup covered) =
            Cardinality(Settled(s)) + Cardinality(covered) - Cardinality(Settled(s) \cap covered)
      BY <1>3, <2>4, FS_Union
    <3> HIDE DEF Settled
    <3> QED BY <1>3, <3>2, <3>3, <3>4
  <2>7. Cardinality(Settled(s) \cup covered) <= Cardinality(Settled(s)')
    <3>1. Settled(s) \cup covered \subseteq Settled(s)'
      BY <1>2, <2>5
    <3> HIDE DEF Settled
    <3> QED BY <1>3, <3>1, FS_Subset
  <2>8. Cardinality(covered) \in Nat
    BY <2>4, FS_CardinalityType
  <2> HIDE DEF Settled
  <2> QED BY <1>1, <1>3, <2>3, <2>4, <2>6, <2>7, <2>8
<1>5. CASE UNCHANGED observed \/ Prunes
  <2>1. observed'[s] = observed[s] \/ observed'[s] = 0
    BY <1>5 DEF Prunes, PrunedStarts
  <2> HIDE DEF Settled
  <2> QED BY <1>1, <1>3, <2>1
<1> QED BY <1>4, <1>5, LedgerSteps

LEMMA InitObserved == Init => ObservedInv
<1> SUFFICES ASSUME Init, NEW s \in Starts PROVE observed[s] <= Cardinality(Settled(s))
  BY DEF ObservedInv
<1>1. observed[s] = 0
  BY DEF Init, ImportInit
<1>2. IsFiniteSet(Seconds(s))
  <2>1. s \in Int /\ s + Bucket - 1 \in Int
    BY TimeAssumption DEF Starts, Times
  <2> QED BY <2>1, FS_Interval DEF Seconds
<1>3. Settled(s) \subseteq Seconds(s)
  BY DEF Settled
<1> HIDE DEF Settled
<1> QED BY <1>1, <1>2, <1>3, FS_Subset, FS_CardinalityType

LEMMA ObservedBound == IInv /\ ObservedInv => ObservedAtMostOnce
<1> SUFFICES ASSUME IInv, ObservedInv, steps = 0, NEW s \in Starts PROVE observed[s] <= Bucket
  BY DEF ObservedAtMostOnce
<1>1. s \in Int /\ Bucket \in Nat /\ Bucket > 0 /\ observed[s] \in Nat
  BY TimeAssumption DEF Starts, Times, IInv, TypeOK, ImportTypeOK
<1>2. IsFiniteSet(Seconds(s)) /\ Cardinality(Seconds(s)) = Bucket
  <2>1. s + Bucket - 1 \in Int /\ ~(s > s + Bucket - 1)
    BY <1>1
  <2>2. Cardinality(s .. s + Bucket - 1) = (s + Bucket - 1) - s + 1
    BY <1>1, <2>1, FS_Interval
  <2> QED BY <1>1, <2>1, <2>2, FS_Interval DEF Seconds
<1>3. Settled(s) \subseteq Seconds(s)
  BY DEF Settled
<1> HIDE DEF Settled
<1>4. Cardinality(Settled(s)) <= Bucket /\ Cardinality(Settled(s)) \in Nat
  BY <1>2, <1>3, FS_Subset, FS_CardinalityType
<1> QED BY <1>1, <1>4 DEF ObservedInv

(***************************************************************************)
(* What a report says of how much of a period was observed, and since when,*)
(* is never too much: while the clock does not go back no second of a      *)
(* bucket is counted as observed twice, whatever epochs, crashes, replays  *)
(* and prunings there were, and kernel_started is never late.              *)
(***************************************************************************)
THEOREM ObservationIsNeverTooMuch == Spec => []ObservationIsSound
<1>1. IInv /\ ClockInv /\ ObservedInv /\ StartedInv /\ [Next]_vars
        => ClockInv' /\ ObservedInv' /\ StartedInv'
  BY NextClock, NextObserved, NextStarted
<1>2. IInv /\ ObservedInv /\ StartedInv => ObservationIsSound
  BY ObservedBound DEF ObservationIsSound, StartedInv
<1> QED BY InitClock, InitObserved, InitStarted, <1>1, <1>2, Invariance, PTL DEF Spec

-----------------------------------------------------------------------------
(***************************************************************************)
(* Retention.  A clamped month makes cutoff go back by up to a day, so what*)
(* is inside the window now may have left it before: only the cutoffs of   *)
(* all the seconds so far say what prune may have deleted.                 *)
(***************************************************************************)
Expired(u) ==
  \E t \in Times : (steps > 0 \/ t <= Unix(now)) /\ row[u].start < Cutoff(t)

RetentionInv == \A u \in imported : counted[u] = 1 \/ Expired(u)

LEMMA ExpiredStays ==
  ASSUME IInv, [Next]_vars, NEW u \in imported, Expired(u)
  PROVE  Expired(u)'
<1> HIDE DEF Unix, Cutoff
<1>1. PICK t \in Times : (steps > 0 \/ t <= Unix(now)) /\ row[u].start < Cutoff(t)
  BY DEF Expired
<1>2. row'[u] = row[u]
  BY RowsStay
<1>3. steps \in Nat /\ steps' \in Nat
  BY NextIInv DEF IInv, TypeOK, SpoolTypeOK
<1>4. steps > 0 => steps' > 0
  <2>1. UNCHANGED clockVars \/ steps' = steps \/ steps' = steps + 1
    BY ClockSteps DEF Clock, Tick, StepBack
  <2> QED BY <1>3, <2>1 DEF clockVars
<1>5. steps' > 0 \/ t <= Unix(now')
  <2>1. CASE steps' = 0
    <3>1. /\ Unix(now) \in Nat /\ Unix(now') \in Nat /\ Unix(now) <= Unix(now') /\ steps = 0
      BY <2>1, ClockForward DEF Times
    <3>2. t \in Nat
      BY DEF Times
    <3> QED BY <1>1, <3>1, <3>2
  <2> QED BY <1>3, <2>1
<1> QED BY <1>1, <1>2, <1>5 DEF Expired

LEMMA NextRetention ==
  ASSUME IInv, ClockInv, RetentionInv, [Next]_vars PROVE RetentionInv'
<1> HIDE DEF Unix, Cutoff
<1>0. \A u \in imported : Expired(u) => Expired(u)'
  BY ExpiredStays
<1>t. /\ imported \subseteq Units /\ counted \in [Units -> Nat] /\ steps \in Nat
      /\ now \in Times /\ Unix(now) \in Times
  BY TimeAssumption DEF IInv, TypeOK, ImportTypeOK, SpoolTypeOK
<1>1. ASSUME NEW b \in OnDisk, ~Known(b), Commits(b) PROVE RetentionInv'
  <2>1. /\ b \in Batches /\ b.rows \subseteq Units /\ b.rows \cap imported = {}
        /\ imported' = imported \cup b.rows
    BY <1>1, CommitFacts
  <2>2. b.to \in Times /\ (steps > 0 \/ b.to <= Unix(now))
    BY <1>t, <2>1 DEF Batches, ClockInv, Intervals
  <2>3. UNCHANGED <<row, now, steps>>
    BY <1>1 DEF Commits, journalVars, clockVars
  <2>4. \A u \in Units : row[u].start < Cutoff(b.to) => Expired(u)'
    BY <2>2, <2>3 DEF Expired
  <2> DEFINE added == [u \in Units |-> counted[u] + (IF u \in Retained(b) THEN 1 ELSE 0)]
  <2>5. counted' = PrunedUnits(added, b.to)
    BY <1>1 DEF Commits, ImportTransaction
  <2> SUFFICES ASSUME NEW u \in imported' PROVE counted'[u] = 1 \/ Expired(u)'
    BY DEF RetentionInv
  <2>6. u \in Units
    BY <1>t, <2>1
  <2>7. CASE row[u].start < Cutoff(b.to)
    BY <2>4, <2>6, <2>7
  <2>8. CASE ~(row[u].start < Cutoff(b.to)) /\ u \in b.rows
    <3>1. counted'[u] = counted[u] + (IF u \in Retained(b) THEN 1 ELSE 0)
      BY <2>5, <2>6, <2>8 DEF PrunedUnits
    <3>2. counted[u] = 0
      BY <1>t, <2>1, <2>6, <2>8 DEF IInv, ExactlyOnce
    <3>3. u \in Retained(b)
      <4>1. row[u].start \in Int /\ Cutoff(b.to) \in Int
        <5>1. row[u] \in RowKeys \cup {NoRow}
          BY <2>6 DEF IInv, TypeOK, SpoolTypeOK
        <5>2. \A k \in RowKeys \cup {NoRow} : k.start \in Int
          BY DEF RowKeys, NoRow, Times
        <5>3. Cutoff(b.to) \in Int
          BY <2>2, TimeAssumption DEF Times
        <5> QED BY <5>1, <5>2, <5>3
      <4> QED BY <2>8, <4>1 DEF Retained
    <3> QED BY <3>1, <3>2, <3>3
  <2>9. CASE ~(row[u].start < Cutoff(b.to)) /\ u \notin b.rows
    <3>1. counted'[u] = counted[u] + (IF u \in Retained(b) THEN 1 ELSE 0)
      BY <2>5, <2>6, <2>9 DEF PrunedUnits
    <3>2. u \notin Retained(b) /\ u \in imported
      BY <2>1, <2>9 DEF Retained
    <3> QED BY <1>0, <1>t, <2>6, <3>1, <3>2 DEF RetentionInv
  <2> QED BY <2>7, <2>8, <2>9
<1>2. ASSUME UNCHANGED imported, UNCHANGED counted PROVE RetentionInv'
  BY <1>0, <1>2 DEF RetentionInv
<1>3. ASSUME UNCHANGED imported, Prunes, UNCHANGED journalVars PROVE RetentionInv'
  <2> SUFFICES ASSUME NEW u \in imported PROVE counted'[u] = 1 \/ Expired(u)'
    BY <1>3 DEF RetentionInv
  <2>1. u \in Units
    BY <1>t
  <2>2. counted'[u] = IF row[u].start < Cutoff(Unix(now)) THEN 0 ELSE counted[u]
    BY <1>3, <2>1 DEF Prunes, PrunedUnits
  <2>3. Unix(now) <= Unix(now)
    BY <1>t DEF Times
  <2>4. row[u].start < Cutoff(Unix(now)) => Expired(u)
    BY <1>t, <2>3 DEF Expired
  <2> QED BY <1>0, <2>2, <2>4 DEF RetentionInv
<1> QED BY <1>1, <1>2, <1>3, LedgerSteps

LEMMA InitRetention == Init => RetentionInv
BY DEF Init, ImportInit, RetentionInv

(***************************************************************************)
(* Pruning deletes nothing that was inside the window all along: an        *)
(* imported unit is in the tables unless some second so far had a cutoff   *)
(* after its bucket.                                                       *)
(***************************************************************************)
THEOREM OnlyTheExpiredIsDeleted ==
  Spec => [](\A u \in imported : counted[u] = 1 \/ Expired(u))
<1>1. IInv /\ ClockInv /\ RetentionInv /\ [Next]_vars => ClockInv' /\ RetentionInv'
  BY NextClock, NextRetention
<1>2. RetentionInv => \A u \in imported : counted[u] = 1 \/ Expired(u)
  BY DEF RetentionInv
<1> QED BY InitClock, InitRetention, <1>1, <1>2, Invariance, PTL DEF Spec

\* No clamped month in the clock's range: cutoff never goes back.
CutoffMonotone == \A s, t \in Times : s <= t => Cutoff(s) <= Cutoff(t)

(***************************************************************************)
(* Where no month of the window is clamped, and while the clock does not go*)
(* back, every imported unit inside the retention window of the moment is  *)
(* in the tables.                                                          *)
(***************************************************************************)
THEOREM RetentionIsExact ==
  ASSUME CutoffMonotone PROVE Spec => [](steps = 0 => RetainedIsCounted)
<1> DEFINE Inside(u) == row[u].start >= Cutoff(Unix(now))
<1>1. IInv /\ ClockInv /\ RetentionInv /\ [Next]_vars => ClockInv' /\ RetentionInv'
  BY NextClock, NextRetention
<1>2. IInv /\ RetentionInv => (steps = 0 => RetainedIsCounted)
  <2> SUFFICES ASSUME IInv, RetentionInv, steps = 0, NEW u \in imported, Inside(u)
               PROVE  counted[u] = 1
    BY DEF RetainedIsCounted
  <2> HIDE DEF Unix, Cutoff
  <2>1. now \in Times /\ Unix(now) \in Times /\ u \in Units
    BY TimeAssumption DEF IInv, TypeOK, SpoolTypeOK, ImportTypeOK
  <2>2. row[u].start \in Int
    <3>1. row[u] \in RowKeys \cup {NoRow}
      BY <2>1 DEF IInv, TypeOK, SpoolTypeOK
    <3>2. \A k \in RowKeys \cup {NoRow} : k.start \in Int
      BY DEF RowKeys, NoRow, Times
    <3> QED BY <3>1, <3>2
  <2>3. \A t \in Times : Cutoff(t) \in Int
    BY TimeAssumption DEF Times
  <2>4. ~Expired(u)
    <3> SUFFICES ASSUME NEW t \in Times, t <= Unix(now) PROVE ~(row[u].start < Cutoff(t))
      BY DEF Expired
    <3>1. Cutoff(t) <= Cutoff(Unix(now))
      BY <2>1 DEF CutoffMonotone
    <3> QED BY <2>1, <2>2, <2>3, <3>1
  <2> QED BY <2>4 DEF RetentionInv
<1> QED BY InitClock, InitRetention, <1>1, <1>2, Invariance, PTL DEF Spec

-----------------------------------------------------------------------------
(***************************************************************************)
(* The size of the spool.  Without a fault the only batch whose name is not*)
(* on disk is the one being fsynced, so that a power loss brings back at   *)
(* most one more than the directory limit left room for.                   *)
(***************************************************************************)
SpoolInv ==
  /\ IsFiniteSet(spool) /\ IsFiniteSet(synced)
  /\ flush = "rename" => Cardinality(spool) + 2 <= MaxEntries
  /\ faults = 0 =>
       /\ Cardinality(spool) < MaxEntries /\ Cardinality(synced) < MaxEntries
       /\ \A b \in spool : b \in synced \/ Renamed(b)
  /\ faults <= 1 => Cardinality(spool) <= MaxEntries

\* A step that brings no batch to the directory.
LEMMA SpoolFrame ==
  ASSUME SpoolInv, faults \in Nat, spool' \subseteq spool, synced' \in {synced, spool},
         faults' \in {faults, faults + 1},
         \/ UNCHANGED <<flush, batch>>
         \/ flush' = "idle" /\ (flush = "idle" \/ faults' = faults + 1 \/ synced' = spool)
  PROVE  SpoolInv'
<1>1. /\ IsFiniteSet(spool') /\ Cardinality(spool') <= Cardinality(spool)
      /\ Cardinality(spool) \in Nat /\ Cardinality(spool') \in Nat
      /\ IsFiniteSet(synced') /\ Cardinality(synced') \in Nat
  BY FS_Subset, FS_CardinalityType DEF SpoolInv
<1>2. MaxEntries \in Nat
  BY SpoolAssumption
<1>3. flush' = "rename" => Cardinality(spool') + 2 <= MaxEntries
  BY <1>1, <1>2 DEF SpoolInv
<1>4. faults' <= 1 => Cardinality(spool') <= MaxEntries
  BY <1>1, <1>2 DEF SpoolInv
<1>5. ASSUME faults' = 0
      PROVE  /\ Cardinality(spool') < MaxEntries /\ Cardinality(synced') < MaxEntries
             /\ \A b \in spool' : b \in synced' \/ Renamed(b)'
  <2>1. faults = 0
    BY <1>5
  <2>2. Cardinality(spool') < MaxEntries /\ Cardinality(synced') < MaxEntries
    BY <1>1, <1>2, <2>1 DEF SpoolInv
  <2>3. \A b \in spool' : b \in synced' \/ Renamed(b)'
    BY <1>5, <2>1 DEF SpoolInv, Renamed
  <2> QED BY <2>2, <2>3
<1> QED BY <1>1, <1>3, <1>4, <1>5 DEF SpoolInv

\* A set grows by at most one when an element is added.
LEMMA OneMore ==
  ASSUME NEW S, NEW x, IsFiniteSet(S)
  PROVE  /\ IsFiniteSet(S \cup {x}) /\ Cardinality(S \cup {x}) \in Nat
         /\ Cardinality(S) \in Nat /\ Cardinality(S \cup {x}) <= Cardinality(S) + 1
<1>1. IsFiniteSet(S \cup {x}) /\ Cardinality(S) \in Nat
  BY FS_AddElement, FS_CardinalityType
<1>2. Cardinality(S \cup {x}) = IF x \in S THEN Cardinality(S) ELSE Cardinality(S) + 1
  BY FS_AddElement
<1> QED BY <1>1, <1>2

LEMMA NextSpool ==
  ASSUME IInv, MarkerInv, SpoolInv, [Next]_vars PROVE SpoolInv'
<1>f. /\ faults \in Nat /\ MaxEntries \in Nat /\ FlushInv
      /\ Cardinality(spool) \in Nat /\ Cardinality(synced) \in Nat
  BY SpoolAssumption, FS_CardinalityType DEF IInv, TypeOK, SpoolTypeOK, SpoolInv
<1>1. CASE Engine
  <2> USE DEF spoolVars, clockVars
  <2>1. CASE StartMark \/ StartSync \/ Add \/ Stop
    <3>1. /\ UNCHANGED <<flush, batch, spool, faults>> /\ synced' \in {synced, spool}
      BY <2>1 DEF StartMark, StartSync, Add, Stop, SyncDirectory
    <3> QED BY <1>f, <3>1, SpoolFrame
  <2>2. CASE FlushWrite
    <3>1. /\ flush = "idle" /\ flush' = "rename" /\ UNCHANGED <<spool, synced, faults>>
          /\ Entries <= MaxEntries /\ Flushing
      BY <2>2, <1>f DEF FlushWrite, FlushRefused, Entries
    <3>2. Cardinality(spool) + 2 <= MaxEntries
      BY <1>f, <3>1 DEF Entries, MarkerInv, Flushing
    <3> QED BY <1>f, <3>1, <3>2 DEF SpoolInv, Renamed
  <2>3. CASE FlushRename
    <3>1. /\ flush = "rename" /\ flush' = "dirsync" /\ batch' = batch
          /\ UNCHANGED <<synced, faults>> /\ spool' \subseteq spool \cup {batch}
      BY <2>3 DEF FlushRename
    <3>2. /\ IsFiniteSet(spool \cup {batch}) /\ Cardinality(spool \cup {batch}) <= Cardinality(spool) + 1
      BY OneMore DEF SpoolInv
    <3>3. /\ IsFiniteSet(spool') /\ Cardinality(spool') <= Cardinality(spool) + 1
          /\ Cardinality(spool') \in Nat
      <4>1. Cardinality(spool \cup {batch}) \in Nat
        BY <3>2, FS_CardinalityType
      <4>2. IsFiniteSet(spool') /\ Cardinality(spool') <= Cardinality(spool \cup {batch})
        BY <3>1, <3>2, FS_Subset
      <4> QED BY <1>f, <3>2, <4>1, <4>2, FS_CardinalityType
    <3>4. Cardinality(spool') < MaxEntries
      BY <1>f, <3>1, <3>3 DEF SpoolInv
    <3> QED BY <1>f, <3>1, <3>3, <3>4 DEF SpoolInv, Renamed
  <2>4. CASE FlushSync
    <3>1. flush' = "idle" /\ synced' = spool /\ UNCHANGED <<spool, faults>>
      BY <2>4 DEF FlushSync, SyncDirectory
    <3> QED BY <1>f, <3>1, SpoolFrame
  <2>5. CASE FlushRefuse
    <3>1. flush = "idle" /\ flush' = "idle" /\ UNCHANGED <<spool, synced, faults>>
      BY <2>5 DEF FlushRefuse, FlushAbandoned, ProcessGone
    <3> QED BY <1>f, <3>1, SpoolFrame
  <2>6. CASE FlushError \/ EngineKill
    <3>1. flush' = "idle" /\ faults' = faults + 1 /\ UNCHANGED <<spool, synced>>
      BY <2>6 DEF FlushError, EngineKill, FlushAbandoned, ProcessGone, Fault
    <3> QED BY <1>f, <3>1, SpoolFrame
  <2>7. CASE Exit
    <3>1. phase = "closing" /\ flush' = "idle" /\ UNCHANGED <<spool, synced, faults>>
      BY <2>7 DEF Exit, ProcessGone
    <3>2. flush = "idle"
      BY <1>f, <3>1 DEF FlushInv, Flushing
    <3> QED BY <1>f, <3>1, <3>2, SpoolFrame
  <2>8. ASSUME NEW d \in Domains, Pass(d) PROVE SpoolInv'
    <3>1. UNCHANGED <<flush, batch, spool, synced, faults>>
      BY <2>8 DEF Pass
    <3> QED BY <1>f, <3>1, SpoolFrame
  <2> QED BY <1>1, <2>1, <2>2, <2>3, <2>4, <2>5, <2>6, <2>7, <2>8 DEF Engine, JournalNext
<1>2. CASE Collector
  <2> USE DEF spoolVars, clockVars
  <2>1. /\ UNCHANGED <<flush, batch>> /\ spool' \subseteq spool /\ synced' \in {synced, spool}
    BY <1>2 DEF Collector, journalVars, ImportNext, CollectorStart, ScanBegin, ScanEnd, Import,
       ImportRefused, Unlink, DrainEnd, DrainError, CollectorKill, DrainRaises, SyncDirectory
  <2>2. faults' \in {faults, faults + 1}
    BY <1>2 DEF Collector, ImportNext, CollectorStart, ScanBegin, ScanEnd, Import,
       ImportRefused, Unlink, DrainEnd, DrainError, CollectorKill, Fault
  <2> QED BY <1>f, <2>1, <2>2, SpoolFrame
<1>3. CASE Clock \/ UNCHANGED vars
  <2>1. UNCHANGED <<flush, batch, spool, synced, faults>>
    BY <1>3 DEF Clock, Tick, StepBack, vars, journalVars, spoolVars
  <2> QED BY <1>f, <2>1, SpoolFrame
<1>4. CASE HostCrash
  <2>1. /\ OnDisk' \subseteq OnDisk /\ synced' = spool' /\ faults' = faults + 1 /\ flush' = "idle"
    BY <1>4, CrashShrinks DEF HostCrash, CrashDirectory, Fault, ProcessGone
  <2>2. IsFiniteSet(OnDisk) /\ Cardinality(OnDisk) \in Nat
    BY FS_Union, FS_CardinalityType DEF OnDisk, SpoolInv
  <2>3. /\ IsFiniteSet(spool') /\ Cardinality(spool') \in Nat
        /\ Cardinality(spool') <= Cardinality(OnDisk)
    <3>1. spool' \subseteq OnDisk
      BY <2>1 DEF OnDisk
    <3> HIDE DEF OnDisk
    <3> QED BY <2>2, <3>1, FS_Subset, FS_CardinalityType
  <2>4. faults' <= 1 => Cardinality(OnDisk) <= MaxEntries
    <3> SUFFICES ASSUME faults = 0 PROVE Cardinality(OnDisk) <= MaxEntries
      BY <1>f, <2>1
    <3>1. OnDisk \subseteq synced \cup {batch}
      BY DEF SpoolInv, OnDisk, Renamed
    <3>2. /\ IsFiniteSet(synced \cup {batch})
          /\ Cardinality(synced \cup {batch}) <= Cardinality(synced) + 1
      BY OneMore DEF SpoolInv
    <3>3. Cardinality(synced) < MaxEntries
      BY DEF SpoolInv
    <3>4. Cardinality(synced \cup {batch}) \in Nat
      BY <3>2, FS_CardinalityType
    <3> HIDE DEF OnDisk
    <3>5. Cardinality(OnDisk) <= Cardinality(synced \cup {batch})
      BY <3>1, <3>2, FS_Subset
    <3> QED BY <1>f, <2>2, <3>2, <3>3, <3>4, <3>5
  <2> QED BY <1>f, <2>1, <2>2, <2>3, <2>4 DEF SpoolInv
<1> QED BY <1>1, <1>2, <1>3, <1>4 DEF Next

LEMMA InitSpool == ASSUME MaxEntries # 0 PROVE Init => SpoolInv
<1> SUFFICES ASSUME Init PROVE SpoolInv
  OBVIOUS
<1>1. spool = {} /\ synced = {} /\ flush = "idle"
  BY DEF Init, SpoolInit, JournalInit
<1>2. IsFiniteSet({}) /\ Cardinality({}) = 0
  BY FS_EmptySet
<1>3. MaxEntries \in Nat
  BY SpoolAssumption
<1> QED BY <1>1, <1>2, <1>3 DEF SpoolInv

(***************************************************************************)
(* Where the engine's directory limit is at most what one drain accepts    *)
(* (both are 10000), the spool never exceeds what a drain accepts, also    *)
(* after one host crash that brings unlinked batches back.                 *)
(***************************************************************************)
THEOREM DrainAcceptsTheSpool ==
  ASSUME MaxEntries # 0, MaxEntries <= DrainLimit PROVE Spec => []SpoolWithinDrainLimit
<1>1. IInv /\ MarkerInv /\ SpoolInv /\ [Next]_vars => MarkerInv' /\ SpoolInv'
  BY NextMarker, NextSpool
<1>2. IInv /\ SpoolInv => SpoolWithinDrainLimit
  <2>1. MaxEntries \in Nat /\ DrainLimit \in Nat
    BY SpoolAssumption, ImportAssumption
  <2>2. SpoolInv => Cardinality(spool) \in Nat
    BY FS_CardinalityType DEF SpoolInv
  <2> QED BY <2>1, <2>2 DEF SpoolInv, SpoolWithinDrainLimit
<1> QED BY InitTail, InitSpool, <1>1, <1>2, Invariance, PTL DEF Spec

-----------------------------------------------------------------------------
(***************************************************************************)
(* Rows.  Every row of a batch is in a bucket of its interval, and all but *)
(* the [domain-limit] rows are at most MaxRows.                            *)
(***************************************************************************)
Spanned(lo, hi) == {BucketStart(t) : t \in lo .. hi}
Named(U) == {k \in {row[u] : u \in U} : k.domain # DomainLimit}

RowsInv ==
  /\ flush # "idle" => batch.to = Unix(batch.emitted)
  /\ \A b \in OnDisk : b.to = Unix(b.emitted)
  /\ Cardinality(Named(rows)) <= MaxRows
  /\ \A b \in OnDisk : Cardinality(Named(b.rows)) <= MaxRows
  /\ steps = 0 =>
       /\ \A u \in rows : row[u].start \in Spanned(from, Unix(now))
       /\ flush # "idle" => \A u \in batch.rows : row[u].start \in Spanned(batch.from, batch.to)
       /\ \A b \in OnDisk : \A u \in b.rows : row[u].start \in Spanned(b.from, b.to)

LEMMA FiniteImage ==
  ASSUME NEW S, IsFiniteSet(S), NEW f
  PROVE  /\ IsFiniteSet({f[x] : x \in S}) /\ Cardinality({f[x] : x \in S}) \in Nat
         /\ Cardinality({f[x] : x \in S}) <= Cardinality(S)
<1> DEFINE T == {f[x] : x \in S}
           g == [x \in S |-> f[x]]
<1>1. g \in Surjection(S, T)
  BY DEF Surjection
<1> HIDE DEF g, T
<1>2. IsFiniteSet(T) /\ Cardinality(T) <= Cardinality(S)
  BY <1>1, FS_Surjection
<1> QED BY <1>2, FS_CardinalityType DEF T

\* The rows of a set of units, the limit rows among them and the others.
LEMMA RowSets ==
  ASSUME NEW U \in SUBSET Units
  PROVE  /\ IsFiniteSet({row[u] : u \in U}) /\ Cardinality({row[u] : u \in U}) \in Nat
         /\ IsFiniteSet(Named(U)) /\ Cardinality(Named(U)) \in Nat
         /\ Cardinality(Named(U)) <= Cardinality({row[u] : u \in U})
<1>1. IsFiniteSet(U)
  <2>1. IsFiniteSet(Units)
    BY FS_Interval, SpoolAssumption DEF Units
  <2> QED BY <2>1, FS_Subset
<1>2. IsFiniteSet({row[u] : u \in U}) /\ Cardinality({row[u] : u \in U}) \in Nat
  BY <1>1, FiniteImage
<1>3. Named(U) \subseteq {row[u] : u \in U}
  BY DEF Named
<1> HIDE DEF Named
<1> QED BY <1>2, <1>3, FS_Subset, FS_CardinalityType

\* A step that adds no row and brings no batch to the disk.
LEMMA RowsFrame ==
  ASSUME IInv, ClockInv, RowsInv, [Next]_vars, row' = row, OnDisk' \subseteq OnDisk,
         rows' = {} \/ UNCHANGED <<rows, from>>,
         flush' = "idle" \/ UNCHANGED <<flush, batch>>
  PROVE  RowsInv'
<1> HIDE DEF Unix, BucketStart
<1>1. Cardinality(Named(rows)') <= MaxRows
  <2>1. CASE rows' = {}
    <3>1. Named(rows)' = {}
      BY <2>1 DEF Named
    <3> QED BY <3>1, FS_EmptySet, JournalAssumption
  <2>2. CASE UNCHANGED <<rows, from>>
    <3>1. Named(rows)' = Named(rows)
      BY <2>2 DEF Named
    <3> QED BY <3>1 DEF RowsInv
  <2> QED BY <2>1, <2>2
<1>2. \A b \in OnDisk' : Cardinality(Named(b.rows)') <= MaxRows
  <2>1. \A b \in OnDisk : Named(b.rows)' = Named(b.rows)
    BY DEF Named
  <2> QED BY <2>1 DEF RowsInv
<1>3. ASSUME steps' = 0
      PROVE  /\ \A u \in rows' : row'[u].start \in Spanned(from', Unix(now'))
             /\ flush' # "idle" =>
                  \A u \in batch'.rows : row'[u].start \in Spanned(batch'.from, batch'.to)
             /\ \A b \in OnDisk' : \A u \in b.rows : row'[u].start \in Spanned(b.from, b.to)
  <2>1. steps = 0 /\ Unix(now) \in Nat /\ Unix(now') \in Nat /\ Unix(now) <= Unix(now')
    BY <1>3, ClockForward DEF Times
  <2>2. from .. Unix(now) \subseteq from .. Unix(now')
    BY <2>1, IntervalTypes
  <2>3. Spanned(from, Unix(now)) \subseteq Spanned(from, Unix(now'))
    BY <2>2 DEF Spanned
  <2> HIDE DEF Spanned
  <2> QED BY <2>1, <2>3 DEF RowsInv
<1>4. flush' # "idle" => batch'.to = Unix(batch'.emitted)
  BY DEF RowsInv
<1>5. \A b \in OnDisk' : b.to = Unix(b.emitted)
  BY DEF RowsInv
<1> HIDE DEF Spanned, Named
<1> QED BY <1>1, <1>2, <1>3, <1>4, <1>5 DEF RowsInv, Spanned, Named, Unix, BucketStart

\* add() puts the unit in a bucket of the interval, and in a row of its own
\* domain only while there is room.
LEMMA AddRows ==
  ASSUME IInv, ClockInv, RowsInv, Add PROVE RowsInv'
<1> HIDE DEF Unix, BucketStart
<1> DEFINE new == RowFor(relay)
           at  == IF relay.at < from THEN from ELSE relay.at
           key == [start |-> BucketStart(at), domain |-> relay.domain]
<1>1. /\ relay # NoSample /\ flush = "idle" /\ flush' = "idle"
      /\ rows' = rows \cup {relay.unit} /\ row' = [row EXCEPT ![relay.unit] = new]
      /\ UNCHANGED <<from, now, steps, spool, synced, batch>>
  BY DEF Add, spoolVars, clockVars
<1>2. /\ relay.unit \in Units /\ relay.domain \in Domains /\ rows \subseteq Units
      /\ row \in [Units -> RowKeys \cup {NoRow}] /\ from \in Nat /\ relay.at \in Nat
  BY <1>1, IntervalTypes DEF IInv, TypeOK, SpoolTypeOK, JournalTypeOK
<1>3. relay.unit \notin rows /\ \A b \in OnDisk : relay.unit \notin b.rows /\ b.rows \subseteq Units
  BY DiskTypes DEF IInv, PassedInv, Batches
<1>4. OnDisk' = OnDisk
  BY <1>1 DEF OnDisk
<1> HIDE DEF new
<1>5. /\ row'[relay.unit] = new
      /\ \A u \in Units : u # relay.unit => row'[u] = row[u]
  BY <1>1, <1>2
<1> HIDE DEF at
<1>6. \/ new = key /\ (key \in RowsInMemory \/ Cardinality(RowsInMemory) < MaxRows)
      \/ new = [start |-> BucketStart(at), domain |-> DomainLimit]
  <2>1. [key EXCEPT !.domain = DomainLimit] = [start |-> BucketStart(at), domain |-> DomainLimit]
    OBVIOUS
  <2>2. Cardinality(RowsInMemory) \in Nat /\ MaxRows \in Nat
    BY <1>2, RowSets, JournalAssumption DEF RowsInMemory
  <2>3. new = IF key \notin RowsInMemory /\ Cardinality(RowsInMemory) >= MaxRows
              THEN [key EXCEPT !.domain = DomainLimit] ELSE key
    BY DEF new, RowFor, at
  <2> QED BY <2>1, <2>2, <2>3
<1>7. {row'[u] : u \in rows'} = RowsInMemory \cup {new}
  BY <1>1, <1>2, <1>3, <1>5 DEF RowsInMemory
<1>8. Cardinality(Named(rows)') <= MaxRows
  <2>1. Named(rows)' = {k \in RowsInMemory \cup {new} : k.domain # DomainLimit}
    BY <1>7 DEF Named
  <2>2. Named(rows) = {k \in RowsInMemory : k.domain # DomainLimit}
    BY DEF Named, RowsInMemory
  <2>3. CASE new \in RowsInMemory \/ new.domain = DomainLimit
    <3>1. Named(rows)' = Named(rows)
      BY <2>1, <2>2, <2>3
    <3> QED BY <3>1 DEF RowsInv
  <2>4. CASE Cardinality(RowsInMemory) < MaxRows
    <3>1. /\ Cardinality(RowsInMemory) \in Nat /\ IsFiniteSet(RowsInMemory)
          /\ MaxRows \in Nat
      BY <1>2, RowSets, JournalAssumption DEF RowsInMemory
    <3>2. /\ IsFiniteSet(RowsInMemory \cup {new})
          /\ Cardinality(RowsInMemory \cup {new}) <= Cardinality(RowsInMemory) + 1
          /\ Cardinality(RowsInMemory \cup {new}) \in Nat
      BY <3>1, OneMore
    <3>3. Named(rows)' \subseteq RowsInMemory \cup {new}
      BY <2>1
    <3> HIDE DEF Named
    <3>4. Cardinality(Named(rows)') <= Cardinality(RowsInMemory \cup {new})
          /\ Cardinality(Named(rows)') \in Nat
      BY <3>2, <3>3, FS_Subset, FS_CardinalityType
    <3> QED BY <2>4, <3>1, <3>2, <3>4
  <2> QED BY <1>6, <2>3, <2>4
<1>9. \A b \in OnDisk' : Cardinality(Named(b.rows)') <= MaxRows
  <2>1. \A b \in OnDisk : Named(b.rows)' = Named(b.rows)
    BY <1>3, <1>5 DEF Named
  <2> QED BY <1>4, <2>1 DEF RowsInv
<1>10. ASSUME steps' = 0
       PROVE  /\ \A u \in rows' : row'[u].start \in Spanned(from, Unix(now))
              /\ \A b \in OnDisk' : \A u \in b.rows : row'[u].start \in Spanned(b.from, b.to)
  <2>1. steps = 0 /\ Unix(now) \in Nat /\ from <= Unix(now) /\ relay.at <= Unix(now)
    BY <1>1, <1>10, TimeAssumption DEF ClockInv, Intervals, IInv, TypeOK, SpoolTypeOK, Times
  <2>2. at \in from .. Unix(now)
    BY <1>2, <2>1 DEF at
  <2>3. new.start = BucketStart(at)
    BY <1>6
  <2>4. new.start \in Spanned(from, Unix(now))
    BY <2>2, <2>3 DEF Spanned
  <2>5. \A u \in rows : row[u].start \in Spanned(from, Unix(now))
    BY <2>1 DEF RowsInv
  <2>6. \A b \in OnDisk : \A u \in b.rows : row[u].start \in Spanned(b.from, b.to)
    BY <2>1 DEF RowsInv
  <2> HIDE DEF Spanned
  <2> QED BY <1>1, <1>2, <1>3, <1>4, <1>5, <2>4, <2>5, <2>6
<1>11. \A b \in OnDisk' : b.to = Unix(b.emitted)
  BY <1>4 DEF RowsInv
<1>12. Spanned(from, Unix(now))' = Spanned(from, Unix(now))
       /\ \A b \in OnDisk : Spanned(b.from, b.to)' = Spanned(b.from, b.to)
  BY <1>1 DEF Spanned, Unix, BucketStart
<1> HIDE DEF Spanned, Named
<1>13. RowsInv'
  BY <1>1, <1>4, <1>8, <1>9, <1>10, <1>11, <1>12 DEF RowsInv, Unix
<1> QED BY <1>13

LEMMA NextRows ==
  ASSUME IInv, ClockInv, RowsInv, [Next]_vars PROVE RowsInv'
<1> HIDE DEF Unix, BucketStart
<1>f. FlushInv
  BY DEF IInv
<1>1. CASE Add
  BY <1>1, AddRows
<1>2. CASE FlushWrite
  <2>1. /\ UNCHANGED <<from, rows, row, now, steps, spool, synced>>
        /\ flush' = "rename" /\ batch' = NextBatch
    BY <1>2 DEF FlushWrite, clockVars
  <2>2. OnDisk' = OnDisk
    BY <2>1 DEF OnDisk
  <2>3. batch'.to = Unix(now) /\ batch'.emitted = now /\ batch'.from = from /\ batch'.rows = rows
    BY <2>1 DEF NextBatch
  <2>4. Named(rows)' = Named(rows) /\ \A b \in OnDisk : Named(b.rows)' = Named(b.rows)
    BY <2>1 DEF Named
  <2>5. Spanned(from, Unix(now))' = Spanned(from, Unix(now))
        /\ \A b \in OnDisk : Spanned(b.from, b.to)' = Spanned(b.from, b.to)
        /\ Spanned(batch.from, batch.to)' = Spanned(batch'.from, batch'.to)
    BY <2>1 DEF Spanned, Unix, BucketStart
  <2> HIDE DEF Spanned, Named
  <2> QED BY <2>1, <2>2, <2>3, <2>4, <2>5 DEF RowsInv, Unix
<1>3. CASE FlushRename
  <2>1. /\ UNCHANGED <<from, rows, row, now, steps, batch>> /\ flush = "rename"
        /\ OnDisk' \subseteq OnDisk \cup {batch}
    BY <1>3 DEF FlushRename, clockVars, OnDisk
  <2>2. batch.rows = rows
    BY <1>f, <2>1 DEF FlushInv
  <2>3. \A U : Named(U)' = Named(U)
    BY <2>1 DEF Named
  <2>4. Spanned(from, Unix(now))' = Spanned(from, Unix(now))
        /\ \A b \in OnDisk' : Spanned(b.from, b.to)' = Spanned(b.from, b.to)
        /\ Spanned(batch.from, batch.to)' = Spanned(batch.from, batch.to)
    BY <2>1 DEF Spanned, Unix, BucketStart
  <2>5. Named(rows)' = Named(rows) /\ \A b \in OnDisk' : Named(b.rows)' = Named(b.rows)
    BY <2>1 DEF Named
  <2>6. \A b \in OnDisk' : b \in OnDisk \/ b = batch
    BY <2>1
  <2>7. /\ \A b \in OnDisk' : b.to = Unix(b.emitted)
        /\ \A b \in OnDisk' : Cardinality(Named(b.rows)) <= MaxRows
    BY <2>1, <2>2, <2>6 DEF RowsInv
  <2>8. steps = 0 => \A b \in OnDisk' : \A u \in b.rows : row[u].start \in Spanned(b.from, b.to)
    BY <2>1, <2>6 DEF RowsInv
  <2> HIDE DEF Spanned, Named
  <2> QED BY <2>1, <2>4, <2>5, <2>7, <2>8 DEF RowsInv, Unix
<1>4. CASE ~(Add \/ FlushWrite \/ FlushRename)
  <2>1. row' = row /\ OnDisk' \subseteq OnDisk
    BY <1>4, OnlyAddSetsRows, NewOnDisk
  <2>2. /\ rows' = {} \/ UNCHANGED <<rows, from>>
        /\ flush' = "idle" \/ UNCHANGED <<flush, batch>>
    <3>1. CASE StartMark
      BY <1>f, <3>1 DEF StartMark, FlushInv
    <3>2. CASE StartSync \/ Stop \/ FlushSync \/ Exit \/ EngineKill
      BY <3>2 DEF StartSync, Stop, FlushSync, Exit, EngineKill, ProcessGone
    <3>3. CASE FlushRefuse \/ FlushError
      BY <3>3 DEF FlushRefuse, FlushError, FlushAbandoned, ProcessGone
    <3>4. ASSUME NEW d \in Domains, Pass(d)
          PROVE  UNCHANGED <<rows, from, flush, batch>>
      BY <3>4 DEF Pass
    <3>5. CASE Collector \/ Clock \/ UNCHANGED vars
      BY <3>5 DEF Collector, Clock, vars, journalVars
    <3>6. CASE HostCrash
      BY <3>6 DEF HostCrash, ProcessGone
    <3> QED BY <1>4, <3>1, <3>2, <3>3, <3>4, <3>5, <3>6 DEF Next, Engine, JournalNext
  <2> QED BY <2>1, <2>2, RowsFrame
<1> QED BY <1>1, <1>2, <1>3, <1>4

LEMMA InitRows == Init => RowsInv
<1> SUFFICES ASSUME Init PROVE RowsInv
  OBVIOUS
<1>1. rows = {} /\ spool = {} /\ synced = {} /\ flush = "idle"
  BY DEF Init, SpoolInit, JournalInit
<1>2. Named({}) = {}
  BY DEF Named
<1> QED BY <1>1, <1>2, FS_EmptySet, JournalAssumption DEF RowsInv, OnDisk

\* The rows of a batch: the named ones, and a limit row for each bucket.
LEMMA RowBound ==
  ASSUME IInv, RowsInv, steps = 0, NEW b \in OnDisk
  PROVE  /\ Cardinality(RowKeysOf(b)) \in Nat
         /\ Cardinality(Spanned(b.from, b.to)) \in Nat
         /\ Cardinality(RowKeysOf(b)) <= MaxRows + Cardinality(Spanned(b.from, b.to))
<1> HIDE DEF BucketStart
<1> DEFINE f == [x \in Spanned(b.from, b.to) |-> [start |-> x, domain |-> DomainLimit]]
           limits == {f[x] : x \in Spanned(b.from, b.to)}
           bucket == [t \in b.from .. b.to |-> BucketStart(t)]
<1>1. b \in Batches /\ b.rows \in SUBSET Units /\ b.from \in Int /\ b.to \in Int
  BY IntervalTypes DEF Batches
<1>2. IsFiniteSet(Spanned(b.from, b.to)) /\ Cardinality(Spanned(b.from, b.to)) \in Nat
  <2>1. IsFiniteSet(b.from .. b.to)
    BY <1>1, FS_Interval
  <2> HIDE DEF bucket
  <2>2. IsFiniteSet({bucket[t] : t \in b.from .. b.to})
    BY <2>1, FiniteImage
  <2>3. {bucket[t] : t \in b.from .. b.to} = Spanned(b.from, b.to)
    BY DEF bucket, Spanned
  <2> QED BY <2>2, <2>3, FS_CardinalityType
<1> HIDE DEF f
<1>3. /\ IsFiniteSet(limits) /\ Cardinality(limits) \in Nat
      /\ Cardinality(limits) <= Cardinality(Spanned(b.from, b.to))
  BY <1>2, FiniteImage
<1>4. /\ IsFiniteSet(Named(b.rows)) /\ Cardinality(Named(b.rows)) \in Nat
      /\ Cardinality(Named(b.rows)) <= MaxRows /\ MaxRows \in Nat
  BY <1>1, RowSets, JournalAssumption DEF RowsInv
<1>5. RowKeysOf(b) \subseteq Named(b.rows) \cup limits
  <2> SUFFICES ASSUME NEW u \in b.rows, row[u].domain = DomainLimit PROVE row[u] \in limits
    BY DEF RowKeysOf, Named
  <2>1. row[u] \in [start: Times, domain: Domains \cup {DomainLimit}] \cup {NoRow}
    BY <1>1 DEF IInv, TypeOK, SpoolTypeOK, RowKeys
  <2>2. row[u] = [start |-> row[u].start, domain |-> DomainLimit]
    BY <2>1 DEF NoRow
  <2>3. row[u].start \in Spanned(b.from, b.to)
    BY DEF RowsInv
  <2>4. f[row[u].start] = [start |-> row[u].start, domain |-> DomainLimit]
    BY <2>3 DEF f
  <2> QED BY <2>2, <2>3, <2>4
<1> HIDE DEF limits, Named, Spanned, RowKeysOf
<1>6. IsFiniteSet(Named(b.rows) \cup limits) /\ Cardinality(Named(b.rows) \cup limits) \in Nat
      /\ Cardinality(Named(b.rows) \cup limits) <= Cardinality(Named(b.rows)) + Cardinality(limits)
  <2>1. IsFiniteSet(Named(b.rows) \cup limits)
    BY <1>3, <1>4, FS_Union
  <2>2. Cardinality(Named(b.rows) \cup limits) =
          Cardinality(Named(b.rows)) + Cardinality(limits) - Cardinality(Named(b.rows) \cap limits)
    BY <1>3, <1>4, FS_Union
  <2>3. Cardinality(Named(b.rows) \cap limits) \in Nat
    <3>1. Named(b.rows) \cap limits \subseteq limits
      OBVIOUS
    <3> QED BY <1>3, <3>1, FS_Subset, FS_CardinalityType
  <2>4. Cardinality(Named(b.rows) \cup limits) \in Nat
    BY <2>1, FS_CardinalityType
  <2> QED BY <1>3, <1>4, <2>1, <2>2, <2>3, <2>4
<1>7. Cardinality(RowKeysOf(b)) <= Cardinality(Named(b.rows) \cup limits)
      /\ Cardinality(RowKeysOf(b)) \in Nat
  BY <1>5, <1>6, FS_Subset, FS_CardinalityType
<1> QED BY <1>2, <1>3, <1>4, <1>6, <1>7

\* A second contains the ticks from its first one on.
LEMMA UnixBounds ==
  ASSUME NEW e \in Times
  PROVE  Unix(e) * TicksPerSecond <= e /\ e < (Unix(e) + 2) * TicksPerSecond
<1>1. e \in Nat /\ TicksPerSecond \in Nat /\ TicksPerSecond > 0
  BY TimeAssumption DEF Times
<1> DEFINE q == e \div TicksPerSecond
           r == e % TicksPerSecond
<1>2. /\ q \in Nat /\ r \in Nat /\ r < TicksPerSecond
      /\ e = TicksPerSecond * q + r
  BY <1>1
<1> HIDE DEF q, r
<1>3. q * TicksPerSecond = TicksPerSecond * q
  BY <1>1, <1>2
<1>4. (q + 2) * TicksPerSecond = TicksPerSecond * q + 2 * TicksPerSecond
  BY <1>1, <1>2
<1>5. TicksPerSecond * q \in Nat
  BY <1>1, <1>2
<1>6. q * TicksPerSecond <= e /\ e < (q + 2) * TicksPerSecond
  BY <1>1, <1>2, <1>3, <1>4, <1>5
<1> QED BY <1>6 DEF Unix, q

LEMMA BatchIsValid ==
  ASSUME IInv, ClockInv, RowsInv, steps = 0, NEW b \in OnDisk,
         Cardinality(RowKeysOf(b)) <= MaxBatchRows
  PROVE  ValidBatch(b)
<1> HIDE DEF Unix, BucketStart
<1>1. /\ b \in Batches /\ b.emitted \in Times /\ b.to \in Times /\ b.from \in Times
      /\ b.data = "synced" /\ b.to = Unix(b.emitted)
  BY IntervalTypes DEF Batches, IInv, DiskInv, RowsInv
<1>2. b.to * TicksPerSecond <= b.emitted /\ b.emitted < (b.to + 2) * TicksPerSecond
  BY <1>1, UnixBounds
<1>3. b.from <= b.to /\ b.to <= Unix(now) + FutureSlack
  <2>1. b.from <= b.to /\ b.to <= Unix(now)
    BY DEF ClockInv, Intervals
  <2>2. Unix(now) \in Nat /\ FutureSlack \in Nat /\ b.to \in Nat
    BY <1>1, ImportAssumption, TimeAssumption DEF IInv, TypeOK, SpoolTypeOK, Times
  <2> QED BY <2>1, <2>2
<1>4. ASSUME NEW k \in RowKeysOf(b)
      PROVE  BucketStart(b.from) <= k.start /\ k.start <= BucketStart(b.to)
  <2>1. k.start \in Spanned(b.from, b.to)
    BY DEF RowsInv, RowKeysOf
  <2>2. PICK t \in b.from .. b.to : k.start = BucketStart(t)
    BY <2>1 DEF Spanned
  <2>3. t \in Times /\ b.from <= t /\ t <= b.to
    <3>1. b.from \in Nat /\ b.to \in Nat /\ b.to <= MaxClock /\ MaxClock \in Nat
      BY <1>1, TimeAssumption DEF Times
    <3> QED BY <2>2, <3>1 DEF Times
  <2> QED BY <1>1, <2>2, <2>3, BucketMonotone
<1> QED BY <1>1, <1>2, <1>3, <1>4 DEF ValidBatch

\* A batch's interval has few enough buckets for their limit rows.
SpansFew(b) == MaxRows + Cardinality(Spanned(b.from, b.to)) <= MaxBatchRows

(***************************************************************************)
(* While the clock does not go back, every batch in the spool is one that  *)
(* validate_batch accepts, as long as its interval has no more buckets than*)
(* the difference of the two row limits (10002 - 10000), and its rows are  *)
(* bounded whatever its interval.                                          *)
(***************************************************************************)
THEOREM WriterAndReaderAgree ==
  Spec => [](steps = 0 =>
              /\ RowsAreBounded
              /\ \A b \in spool : SpansFew(b) => ValidBatch(b))
<1>1. IInv /\ ClockInv /\ RowsInv /\ [Next]_vars => ClockInv' /\ RowsInv'
  BY NextClock, NextRows
<1>2. IInv /\ ClockInv /\ RowsInv /\ steps = 0 =>
        RowsAreBounded /\ \A b \in spool : SpansFew(b) => ValidBatch(b)
  <2> SUFFICES ASSUME IInv, ClockInv, RowsInv, steps = 0, NEW b \in spool
               PROVE  /\ Cardinality(RowKeysOf(b)) <= MaxRows + Cardinality(Spanned(b.from, b.to))
                      /\ SpansFew(b) => ValidBatch(b)
    BY DEF RowsAreBounded, Spanned
  <2>1. b \in OnDisk
    BY DEF OnDisk
  <2>2. /\ Cardinality(RowKeysOf(b)) \in Nat /\ Cardinality(Spanned(b.from, b.to)) \in Nat
        /\ Cardinality(RowKeysOf(b)) <= MaxRows + Cardinality(Spanned(b.from, b.to))
        /\ MaxRows \in Nat /\ MaxBatchRows \in Nat
    BY <2>1, RowBound, JournalAssumption, ImportAssumption
  <2>3. SpansFew(b) => Cardinality(RowKeysOf(b)) <= MaxBatchRows
    BY <2>2 DEF SpansFew
  <2> QED BY <2>1, <2>2, <2>3, BatchIsValid
<1> QED BY InitClock, InitRows, <1>1, <1>2, Invariance, PTL DEF Spec

(***************************************************************************)
(* The same as the property the run checks, for a clock that covers no more*)
(* buckets than that and does not go back.                                 *)
(***************************************************************************)
THEOREM EveryBatchIsImportable ==
  ASSUME \A s, t \in Times : MaxRows + Cardinality(Spanned(s, t)) <= MaxBatchRows
  PROVE  Spec => [](steps = 0 => BatchesAreImportable)
<1>1. TypeOK /\ (steps = 0 => RowsAreBounded /\ \A b \in spool : SpansFew(b) => ValidBatch(b))
        => (steps = 0 => BatchesAreImportable)
  <2>1. TypeOK => \A b \in spool : SpansFew(b)
    BY DEF TypeOK, SpoolTypeOK, Batches, SpansFew
  <2> QED BY <2>1 DEF BatchesAreImportable, BatchesAreValid
<1> QED BY <1>1, PipelineTypeOK, WriterAndReaderAgree, PTL

-----------------------------------------------------------------------------
(***************************************************************************)
(* Acknowledged means on disk: the journal drops a batch from its memory   *)
(* only after the directory fsync.                                         *)
(***************************************************************************)
AckInv == \A b \in spool : Acknowledged(b) => b \in synced

\* The batches that no crash takes away.
Safe == spool \cap synced

LEMMA NextAck ==
  ASSUME IInv, AckInv, [Next]_vars PROVE AckInv'
<1> USE DEF spoolVars, clockVars
<1>t. DiskInv /\ FlushInv /\ seq \in Nat /\ epoch \in Nat /\ \A b \in OnDisk : b.seq \in Nat
  BY DiskTypes DEF IInv
<1>1. CASE StartMark
  <2>1. epoch' = epoch + 1 /\ spool' = spool
    BY <1>1 DEF StartMark
  <2>2. \A b \in spool : b.epoch # epoch'
    <3>1. \A b \in spool : b.epoch \in Nat /\ b.epoch <= epoch
      BY <1>t, DiskTypes DEF IInv, DiskInv, OnDisk, Epochs
    <3> QED BY <1>t, <2>1, <3>1
  <2> QED BY <2>1, <2>2 DEF AckInv, Acknowledged
<1>2. CASE StartSync \/ FlushSync \/ DrainEnd
  BY <1>2 DEF StartSync, FlushSync, DrainEnd, SyncDirectory, AckInv
<1>3. CASE FlushRename
  <2>1. /\ UNCHANGED <<phase, epoch, seq, synced>> /\ spool' \subseteq spool \cup {batch}
        /\ batch.seq = seq + 1
    BY <1>3, <1>t DEF FlushRename, FlushInv
  <2>2. ~(batch.seq <= seq)
    BY <1>t, <2>1
  <2> QED BY <2>1, <2>2 DEF AckInv, Acknowledged
<1>4. CASE FlushRefuse \/ FlushError \/ Exit \/ EngineKill
  BY <1>4 DEF FlushRefuse, FlushError, Exit, EngineKill, FlushAbandoned, ProcessGone, AckInv,
     Acknowledged, Flushing
<1>5. CASE Add \/ FlushWrite \/ Stop \/ \E d \in Domains : Pass(d)
  BY <1>5 DEF Add, FlushWrite, Stop, Pass, AckInv, Acknowledged, Flushing
<1>6. CASE Collector /\ ~DrainEnd
  <2>1. UNCHANGED <<phase, epoch, seq, synced>> /\ spool' \subseteq spool
    BY <1>6 DEF Collector, journalVars, ImportNext, CollectorStart, ScanBegin, ScanEnd, Import,
       ImportRefused, Unlink, DrainError, CollectorKill, DrainRaises
  <2> QED BY <2>1 DEF AckInv, Acknowledged
<1>7. CASE Clock \/ UNCHANGED vars
  BY <1>7 DEF Clock, Tick, StepBack, vars, journalVars, AckInv, Acknowledged
<1>8. CASE HostCrash
  BY <1>8 DEF HostCrash, ProcessGone, AckInv, Acknowledged
<1> QED BY <1>1, <1>2, <1>3, <1>4, <1>5, <1>6, <1>7, <1>8 DEF Next, Engine, JournalNext

\* Only a batch the ledger knows leaves the disk.
LEMMA SafeStays ==
  ASSUME IInv, [Next]_vars, NEW b \in Safe, ~Known(b)
  PROVE  b \in Safe'
<1> USE DEF spoolVars, clockVars, Safe
<1>1. CASE FlushRename
  <2>1. /\ flush = "rename" /\ synced' = synced
        /\ spool' = {c \in spool : ~SameName(c, batch)} \cup {batch}
    BY <1>1 DEF FlushRename
  <2>2. ~SameName(b, batch)
    <3>1. b \in OnDisk /\ FlushInv /\ FreshInv
      BY DEF IInv, OnDisk
    <3>2. Writing /\ batch.epoch = epoch /\ batch.seq = seq + 1
      BY <2>1, <3>1 DEF FlushInv, Flushing, Writing
    <3>3. b.epoch = epoch => b.seq <= seq
      BY <2>1, <3>1, <3>2 DEF FreshInv, Renamed
    <3>4. b.seq \in Nat /\ seq \in Nat
      BY <3>1, DiskTypes DEF IInv
    <3> QED BY <3>2, <3>3, <3>4 DEF SameName
  <2> QED BY <2>1, <2>2
<1>2. CASE Unlink
  <2>1. spool' = spool \ {current} /\ synced' = synced /\ Known(current)
    BY <1>2 DEF Unlink, IInv, CollectorInv, Known
  <2> QED BY <2>1
<1>3. CASE HostCrash
  <2>1. PICK half \in SUBSET ((spool \ synced) \cup (synced \ spool)) :
          spool' = {AfterCrash(c) : c \in (spool \cap synced) \cup half}
    BY <1>3 DEF HostCrash, CrashDirectory
  <2>2. AfterCrash(b) = b
    BY DEF IInv, DiskInv, AfterCrash, OnDisk
  <2>3. b \in spool'
    BY <2>1, <2>2
  <2> QED BY <1>3, <2>3 DEF HostCrash, CrashDirectory
<1>4. CASE Engine /\ ~FlushRename
  BY <1>4 DEF Engine, JournalNext, StartMark, StartSync, Pass, Add, FlushRefuse, FlushWrite,
     FlushSync, FlushError, Stop, Exit, EngineKill, SyncDirectory
<1>5. CASE Collector /\ ~Unlink
  BY <1>5 DEF Collector, ImportNext, CollectorStart, ScanBegin, ScanEnd, Import,
     ImportRefused, DrainEnd, DrainError, CollectorKill, DrainRaises, SyncDirectory
<1>6. CASE Clock \/ UNCHANGED vars
  BY <1>6 DEF Clock, Tick, StepBack, vars
<1> QED BY <1>1, <1>2, <1>3, <1>4, <1>5, <1>6 DEF Next

\* Who has a unit after a step had it before, but for the one that passes.
LEMMA HeldBefore ==
  ASSUME IInv, [Next]_vars
  PROVE  /\ relay'.unit \in {relay.unit, 0, passed'} /\ passed' \in {passed, passed + 1}
         /\ passed' = passed => relay'.unit \in {relay.unit, 0}
         /\ rows' \subseteq rows \cup ({relay.unit} \ {0})
         /\ \A c \in OnDisk' : c \in OnDisk \/ c.rows = rows
<1> USE DEF spoolVars, clockVars, NoSample
<1>1. /\ relay'.unit \in {relay.unit, 0, passed'} /\ passed' \in {passed, passed + 1}
      /\ passed' = passed => relay'.unit \in {relay.unit, 0}
  <2>1. ASSUME NEW d \in Domains, Pass(d)
        PROVE  passed' = passed + 1 /\ relay'.unit = passed' /\ passed \in Nat
    BY <2>1, DiskTypes DEF Pass, IInv
  <2>2. ASSUME ~(\E d \in Domains : Pass(d))
        PROVE  passed' = passed /\ relay' \in {relay, NoSample}
    BY <2>2 DEF Next, Engine, Collector, Clock, HostCrash, JournalNext, StartMark, StartSync, Add,
       FlushRefuse, FlushWrite, FlushRename, FlushSync, FlushError, FlushAbandoned, Stop, Exit,
       EngineKill, ProcessGone, vars, journalVars
  <2> QED BY <2>1, <2>2
<1>2. rows' \subseteq rows \cup ({relay.unit} \ {0})
  <2>1. CASE Add
    <3>1. relay.unit \in Units /\ relay.unit # 0
      BY <2>1, DiskTypes DEF Add, IInv, TypeOK, JournalTypeOK
    <3> QED BY <2>1, <3>1 DEF Add
  <2>2. CASE ~Add
    BY <2>2 DEF Next, Engine, Collector, Clock, HostCrash, JournalNext, StartMark, StartSync, Pass,
       FlushRefuse, FlushWrite, FlushRename, FlushSync, FlushError, FlushAbandoned, Stop, Exit,
       EngineKill, ProcessGone, vars, journalVars
  <2> QED BY <2>1, <2>2
<1>3. \A c \in OnDisk' : c \in OnDisk \/ c.rows = rows
  <2>1. FlushRename => batch.rows = rows
    BY DEF FlushRename, IInv, FlushInv
  <2> QED BY <2>1, NewOnDisk
<1> QED BY <1>1, <1>2, <1>3

-----------------------------------------------------------------------------
(* The mapping. *)

\* Exactly one case of the mapping applies to a unit.
FateInv ==
  \A u \in Units :
    /\ Durable(u) <=> \E b \in Safe : u \in b.rows
    /\ u > passed => u \notin imported /\ ~Durable(u) /\ ~Lost(u)
    /\ Durable(u) \/ u \in imported => ~Lost(u)
    /\ Fate(u) = IF u > passed THEN "unseen"
                 ELSE IF u \in imported THEN "counted"
                 ELSE IF Durable(u) THEN "durable"
                 ELSE IF Lost(u) THEN "lost" ELSE "volatile"

LEMMA FateCases == IInv /\ AckInv => FateInv
<1> SUFFICES ASSUME IInv, AckInv, NEW u \in Units
             PROVE  /\ Durable(u) <=> \E b \in Safe : u \in b.rows
                    /\ u > passed => u \notin imported /\ ~Durable(u) /\ ~Lost(u)
                    /\ Durable(u) \/ u \in imported => ~Lost(u)
                    /\ Fate(u) = IF u > passed THEN "unseen"
                                 ELSE IF u \in imported THEN "counted"
                                 ELSE IF Durable(u) THEN "durable"
                                 ELSE IF Lost(u) THEN "lost" ELSE "volatile"
  BY DEF FateInv
<1>1. Durable(u) <=> \E b \in Safe : u \in b.rows
  BY DEF Durable, Safe, AckInv
<1>2. u \in Nat /\ passed \in Nat
  BY DiskTypes DEF IInv
<1>3. u > passed => u \notin imported /\ ~Durable(u) /\ ~Lost(u)
  <2>1. u > passed => ~(u <= passed)
    BY <1>2
  <2> QED BY <1>1, <2>1 DEF IInv, PassedInv, Lost, OnDisk, Safe
<1>4. Durable(u) => ~Lost(u)
  BY DEF Durable, Lost, Journaled, OnDisk
<1>5. u \in imported => ~Lost(u)
  BY DEF Lost
<1> HIDE DEF Durable, Lost
<1>6. u > passed => Fate(u) = "unseen"
  BY <1>3, Zenon DEF Fate
<1>7. ~(u > passed) /\ u \in imported => Fate(u) = "counted"
  BY <1>5, Zenon DEF Fate
<1>8. ~(u > passed) /\ u \notin imported /\ Durable(u) => Fate(u) = "durable"
  BY <1>4, Zenon DEF Fate
<1>9. ~(u > passed) /\ u \notin imported /\ ~Durable(u) /\ Lost(u) => Fate(u) = "lost"
  BY Zenon DEF Fate
<1>10. ~(u > passed) /\ u \notin imported /\ ~Durable(u) /\ ~Lost(u) => Fate(u) = "volatile"
  BY Zenon DEF Fate
<1> QED BY <1>1, <1>3, <1>4, <1>5, <1>6, <1>7, <1>8, <1>9, <1>10

\* A unit on disk and not imported stays there until it is.
LEMMA DurableStays ==
  ASSUME IInv, AckInv, [Next]_vars, NEW u \in Units, Durable(u), u \notin imported
  PROVE  Durable(u)'
<1>1. PICK b \in Safe : u \in b.rows
  BY FateCases DEF FateInv
<1>2. ~Known(b)
  BY <1>1 DEF IInv, CheckpointSeparates, Known, OnDisk, Safe
<1>3. b \in Safe'
  BY <1>2, SafeStays
<1> QED BY <1>1, <1>3 DEF Durable, Safe

\* A lost unit stays lost.
LEMMA LostStays ==
  ASSUME IInv, [Next]_vars, NEW u \in Units, Lost(u)
  PROVE  Lost(u)'
<1>1. /\ u <= passed /\ u # relay.unit /\ u \notin rows /\ u \notin imported
      /\ \A b \in OnDisk : u \notin b.rows
  BY DEF Lost, Journaled
<1>2. u \in Nat /\ u # 0 /\ passed \in Nat /\ passed' \in Nat
  BY HeldBefore, DiskTypes DEF IInv
<1>3. u <= passed' /\ u # relay'.unit
  BY <1>1, <1>2, HeldBefore
<1>4. u \notin rows' /\ \A b \in OnDisk' : u \notin b.rows
  BY <1>1, HeldBefore
<1>5. u \notin imported'
  <2>1. imported' = imported \/ \E b \in OnDisk : imported' = imported \cup b.rows
    BY LedgerSteps, CommitFacts
  <2> QED BY <1>1, <2>1
<1> QED BY <1>3, <1>4, <1>5 DEF Lost, Journaled

\* The only step that moves a unit out of "unseen".
LEMMA PassedSteps ==
  ASSUME IInv, [Next]_vars, passed' # passed
  PROVE  /\ passed' = passed + 1 /\ relay.unit = 0 /\ relay'.unit = passed'
         /\ UNCHANGED <<spool, synced, rows, imported, cursor>>
<1>1. PICK d \in Domains : Pass(d)
  BY DEF Next, Engine, Collector, Clock, HostCrash, JournalNext, StartMark, StartSync, Add,
     FlushRefuse, FlushWrite, FlushRename, FlushSync, FlushError, FlushAbandoned, Stop, Exit,
     EngineKill, ProcessGone, vars, journalVars
<1>2. Engine
  BY <1>1 DEF Next, Collector, Clock, HostCrash, ProcessGone, vars, journalVars, Engine
<1> QED BY <1>1, <1>2 DEF Pass, Engine, importVars, ledgerVars, spoolVars, NoSample

LEMMA Passes ==
  ASSUME IInv, [Next]_vars, passed' # passed PROVE passed' \in Units
<1>1. PICK d \in Domains : Pass(d)
  BY DEF Next, Engine, Collector, Clock, HostCrash, JournalNext, StartMark, StartSync, Add,
     FlushRefuse, FlushWrite, FlushRename, FlushSync, FlushError, FlushAbandoned, Stop, Exit,
     EngineKill, ProcessGone, vars, journalVars
<1>2. passed < MaxUnits /\ passed' = passed + 1 /\ passed \in Nat
  BY <1>1, DiskTypes DEF Pass, IInv
<1> QED BY <1>2, SpoolAssumption DEF Units

-----------------------------------------------------------------------------
(* The steps of the promise. *)

\* The mapping's state variable.
fates == [u \in Units |-> Fate(u)]

LEMMA PassImplements ==
  ASSUME IInv, FateInv, FateInv', [Next]_vars, passed' # passed
  PROVE  Promise!PassUnit
<1>1. /\ passed' = passed + 1 /\ relay.unit = 0 /\ relay'.unit = passed'
      /\ UNCHANGED <<spool, synced, rows, imported, cursor>>
  BY PassedSteps
<1>2. passed \in Nat /\ passed' \in Nat /\ \A u \in Units : u \in Nat /\ u # 0
  BY <1>1, DiskTypes DEF IInv
<1>3. passed' \in Units
  BY <1>1, Passes
<1>4. \A u \in Units : Durable(u)' <=> Durable(u)
  <2>1. Safe' = Safe
    BY <1>1 DEF Safe
  <2> QED BY <2>1 DEF FateInv
<1>5. \A u \in Units : u # passed' => (Lost(u)' <=> Lost(u))
  BY <1>1, <1>2 DEF Lost, Journaled, OnDisk
<1>6. \A u \in Units : u = passed' => ~Lost(u)'
  BY <1>1 DEF Lost
<1>7. \A u \in Units : u = passed' =>
        u > passed /\ ~(u > passed') /\ ~Durable(u) /\ u \notin imported
  BY <1>1, <1>2 DEF FateInv
<1>8. \A u \in Units : Fate(u)' = IF u = passed' THEN "volatile" ELSE Fate(u)
  <2> HIDE DEF Fate
  <2> TAKE u \in Units
  <2>1. CASE u = passed'
    BY <1>1, <1>2, <1>4, <1>6, <1>7, <2>1 DEF FateInv
  <2>2. CASE u # passed'
    <3>1. u > passed' <=> u > passed
      BY <1>1, <1>2, <2>2
    <3> QED BY <1>1, <1>4, <1>5, <2>2, <3>1 DEF FateInv
  <2> QED BY <2>1, <2>2
<1>9. \A u \in Units : u = passed' => Fate(u) = "unseen"
  BY <1>7 DEF FateInv
<1> HIDE DEF Fate
<1>10. fates' = [u \in Units |-> IF u \in {passed'} THEN "volatile" ELSE fates[u]]
  BY <1>8 DEF fates
<1>11. passed' \in {u \in Units : fates[u] = "unseen"}
  BY <1>3, <1>9 DEF fates
<1> QED BY <1>1, <1>10, <1>11 DEF Promise!PassUnit, Promise!Having, Promise!Moved, Promise!Units,
          Units, fates

\* A step that imports nothing settles the fate of some volatile units.
LEMMA SettleImplements ==
  ASSUME IInv, AckInv, FateInv, FateInv', [Next]_vars,
         UNCHANGED <<passed, imported, cursor>>
  PROVE  Promise!Settle
<1> DEFINE saved == {u \in Units : Fate(u) = "volatile" /\ Fate(u)' = "durable"}
           gone  == {u \in Units : Fate(u) = "volatile" /\ Fate(u)' = "lost"}
<1>1. ASSUME NEW u \in Units
      PROVE  \/ Fate(u)' = Fate(u)
             \/ Fate(u) = "volatile" /\ Fate(u)' \in {"durable", "lost"}
  <2>1. u \notin imported /\ Durable(u) => Durable(u)'
    BY DurableStays
  <2>2. Lost(u) => Lost(u)'
    BY LostStays
  <2> HIDE DEF Fate, Durable, Lost
  <2> QED BY <2>1, <2>2 DEF FateInv
<1> HIDE DEF Fate
<1>2. /\ saved \subseteq {u \in Units : fates[u] = "volatile"}
      /\ gone \subseteq {u \in Units : fates[u] = "volatile"}
      /\ saved \cap gone = {}
  BY DEF fates
<1>3. fates' = [u \in Units |-> IF u \in saved THEN "durable"
                                ELSE IF u \in gone THEN "lost" ELSE fates[u]]
  BY <1>1 DEF fates
<1> HIDE DEF saved, gone
<1> QED BY <1>2, <1>3 DEF Promise!Settle, Promise!Having, Promise!Units, Units, fates

\* The promise counts as the pipeline does.
LEMMA SameCardinality ==
  ASSUME NEW S PROVE Promise!Cardinality(S) = Cardinality(S)
BY DEF Promise!Cardinality, Cardinality

\* A committed transaction counts the units of one batch.
LEMMA CountImplements ==
  ASSUME NothingExpires, IInv, AckInv, FateInv, FateInv', [Next]_vars,
         NEW b \in OnDisk, ~Known(b), Commits(b)
  PROVE  Promise!Count
<1>1. /\ b \in Batches /\ b.rows \subseteq Units /\ b.rows \cap imported = {}
      /\ imported' = imported \cup b.rows
  BY CommitFacts
<1>2. UNCHANGED <<passed, spool, synced, relay, rows>>
  BY DEF Commits, journalVars
<1>3. cursor'.total = cursor.total + Cardinality(b.rows)
  <2>1. Retained(b) = b.rows
    BY <1>1, AllRetained DEF IInv
  <2> QED BY <2>1 DEF Commits, ImportTransaction
<1>4. \A u \in Units : Durable(u)' <=> Durable(u)
  <2>1. Safe' = Safe
    BY <1>2 DEF Safe
  <2> QED BY <2>1 DEF FateInv
<1>5. \A u \in Units : u \notin b.rows => (Lost(u)' <=> Lost(u))
  BY <1>1, <1>2 DEF Lost, Journaled, OnDisk
<1>6. \A u \in b.rows : ~Lost(u) /\ ~(u > passed)
  <2>1. \A u \in b.rows : ~Lost(u) /\ u <= passed /\ u \in Nat
    BY <1>1, DiskTypes DEF Lost, Journaled, IInv, PassedInv
  <2> QED BY <2>1, DiskTypes DEF IInv
<1>7. \A u \in Units : Fate(u)' = IF u \in b.rows THEN "counted" ELSE Fate(u)
  <2> HIDE DEF Fate, Durable, Lost
  <2> QED BY <1>1, <1>2, <1>4, <1>5, <1>6 DEF FateInv
<1>8. \A u \in b.rows : Fate(u) \in {"volatile", "durable"}
  <2> HIDE DEF Fate, Durable, Lost
  <2> QED BY <1>1, <1>6 DEF FateInv
<1> HIDE DEF Fate
<1>9. fates' = [u \in Units |-> IF u \in b.rows THEN "counted" ELSE fates[u]]
  BY <1>7 DEF fates
<1>10. b.rows \subseteq {u \in Units : fates[u] = "volatile"} \cup {u \in Units : fates[u] = "durable"}
  BY <1>1, <1>8 DEF fates
<1>11. \E S \in SUBSET ({u \in Units : fates[u] = "volatile"} \cup {u \in Units : fates[u] = "durable"}) :
         /\ fates' = [u \in Units |-> IF u \in S THEN "counted" ELSE fates[u]]
         /\ cursor.total' = cursor.total + Cardinality(S)
  BY <1>3, <1>9, <1>10, Zenon
<1>12. \A S : Promise!Moved(S, "counted") =
                [u \in Units |-> IF u \in S THEN "counted" ELSE fates[u]]
  BY DEF Promise!Moved, Promise!Units, Units, fates
<1>13. \A f : Promise!Having(f) = {u \in Units : fates[u] = f}
  BY DEF Promise!Having, Promise!Units, Units, fates
<1>14. fates' = [u \in Units |-> Fate(u)]'
  BY DEF fates
<1> QED BY <1>11, <1>12, <1>13, <1>14, SameCardinality, Zenon DEF Promise!Count

LEMMA StepImplements ==
  ASSUME NothingExpires, IInv, AckInv, FateInv, FateInv', [Next]_vars
  PROVE  Promise!PromiseNext
<1>1. CASE passed' # passed
  BY <1>1, PassImplements DEF Promise!PromiseNext
<1>2. ASSUME NEW b \in OnDisk, ~Known(b), Commits(b) PROVE Promise!PromiseNext
  BY <1>2, CountImplements DEF Promise!PromiseNext
<1>3. CASE UNCHANGED <<passed, imported, cursor>>
  BY <1>3, SettleImplements DEF Promise!PromiseNext
<1> QED BY <1>1, <1>2, <1>3, LedgerSteps

LEMMA InitAck == Init => AckInv
BY DEF Init, SpoolInit, AckInv

LEMMA InitImplements ==
  ASSUME Init, FateInv PROVE Promise!PromiseInit
<1>1. passed = 0 /\ cursor.total = 0
  BY DEF Init, JournalInit, ImportInit, NoCursor
<1>2. \A u \in Units : Fate(u) = "unseen"
  <2>1. \A u \in Units : u > passed
    BY <1>1, SpoolAssumption DEF Units
  <2> HIDE DEF Fate
  <2> QED BY <2>1 DEF FateInv
<1> HIDE DEF Fate
<1> QED BY <1>1, <1>2 DEF Promise!PromiseInit, Promise!Units, Units

(***************************************************************************)
(* Where the horizon expires nothing, every step of engine, spool and      *)
(* collector is a step of AccountingPromise or changes nothing it can see: *)
(* a payload increment whose batch is on disk is never lost, a counted one *)
(* stays counted, and the total grows by exactly the units that become     *)
(* counted, whatever crashes, errors, replays and clock steps there are.   *)
(***************************************************************************)
THEOREM PipelineKeepsThePromise ==
  ASSUME NothingExpires PROVE Spec => KeepsThePromise
<1>1. Init => AckInv
  BY InitAck
<1>2. IInv /\ AckInv /\ [Next]_vars => AckInv'
  BY NextAck
<1>3. IInv /\ AckInv => FateInv
  BY FateCases
<1>4. Init /\ FateInv => Promise!PromiseInit
  BY InitImplements
<1>5. IInv /\ AckInv /\ FateInv /\ FateInv' /\ [Next]_vars
        => [Promise!PromiseNext]_<<[u \in Units |-> Fate(u)], cursor.total>>
  BY StepImplements
<1> QED BY <1>1, <1>2, <1>3, <1>4, <1>5, Invariance, PTL
        DEF Spec, KeepsThePromise, Promise!PromiseSpec, Promise!promiseVars
=============================================================================
