-------------------------- MODULE WriteTransaction --------------------------
(***************************************************************************)
(* writeTransaction of internal/render/writer.go with the Linux backend of *)
(* writer_linux.go: several renders publish their bundles of files into one*)
(* output directory.  Each stages its files in a private directory, fsyncs *)
(* them, links every one under its final name (linkat never replaces) and  *)
(* fsyncs the output directory before and after it removes the staging one.*)
(*                                                                         *)
(* Every system call that another render, a kill or a host crash can come  *)
(* between is a step.  Existence checks are one step: final names only     *)
(* appear while renders run, so checking them one by one refuses and passes*)
(* in the same cases.  The content of a file is the render that made it and*)
(* whether its bytes reached the disk.                                     *)
(***************************************************************************)
EXTENDS Integers, FiniteSets

CONSTANTS
  Writers,    \* renders, each run once
  Names,      \* outputNameOrder, the allowed final names
  Position,   \* [name -> its place in outputNameOrder]
  Request,    \* [render -> the names it publishes]
  Initial,    \* sets of names an earlier render may have left
  MaxFaults,  \* bound: failing calls and kills
  MaxCrashes  \* bound: host crashes

Nobody  == "nobody"
Earlier == "earlier"
ASSUME RequestAssumption ==
  /\ IsFiniteSet(Names) /\ Position \in [Names -> Nat]
  /\ Request \in [Writers -> SUBSET Names]
  /\ \A w \in Writers : Request[w] # {}
  /\ Initial \subseteq SUBSET Names
  /\ Nobody \notin Writers /\ Earlier \notin Writers
  /\ MaxFaults \in Nat /\ MaxCrashes \in Nat

VARIABLES
  pc,             \* [render -> its next call]
  err,            \* [render -> the kind of error it returned]
  staged,         \* [render -> files it recorded as created in staging]
  published,      \* [render -> names it recorded as published]
  links,          \* [render -> names in its staging directory]
  staging,        \* renders whose staging directory the output one lists
  stagingSynced,  \* ... and lists on disk, as of its last fsync
  final,          \* [name -> the render whose file it names]
  finalSynced,    \* ... on disk
  data,           \* [render -> [name -> state of the staged file's bytes]]
  faults, crashes

records == <<staged, published>>
outDir  == <<staging, stagingSynced, final, finalSynced>>
bounds  == <<faults, crashes>>
vars == <<pc, err, records, links, outDir, data, bounds>>

Working == {"mkdir", "open", "create", "fill", "link", "unlink", "sync",
            "rmdir", "resync", "rollback"}
Ended   == {"done", "failed", "killed"}
Owners  == Writers \cup {Nobody, Earlier}

TypeOK ==
  /\ pc \in [Writers -> {"idle"} \cup Working \cup Ended]
  /\ err \in [Writers -> {"none", "refused", "io", "cleanup", "undefined"}]
  /\ staged \in [Writers -> SUBSET Names]
  /\ published \in [Writers -> SUBSET Names]
  /\ links \in [Writers -> SUBSET Names]
  /\ \A w \in Writers :
       /\ published[w] \subseteq staged[w] /\ staged[w] \subseteq Request[w]
       /\ links[w] \subseteq Request[w]
  /\ staging \in SUBSET Writers /\ stagingSynced \in SUBSET Writers
  /\ final \in [Names -> Owners] /\ finalSynced \in [Names -> Owners]
  /\ data \in [Writers -> [Names -> {"none", "cached", "synced", "torn"}]]
  /\ faults \in 0 .. MaxFaults /\ crashes \in 0 .. MaxCrashes

Init ==
  /\ pc = [w \in Writers |-> "idle"]
  /\ err = [w \in Writers |-> "none"]
  /\ staged = [w \in Writers |-> {}] /\ published = [w \in Writers |-> {}]
  /\ links = [w \in Writers |-> {}]
  /\ staging = {} /\ stagingSynced = {}
  /\ \E old \in Initial :
       final = [n \in Names |-> IF n \in old THEN Earlier ELSE Nobody]
  /\ finalSynced = final
  /\ data = [w \in Writers |-> [n \in Names |-> "none"]]
  /\ faults = 0 /\ crashes = 0

\* validateOutputNames: names are handled in the fixed publication order.
First(S) == CHOOSE n \in S : \A m \in S : Position[n] <= Position[m]
Lead(w) == First(Request[w])

Goto(w, to) == pc' = [pc EXCEPT ![w] = to]
Return(w, kind) ==
  /\ Goto(w, "failed")
  /\ err' = [err EXCEPT ![w] = kind]
Fault == faults < MaxFaults /\ faults' = faults + 1 /\ UNCHANGED crashes

\* A step that failed and leaves the rest to the deferred rollback.
FailTo(w, label) ==
  /\ Fault /\ Goto(w, label)
  /\ UNCHANGED <<err, records, outDir, data>>

-----------------------------------------------------------------------------
Exists(w) == \E n \in Request[w] : final[n] # Nobody

\* openDir and the early refusal for an existing final target.
Inspect(w) ==
  /\ pc[w] = "idle"
  /\ \/ ~Exists(w) /\ Goto(w, "mkdir") /\ UNCHANGED <<err, bounds>>
     \/ Exists(w) /\ Return(w, "refused") /\ UNCHANGED bounds
     \/ Fault /\ Return(w, "refused")
  /\ UNCHANGED <<records, links, outDir, data>>

MakeStaging(w) ==
  /\ pc[w] = "mkdir"
  /\ \/ /\ staging' = staging \cup {w}
        /\ Goto(w, "open") /\ UNCHANGED <<err, bounds>>
     \/ Fault /\ Return(w, "io") /\ UNCHANGED staging
  /\ UNCHANGED <<records, links, stagingSynced, final, finalSynced, data>>

\* openSubdir; when it fails the empty directory is removed at once, and an
\* error of that removal is the one returned.
OpenStaging(w) ==
  /\ pc[w] = "open"
  /\ \/ Goto(w, "create") /\ UNCHANGED <<err, staging, bounds>>
     \/ Fault /\ Return(w, "io") /\ staging' = staging \ {w}
     \/ /\ faults + 2 <= MaxFaults /\ faults' = faults + 2
        /\ Return(w, "cleanup") /\ UNCHANGED <<staging, crashes>>
  /\ UNCHANGED <<records, links, stagingSynced, final, finalSynced, data>>

\* createAt, recorded in staged once it returned.  Its fstat can fail after
\* the file exists: that file is not recorded.
CreateAt(w) ==
  /\ pc[w] = "create"
  /\ LET n == First(Request[w] \ staged[w]) IN
       \/ /\ links' = [links EXCEPT ![w] = @ \cup {n}]
          /\ staged' = [staged EXCEPT ![w] = @ \cup {n}]
          /\ data' = [data EXCEPT ![w][n] = "cached"]
          /\ Goto(w, "fill")
          /\ UNCHANGED <<err, published, outDir, bounds>>
       \/ /\ links' \in {links, [links EXCEPT ![w] = @ \cup {n}]}
          /\ FailTo(w, "rollback")

\* Mutant: the file is written and closed without an fsync.
FillUnsynced(w) ==
  /\ pc[w] = "fill"
  /\ Goto(w, IF staged[w] = Request[w] THEN "link" ELSE "create")
  /\ UNCHANGED <<err, records, outDir, bounds, data, links>>

\* Mutant: publication begins after the first file.
FillOne(w) ==
  /\ pc[w] = "fill"
  /\ \E n \in staged[w] : data' = [data EXCEPT ![w][n] = "synced"]
  /\ Goto(w, "link")
  /\ UNCHANGED <<err, records, outDir, bounds, links>>

\* write, sync and close of the file just created, still private.
Fill(w) ==
  /\ pc[w] = "fill"
  /\ \/ /\ \E n \in staged[w] :
             /\ data[w][n] = "cached"
             /\ data' = [data EXCEPT ![w][n] = "synced"]
        /\ Goto(w, IF staged[w] = Request[w] THEN "link" ELSE "create")
        /\ UNCHANGED <<err, records, outDir, bounds>>
     \/ FailTo(w, "rollback")
  /\ UNCHANGED links

\* Mutant: rename, which replaces.
LinkReplacing(w) ==
  /\ pc[w] = "link"
  /\ LET n == First(Request[w] \ published[w]) IN
       /\ final' = [final EXCEPT ![n] = w]
       /\ published' = [published EXCEPT ![w] = @ \cup {n}]
       /\ Goto(w, "unlink")
       /\ UNCHANGED <<err, staged, staging, stagingSynced, finalSynced, data, bounds>>
  /\ UNCHANGED links

\* Mutant: names are published in the order of the map.
LinkUnordered(w) ==
  /\ pc[w] = "link"
  /\ \E n \in Request[w] \ published[w] :
       \/ /\ final[n] = Nobody
          /\ final' = [final EXCEPT ![n] = w]
          /\ published' = [published EXCEPT ![w] = @ \cup {n}]
          /\ Goto(w, "unlink")
          /\ UNCHANGED <<err, staged, staging, stagingSynced, finalSynced, data, bounds>>
       \/ /\ final[n] # Nobody
          /\ Goto(w, "rollback")
          /\ UNCHANGED <<err, records, outDir, data, bounds>>
  /\ UNCHANGED links

\* Mutant: a kept file is recorded only when both calls succeeded.
LinkUnrecorded(w) ==
  /\ pc[w] = "link"
  /\ LET n == First(Request[w] \ published[w]) IN
       \/ /\ final[n] = Nobody
          /\ final' = [final EXCEPT ![n] = w]
          /\ published' = [published EXCEPT ![w] = @ \cup {n}]
          /\ Goto(w, "unlink")
          /\ UNCHANGED <<err, staged, staging, stagingSynced, finalSynced, data, bounds>>
       \/ /\ final[n] = Nobody
          /\ final' = [final EXCEPT ![n] = w]
          /\ Fault /\ Goto(w, "rollback")
          /\ UNCHANGED <<err, records, staging, stagingSynced, finalSynced, data>>
  /\ UNCHANGED links

\* publishLinux, first call: linkat creates the final name or, when it
\* exists, fails.  The caller records the name from the bool it returns.
Link(w) ==
  /\ pc[w] = "link"
  /\ LET n == First(Request[w] \ published[w]) IN
       \/ /\ final[n] = Nobody
          /\ final' = [final EXCEPT ![n] = w]
          /\ published' = [published EXCEPT ![w] = @ \cup {n}]
          /\ Goto(w, "unlink")
          /\ UNCHANGED <<err, staged, staging, stagingSynced, finalSynced, data, bounds>>
       \/ /\ final[n] # Nobody
          /\ Goto(w, "rollback")
          /\ UNCHANGED <<err, records, outDir, data, bounds>>
       \/ FailTo(w, "rollback")
  /\ UNCHANGED links

\* publishLinux, second call: the staging link is dropped.
Unlink(w) ==
  /\ pc[w] = "unlink"
  /\ \/ /\ links' = [links EXCEPT ![w] = @ \ published[w]]
        /\ Goto(w, IF published[w] = Request[w] THEN "sync" ELSE "link")
        /\ UNCHANGED <<err, records, outDir, data, bounds>>
     \/ FailTo(w, "rollback") /\ UNCHANGED links

\* syncDir: the output directory's entries are as on disk.
SyncDir == finalSynced' = final /\ stagingSynced' = staging

\* Mutant: the first fsync of the output directory is dropped.
SyncPublishedNone(w) ==
  /\ pc[w] = "sync"
  /\ Goto(w, "rmdir")
  /\ UNCHANGED <<err, records, links, outDir, data, bounds>>

SyncPublished(w) ==
  /\ pc[w] = "sync"
  /\ \/ /\ SyncDir /\ Goto(w, "rmdir")
        /\ UNCHANGED <<err, records, staging, final, data, bounds>>
     \/ FailTo(w, "rollback")
  /\ UNCHANGED links

RemoveStaging(w) ==
  /\ pc[w] = "rmdir"
  /\ \/ /\ links[w] = {}
        /\ staging' = staging \ {w} /\ Goto(w, "resync")
        /\ UNCHANGED <<err, records, stagingSynced, final, finalSynced, data, bounds>>
     \/ FailTo(w, "rollback")
  /\ UNCHANGED links

SyncRemoval(w) ==
  /\ pc[w] = "resync"
  /\ \/ /\ SyncDir /\ Goto(w, "done")
        /\ UNCHANGED <<err, records, staging, final, data, bounds>>
     \/ FailTo(w, "rollback")
  /\ UNCHANGED links

\* The error a rollback leaves the caller with: published names outrank a
\* cleanup error, which outranks the error that began it.
Kind(w, cleaned) ==
  IF published[w] # {} THEN "undefined"
  ELSE IF cleaned THEN "io" ELSE "cleanup"

\* rollback: recorded entries that were not published are removed from the
\* staging directory, then the directory if it is empty.  Published names are
\* never touched.  stuck: entries whose removal fails; busy: rmdir fails.
Rollback(w) ==
  /\ pc[w] = "rollback"
  /\ \E stuck \in SUBSET (links[w] \cap (staged[w] \ published[w])), busy \in {0, 1} :
       LET failed  == Cardinality(stuck) + busy
           left    == links[w] \ ((staged[w] \ published[w]) \ stuck)
           removed == busy = 0 /\ left = {} /\ w \in staging
       IN  /\ faults + failed <= MaxFaults /\ faults' = faults + failed
           /\ links' = [links EXCEPT ![w] = left]
           /\ staging' = IF removed THEN staging \ {w} ELSE staging
           /\ Return(w, Kind(w, removed))
  /\ UNCHANGED <<records, stagingSynced, final, finalSynced, data, crashes>>

-----------------------------------------------------------------------------
\* The process is killed; a rollback in progress may have removed some entries.
Kill(w) ==
  /\ pc[w] \in Working
  /\ Fault /\ Goto(w, "killed")
  /\ \E left \in SUBSET links[w] :
       /\ pc[w] # "rollback" => left = links[w]
       /\ links' = [links EXCEPT ![w] = left]
  /\ UNCHANGED <<err, records, outDir, data>>

\* Power loss: renders in progress are gone, directory entries that were not
\* fsynced may be there or not, file contents that were not are torn.
HostCrash ==
  /\ crashes < MaxCrashes /\ crashes' = crashes + 1
  /\ pc' = [w \in Writers |-> IF pc[w] \in Working THEN "killed" ELSE pc[w]]
  /\ \E lost \in SUBSET {n \in Names : final[n] # finalSynced[n]} :
       final' = [n \in Names |-> IF n \in lost THEN finalSynced[n] ELSE final[n]]
  /\ finalSynced' = final'
  /\ \E half \in SUBSET ((staging \ stagingSynced) \cup (stagingSynced \ staging)) :
       staging' = (staging \cap stagingSynced) \cup half
  /\ stagingSynced' = staging'
  /\ data' = [w \in Writers |-> [n \in Names |->
                IF data[w][n] = "cached" THEN "torn" ELSE data[w][n]]]
  /\ UNCHANGED <<err, records, links, faults>>

Step(w) ==
  \/ Inspect(w) \/ MakeStaging(w) \/ OpenStaging(w) \/ CreateAt(w) \/ Fill(w)
  \/ Link(w) \/ Unlink(w) \/ SyncPublished(w) \/ RemoveStaging(w)
  \/ SyncRemoval(w) \/ Rollback(w)

Next == (\E w \in Writers : Step(w) \/ Kill(w)) \/ HostCrash

Spec == Init /\ [][Next]_vars

\* A render is a straight line of system calls, each of which returns.
FairSpec == Spec /\ \A w \in Writers : WF_vars(Step(w))

-----------------------------------------------------------------------------
Holds(w) == \E n \in Names : final[n] = w
RequestsAgree ==
  \A v, w \in Writers : Lead(v) = Lead(w) => Request[v] = Request[w]

(***************************************************************************)
(* Files of two renders of one role are never side by side in the output   *)
(* directory, however they race, fail or are killed: the rendered config,  *)
(* first in outputNameOrder and part of every request, is a lock that      *)
(* nobody releases (writeTransactionWithBackend, publishLinux).  After a   *)
(* host crash this needs the two requests to name the same files.          *)
(***************************************************************************)
NoMixedBundle ==
  crashes = 0 \/ RequestsAgree =>
    \A v, w \in Writers :
      Lead(v) = Lead(w) /\ Holds(v) /\ Holds(w) => v = w

(***************************************************************************)
(* What a final name shows is a whole file: its bytes are on disk before   *)
(* the name exists, so no crash can tear it (guarantee 4).                 *)
(***************************************************************************)
PublishedIsWhole ==
  \A w \in Writers, n \in Names : final[n] = w => data[w][n] = "synced"

(***************************************************************************)
(* A final name that is on disk is never given to another file and never   *)
(* deleted, by a publish, a rollback or a crash; one that is only visible  *)
(* is lost to nothing but a host crash (guarantees 1 and 3).               *)
(***************************************************************************)
NeverReplaced ==
  [][\A n \in Names :
       \/ final[n] = Nobody
       \/ final'[n] = final[n]
       \/ crashes' # crashes /\ finalSynced[n] = Nobody /\ final'[n] = Nobody]_vars

(***************************************************************************)
(* A render that returned without error has its whole bundle on disk and   *)
(* no staging directory, now and after any crash; the bundle is on disk    *)
(* before cleanup begins (guarantee 4).                                    *)
(***************************************************************************)
CommittedIsDurable ==
  \A w \in Writers :
    /\ pc[w] \in {"rmdir", "resync", "done"} =>
         \A n \in Request[w] : final[n] = w /\ finalSynced[n] = w
    /\ pc[w] = "done" => w \notin staging \cup stagingSynced

(***************************************************************************)
(* A render that returns an error which speaks neither of an undefined     *)
(* bundle nor of a cleanup failure has left nothing in the output directory*)
(* (guarantee 6, rollback).                                                *)
(***************************************************************************)
ResidueIsReported ==
  [][\A w \in Writers :
       pc[w] # "failed" /\ pc'[w] = "failed" /\ err'[w] \in {"refused", "io"} =>
         w \notin staging' /\ \A n \in Names : final'[n] # w]_vars

(***************************************************************************)
(* Of the renders that race for a role one commits, if nothing fails and   *)
(* the output directory was empty: the no-replace publish never makes them *)
(* all fail (writeTransactionWithBackend).                                 *)
(***************************************************************************)
OneRenderCommits ==
  (\A n \in Names : final[n] = Nobody) /\ [](faults = 0 /\ crashes = 0) =>
    \A w \in Writers :
      <>(\E v \in Writers : Lead(v) = Lead(w) /\ pc[v] = "done")
=============================================================================
