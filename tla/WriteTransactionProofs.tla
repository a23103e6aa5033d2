----------------------- MODULE WriteTransactionProofs -----------------------
(***************************************************************************)
(* Proofs about WriteTransaction, for any number of renders, any names in  *)
(* any order, any requests and any number of faults and crashes.           *)
(***************************************************************************)
EXTENDS WriteTransaction, FiniteSetTheorems, WellFoundedInduction, TLAPS

-----------------------------------------------------------------------------
(* First. *)

LEMMA NatWellFounded ==
  IsWellFoundedOn({ab \in Nat \X Nat : ab[1] < ab[2]}, Nat)
BY NatLessThanWellFounded DEF OpToRel

\* A nonempty set of names has a first one in publication order.
LEMMA FirstIn ==
  ASSUME NEW S \in SUBSET Names, S # {}
  PROVE  First(S) \in S
<1> DEFINE P == {Position[n] : n \in S}
           R == {ab \in Nat \X Nat : ab[1] < ab[2]}
<1>1. P \subseteq Nat /\ P # {}
  BY RequestAssumption
<1>2. PICK p \in P : \A q \in P : ~(<<q, p>> \in R)
  <2> HIDE DEF P, R
  <2> QED BY <1>1, NatWellFounded, WFMin DEF R
<1>3. PICK n \in S : Position[n] = p
  OBVIOUS
<1>4. \A m \in S : Position[n] <= Position[m]
  <2> TAKE m \in S
  <2>1. Position[m] \in P /\ Position[m] \in Nat /\ Position[n] \in Nat
    BY RequestAssumption
  <2>2. ~(Position[m] < Position[n])
    BY <1>2, <1>3, <2>1
  <2> QED BY <2>1, <2>2
<1> QED BY <1>4 DEF First

LEMMA LeadIn == \A w \in Writers : Lead(w) \in Request[w] /\ Request[w] \subseteq Names
BY FirstIn, RequestAssumption DEF Lead

-----------------------------------------------------------------------------
(* The inductive invariant. *)

\* What a render has recorded at each of its calls.
Progress(w) ==
  /\ pc[w] \in {"idle", "mkdir", "open"} =>
       staged[w] = {} /\ published[w] = {} /\ links[w] = {}
  /\ pc[w] \in {"idle", "mkdir"} => w \notin staging \cup stagingSynced
  /\ pc[w] \in {"create", "fill"} => published[w] = {}
  /\ pc[w] = "create" => staged[w] # Request[w]
  /\ pc[w] \in {"link", "unlink", "sync", "rmdir", "resync", "done"} =>
       staged[w] = Request[w]
  /\ pc[w] = "link" => published[w] # Request[w]
  /\ pc[w] \in {"sync", "rmdir", "resync", "done"} => published[w] = Request[w]
  /\ pc[w] = "resync" => w \notin staging
  /\ pc[w] = "done" => w \notin staging \cup stagingSynced

\* Staged bytes are on disk, but for the file being filled.
Filled(w) ==
  /\ pc[w] = "fill" =>
       \A n, m \in staged[w] :
         /\ data[w][n] \in {"cached", "synced"}
         /\ data[w][n] = "cached" /\ data[w][m] = "cached" => n = m
  /\ pc[w] \in {"create", "link", "unlink", "sync", "rmdir", "resync"} =>
       \A n \in staged[w] : data[w][n] = "synced"
  /\ \A n \in published[w] : data[w][n] = "synced"

\* Who published what, and what of it is on disk.
Owned(w) ==
  /\ \A n \in Names : final[n] = w => n \in published[w]
  /\ published[w] # {} => Lead(w) \in published[w]
  /\ crashes = 0 \/ pc[w] \in Working => \A n \in published[w] : final[n] = w
  /\ pc[w] \in {"rmdir", "resync", "done"} =>
       \A n \in Request[w] : final[n] = w /\ finalSynced[n] = w

SyncedIsVisible == \A n \in Names : finalSynced[n] \in {Nobody, final[n]}

\* While a render works, whoever holds a name of its role holds the first one.
LeadIsLock ==
  crashes = 0 \/ RequestsAgree =>
    \A v, w \in Writers :
      Lead(v) = Lead(w) /\ pc[w] \in Working /\ Holds(v) => final[Lead(v)] = v

IInv ==
  /\ TypeOK
  /\ \A w \in Writers : Progress(w) /\ Filled(w) /\ Owned(w)
  /\ SyncedIsVisible
  /\ LeadIsLock
  /\ NoMixedBundle

-----------------------------------------------------------------------------
(* Steps. *)

\* A step that publishes nothing and lets no render begin to work.
LEMMA LockFrame ==
  ASSUME LeadIsLock, NoMixedBundle,
         UNCHANGED <<final, crashes>>,
         \A v \in Writers : pc'[v] \in Working => pc[v] \in Working
  PROVE  LeadIsLock' /\ NoMixedBundle'
BY DEF LeadIsLock, NoMixedBundle, Holds, RequestsAgree

LEMMA InitIInv == Init => IInv
<1> SUFFICES ASSUME Init PROVE IInv
  OBVIOUS
<1>1. TypeOK
  BY RequestAssumption DEF Init, TypeOK, Working, Ended, Owners
<1>2. \A w \in Writers : Progress(w) /\ Filled(w) /\ Owned(w)
  BY RequestAssumption DEF Init, Progress, Filled, Owned, Working
<1>3. SyncedIsVisible
  BY DEF Init, SyncedIsVisible
<1>4. \A w \in Writers : ~Holds(w)
  BY RequestAssumption DEF Init, Holds
<1>5. LeadIsLock /\ NoMixedBundle
  BY <1>4 DEF LeadIsLock, NoMixedBundle
<1> QED BY <1>1, <1>2, <1>3, <1>5 DEF IInv

LEMMA MakeStagingIInv ==
  ASSUME IInv, NEW w \in Writers, MakeStaging(w)
  PROVE  IInv'
<1> USE DEF MakeStaging, Goto, Return, Fault, FailTo, SyncDir, records, outDir, bounds
<1>1. TypeOK'
  <2>1. pc' \in [Writers -> {"idle"} \cup Working \cup Ended]
    BY DEF IInv, TypeOK, Working, Ended
  <2>2. err' \in [Writers -> {"none", "refused", "io", "cleanup", "undefined"}]
    BY DEF IInv, TypeOK
  <2>3. /\ staged' \in [Writers -> SUBSET Names]
        /\ published' \in [Writers -> SUBSET Names]
        /\ links' \in [Writers -> SUBSET Names]
        /\ \A v \in Writers :
             /\ published'[v] \subseteq staged'[v] /\ staged'[v] \subseteq Request[v]
             /\ links'[v] \subseteq Request[v]
    BY RequestAssumption DEF IInv, TypeOK, Progress
  <2>4. /\ staging' \in SUBSET Writers /\ stagingSynced' \in SUBSET Writers
        /\ final' \in [Names -> Owners] /\ finalSynced' \in [Names -> Owners]
    BY DEF IInv, TypeOK, Owners
  <2>5. data' \in [Writers -> [Names -> {"none", "cached", "synced", "torn"}]]
    BY DEF IInv, TypeOK
  <2>6. faults' \in 0 .. MaxFaults /\ crashes' \in 0 .. MaxCrashes
    BY RequestAssumption DEF IInv, TypeOK
  <2> QED BY <2>1, <2>2, <2>3, <2>4, <2>5, <2>6 DEF TypeOK
<1>2. \A v \in Writers : Progress(v)'
  <2> TAKE v \in Writers
  <2>1. CASE v = w
    BY <2>1, RequestAssumption DEF IInv, TypeOK, Progress
  <2>2. CASE v # w
    BY <2>2 DEF IInv, TypeOK, Progress
  <2> QED BY <2>1, <2>2
<1>3. \A v \in Writers : Filled(v)'
  <2> TAKE v \in Writers
  <2>1. CASE v = w
    BY <2>1, RequestAssumption DEF IInv, TypeOK, Progress, Filled
  <2>2. CASE v # w
    BY <2>2 DEF IInv, TypeOK, Filled
  <2> QED BY <2>1, <2>2
<1>4. \A v \in Writers : Owned(v)'
  BY DEF IInv, TypeOK, Progress, Owned, Working
<1>5. SyncedIsVisible'
  BY DEF IInv, SyncedIsVisible, TypeOK
<1>6. LeadIsLock' /\ NoMixedBundle'
  BY LockFrame DEF IInv, TypeOK, Working
<1> QED BY <1>1, <1>2, <1>3, <1>4, <1>5, <1>6 DEF IInv

LEMMA OpenStagingIInv ==
  ASSUME IInv, NEW w \in Writers, OpenStaging(w)
  PROVE  IInv'
<1> USE DEF OpenStaging, Goto, Return, Fault, FailTo, SyncDir, records, outDir, bounds
<1>1. TypeOK'
  <2>1. pc' \in [Writers -> {"idle"} \cup Working \cup Ended]
    BY DEF IInv, TypeOK, Working, Ended
  <2>2. err' \in [Writers -> {"none", "refused", "io", "cleanup", "undefined"}]
    BY DEF IInv, TypeOK
  <2>3. /\ staged' \in [Writers -> SUBSET Names]
        /\ published' \in [Writers -> SUBSET Names]
        /\ links' \in [Writers -> SUBSET Names]
        /\ \A v \in Writers :
             /\ published'[v] \subseteq staged'[v] /\ staged'[v] \subseteq Request[v]
             /\ links'[v] \subseteq Request[v]
    BY RequestAssumption DEF IInv, TypeOK, Progress
  <2>4. /\ staging' \in SUBSET Writers /\ stagingSynced' \in SUBSET Writers
        /\ final' \in [Names -> Owners] /\ finalSynced' \in [Names -> Owners]
    BY DEF IInv, TypeOK, Owners
  <2>5. data' \in [Writers -> [Names -> {"none", "cached", "synced", "torn"}]]
    BY DEF IInv, TypeOK
  <2>6. faults' \in 0 .. MaxFaults /\ crashes' \in 0 .. MaxCrashes
    BY RequestAssumption DEF IInv, TypeOK
  <2> QED BY <2>1, <2>2, <2>3, <2>4, <2>5, <2>6 DEF TypeOK
<1>2. \A v \in Writers : Progress(v)'
  <2> TAKE v \in Writers
  <2>1. CASE v = w
    BY <2>1, RequestAssumption DEF IInv, TypeOK, Progress
  <2>2. CASE v # w
    BY <2>2 DEF IInv, TypeOK, Progress
  <2> QED BY <2>1, <2>2
<1>3. \A v \in Writers : Filled(v)'
  <2> TAKE v \in Writers
  <2>1. CASE v = w
    BY <2>1, RequestAssumption DEF IInv, TypeOK, Progress, Filled
  <2>2. CASE v # w
    BY <2>2 DEF IInv, TypeOK, Filled
  <2> QED BY <2>1, <2>2
<1>4. \A v \in Writers : Owned(v)'
  BY DEF IInv, TypeOK, Progress, Owned, Working
<1>5. SyncedIsVisible'
  BY DEF IInv, SyncedIsVisible, TypeOK
<1>6. LeadIsLock' /\ NoMixedBundle'
  BY LockFrame DEF IInv, TypeOK, Working
<1> QED BY <1>1, <1>2, <1>3, <1>4, <1>5, <1>6 DEF IInv

LEMMA CreateAtIInv ==
  ASSUME IInv, NEW w \in Writers, CreateAt(w)
  PROVE  IInv'
<1>0. PICK n \in Request[w] \ staged[w] : n = First(Request[w] \ staged[w])
  <2>1. pc[w] = "create"
    BY DEF CreateAt
  <2>2. Request[w] \ staged[w] \in SUBSET Names /\ Request[w] \ staged[w] # {}
    BY <2>1, RequestAssumption DEF IInv, TypeOK, Progress
  <2> QED BY <2>2, FirstIn
<1>a. /\ pc[w] = "create"
      /\ \/ /\ links' = [links EXCEPT ![w] = links[w] \cup {n}]
            /\ staged' = [staged EXCEPT ![w] = staged[w] \cup {n}]
            /\ data' = [data EXCEPT ![w] = [data[w] EXCEPT ![n] = "cached"]]
            /\ pc' = [pc EXCEPT ![w] = "fill"]
            /\ UNCHANGED <<err, published, outDir, bounds>>
         \/ /\ links' \in {links, [links EXCEPT ![w] = links[w] \cup {n}]}
            /\ FailTo(w, "rollback")
  BY <1>0 DEF CreateAt, Goto
<1> USE DEF Goto, Fault, FailTo, records, outDir, bounds
<1>1. TypeOK'
  <2>1. pc' \in [Writers -> {"idle"} \cup Working \cup Ended]
    BY <1>a DEF IInv, TypeOK, Working, Ended
  <2>2. err' \in [Writers -> {"none", "refused", "io", "cleanup", "undefined"}]
    BY <1>a DEF IInv, TypeOK
  <2>3. /\ staged' \in [Writers -> SUBSET Names]
        /\ published' \in [Writers -> SUBSET Names]
        /\ links' \in [Writers -> SUBSET Names]
        /\ \A v \in Writers :
             /\ published'[v] \subseteq staged'[v] /\ staged'[v] \subseteq Request[v]
             /\ links'[v] \subseteq Request[v]
    <3>1. n \in Names
      BY RequestAssumption
    <3>2. published' = published
      BY <1>a DEF TypeOK
    <3>a. /\ staged' \in {staged, [staged EXCEPT ![w] = staged[w] \cup {n}]}
          /\ links' \in {links, [links EXCEPT ![w] = links[w] \cup {n}]}
      BY <1>a
    <3>3. staged' \in [Writers -> SUBSET Names] /\ links' \in [Writers -> SUBSET Names]
      <4>1. /\ links \in [Writers -> SUBSET Names] /\ staged \in [Writers -> SUBSET Names]
        BY DEF IInv, TypeOK
      <4> QED BY <3>a, <3>1, <4>1
    <3>4. \A v \in Writers :
            /\ staged[v] \subseteq staged'[v] /\ staged'[v] \subseteq Request[v]
            /\ links'[v] \subseteq Request[v]
      <4>1. /\ links \in [Writers -> SUBSET Names] /\ staged \in [Writers -> SUBSET Names]
            /\ \A v \in Writers : staged[v] \subseteq Request[v] /\ links[v] \subseteq Request[v]
        BY DEF IInv, TypeOK
      <4> QED BY <3>a, <4>1
    <3> QED BY <3>2, <3>3, <3>4 DEF IInv, TypeOK
  <2>4. /\ staging' \in SUBSET Writers /\ stagingSynced' \in SUBSET Writers
        /\ final' \in [Names -> Owners] /\ finalSynced' \in [Names -> Owners]
    BY <1>a DEF IInv, TypeOK, Owners
  <2>5. data' \in [Writers -> [Names -> {"none", "cached", "synced", "torn"}]]
    <3>1. n \in Names /\ data[w] \in [Names -> {"none", "cached", "synced", "torn"}]
      BY RequestAssumption DEF IInv, TypeOK
    <3>2. [data[w] EXCEPT ![n] = "cached"] \in [Names -> {"none", "cached", "synced", "torn"}]
      BY <3>1
    <3>3. data' = data \/ data' = [data EXCEPT ![w] = [data[w] EXCEPT ![n] = "cached"]]
      BY <1>a
    <3>4. data \in [Writers -> [Names -> {"none", "cached", "synced", "torn"}]]
      BY DEF IInv, TypeOK
    <3> QED BY <3>2, <3>3, <3>4
  <2>6. faults' \in 0 .. MaxFaults /\ crashes' \in 0 .. MaxCrashes
    BY <1>a, RequestAssumption DEF IInv, TypeOK
  <2> QED BY <2>1, <2>2, <2>3, <2>4, <2>5, <2>6 DEF TypeOK
<1>2. \A v \in Writers : Progress(v)'
  <2> TAKE v \in Writers
  <2>1. CASE v = w
    BY <1>a, <2>1, RequestAssumption DEF IInv, TypeOK, Progress
  <2>2. CASE v # w
    BY <1>a, <2>2 DEF IInv, TypeOK, Progress
  <2> QED BY <2>1, <2>2
<1>3. \A v \in Writers : Filled(v)'
  <2> TAKE v \in Writers
  <2>1. CASE v = w
    BY <2>1, RequestAssumption, <1>a DEF IInv, TypeOK, Progress, Filled
  <2>2. CASE v # w
    BY <1>a, <2>2 DEF IInv, TypeOK, Filled
  <2> QED BY <2>1, <2>2
<1>4. \A v \in Writers : Owned(v)'
  BY <1>a DEF IInv, TypeOK, Progress, Owned, Working
<1>5. SyncedIsVisible'
  BY <1>a DEF IInv, SyncedIsVisible, TypeOK
<1>6. LeadIsLock' /\ NoMixedBundle'
  BY <1>a, LockFrame DEF IInv, TypeOK, Working
<1> QED BY <1>1, <1>2, <1>3, <1>4, <1>5, <1>6 DEF IInv

LEMMA FillIInv ==
  ASSUME IInv, NEW w \in Writers, Fill(w)
  PROVE  IInv'
<1>a. /\ pc[w] = "fill" /\ links' = links
      /\ \/ /\ \E n \in staged[w] :
                 /\ data[w][n] = "cached"
                 /\ data' = [data EXCEPT ![w] = [data[w] EXCEPT ![n] = "synced"]]
            /\ pc' = [pc EXCEPT ![w] = IF staged[w] = Request[w] THEN "link" ELSE "create"]
            /\ UNCHANGED <<err, records, outDir, bounds>>
         \/ FailTo(w, "rollback")
  BY DEF Fill, Goto
<1> USE DEF Goto, Fault, FailTo, records, outDir, bounds
<1>1. TypeOK'
  <2>1. pc' \in [Writers -> {"idle"} \cup Working \cup Ended]
    BY <1>a DEF IInv, TypeOK, Working, Ended
  <2>2. err' \in [Writers -> {"none", "refused", "io", "cleanup", "undefined"}]
    BY <1>a DEF IInv, TypeOK
  <2>3. /\ staged' \in [Writers -> SUBSET Names]
        /\ published' \in [Writers -> SUBSET Names]
        /\ links' \in [Writers -> SUBSET Names]
        /\ \A v \in Writers :
             /\ published'[v] \subseteq staged'[v] /\ staged'[v] \subseteq Request[v]
             /\ links'[v] \subseteq Request[v]
    BY <1>a, RequestAssumption DEF IInv, TypeOK, Progress
  <2>4. /\ staging' \in SUBSET Writers /\ stagingSynced' \in SUBSET Writers
        /\ final' \in [Names -> Owners] /\ finalSynced' \in [Names -> Owners]
    BY <1>a DEF IInv, TypeOK, Owners
  <2>5. data' \in [Writers -> [Names -> {"none", "cached", "synced", "torn"}]]
    <3>1. CASE data' = data
      BY <3>1 DEF IInv, TypeOK
    <3>2. ASSUME NEW n \in staged[w],
                 data' = [data EXCEPT ![w] = [data[w] EXCEPT ![n] = "synced"]]
          PROVE  data' \in [Writers -> [Names -> {"none", "cached", "synced", "torn"}]]
      <4>1. n \in Names /\ data[w] \in [Names -> {"none", "cached", "synced", "torn"}]
        BY DEF IInv, TypeOK
      <4>2. [data[w] EXCEPT ![n] = "synced"] \in [Names -> {"none", "cached", "synced", "torn"}]
        BY <4>1
      <4> QED BY <3>2, <4>2 DEF IInv, TypeOK
    <3> QED BY <1>a, <3>1, <3>2
  <2>6. faults' \in 0 .. MaxFaults /\ crashes' \in 0 .. MaxCrashes
    BY <1>a, RequestAssumption DEF IInv, TypeOK
  <2> QED BY <2>1, <2>2, <2>3, <2>4, <2>5, <2>6 DEF TypeOK
<1>2. \A v \in Writers : Progress(v)'
  <2> TAKE v \in Writers
  <2>1. CASE v = w
    BY <1>a, <2>1, RequestAssumption DEF IInv, TypeOK, Progress
  <2>2. CASE v # w
    BY <1>a, <2>2 DEF IInv, TypeOK, Progress
  <2> QED BY <2>1, <2>2
<1>3. \A v \in Writers : Filled(v)'
  <2> TAKE v \in Writers
  <2>1. CASE v = w
    <3>1. CASE FailTo(w, "rollback")
      BY <1>a, <2>1, <3>1 DEF IInv, TypeOK, Progress, Filled
    <3>2. ASSUME NEW n \in staged[w], data[w][n] = "cached",
                 data' = [data EXCEPT ![w] = [data[w] EXCEPT ![n] = "synced"]],
                 staged' = staged, published' = published
          PROVE  Filled(w)'
      <4>1. n \in Names /\ data[w] \in [Names -> {"none", "cached", "synced", "torn"}]
            /\ \A m \in staged[w] : m \in Names
        BY DEF IInv, TypeOK
      <4>2. \A m \in staged[w] : data'[w][m] = "synced"
        BY <1>a, <3>2, <4>1 DEF IInv, TypeOK, Filled
      <4>3. published'[w] = {}
        BY <1>a, <3>2 DEF IInv, Progress
      <4> QED BY <1>a, <3>2, <4>2, <4>3 DEF Filled, IInv, TypeOK
    <3> QED BY <1>a, <2>1, <3>1, <3>2
  <2>2. CASE v # w
    BY <1>a, <2>2 DEF IInv, TypeOK, Filled
  <2> QED BY <2>1, <2>2
<1>4. \A v \in Writers : Owned(v)'
  BY <1>a DEF IInv, TypeOK, Progress, Owned, Working
<1>5. SyncedIsVisible'
  BY <1>a DEF IInv, SyncedIsVisible, TypeOK
<1>6. LeadIsLock' /\ NoMixedBundle'
  BY <1>a, LockFrame DEF IInv, TypeOK, Working
<1> QED BY <1>1, <1>2, <1>3, <1>4, <1>5, <1>6 DEF IInv

LEMMA UnlinkIInv ==
  ASSUME IInv, NEW w \in Writers, Unlink(w)
  PROVE  IInv'
<1> USE DEF Unlink, Goto, Return, Fault, FailTo, SyncDir, records, outDir, bounds
<1>1. TypeOK'
  <2>1. pc' \in [Writers -> {"idle"} \cup Working \cup Ended]
    BY DEF IInv, TypeOK, Working, Ended
  <2>2. err' \in [Writers -> {"none", "refused", "io", "cleanup", "undefined"}]
    BY DEF IInv, TypeOK
  <2>3. /\ staged' \in [Writers -> SUBSET Names]
        /\ published' \in [Writers -> SUBSET Names]
        /\ links' \in [Writers -> SUBSET Names]
        /\ \A v \in Writers :
             /\ published'[v] \subseteq staged'[v] /\ staged'[v] \subseteq Request[v]
             /\ links'[v] \subseteq Request[v]
    <3>0. links' = links \/ links' = [links EXCEPT ![w] = links[w] \ published[w]]
      OBVIOUS
    <3>1. links' \in [Writers -> SUBSET Names] /\ \A v \in Writers : links'[v] \subseteq links[v]
      <4>1. /\ links \in [Writers -> SUBSET Names] /\ published \in [Writers -> SUBSET Names]
        BY DEF IInv, TypeOK
      <4> QED BY <3>0, <4>1
    <3>2. UNCHANGED <<staged, published>>
      OBVIOUS
    <3> QED BY <3>1, <3>2 DEF IInv, TypeOK
  <2>4. /\ staging' \in SUBSET Writers /\ stagingSynced' \in SUBSET Writers
        /\ final' \in [Names -> Owners] /\ finalSynced' \in [Names -> Owners]
    BY DEF IInv, TypeOK, Owners
  <2>5. data' \in [Writers -> [Names -> {"none", "cached", "synced", "torn"}]]
    BY DEF IInv, TypeOK
  <2>6. faults' \in 0 .. MaxFaults /\ crashes' \in 0 .. MaxCrashes
    BY RequestAssumption DEF IInv, TypeOK
  <2> QED BY <2>1, <2>2, <2>3, <2>4, <2>5, <2>6 DEF TypeOK
<1>2. \A v \in Writers : Progress(v)'
  <2> TAKE v \in Writers
  <2>1. CASE v = w
    BY <2>1, RequestAssumption DEF IInv, TypeOK, Progress
  <2>2. CASE v # w
    BY <2>2 DEF IInv, TypeOK, Progress
  <2> QED BY <2>1, <2>2
<1>3. \A v \in Writers : Filled(v)'
  <2> TAKE v \in Writers
  <2>1. CASE v = w
    BY <2>1, RequestAssumption DEF IInv, TypeOK, Progress, Filled
  <2>2. CASE v # w
    BY <2>2 DEF IInv, TypeOK, Filled
  <2> QED BY <2>1, <2>2
<1>4. \A v \in Writers : Owned(v)'
  BY DEF IInv, TypeOK, Progress, Owned, Working
<1>5. SyncedIsVisible'
  BY DEF IInv, SyncedIsVisible, TypeOK
<1>6. LeadIsLock' /\ NoMixedBundle'
  BY LockFrame DEF IInv, TypeOK, Working
<1> QED BY <1>1, <1>2, <1>3, <1>4, <1>5, <1>6 DEF IInv

LEMMA SyncPublishedIInv ==
  ASSUME IInv, NEW w \in Writers, SyncPublished(w)
  PROVE  IInv'
<1> USE DEF SyncPublished, Goto, Return, Fault, FailTo, SyncDir, records, outDir, bounds
<1>1. TypeOK'
  <2>1. pc' \in [Writers -> {"idle"} \cup Working \cup Ended]
    BY DEF IInv, TypeOK, Working, Ended
  <2>2. err' \in [Writers -> {"none", "refused", "io", "cleanup", "undefined"}]
    BY DEF IInv, TypeOK
  <2>3. /\ staged' \in [Writers -> SUBSET Names]
        /\ published' \in [Writers -> SUBSET Names]
        /\ links' \in [Writers -> SUBSET Names]
        /\ \A v \in Writers :
             /\ published'[v] \subseteq staged'[v] /\ staged'[v] \subseteq Request[v]
             /\ links'[v] \subseteq Request[v]
    BY RequestAssumption DEF IInv, TypeOK, Progress
  <2>4. /\ staging' \in SUBSET Writers /\ stagingSynced' \in SUBSET Writers
        /\ final' \in [Names -> Owners] /\ finalSynced' \in [Names -> Owners]
    BY DEF IInv, TypeOK, Owners
  <2>5. data' \in [Writers -> [Names -> {"none", "cached", "synced", "torn"}]]
    BY DEF IInv, TypeOK
  <2>6. faults' \in 0 .. MaxFaults /\ crashes' \in 0 .. MaxCrashes
    BY RequestAssumption DEF IInv, TypeOK
  <2> QED BY <2>1, <2>2, <2>3, <2>4, <2>5, <2>6 DEF TypeOK
<1>2. \A v \in Writers : Progress(v)'
  <2> TAKE v \in Writers
  <2>1. CASE v = w
    BY <2>1, RequestAssumption DEF IInv, TypeOK, Progress
  <2>2. CASE v # w
    BY <2>2 DEF IInv, TypeOK, Progress
  <2> QED BY <2>1, <2>2
<1>3. \A v \in Writers : Filled(v)'
  <2> TAKE v \in Writers
  <2>1. CASE v = w
    BY <2>1, RequestAssumption DEF IInv, TypeOK, Progress, Filled
  <2>2. CASE v # w
    BY <2>2 DEF IInv, TypeOK, Filled
  <2> QED BY <2>1, <2>2
<1>4. \A v \in Writers : Owned(v)'
  BY DEF IInv, TypeOK, Progress, Owned, Working
<1>5. SyncedIsVisible'
  BY DEF IInv, SyncedIsVisible, TypeOK
<1>6. LeadIsLock' /\ NoMixedBundle'
  BY LockFrame DEF IInv, TypeOK, Working
<1> QED BY <1>1, <1>2, <1>3, <1>4, <1>5, <1>6 DEF IInv

LEMMA RemoveStagingIInv ==
  ASSUME IInv, NEW w \in Writers, RemoveStaging(w)
  PROVE  IInv'
<1> USE DEF RemoveStaging, Goto, Return, Fault, FailTo, SyncDir, records, outDir, bounds
<1>1. TypeOK'
  <2>1. pc' \in [Writers -> {"idle"} \cup Working \cup Ended]
    BY DEF IInv, TypeOK, Working, Ended
  <2>2. err' \in [Writers -> {"none", "refused", "io", "cleanup", "undefined"}]
    BY DEF IInv, TypeOK
  <2>3. /\ staged' \in [Writers -> SUBSET Names]
        /\ published' \in [Writers -> SUBSET Names]
        /\ links' \in [Writers -> SUBSET Names]
        /\ \A v \in Writers :
             /\ published'[v] \subseteq staged'[v] /\ staged'[v] \subseteq Request[v]
             /\ links'[v] \subseteq Request[v]
    BY RequestAssumption DEF IInv, TypeOK, Progress
  <2>4. /\ staging' \in SUBSET Writers /\ stagingSynced' \in SUBSET Writers
        /\ final' \in [Names -> Owners] /\ finalSynced' \in [Names -> Owners]
    BY DEF IInv, TypeOK, Owners
  <2>5. data' \in [Writers -> [Names -> {"none", "cached", "synced", "torn"}]]
    BY DEF IInv, TypeOK
  <2>6. faults' \in 0 .. MaxFaults /\ crashes' \in 0 .. MaxCrashes
    BY RequestAssumption DEF IInv, TypeOK
  <2> QED BY <2>1, <2>2, <2>3, <2>4, <2>5, <2>6 DEF TypeOK
<1>2. \A v \in Writers : Progress(v)'
  <2> TAKE v \in Writers
  <2>1. CASE v = w
    BY <2>1, RequestAssumption DEF IInv, TypeOK, Progress
  <2>2. CASE v # w
    BY <2>2 DEF IInv, TypeOK, Progress
  <2> QED BY <2>1, <2>2
<1>3. \A v \in Writers : Filled(v)'
  <2> TAKE v \in Writers
  <2>1. CASE v = w
    BY <2>1, RequestAssumption DEF IInv, TypeOK, Progress, Filled
  <2>2. CASE v # w
    BY <2>2 DEF IInv, TypeOK, Filled
  <2> QED BY <2>1, <2>2
<1>4. \A v \in Writers : Owned(v)'
  BY DEF IInv, TypeOK, Progress, Owned, Working
<1>5. SyncedIsVisible'
  BY DEF IInv, SyncedIsVisible, TypeOK
<1>6. LeadIsLock' /\ NoMixedBundle'
  BY LockFrame DEF IInv, TypeOK, Working
<1> QED BY <1>1, <1>2, <1>3, <1>4, <1>5, <1>6 DEF IInv

LEMMA SyncRemovalIInv ==
  ASSUME IInv, NEW w \in Writers, SyncRemoval(w)
  PROVE  IInv'
<1> USE DEF SyncRemoval, Goto, Return, Fault, FailTo, SyncDir, records, outDir, bounds
<1>1. TypeOK'
  <2>1. pc' \in [Writers -> {"idle"} \cup Working \cup Ended]
    BY DEF IInv, TypeOK, Working, Ended
  <2>2. err' \in [Writers -> {"none", "refused", "io", "cleanup", "undefined"}]
    BY DEF IInv, TypeOK
  <2>3. /\ staged' \in [Writers -> SUBSET Names]
        /\ published' \in [Writers -> SUBSET Names]
        /\ links' \in [Writers -> SUBSET Names]
        /\ \A v \in Writers :
             /\ published'[v] \subseteq staged'[v] /\ staged'[v] \subseteq Request[v]
             /\ links'[v] \subseteq Request[v]
    BY RequestAssumption DEF IInv, TypeOK, Progress
  <2>4. /\ staging' \in SUBSET Writers /\ stagingSynced' \in SUBSET Writers
        /\ final' \in [Names -> Owners] /\ finalSynced' \in [Names -> Owners]
    BY DEF IInv, TypeOK, Owners
  <2>5. data' \in [Writers -> [Names -> {"none", "cached", "synced", "torn"}]]
    BY DEF IInv, TypeOK
  <2>6. faults' \in 0 .. MaxFaults /\ crashes' \in 0 .. MaxCrashes
    BY RequestAssumption DEF IInv, TypeOK
  <2> QED BY <2>1, <2>2, <2>3, <2>4, <2>5, <2>6 DEF TypeOK
<1>2. \A v \in Writers : Progress(v)'
  <2> TAKE v \in Writers
  <2>1. CASE v = w
    BY <2>1, RequestAssumption DEF IInv, TypeOK, Progress
  <2>2. CASE v # w
    BY <2>2 DEF IInv, TypeOK, Progress
  <2> QED BY <2>1, <2>2
<1>3. \A v \in Writers : Filled(v)'
  <2> TAKE v \in Writers
  <2>1. CASE v = w
    BY <2>1, RequestAssumption DEF IInv, TypeOK, Progress, Filled
  <2>2. CASE v # w
    BY <2>2 DEF IInv, TypeOK, Filled
  <2> QED BY <2>1, <2>2
<1>4. \A v \in Writers : Owned(v)'
  BY DEF IInv, TypeOK, Progress, Owned, Working
<1>5. SyncedIsVisible'
  BY DEF IInv, SyncedIsVisible, TypeOK
<1>6. LeadIsLock' /\ NoMixedBundle'
  BY LockFrame DEF IInv, TypeOK, Working
<1> QED BY <1>1, <1>2, <1>3, <1>4, <1>5, <1>6 DEF IInv

LEMMA KillIInv ==
  ASSUME IInv, NEW w \in Writers, Kill(w)
  PROVE  IInv'
<1> USE DEF Kill, Goto, Return, Fault, FailTo, SyncDir, records, outDir, bounds
<1>1. TypeOK'
  <2>1. pc' \in [Writers -> {"idle"} \cup Working \cup Ended]
    BY DEF IInv, TypeOK, Working, Ended
  <2>2. err' \in [Writers -> {"none", "refused", "io", "cleanup", "undefined"}]
    BY DEF IInv, TypeOK
  <2>3. /\ staged' \in [Writers -> SUBSET Names]
        /\ published' \in [Writers -> SUBSET Names]
        /\ links' \in [Writers -> SUBSET Names]
        /\ \A v \in Writers :
             /\ published'[v] \subseteq staged'[v] /\ staged'[v] \subseteq Request[v]
             /\ links'[v] \subseteq Request[v]
    BY RequestAssumption DEF IInv, TypeOK, Progress
  <2>4. /\ staging' \in SUBSET Writers /\ stagingSynced' \in SUBSET Writers
        /\ final' \in [Names -> Owners] /\ finalSynced' \in [Names -> Owners]
    BY DEF IInv, TypeOK, Owners
  <2>5. data' \in [Writers -> [Names -> {"none", "cached", "synced", "torn"}]]
    BY DEF IInv, TypeOK
  <2>6. faults' \in 0 .. MaxFaults /\ crashes' \in 0 .. MaxCrashes
    BY RequestAssumption DEF IInv, TypeOK
  <2> QED BY <2>1, <2>2, <2>3, <2>4, <2>5, <2>6 DEF TypeOK
<1>2. \A v \in Writers : Progress(v)'
  <2> TAKE v \in Writers
  <2>1. CASE v = w
    BY <2>1, RequestAssumption DEF IInv, TypeOK, Progress
  <2>2. CASE v # w
    BY <2>2 DEF IInv, TypeOK, Progress
  <2> QED BY <2>1, <2>2
<1>3. \A v \in Writers : Filled(v)'
  <2> TAKE v \in Writers
  <2>1. CASE v = w
    BY <2>1, RequestAssumption DEF IInv, TypeOK, Progress, Filled
  <2>2. CASE v # w
    BY <2>2 DEF IInv, TypeOK, Filled
  <2> QED BY <2>1, <2>2
<1>4. \A v \in Writers : Owned(v)'
  BY DEF IInv, TypeOK, Progress, Owned, Working
<1>5. SyncedIsVisible'
  BY DEF IInv, SyncedIsVisible, TypeOK
<1>6. LeadIsLock' /\ NoMixedBundle'
  BY LockFrame DEF IInv, TypeOK, Working
<1> QED BY <1>1, <1>2, <1>3, <1>4, <1>5, <1>6 DEF IInv

LEMMA InspectIInv ==
  ASSUME IInv, NEW w \in Writers, Inspect(w)
  PROVE  IInv'
<1>a. /\ pc[w] = "idle"
      /\ UNCHANGED <<records, links, outDir, data, crashes>>
      /\ faults' \in {faults, faults + 1} /\ faults' <= MaxFaults
      /\ \/ pc' = [pc EXCEPT ![w] = "mkdir"] /\ err' = err /\ ~Exists(w)
         \/ pc' = [pc EXCEPT ![w] = "failed"] /\ err' = [err EXCEPT ![w] = "refused"]
  BY RequestAssumption DEF Inspect, Goto, Return, Fault, bounds, IInv, TypeOK
<1> USE DEF records, outDir
<1>1. TypeOK'
  <2>1. pc' \in [Writers -> {"idle"} \cup Working \cup Ended]
    <3>1. pc \in [Writers -> {"idle"} \cup Working \cup Ended]
      BY DEF IInv, TypeOK
    <3>2. "mkdir" \in Working /\ "failed" \in Ended
      BY DEF Working, Ended
    <3> QED BY <1>a, <3>1, <3>2
  <2>2. err' \in [Writers -> {"none", "refused", "io", "cleanup", "undefined"}]
    BY <1>a, RequestAssumption DEF IInv, TypeOK
  <2>3. /\ staged' \in [Writers -> SUBSET Names]
        /\ published' \in [Writers -> SUBSET Names]
        /\ links' \in [Writers -> SUBSET Names]
        /\ \A v \in Writers :
             /\ published'[v] \subseteq staged'[v] /\ staged'[v] \subseteq Request[v]
             /\ links'[v] \subseteq Request[v]
    BY <1>a, RequestAssumption DEF IInv, TypeOK, Progress
  <2>4. /\ staging' \in SUBSET Writers /\ stagingSynced' \in SUBSET Writers
        /\ final' \in [Names -> Owners] /\ finalSynced' \in [Names -> Owners]
    BY <1>a, RequestAssumption DEF IInv, TypeOK, Owners
  <2>5. data' \in [Writers -> [Names -> {"none", "cached", "synced", "torn"}]]
    BY <1>a, RequestAssumption DEF IInv, TypeOK
  <2>6. faults' \in 0 .. MaxFaults /\ crashes' \in 0 .. MaxCrashes
    BY <1>a, RequestAssumption DEF IInv, TypeOK
  <2> QED BY <2>1, <2>2, <2>3, <2>4, <2>5, <2>6 DEF TypeOK
<1>2. \A v \in Writers : Progress(v)'
  <2> TAKE v \in Writers
  <2>1. CASE v = w
    BY <1>a, <2>1 DEF IInv, TypeOK, Progress
  <2>2. CASE v # w
    BY <1>a, <2>2 DEF IInv, TypeOK, Progress
  <2> QED BY <2>1, <2>2
<1>3. \A v \in Writers : Filled(v)'
  <2> TAKE v \in Writers
  <2>1. CASE v = w
    BY <1>a, <2>1 DEF IInv, TypeOK, Progress, Filled
  <2>2. CASE v # w
    BY <1>a, <2>2 DEF IInv, TypeOK, Filled
  <2> QED BY <2>1, <2>2
<1>4. \A v \in Writers : Owned(v)'
  BY <1>a DEF IInv, TypeOK, Progress, Owned, Working
<1>5. SyncedIsVisible'
  BY <1>a DEF IInv, SyncedIsVisible
<1>6. LeadIsLock'
  <2> SUFFICES ASSUME crashes = 0 \/ RequestsAgree,
                      NEW u \in Writers, NEW v \in Writers,
                      Lead(u) = Lead(v), pc'[v] \in Working, Holds(u)
               PROVE  final[Lead(u)] = u
    BY <1>a DEF LeadIsLock, Holds, RequestsAgree
  <2>1. CASE pc[v] \in Working
    BY <2>1 DEF IInv, LeadIsLock
  <2>2. CASE pc[v] \notin Working
    <3>1. v = w /\ ~Exists(w)
      BY <1>a, <2>2 DEF IInv, TypeOK, Working
    <3>2. PICK n \in Names : final[n] = u
      BY DEF Holds
    <3>3. n \in published[u] /\ Lead(u) \in published[u]
      BY <3>2 DEF IInv, Owned
    <3>4. CASE crashes = 0
      BY <3>3, <3>4 DEF IInv, Owned
    <3>5. CASE RequestsAgree
      <4>1. n \in Request[v]
        BY <3>3, <3>5 DEF RequestsAgree, IInv, TypeOK
      <4> QED BY <3>1, <3>2, <4>1, RequestAssumption DEF Exists
    <3> QED BY <3>4, <3>5
  <2> QED BY <2>1, <2>2
<1>7. NoMixedBundle'
  BY <1>a DEF IInv, NoMixedBundle, Holds, RequestsAgree
<1> QED BY <1>1, <1>2, <1>3, <1>4, <1>5, <1>6, <1>7 DEF IInv

LEMMA LinkIInv ==
  ASSUME IInv, NEW w \in Writers, Link(w)
  PROVE  IInv'
<1>w. /\ pc[w] = "link" /\ staged[w] = Request[w]
      /\ Request[w] \ published[w] \in SUBSET Names
      /\ Request[w] \ published[w] # {}
  BY RequestAssumption DEF Link, IInv, TypeOK, Progress
<1>n. PICK n \in Request[w] \ published[w] : n = First(Request[w] \ published[w])
  BY <1>w, FirstIn
<1>b. CASE final' = final
  <2>a. /\ pc' = [pc EXCEPT ![w] = "rollback"]
        /\ UNCHANGED <<err, records, links, outDir, data, crashes>>
        /\ faults' \in {faults, faults + 1} /\ faults' <= MaxFaults
    BY <1>b, <1>n, <1>w, RequestAssumption
    DEF Link, Goto, FailTo, Fault, records, outDir, bounds, IInv, TypeOK
  <2> USE DEF records, outDir
  <2>1. TypeOK'
    BY <2>a, RequestAssumption DEF IInv, TypeOK, Working
  <2>2. \A v \in Writers : Progress(v)' /\ Filled(v)' /\ Owned(v)'
    BY <2>a, <1>w DEF IInv, TypeOK, Progress, Filled, Owned, Working
  <2>3. SyncedIsVisible'
    BY <2>a DEF IInv, SyncedIsVisible
  <2>4. LeadIsLock' /\ NoMixedBundle'
    BY <2>a, <1>w, LockFrame DEF IInv, TypeOK, Working
  <2> QED BY <2>1, <2>2, <2>3, <2>4 DEF IInv
<1>c. CASE final' # final
  <2>a. /\ final[n] = Nobody
        /\ final' = [final EXCEPT ![n] = w]
        /\ published' = [published EXCEPT ![w] = published[w] \cup {n}]
        /\ pc' = [pc EXCEPT ![w] = "unlink"]
        /\ UNCHANGED <<err, staged, links, staging, stagingSynced, finalSynced, data, faults, crashes>>
    BY <1>c, <1>n DEF Link, Goto, FailTo, records, outDir, bounds
  <2>t. /\ n \in Names /\ n \in Request[w] /\ n \in staged[w]
        /\ published \in [Writers -> SUBSET Names]
        /\ final \in [Names -> Owners] /\ pc \in [Writers -> {"idle"} \cup Working \cup Ended]
    BY <1>w DEF IInv, TypeOK
  <2>1. TypeOK'
    <3>1. published' \in [Writers -> SUBSET Names]
          /\ \A v \in Writers : published'[v] \subseteq published[v] \cup (IF v = w THEN {n} ELSE {})
      BY <2>a, <2>t
    <3>2. final' \in [Names -> Owners]
      BY <2>a, <2>t DEF Owners
    <3>3. pc' \in [Writers -> {"idle"} \cup Working \cup Ended]
      BY <2>a, <2>t DEF Working
    <3>4. \A v \in Writers : published'[v] \subseteq staged[v]
      BY <3>1, <2>t DEF IInv, TypeOK
    <3> QED BY <2>a, <3>1, <3>2, <3>3, <3>4 DEF IInv, TypeOK
  <2>2. \A v \in Writers : Progress(v)'
    BY <1>w, <2>a, <2>t DEF IInv, Progress
  <2>3. \A v \in Writers : Filled(v)'
    BY <1>w, <2>a, <2>t DEF IInv, Filled
  <2>l. Lead(w) \in published'[w]
    <3>1. published'[w] = published[w] \cup {n}
      BY <2>a, <2>t
    <3>2. CASE published[w] = {}
      <4>1. Request[w] \ published[w] = Request[w]
        BY <3>2
      <4>2. n = Lead(w)
        BY <1>n, <4>1 DEF Lead
      <4> QED BY <3>1, <4>2
    <3>3. CASE published[w] # {}
      BY <3>1, <3>3 DEF IInv, Owned
    <3> QED BY <3>2, <3>3
  <2>4. \A v \in Writers : Owned(v)'
    <3>1. Lead(w) \in published'[w]
      BY <2>l
    <3>2. published'[w] = published[w] \cup {n} /\ \A v \in Writers : v # w => published'[v] = published[v]
      BY <2>a, <2>t
    <3>3. \A m \in Names : final'[m] = IF m = n THEN w ELSE final[m]
      BY <2>a, <2>t
    <3>4. \A v \in Writers : v # Nobody /\ published[v] \subseteq Names /\ Request[v] \subseteq Names
      BY RequestAssumption DEF IInv, TypeOK
    <3>5. pc'[w] = "unlink" /\ \A v \in Writers : v # w => pc'[v] = pc[v]
      BY <2>a, <2>t
    <3> SUFFICES ASSUME NEW v \in Writers PROVE Owned(v)'
      OBVIOUS
    <3>6. CASE v = w
      BY <1>w, <2>a, <3>1, <3>2, <3>3, <3>4, <3>5, <3>6 DEF IInv, Owned, Working
    <3>7. CASE v # w
      BY <2>a, <3>2, <3>3, <3>4, <3>5, <3>7 DEF IInv, Owned, Working
    <3> QED BY <3>6, <3>7
  <2>5. SyncedIsVisible'
    BY <2>a, <2>t DEF IInv, SyncedIsVisible
  <2>h. \A v \in Writers : v # w => (Holds(v)' <=> Holds(v))
    BY <2>a, <2>t, RequestAssumption DEF Holds
  <2>6. LeadIsLock'
    <3> SUFFICES ASSUME crashes = 0 \/ RequestsAgree,
                        NEW u \in Writers, NEW v \in Writers,
                        Lead(u) = Lead(v), pc'[v] \in Working, Holds(u)'
                 PROVE  final'[Lead(u)] = u
      BY <2>a DEF LeadIsLock, RequestsAgree
    <3>1. CASE u = w
      <4>1. Lead(w) \in published'[w] /\ pc'[w] \in Working
        BY <2>a, <2>t, <2>l DEF Working
      <4> QED BY <2>4, <3>1, <4>1 DEF Owned
    <3>2. CASE u # w
      <4>1. pc[v] \in Working /\ Holds(u)
        BY <1>w, <2>a, <2>t, <2>h, <3>2 DEF Working
      <4>2. final[Lead(u)] = u
        BY <4>1 DEF IInv, LeadIsLock
      <4> QED BY <2>a, <2>t, <4>2, LeadIn, RequestAssumption
    <3> QED BY <3>1, <3>2
  <2>7. NoMixedBundle'
    <3>1. ASSUME crashes = 0 \/ RequestsAgree, NEW v \in Writers, v # w,
                 Lead(v) = Lead(w), Holds(v)
          PROVE  FALSE
      <4>1. final[Lead(w)] = v
        BY <1>w, <3>1 DEF IInv, LeadIsLock, Working
      <4>2. n # Lead(w)
        BY <2>a, <3>1, <4>1, RequestAssumption
      <4>3. published[w] # {}
        BY <1>n, <4>2 DEF Lead
      <4>4. final[Lead(w)] = w
        BY <1>w, <4>3 DEF IInv, Owned, Working
      <4> QED BY <3>1, <4>1, <4>4
    <3> QED BY <2>a, <2>h, <3>1 DEF IInv, NoMixedBundle, RequestsAgree
  <2> QED BY <2>1, <2>2, <2>3, <2>4, <2>5, <2>6, <2>7 DEF IInv
<1> QED BY <1>b, <1>c

LEMMA RollbackIInv ==
  ASSUME IInv, NEW w \in Writers, Rollback(w)
  PROVE  IInv'
<1>r. PICK stuck \in SUBSET (links[w] \cap (staged[w] \ published[w])), busy \in {0, 1} :
        LET left    == links[w] \ ((staged[w] \ published[w]) \ stuck)
            removed == busy = 0 /\ left = {} /\ w \in staging
        IN  /\ faults + (Cardinality(stuck) + busy) <= MaxFaults
            /\ faults' = faults + (Cardinality(stuck) + busy)
            /\ links' = [links EXCEPT ![w] = left]
            /\ staging' = IF removed THEN staging \ {w} ELSE staging
            /\ Return(w, Kind(w, removed))
  BY DEF Rollback
<1>f. faults' \in 0 .. MaxFaults
  <2>1. stuck \in SUBSET Names
    BY DEF IInv, TypeOK
  <2>2. Cardinality(stuck) \in Nat
    BY <2>1, RequestAssumption, FS_Subset, FS_CardinalityType
  <2> QED BY <1>r, <2>2, RequestAssumption DEF IInv, TypeOK
<1>a. /\ pc[w] = "rollback"
      /\ pc' = [pc EXCEPT ![w] = "failed"]
      /\ err' \in {[err EXCEPT ![w] = k] : k \in {"io", "cleanup", "undefined"}}
      /\ staging' \subseteq staging
      /\ UNCHANGED <<records, stagingSynced, final, finalSynced, data, crashes>>
  BY <1>r DEF Rollback, Return, Goto, Kind
<1>l. \E left \in SUBSET links[w] : links' = [links EXCEPT ![w] = left]
  BY <1>r
<1> USE DEF records
<1>1. TypeOK'
  <2>1. pc' \in [Writers -> {"idle"} \cup Working \cup Ended]
    BY <1>a, <1>f, <1>l, RequestAssumption DEF IInv, TypeOK, Working, Ended
  <2>2. err' \in [Writers -> {"none", "refused", "io", "cleanup", "undefined"}]
    BY <1>a, <1>f, <1>l, RequestAssumption DEF IInv, TypeOK
  <2>3. /\ staged' \in [Writers -> SUBSET Names]
        /\ published' \in [Writers -> SUBSET Names]
        /\ links' \in [Writers -> SUBSET Names]
        /\ \A v \in Writers :
             /\ published'[v] \subseteq staged'[v] /\ staged'[v] \subseteq Request[v]
             /\ links'[v] \subseteq Request[v]
    BY <1>a, <1>f, <1>l, RequestAssumption DEF IInv, TypeOK, Progress
  <2>4. /\ staging' \in SUBSET Writers /\ stagingSynced' \in SUBSET Writers
        /\ final' \in [Names -> Owners] /\ finalSynced' \in [Names -> Owners]
    BY <1>a, <1>f, <1>l, RequestAssumption DEF IInv, TypeOK, Owners
  <2>5. data' \in [Writers -> [Names -> {"none", "cached", "synced", "torn"}]]
    BY <1>a, <1>f, <1>l, RequestAssumption DEF IInv, TypeOK
  <2>6. faults' \in 0 .. MaxFaults /\ crashes' \in 0 .. MaxCrashes
    BY <1>a, <1>f, <1>l, RequestAssumption DEF IInv, TypeOK
  <2> QED BY <2>1, <2>2, <2>3, <2>4, <2>5, <2>6 DEF TypeOK
<1>2. \A v \in Writers : Progress(v)'
  BY <1>a, <1>l DEF IInv, TypeOK, Progress
<1>3. \A v \in Writers : Filled(v)'
  <2> TAKE v \in Writers
  <2>1. CASE v = w
    BY <1>a, <1>l, <2>1 DEF IInv, TypeOK, Progress, Filled
  <2>2. CASE v # w
    BY <1>a, <1>l, <2>2 DEF IInv, TypeOK, Filled
  <2> QED BY <2>1, <2>2
<1>4. \A v \in Writers : Owned(v)'
  BY <1>a DEF IInv, TypeOK, Owned, Working
<1>5. SyncedIsVisible'
  BY <1>a DEF IInv, SyncedIsVisible
<1>6. LeadIsLock' /\ NoMixedBundle'
  BY <1>a, LockFrame DEF IInv, TypeOK, Working
<1> QED BY <1>1, <1>2, <1>3, <1>4, <1>5, <1>6 DEF IInv

LEMMA HostCrashIInv ==
  ASSUME IInv, HostCrash
  PROVE  IInv'
<1>a. /\ crashes < MaxCrashes /\ crashes' = crashes + 1
      /\ pc' = [w \in Writers |-> IF pc[w] \in Working THEN "killed" ELSE pc[w]]
      /\ finalSynced' = final' /\ stagingSynced' = staging'
      /\ UNCHANGED <<err, staged, published, links, faults>>
  BY DEF HostCrash, records
<1>f. /\ final' \in [Names -> Owners]
      /\ \A n \in Names : final'[n] \in {final[n], finalSynced[n]}
  BY DEF HostCrash, IInv, TypeOK
<1>s. staging' \subseteq staging \cup stagingSynced
  BY DEF HostCrash
<1>d. /\ data' \in [Writers -> [Names -> {"none", "cached", "synced", "torn"}]]
      /\ \A w \in Writers, n \in Names : data[w][n] = "synced" => data'[w][n] = "synced"
  BY DEF HostCrash, IInv, TypeOK
<1>p. \A w \in Writers : /\ pc'[w] \in {pc[w], "killed"}
                         /\ pc'[w] \notin Working
                         /\ pc[w] = "done" <=> pc'[w] = "done"
                         /\ pc[w] = "idle" <=> pc'[w] = "idle"
  BY <1>a DEF Working, Ended, IInv, TypeOK
<1>1. TypeOK'
  <2>1. pc' \in [Writers -> {"idle"} \cup Working \cup Ended]
    BY <1>a DEF IInv, TypeOK, Working, Ended
  <2>2. crashes' \in 0 .. MaxCrashes
    BY <1>a, RequestAssumption DEF IInv, TypeOK
  <2> QED BY <1>a, <1>f, <1>s, <1>d, <2>1, <2>2 DEF IInv, TypeOK
<1>2. \A v \in Writers : Progress(v)'
  BY <1>a, <1>p, <1>s DEF IInv, Progress, Working
<1>3. \A v \in Writers : Filled(v)'
  BY <1>a, <1>p, <1>d DEF IInv, TypeOK, Filled, Working
<1>4. \A v \in Writers : Owned(v)'
  <2> TAKE v \in Writers
  <2>1. v # Nobody
    BY RequestAssumption
  <2>2. \A n \in Names : final'[n] = v => final[n] = v
    BY <1>f, <2>1 DEF IInv, SyncedIsVisible
  <2>3. crashes' # 0
    BY <1>a DEF IInv, TypeOK
  <2>4. pc'[v] \in {"rmdir", "resync", "done"} =>
          \A n \in Request[v] : final'[n] = v /\ finalSynced'[n] = v
    BY <1>a, <1>f, <1>p, RequestAssumption DEF IInv, Owned, Working
  <2> QED BY <1>a, <1>p, <2>2, <2>3, <2>4 DEF IInv, Owned
<1>5. SyncedIsVisible'
  BY <1>a DEF SyncedIsVisible
<1>6. LeadIsLock'
  BY <1>p DEF LeadIsLock
<1>7. NoMixedBundle'
  <2>1. \A v \in Writers : Holds(v)' => Holds(v)
    BY <1>f, RequestAssumption DEF Holds, IInv, SyncedIsVisible
  <2>2. crashes' # 0
    BY <1>a DEF IInv, TypeOK
  <2> QED BY <2>1, <2>2 DEF IInv, NoMixedBundle, RequestsAgree
<1> QED BY <1>1, <1>2, <1>3, <1>4, <1>5, <1>6, <1>7 DEF IInv

-----------------------------------------------------------------------------
(* Theorems. *)

LEMMA NextIInv == IInv /\ [Next]_vars => IInv'
<1> SUFFICES ASSUME IInv, [Next]_vars PROVE IInv'
  OBVIOUS
<1>1. ASSUME NEW w \in Writers, Step(w) PROVE IInv'
  BY <1>1, InspectIInv, MakeStagingIInv, OpenStagingIInv, CreateAtIInv, FillIInv,
     LinkIInv, UnlinkIInv, SyncPublishedIInv, RemoveStagingIInv, SyncRemovalIInv,
     RollbackIInv DEF Step
<1>2. ASSUME NEW w \in Writers, Kill(w) PROVE IInv'
  BY <1>2, KillIInv
<1>3. CASE HostCrash
  BY <1>3, HostCrashIInv
<1>4. CASE UNCHANGED vars
  <2> USE <1>4 DEF vars, records, outDir, bounds
  <2>1. TypeOK' /\ SyncedIsVisible'
    BY DEF IInv, TypeOK, SyncedIsVisible
  <2>2. \A w \in Writers : Progress(w)' /\ Filled(w)' /\ Owned(w)'
    BY DEF IInv, Progress, Filled, Owned
  <2>3. LeadIsLock' /\ NoMixedBundle'
    BY LockFrame DEF IInv
  <2> QED BY <2>1, <2>2, <2>3 DEF IInv
<1> QED BY <1>1, <1>2, <1>3, <1>4 DEF Next

\* The inductive invariant holds in every behaviour.
LEMMA Invariance == Spec => []IInv
BY InitIInv, NextIInv, PTL DEF Spec

\* Type correctness of the render writer.
THEOREM WriterTypeOK == Spec => []TypeOK
<1>1. IInv => TypeOK
  BY DEF IInv
<1> QED BY <1>1, Invariance, PTL

\* Two renders of one role never have files side by side in the output
\* directory, whatever the number of renders, names, faults and crashes.
THEOREM BundlesAreNotMixed == Spec => []NoMixedBundle
<1>1. IInv => NoMixedBundle
  BY DEF IInv
<1> QED BY <1>1, Invariance, PTL

\* A final name never shows bytes that a crash could tear (guarantee 4).
THEOREM PublishedFilesAreWhole == Spec => []PublishedIsWhole
<1>1. IInv => PublishedIsWhole
  BY DEF IInv, Owned, Filled, PublishedIsWhole
<1> QED BY <1>1, Invariance, PTL

\* A bundle that was reported written is on disk and stays there, and its
\* staging directory never comes back (guarantee 4).
THEOREM CommitIsDurable == Spec => []CommittedIsDurable
<1>1. IInv => CommittedIsDurable
  BY DEF IInv, Owned, Progress, CommittedIsDurable
<1> QED BY <1>1, Invariance, PTL

\* No publish, rollback or crash replaces or deletes a final name that is on
\* disk, nor a visible one outside a host crash (guarantees 1 and 3).
THEOREM FinalsAreNeverReplaced == Spec => NeverReplaced
<1> DEFINE Kept == \A n \in Names :
             \/ final[n] = Nobody
             \/ final'[n] = final[n]
             \/ crashes' # crashes /\ finalSynced[n] = Nobody /\ final'[n] = Nobody
<1>1. IInv /\ [Next]_vars => [Kept]_vars
  <2> SUFFICES ASSUME IInv, Next PROVE Kept
    OBVIOUS
  <2>1. ASSUME NEW w \in Writers, Link(w) PROVE Kept
    BY <2>1 DEF Link, FailTo, outDir, IInv, TypeOK
  <2>2. ASSUME NEW w \in Writers, Step(w) \/ Kill(w), ~Link(w) PROVE final' = final
    BY <2>2 DEF Step, Inspect, MakeStaging, OpenStaging, CreateAt, Fill, Unlink,
       SyncPublished, RemoveStaging, SyncRemoval, Rollback, Kill, FailTo, outDir
  <2>3. CASE HostCrash
    <3>1. crashes' # crashes
      BY <2>3 DEF HostCrash, IInv, TypeOK
    <3>2. \A n \in Names : final'[n] \in {final[n], finalSynced[n]}
      BY <2>3 DEF HostCrash
    <3> QED BY <3>1, <3>2 DEF IInv, SyncedIsVisible
  <2> QED BY <2>1, <2>2, <2>3 DEF Next
<1> QED BY <1>1, Invariance, PTL DEF Spec, NeverReplaced

\* An error that names no undefined bundle and no cleanup failure means that
\* nothing of the render is left (guarantee 6).
THEOREM PlainErrorsLeaveNothing == Spec => ResidueIsReported
<1> DEFINE Clean == \A w \in Writers :
             pc[w] # "failed" /\ pc'[w] = "failed" /\ err'[w] \in {"refused", "io"} =>
               w \notin staging' /\ \A n \in Names : final'[n] # w
<1>1. IInv /\ [Next]_vars => [Clean]_vars
  <2> SUFFICES ASSUME IInv, Next PROVE Clean
    OBVIOUS
  <2> SUFFICES ASSUME NEW w \in Writers,
                      pc[w] # "failed", pc'[w] = "failed", err'[w] \in {"refused", "io"}
               PROVE  w \notin staging' /\ \A n \in Names : final'[n] # w
    OBVIOUS
  <2>t. pc \in [Writers -> {"idle"} \cup Working \cup Ended]
        /\ err \in [Writers -> {"none", "refused", "io", "cleanup", "undefined"}]
    BY DEF IInv, TypeOK
  <2>1. Inspect(w) \/ MakeStaging(w) \/ OpenStaging(w) \/ Rollback(w)
    <3>1. ~HostCrash
      BY DEF HostCrash, Working
    <3>2. PICK v \in Writers : Step(v) \/ Kill(v)
      BY <3>1 DEF Next
    <3>3. v = w
      BY <2>t, <3>2 DEF Step, Inspect, MakeStaging, OpenStaging, CreateAt, Fill, Link, Unlink,
         SyncPublished, RemoveStaging, SyncRemoval, Rollback, Kill, FailTo, Goto, Return
    <3> QED BY <2>t, <3>2, <3>3 DEF Step, CreateAt, Fill, Link, Unlink,
          SyncPublished, RemoveStaging, SyncRemoval, Kill, FailTo, Goto
  <2>2. CASE Inspect(w)
    BY <2>2 DEF Inspect, outDir, IInv, Progress, Owned
  <2>3. CASE MakeStaging(w)
    BY <2>t, <2>3 DEF MakeStaging, Goto, IInv, Progress, Owned
  <2>4. CASE OpenStaging(w)
    BY <2>t, <2>4 DEF OpenStaging, Goto, Return, IInv, Progress, Owned
  <2>5. CASE Rollback(w)
    <3>1. final' = final /\ published[w] = {} /\ w \notin staging'
      BY <2>t, <2>5 DEF Rollback, Return, Kind
    <3> QED BY <3>1 DEF IInv, Owned
  <2> QED BY <2>1, <2>2, <2>3, <2>4, <2>5
<1> QED BY <1>1, Invariance, PTL DEF Spec, ResidueIsReported
=============================================================================
