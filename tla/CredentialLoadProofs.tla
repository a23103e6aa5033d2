------------------------ MODULE CredentialLoadProofs ------------------------
(***************************************************************************)
(* Proofs about one load of credentials, for any directory tree, any number*)
(* of changes to it and of failing system calls.                           *)
(***************************************************************************)
EXTENDS CredentialLoad, SequenceTheorems, TLAPS

Opening == {"resolve", "root", "unit"}
Reading == {"list", "inspect", "read"}

(***************************************************************************)
(* Where bytes come from: nothing is read before the unit directory was    *)
(* opened and its metadata checked, and from then on its descriptor is the *)
(* one every read is relative to.                                          *)
(***************************************************************************)
SourceInv ==
  /\ pc \in Opening \cup Reading \cup {"returned"}
  /\ pc \in Opening \cup {"list"} => origin = NoMap
  /\ pc \in Reading => Secure(world.meta[dir], TRUE)
  /\ pc = "read" => held.dir = dir
  /\ OneDirectory

-----------------------------------------------------------------------------
\* A load starts with nothing read.
LEMMA InitSource ==
  ASSUME Init PROVE SourceInv
BY DEF Init, SourceInv, OneDirectory, Opening, Reading, NoMap

\* A load that fails keeps what it read, from where it read it.
LEMMA FailSource ==
  ASSUME SourceInv, NEW kind, Fail(kind) PROVE SourceInv'
BY DEF Fail, SourceInv, OneDirectory, Opening, Reading, task, got

\* The two opens, and the directory listing.
LEMMA OpenSource ==
  ASSUME SourceInv, ResolveUnitDir \/ OpenRoot \/ OpenUnit \/ CheckDuplicates
  PROVE  SourceInv'
<1>1. CASE ResolveUnitDir
  BY <1>1, FailSource
  DEF ResolveUnitDir, Refuse, SourceInv, OneDirectory, Opening, Reading, task, got, NoMap
<1>2. CASE OpenRoot
  BY <1>2, FailSource
  DEF OpenRoot, Refuse, Fault, SourceInv, OneDirectory, Opening, Reading, task, got, NoMap
<1>3. CASE OpenUnit
  BY <1>3, FailSource
  DEF OpenUnit, Refuse, Fault, SourceInv, OneDirectory, Opening, Reading, task, got, NoMap
<1>4. CASE CheckDuplicates
  BY <1>4, FailSource
  DEF CheckDuplicates, Refuse, Fault, SourceInv, OneDirectory, Opening, Reading, task, got, NoMap
<1> QED  BY <1>1, <1>2, <1>3, <1>4

\* Inspection and the skip of an optional name read nothing.
LEMMA InspectSource ==
  ASSUME SourceInv, Inspect \/ SkipOptional PROVE SourceInv'
<1>1. CASE Inspect
  <2>1. CASE \E kind : Fail(kind)  BY <2>1, FailSource
  <2>2. CASE ~\E kind : Fail(kind)
    <3>1. /\ held'.dir = dir /\ pc = "inspect" /\ pc' = "read"
          /\ UNCHANGED <<dir, origin, world>>
      BY <1>1, <2>2 DEF Inspect, Source, Refuse, Fault, got, task
    <3> QED  BY <3>1 DEF SourceInv, OneDirectory, Opening, Reading
  <2> QED  BY <2>1, <2>2
<1>2. CASE SkipOptional
  BY <1>2
  DEF SkipOptional, Advance, SourceInv, OneDirectory, Opening, Reading, task, got
<1> QED  BY <1>1, <1>2

\* The bytes that are kept come from the held file's directory.
LEMMA ReadSource ==
  ASSUME SourceInv, ReadFull PROVE SourceInv'
<1>1. CASE \E kind : Fail(kind)
  BY <1>1, FailSource
<1>2. ASSUME NEW data, Keep(data) PROVE SourceInv'
  <2>1. /\ pc = "read" /\ held.dir = dir /\ Secure(world.meta[dir], TRUE) /\ OneDirectory
    BY DEF ReadFull, SourceInv, Reading
  <2>2. \A n \in DOMAIN origin' : origin'[n] = dir
    BY <1>2, <2>1 DEF Keep, OneDirectory
  <2>3. pc' \in {"returned", "inspect"} /\ dir' = dir /\ world' = world
    BY <1>2 DEF Keep, Advance, task
  <2> QED  BY <2>1, <2>2, <2>3 DEF SourceInv, OneDirectory, Opening, Reading
<1> QED  BY <1>1, <1>2 DEF ReadFull, Refuse, Fault

\* Every step keeps the directory's invariant.
LEMMA NextSource ==
  ASSUME SourceInv, [Next]_vars PROVE SourceInv'
<1>1. CASE Operate
  BY <1>1 DEF Operate, SwapRoot, SwapUnit, Replace, Rewrite, Change, SourceInv, OneDirectory,
              Opening, Reading, task, got
<1>2. CASE UNCHANGED vars
  BY <1>2 DEF vars, SourceInv, OneDirectory, Opening, Reading, task, got
<1> QED  BY <1>1, <1>2, OpenSource, InspectSource, ReadSource DEF Next, Load

(***************************************************************************)
(* However directories are renamed during a load, its whole bundle comes   *)
(* from one directory, the one whose owner and permissions were checked.   *)
(***************************************************************************)
THEOREM BundlesComeFromOneDirectory == Spec => []OneDirectory
<1>1. Init => SourceInv  BY InitSource
<1>2. SourceInv /\ [Next]_vars => SourceInv'  BY NextSource
<1>3. SourceInv => OneDirectory  BY DEF SourceInv
<1> QED  BY <1>1, <1>2, <1>3, PTL DEF Spec

-----------------------------------------------------------------------------
(* The order of reading: required names first, each name of the role once, *)
(* the optional ones last.                                                 *)

Listed ==
  {"GATEWAY_EGRESS_PASSWORD_1", "TROJAN_USER_1", "TROJAN_PASSWORD_1", "HTTPS_USER_1",
   "HTTPS_PASSWORD_1", "HTTPS_USER_2", "HTTPS_PASSWORD_2", "gateway.crt", "gateway.key",
   "gateway-client.crt", "gateway-client.key", "egress.crt", "egress.key",
   "gateway-client-ca.crt"}

\* The three lists of a role are sequences, and no name is in two of them.
LEMMA ListsOfARole ==
  ASSUME NEW r \in Roles
  PROVE  /\ RequiredScalars[r] \in Seq(Listed) /\ Len(RequiredScalars[r]) > 0
         /\ RequiredAssets[r] \in Seq(Listed) /\ OptionalAssets[r] \in Seq(Listed)
         /\ Optional(r) \cap Required(r) = {}
         /\ Entries(RequiredAssets[r]) \cap Entries(RequiredScalars[r]) = {}
<1>1. CASE r = "gateway"
  <2>1. /\ RequiredScalars[r] \in Seq(Listed) /\ Len(RequiredScalars[r]) = 7
        /\ RequiredAssets[r] \in Seq(Listed) /\ Len(RequiredAssets[r]) = 2
        /\ OptionalAssets[r] \in Seq(Listed) /\ Len(OptionalAssets[r]) = 2
    <3>1. RequiredScalars[r] \in Seq(Listed) /\ Len(RequiredScalars[r]) = 7
      BY <1>1 DEF RequiredScalars, Listed
    <3>2. RequiredAssets[r] \in Seq(Listed) /\ Len(RequiredAssets[r]) = 2
      BY <1>1 DEF RequiredAssets, Listed
    <3>3. OptionalAssets[r] \in Seq(Listed) /\ Len(OptionalAssets[r]) = 2
      BY <1>1 DEF OptionalAssets, Listed
    <3> QED  BY <3>1, <3>2, <3>3
  <2>2. Entries(RequiredAssets[r]) \subseteq {"gateway.crt", "gateway.key"}
    BY <1>1, <2>1 DEF RequiredAssets, Entries
  <2>3. Optional(r) \subseteq {"gateway-client.crt", "gateway-client.key"}
    BY <1>1, <2>1 DEF OptionalAssets, Optional, Entries
  <2>4. Entries(RequiredScalars[r]) \subseteq
          {"GATEWAY_EGRESS_PASSWORD_1", "TROJAN_USER_1", "TROJAN_PASSWORD_1", "HTTPS_USER_1",
           "HTTPS_PASSWORD_1", "HTTPS_USER_2", "HTTPS_PASSWORD_2"}
    BY <1>1, <2>1 DEF RequiredScalars, Entries
  <2> QED  BY <2>1, <2>2, <2>3, <2>4 DEF Required
<1>2. CASE r = "egress"
  <2>1. /\ RequiredScalars[r] \in Seq(Listed) /\ Len(RequiredScalars[r]) = 1
        /\ RequiredAssets[r] \in Seq(Listed) /\ Len(RequiredAssets[r]) = 2
        /\ OptionalAssets[r] \in Seq(Listed) /\ Len(OptionalAssets[r]) = 1
    <3>1. RequiredScalars[r] \in Seq(Listed) /\ Len(RequiredScalars[r]) = 1
      BY <1>2 DEF RequiredScalars, Listed
    <3>2. RequiredAssets[r] \in Seq(Listed) /\ Len(RequiredAssets[r]) = 2
      BY <1>2 DEF RequiredAssets, Listed
    <3>3. OptionalAssets[r] \in Seq(Listed) /\ Len(OptionalAssets[r]) = 1
      BY <1>2 DEF OptionalAssets, Listed
    <3> QED  BY <3>1, <3>2, <3>3
  <2>2. Entries(RequiredAssets[r]) \subseteq {"egress.crt", "egress.key"}
    BY <1>2, <2>1 DEF RequiredAssets, Entries
  <2>3. Optional(r) \subseteq {"gateway-client-ca.crt"}
    BY <1>2, <2>1 DEF OptionalAssets, Optional, Entries
  <2>4. Entries(RequiredScalars[r]) \subseteq {"GATEWAY_EGRESS_PASSWORD_1"}
    BY <1>2, <2>1 DEF RequiredScalars, Entries
  <2> QED  BY <2>1, <2>2, <2>3, <2>4 DEF Required
<1> QED  BY <1>1, <1>2 DEF Roles

\* Every name of the role is in the order, and no other.
LEMMA OrderOfARole ==
  ASSUME NEW r \in Roles
  PROVE  /\ Len(ReadOrder(r)) \in Nat \ {0}
         /\ \A i \in 1 .. Len(ReadOrder(r)) : ReadOrder(r)[i] \in Required(r) \cup Optional(r)
         /\ \A n \in Required(r) \cup Optional(r) :
              \E i \in 1 .. Len(ReadOrder(r)) : ReadOrder(r)[i] = n
         /\ \A i \in 1 .. Len(ReadOrder(r)) : ReadOrder(r)[i] \in Optional(r) =>
              \A n \in Entries(RequiredAssets[r]) : \E j \in 1 .. i - 1 : ReadOrder(r)[j] = n
<1> DEFINE s == RequiredScalars[r]  t == RequiredAssets[r]  u == OptionalAssets[r]
           o == ReadOrder(r)
<1>1. s \in Seq(Listed) /\ t \in Seq(Listed) /\ u \in Seq(Listed) /\ Len(s) > 0
  BY ListsOfARole
<1>2. s \o t \in Seq(Listed) /\ Len(s \o t) = Len(s) + Len(t)
  BY <1>1, ConcatProperties
<1>3. o = (s \o t) \o u
  BY DEF ReadOrder
<1>4. Len(o) = Len(s) + Len(t) + Len(u)
  BY <1>1, <1>2, <1>3, ConcatProperties
<1>5. Len(s) \in Nat /\ Len(t) \in Nat /\ Len(u) \in Nat
  BY <1>1, LenProperties
<1> HIDE DEF s, t, u, o
<1>6. \A i \in 1 .. Len(s) : o[i] = s[i]
  BY <1>1, <1>2, <1>3, <1>5, ConcatProperties
<1>7. \A i \in 1 .. Len(t) : o[Len(s) + i] = t[i]
  <2> TAKE i \in 1 .. Len(t)
  <2>1. (s \o t)[Len(s) + i] = t[i]
    BY <1>1, <1>5, ConcatProperties
  <2>2. o[Len(s) + i] = (s \o t)[Len(s) + i]
    BY <1>1, <1>2, <1>3, <1>5, ConcatProperties
  <2> QED  BY <2>1, <2>2
<1>8. \A i \in 1 .. Len(u) : o[Len(s) + Len(t) + i] = u[i]
  BY <1>1, <1>2, <1>3, <1>5, ConcatProperties
<1>9. Len(o) \in Nat \ {0}
  BY <1>1, <1>4, <1>5
<1>10. ASSUME NEW i \in 1 .. Len(o)
       PROVE  \/ i \in 1 .. Len(s) /\ o[i] \in Entries(s)
              \/ i \in Len(s) + 1 .. Len(s) + Len(t) /\ o[i] \in Entries(t)
              \/ i \in Len(s) + Len(t) + 1 .. Len(o) /\ o[i] \in Entries(u)
  <2>1. CASE i \in 1 .. Len(s)
    BY <2>1, <1>6 DEF Entries
  <2>2. CASE i \in Len(s) + 1 .. Len(s) + Len(t)
    <3>1. i - Len(s) \in 1 .. Len(t) /\ i = Len(s) + (i - Len(s))
      BY <2>2, <1>5
    <3> QED  BY <2>2, <3>1, <1>7 DEF Entries
  <2>3. CASE i \in Len(s) + Len(t) + 1 .. Len(o)
    <3>1. /\ i - Len(s) - Len(t) \in 1 .. Len(u)
          /\ i = Len(s) + Len(t) + (i - Len(s) - Len(t))
      BY <2>3, <1>4, <1>5
    <3> QED  BY <2>3, <3>1, <1>8 DEF Entries
  <2> QED  BY <2>1, <2>2, <2>3, <1>4, <1>5
<1>11. \A n \in Entries(s) : \E i \in 1 .. Len(o) : o[i] = n
  BY <1>4, <1>5, <1>6 DEF Entries
<1>12. \A n \in Entries(t) : \E i \in Len(s) + 1 .. Len(s) + Len(t) : o[i] = n
  <2> TAKE n \in Entries(t)
  <2>1. PICK k \in 1 .. Len(t) : t[k] = n  BY DEF Entries
  <2>2. Len(s) + k \in Len(s) + 1 .. Len(s) + Len(t) /\ o[Len(s) + k] = n
    BY <2>1, <1>5, <1>7
  <2> QED  BY <2>2
<1>13. Required(r) = Entries(s) \cup Entries(t) /\ Optional(r) = Entries(u)
  BY DEF Required, Optional, s, t, u
<1>14. \A i \in 1 .. Len(o) : o[i] \in Required(r) \cup Optional(r)
  BY <1>10, <1>13
<1>15. \A n \in Required(r) \cup Optional(r) : \E i \in 1 .. Len(o) : o[i] = n
  <2>1. \A n \in Entries(u) : \E i \in 1 .. Len(o) : o[i] = n
    <3> TAKE n \in Entries(u)
    <3>1. PICK k \in 1 .. Len(u) : u[k] = n  BY DEF Entries
    <3>2. Len(s) + Len(t) + k \in 1 .. Len(o) /\ o[Len(s) + Len(t) + k] = n
      BY <3>1, <1>4, <1>5, <1>8
    <3> QED  BY <3>2
  <2>2. \A n \in Entries(s) \cup Entries(t) : \E i \in 1 .. Len(o) : o[i] = n
    BY <1>4, <1>5, <1>11, <1>12
  <2> QED  BY <2>1, <2>2, <1>13
<1>16. ASSUME NEW i \in 1 .. Len(o), o[i] \in Optional(r), NEW n \in Entries(t)
       PROVE  \E j \in 1 .. i - 1 : o[j] = n
  <2>1. o[i] \notin Entries(s) /\ o[i] \notin Entries(t)
    BY <1>13, <1>16, ListsOfARole
  <2>2. i > Len(s) + Len(t)
    BY <2>1, <1>10, <1>5, <1>4
  <2>3. PICK j \in Len(s) + 1 .. Len(s) + Len(t) : o[j] = n  BY <1>12
  <2>4. j \in 1 .. i - 1  BY <2>2, <1>5
  <2> QED  BY <2>3, <2>4
<1> QED  BY <1>9, <1>14, <1>15, <1>16 DEF o, t

-----------------------------------------------------------------------------
(***************************************************************************)
(* How far a load has come: what the bundle holds are names that were      *)
(* passed in the order, and each required one that was passed is held.     *)
(***************************************************************************)
Passed(i) == ReadOrder(role)[i] \in DOMAIN bundle
ProgressInv ==
  /\ root \in Trees \cup {"absent", "symlink", "denied"}
  /\ unit \in [Trees -> Dirs \cup {"absent", "symlink", "denied"}]
  /\ pc = "unit" => tree \in Trees
  /\ role \in Roles /\ next \in Nat \ {0}
  /\ outcome \in {"loading", "loaded"} \cup Errors
  /\ (outcome = "loading") = (pc # "returned")
  /\ outcome = "loading" => next <= Len(ReadOrder(role))
  /\ outcome = "loaded" => next = Len(ReadOrder(role)) + 1
  /\ next <= Len(ReadOrder(role)) + 1
  /\ \A n \in DOMAIN bundle : \E i \in 1 .. next - 1 : ReadOrder(role)[i] = n
  /\ \A i \in 1 .. next - 1 : ReadOrder(role)[i] \in Required(role) => Passed(i)

\* A load starts at the first name.
LEMMA InitProgress ==
  ASSUME Init PROVE ProgressInv
<1>1. role \in Roles /\ next = 1 /\ bundle = NoMap /\ outcome = "loading" /\ pc = "resolve"
  BY DEF Init
<1>2. Len(ReadOrder(role)) \in Nat \ {0}  BY <1>1, OrderOfARole
<1>3. /\ root \in Trees \cup {"absent", "symlink", "denied"}
      /\ unit \in [Trees -> Dirs \cup {"absent", "symlink", "denied"}]
  BY LoadAssumption DEF Init
<1> QED  BY <1>1, <1>2, <1>3 DEF ProgressInv, NoMap, Passed

\* A step that ends the load with an error moves nothing.
LEMMA FailProgress ==
  ASSUME ProgressInv, NEW kind \in Errors, Fail(kind) PROVE ProgressInv'
<1>1. /\ role' = role /\ next' = next /\ bundle' = bundle /\ pc' = "returned" /\ outcome' = kind
      /\ root' = root /\ unit' = unit
  BY DEF Fail, task, got, place
<1>2. kind # "loading" /\ kind # "loaded"  BY DEF Errors
<1> QED  BY <1>1, <1>2 DEF ProgressInv, Passed

\* A step that goes on without a name being dealt with.
LEMMA StayProgress ==
  ASSUME ProgressInv, UNCHANGED <<role, next, bundle, outcome, root, unit>>,
         pc # "returned", pc' # "returned", pc' = "unit" => tree' \in Trees
  PROVE  ProgressInv'
BY DEF ProgressInv, Passed

\* A step that deals with the next name.
LEMMA AdvanceProgress ==
  ASSUME ProgressInv, Advance, UNCHANGED <<role, root, unit>>, pc # "returned",
         \/ bundle' = bundle /\ Name \notin Required(role)
         \/ DOMAIN bundle' = DOMAIN bundle \cup {Name}
  PROVE  ProgressInv'
<1> DEFINE o == ReadOrder(role)
<1>1. /\ role \in Roles /\ next \in Nat \ {0} /\ next <= Len(o) /\ outcome = "loading"
  BY DEF ProgressInv
<1>2. Len(o) \in Nat \ {0}  BY <1>1, OrderOfARole
<1>3. ReadOrder(role)' = o  BY DEF ReadOrder
<1>4. next' = next + 1 /\ next' \in Nat \ {0} /\ next' <= Len(o) + 1
  BY <1>1, <1>2 DEF Advance
<1>5. DOMAIN bundle \subseteq DOMAIN bundle' /\ DOMAIN bundle' \subseteq DOMAIN bundle \cup {Name}
  OBVIOUS
<1>6. ASSUME NEW n \in DOMAIN bundle' PROVE \E i \in 1 .. next' - 1 : o[i] = n
  <2>1. CASE n \in DOMAIN bundle
    <3>1. PICK i \in 1 .. next - 1 : o[i] = n  BY <2>1 DEF ProgressInv
    <3>2. i \in 1 .. next' - 1  BY <1>1, <1>4
    <3> QED  BY <3>1, <3>2
  <2>2. CASE n = Name
    BY <2>2, <1>1, <1>4 DEF Name
  <2> QED  BY <1>5, <2>1, <2>2
<1>7. ASSUME NEW i \in 1 .. next' - 1, o[i] \in Required(role) PROVE o[i] \in DOMAIN bundle'
  <2>1. CASE i = next
    BY <2>1, <1>7 DEF Name
  <2>2. CASE i # next
    <3>1. i \in 1 .. next - 1  BY <2>2, <1>1, <1>4
    <3> QED  BY <3>1, <1>5, <1>7 DEF ProgressInv, Passed
  <2> QED  BY <2>1, <2>2
<1>8. (outcome' = "loading") = (pc' # "returned") /\ outcome' \in {"loading", "loaded"}
  BY <1>1 DEF Advance
<1>9. outcome' = "loading" => next' <= Len(o)
  BY <1>1, <1>2, <1>4 DEF Advance
<1>10. outcome' = "loaded" => next' = Len(o) + 1
  BY <1>1, <1>2, <1>4 DEF Advance
<1>11. Required(role)' = Required(role) /\ pc' # "unit"  BY DEF Required, Advance
<1> HIDE DEF o
<1> QED  BY <1>1, <1>3, <1>4, <1>6, <1>7, <1>8, <1>9, <1>10, <1>11 DEF ProgressInv, Passed

\* Every step either fails, stays at its name or deals with it.
LEMMA LoadProgress ==
  ASSUME ProgressInv, Load PROVE ProgressInv'
<1> DEFINE Failed == \E kind \in Errors : Fail(kind)
           Stayed == /\ UNCHANGED <<role, next, bundle, outcome, root, unit>>
                     /\ pc # "returned" /\ pc' # "returned" /\ (pc' = "unit" => tree' \in Trees)
<1>1. CASE ResolveUnitDir
  BY <1>1, FailProgress, StayProgress DEF ResolveUnitDir, Refuse, Errors, task, got, place
<1>2. CASE OpenRoot
  <2>1. Failed \/ Stayed
    BY <1>2 DEF OpenRoot, Refuse, Fault, DirError, Errors, ProgressInv, task, got, place
  <2> QED  BY <2>1, FailProgress, StayProgress
<1>3. CASE OpenUnit
  <2>1. Failed \/ Stayed
    BY <1>3 DEF OpenUnit, Refuse, Fault, DirError, Errors, ProgressInv, task, got, place
  <2> QED  BY <2>1, FailProgress, StayProgress
<1>4. CASE CheckDuplicates
  <2>1. Failed \/ Stayed
    BY <1>4 DEF CheckDuplicates, Refuse, Fault, Errors, task, got, place
  <2> QED  BY <2>1, FailProgress, StayProgress
<1>5. CASE Inspect
  <2>1. Failed \/ Stayed
    BY <1>5 DEF Inspect, FileError, Refuse, Fault, Errors, task, got, place
  <2> QED  BY <2>1, FailProgress, StayProgress
<1>6. CASE SkipOptional
  <2>1. Name \notin Required(role)
    BY <1>6, ListsOfARole DEF SkipOptional, ProgressInv
  <2> QED  BY <1>6, <2>1, AdvanceProgress DEF SkipOptional, task, got, place
<1>7. CASE ReadFull
  <2>1. ASSUME NEW data, Keep(data) PROVE ProgressInv'
    <3>1. DOMAIN bundle' = DOMAIN bundle \cup {Name}  BY <2>1 DEF Keep
    <3> QED  BY <1>7, <2>1, <3>1, AdvanceProgress DEF ReadFull, Keep, task, place
  <2>2. ASSUME ~\E data : Keep(data) PROVE Failed
    BY <1>7, <2>2 DEF ReadFull, Refuse, Fault, Errors
  <2> QED  BY <2>1, <2>2, FailProgress
<1> QED  BY <1>1, <1>2, <1>3, <1>4, <1>5, <1>6, <1>7 DEF Load

\* Every step keeps the progress invariant; the operator is not part of it.
LEMMA NextProgress ==
  ASSUME ProgressInv, [Next]_vars PROVE ProgressInv'
<1>1. CASE Operate
  <2>1. UNCHANGED <<role, next, bundle, outcome, pc, tree>>
    BY <1>1 DEF Operate, SwapRoot, SwapUnit, Replace, Rewrite, Change, task, got
  <2>2. root' \in Trees \cup {"absent", "symlink", "denied"}
    BY <1>1 DEF Operate, SwapRoot, SwapUnit, Replace, Rewrite, ProgressInv, place
  <2>3. unit' \in [Trees -> Dirs \cup {"absent", "symlink", "denied"}]
    BY <1>1 DEF Operate, SwapRoot, SwapUnit, Replace, Rewrite, ProgressInv, place
  <2> QED  BY <2>1, <2>2, <2>3 DEF ProgressInv, Passed
<1>2. CASE UNCHANGED vars
  BY <1>2 DEF vars, ProgressInv, Passed, task, got, place
<1> QED  BY <1>1, <1>2, LoadProgress DEF Next

\* The promise speaks of the same names.
LEMMA SameNames ==
  ASSUME NEW r
  PROVE  /\ Promise!Required(r) = Required(r) /\ Promise!Optional(r) = Optional(r)
         /\ Promise!Assets(r) = Assets(r) /\ Promise!Roles = Roles
         /\ Promise!Entries(Promise!RequiredAssets[r]) = Entries(RequiredAssets[r])
BY DEF Promise!Required, Promise!Optional, Promise!Assets, Promise!Roles, Promise!Entries,
       Promise!RequiredScalars, Promise!RequiredAssets, Promise!OptionalAssets,
       Required, Optional, Assets, Roles, Entries, RequiredScalars, RequiredAssets, OptionalAssets

\* What a load returns is an answer the promise allows.
AnswerInv == outcome # "loading" => Returned \in Promise!Answers(role)
LEMMA ReturnedIsAnAnswer ==
  ASSUME ProgressInv PROVE AnswerInv
<1> SUFFICES ASSUME outcome # "loading" PROVE Returned \in Promise!Answers(role)
  BY DEF AnswerInv
<1> DEFINE o == ReadOrder(role)
<1>1. role \in Roles /\ next \in Nat \ {0} /\ Len(o) \in Nat \ {0} /\ next <= Len(o) + 1
  BY OrderOfARole DEF ProgressInv
<1>2. \A n \in DOMAIN bundle : n \in Required(role) \cup Optional(role)
  <2> TAKE n \in DOMAIN bundle
  <2>1. PICK i \in 1 .. next - 1 : o[i] = n  BY DEF ProgressInv
  <2>2. i \in 1 .. Len(o)  BY <1>1
  <2> QED  BY <1>1, <2>1, <2>2, OrderOfARole
<1>3. CASE outcome = "loaded"
  <2>1. \A n \in Required(role) : n \in DOMAIN bundle
    <3> TAKE n \in Required(role)
    <3>1. PICK i \in 1 .. Len(o) : o[i] = n  BY <1>1, OrderOfARole
    <3>2. i \in 1 .. next - 1  BY <1>1, <1>3 DEF ProgressInv
    <3> QED  BY <3>1, <3>2 DEF ProgressInv, Passed
  <2>2. DOMAIN bundle = Required(role) \cup (DOMAIN bundle \cap Optional(role))
    BY <1>2, <2>1
  <2>3. Returned = Promise!Delivered(Required(role) \cup (DOMAIN bundle \cap Optional(role)))
    BY <1>3, <2>2 DEF Returned, Promise!Delivered
  <2> QED  BY <2>3, SameNames DEF Promise!Answers
<1>4. CASE outcome \in Errors
  <2> DEFINE left == DOMAIN bundle \cap Assets(role)
  <2>1. ASSUME NEW m \in left \cap Optional(role), NEW n \in Entries(RequiredAssets[role])
        PROVE  n \in left
    <3>1. PICK i \in 1 .. next - 1 : o[i] = m  BY <2>1 DEF ProgressInv
    <3>2. i \in 1 .. Len(o)  BY <1>1
    <3>3. PICK j \in 1 .. i - 1 : o[j] = n  BY <1>1, <2>1, <3>1, <3>2, OrderOfARole
    <3>4. j \in 1 .. next - 1  BY <1>1, <3>2, <3>1
    <3>5. n \in DOMAIN bundle  BY <2>1, <3>3, <3>4 DEF ProgressInv, Passed, Required
    <3> QED  BY <2>1, <3>5 DEF Assets
  <2>2. left \in Promise!Partial(role)
    BY <2>1, SameNames DEF Promise!Partial
  <2>3. Returned = Promise!Refused(left)
    BY <1>4 DEF Returned, Errors, Promise!Refused
  <2> QED  BY <2>2, <2>3 DEF Promise!Answers
<1> QED  BY <1>3, <1>4 DEF ProgressInv

\* The outcome of a load is given once, and is a success or a known error.
LEMMA OutcomeOnce ==
  ASSUME ProgressInv, [Next]_vars
  PROVE  /\ role' = role
         /\ \/ outcome' = "loading" /\ outcome = "loading"
            \/ outcome = "loading" /\ outcome' \in {"loaded"} \cup Errors
            \/ UNCHANGED <<outcome, bundle>>
<1>1. CASE Load
  <2>1. outcome = "loading" /\ role' = role
    BY <1>1 DEF Load, ResolveUnitDir, OpenRoot, OpenUnit, CheckDuplicates, Inspect, SkipOptional,
                ReadFull, Keep, Fail, Refuse, Fault, ProgressInv, task
  <2>2. outcome' \in {"loading", "loaded"} \cup Errors
    <3>1. CASE ResolveUnitDir  BY <2>1, <3>1 DEF ResolveUnitDir, Refuse, Fail, Errors
    <3>2. CASE OpenRoot
      BY <2>1, <3>2 DEF OpenRoot, Refuse, Fault, Fail, DirError, Errors, ProgressInv
    <3>3. CASE OpenUnit
      BY <2>1, <3>3 DEF OpenUnit, Refuse, Fault, Fail, DirError, Errors, ProgressInv
    <3>4. CASE CheckDuplicates  BY <2>1, <3>4 DEF CheckDuplicates, Refuse, Fault, Fail, Errors
    <3>5. CASE Inspect  BY <2>1, <3>5 DEF Inspect, FileError, Refuse, Fault, Fail, Errors
    <3>6. CASE SkipOptional  BY <2>1, <3>6 DEF SkipOptional, Advance
    <3>7. CASE ReadFull  BY <2>1, <3>7 DEF ReadFull, Keep, Advance, Refuse, Fault, Fail, Errors
    <3> QED  BY <1>1, <3>1, <3>2, <3>3, <3>4, <3>5, <3>6, <3>7 DEF Load
  <2> QED  BY <2>1, <2>2
<1>2. CASE Operate
  BY <1>2 DEF Operate, SwapRoot, SwapUnit, Replace, Rewrite, Change, task, got
<1>3. CASE UNCHANGED vars
  BY <1>3 DEF vars, task, got
<1> QED  BY <1>1, <1>2, <1>3 DEF Next

(***************************************************************************)
(* A load implements BundlePromise: whatever the operator does and whatever*)
(* fails, it answers once, with a bundle that has every required name of   *)
(* the role and no other role's, or with an error that leaves no optional  *)
(* asset in memory before the required ones.                               *)
(***************************************************************************)
THEOREM LoadKeepsItsPromise == Spec => KeepsPromise
<1>1. Init => ProgressInv  BY InitProgress
<1>2. ProgressInv /\ [Next]_vars => ProgressInv'  BY NextProgress
<1>3. Init => Promise!PromiseInit
  BY SameNames DEF Init, Promise!PromiseInit, Promise!Waiting, Returned
<1>4. ProgressInv => AnswerInv  BY ReturnedIsAnAnswer
<1>5. ASSUME ProgressInv, AnswerInv', [Next]_vars
      PROVE  [Promise!Answer]_<<role, Returned>>
  <2>1. CASE outcome = "loading" /\ outcome' = "loading"
    BY <1>5, <2>1, OutcomeOnce DEF Returned
  <2>2. CASE outcome = "loading" /\ outcome' \in {"loaded"} \cup Errors
    <3>1. outcome' # "loading"  BY <2>2 DEF Errors
    <3>2. Returned' \in Promise!Answers(role)'
      BY <1>5, <3>1 DEF AnswerInv
    <3>3. role' = role /\ Returned = Promise!Waiting
      BY <1>5, <2>2, OutcomeOnce DEF Returned, Promise!Waiting
    <3> QED  BY <3>2, <3>3 DEF Promise!Answer
  <2>3. CASE UNCHANGED <<outcome, bundle>>
    BY <1>5, <2>3, OutcomeOnce DEF Returned
  <2> QED  BY <1>5, <2>1, <2>2, <2>3, OutcomeOnce
<1> QED  BY <1>1, <1>2, <1>3, <1>4, <1>5, PTL DEF Spec, KeepsPromise, Promise!PromiseSpec

-----------------------------------------------------------------------------
(***************************************************************************)
(* The directory tree, and the open file: the version the descriptor is of *)
(* stays the one that was inspected, and within the inspected length it has*)
(* other bytes only at the places written since.                           *)
(***************************************************************************)
HistoryInv ==
  /\ history \in [Dirs -> [Names -> Seq(Files)]]
  /\ \A d \in Dirs, n \in Names : history[d][n] # <<>>
  /\ pc \in Reading => dir \in Dirs

OpenFile == history[held.dir][Name][held.version]
OnlyWritten(bytes) ==
  \A k \in 1 .. Len(bytes) : k <= Len(seen) => bytes[k] = seen[k] \/ k \in written
HeldInv ==
  pc = "read" =>
    /\ held.dir = dir /\ held.version \in 1 .. Len(history[dir][Name])
    /\ seen \in Seq(Bytes) /\ held.size = Len(seen) /\ Len(seen) <= MaxAssetBytes
    /\ OpenFile.kind = "file" /\ OpenFile.bytes \in Seq(Bytes)
    /\ OnlyWritten(OpenFile.bytes)

(***************************************************************************)
(* What is in the bundle is usable, and what was passed over was absent.   *)
(***************************************************************************)
Skipped(i) == Absent \in Entries(history[dir][ReadOrder(role)[i]])
ContentInv ==
  /\ DOMAIN bundle = DOMAIN origin
  /\ \A n \in DOMAIN bundle :
       /\ bundle[n] # <<>>
       /\ n \in Entries(RequiredScalars[role]) => Entries(bundle[n]) \cap {"lf", "ctl"} = {}
  /\ \A i \in 1 .. next - 1 : Passed(i) \/ Skipped(i)
  /\ pc \in Opening \cup {"list"} => next = 1

(***************************************************************************)
(* With nothing changing and nothing failing, the load has looked at what  *)
(* Loadable is about, and so far it was in order.                          *)
(***************************************************************************)
InOrder(n) ==
  IF n \in Required(role) THEN Usable(n)
  ELSE Current(unit[root], n) = Absent \/ Usable(n)
CalmInv ==
  changes = 0 /\ faults = 0 =>
    /\ pc \notin {"resolve", "returned"} => world.variable = "below"
    /\ pc \in {"unit", "list", "inspect", "read"} => root \in Trees /\ tree = root
    /\ pc \in Reading =>
         unit[root] \in Dirs /\ dir = unit[root] /\ Secure(world.meta[dir], TRUE)
    /\ pc \in {"inspect", "read"} =>
         /\ world.listing[dir] = "plain"
         /\ \A i \in 1 .. next - 1 : InOrder(ReadOrder(role)[i])
    /\ pc = "read" =>
         /\ held.version = Len(history[dir][Name]) /\ OpenFile.bytes = seen
         /\ FileError(Current(dir, Name)) = "none"
    /\ pc = "returned" => ((outcome = "loaded") = Loadable)

BoundsInv ==
  /\ world \in Worlds /\ fds \subseteq {"root", "unit", "file"}
  /\ changes \in 0 .. MaxChanges /\ faults \in 0 .. MaxFaults
OutcomeInv ==
  SourceInv /\ ProgressInv /\ HistoryInv /\ HeldInv /\ ContentInv /\ CalmInv /\ BoundsInv

-----------------------------------------------------------------------------
\* Setting the versions of one name leaves those of the others.
LEMMA OneNameSet ==
  ASSUME NEW h \in [Dirs -> [Names -> Seq(Files)]], NEW d \in Dirs, NEW n \in Names,
         NEW new \in Seq(Files)
  PROVE  /\ [h EXCEPT ![d][n] = new] \in [Dirs -> [Names -> Seq(Files)]]
         /\ \A e \in Dirs, m \in Names :
              [h EXCEPT ![d][n] = new][e][m] = IF e = d /\ m = n THEN new ELSE h[e][m]
<1> DEFINE row == [h[d] EXCEPT ![n] = new]
           T == [Names -> Seq(Files)]
<1>1. row \in T /\ \A m \in Names : row[m] = IF m = n THEN new ELSE h[d][m]
  OBVIOUS
<1>2. [h EXCEPT ![d][n] = new] = [h EXCEPT ![d] = row]  OBVIOUS
<1> HIDE DEF row
<1>3. [h EXCEPT ![d] = row] \in [Dirs -> T]
  <2>1. h \in [Dirs -> T]  OBVIOUS
  <2> HIDE DEF T
  <2> QED  BY <1>1, <2>1
<1>4. \A e \in Dirs : [h EXCEPT ![d] = row][e] = IF e = d THEN row ELSE h[e]
  OBVIOUS
<1>5. ASSUME NEW e \in Dirs, NEW m \in Names
      PROVE  [h EXCEPT ![d] = row][e][m] = IF e = d /\ m = n THEN new ELSE h[e][m]
  <2>1. CASE e = d  BY <1>1, <1>4, <2>1
  <2>2. CASE e # d  BY <1>4, <2>2
  <2> QED  BY <2>1, <2>2
<1> QED  BY <1>2, <1>3, <1>5

\* What an operation on one name does to the versions of all names.
LEMMA ReplaceHistory ==
  ASSUME history \in [Dirs -> [Names -> Seq(Files)]], NEW d \in Dirs, NEW n \in Names,
         NEW file \in Files, history' = [history EXCEPT ![d][n] = Append(@, file)]
  PROVE  /\ history' \in [Dirs -> [Names -> Seq(Files)]]
         /\ \A e \in Dirs, m \in Names :
              /\ Len(history'[e][m]) \in {Len(history[e][m]), Len(history[e][m]) + 1}
              /\ \A i \in 1 .. Len(history[e][m]) : history'[e][m][i] = history[e][m][i]
<1> DEFINE old == history[d][n]
           new == Append(old, file)
<1>1. old \in Seq(Files)  OBVIOUS
<1>2. /\ new \in Seq(Files) /\ Len(new) = Len(old) + 1
      /\ \A i \in 1 .. Len(old) : new[i] = old[i]
  BY <1>1, AppendProperties
<1>3. history' = [history EXCEPT ![d][n] = new]  OBVIOUS
<1> HIDE DEF new
<1>4. /\ history' \in [Dirs -> [Names -> Seq(Files)]]
      /\ \A e \in Dirs, m \in Names :
           history'[e][m] = IF e = d /\ m = n THEN new ELSE history[e][m]
  <2>1. /\ [history EXCEPT ![d][n] = new] \in [Dirs -> [Names -> Seq(Files)]]
        /\ \A e \in Dirs, m \in Names :
             [history EXCEPT ![d][n] = new][e][m] = IF e = d /\ m = n THEN new ELSE history[e][m]
    BY <1>2, OneNameSet
  <2> QED  BY <1>3, <2>1
<1> QED  BY <1>2, <1>4

\* What is written or cut is a sequence of bytes again.
LEMMA WrittenBytes ==
  ASSUME NEW old \in Seq(Bytes), NEW length \in 0 .. Len(old) + 1, NEW places,
         length > Len(old) => length \in places
  PROVE  /\ Written(old, places, length) \in Seq(Bytes)
         /\ Len(Written(old, places, length)) = length
         /\ \A i \in 1 .. length :
              Written(old, places, length)[i] = IF i \in places THEN "new" ELSE old[i]
<1> DEFINE value(i) == IF i \in places THEN "new" ELSE old[i]
<1>1. Len(old) \in Nat /\ length \in Nat  OBVIOUS
<1>2. ASSUME NEW i \in 1 .. length PROVE value(i) \in Bytes
  <2>1. CASE i \in places  BY <2>1 DEF Bytes
  <2>2. CASE i \notin places
    <3>1. i \in 1 .. Len(old)  BY <1>1, <2>2
    <3> QED  BY <2>2, <3>1
  <2> QED  BY <2>1, <2>2
<1> HIDE DEF value
<1>3. [i \in 1 .. length |-> value(i)] \in [1 .. length -> Bytes]
  BY <1>2
<1>4. [i \in 1 .. length |-> value(i)] \in Seq(Bytes)
  BY <1>1, <1>3
<1>5. Len([i \in 1 .. length |-> value(i)]) = length
  BY <1>1
<1>6. Written(old, places, length) = [i \in 1 .. length |-> value(i)]
  BY DEF Written, value
<1> QED  BY <1>4, <1>5, <1>6 DEF value

\* A write changes one file, at the places it is recorded for if the file is
\* the open one.
LEMMA RewriteHistory ==
  ASSUME HistoryInv, Rewrite
  PROVE  /\ history' \in [Dirs -> [Names -> Seq(Files)]]
         /\ \E d \in Dirs, n \in Names, last \in Nat, length \in Nat, places \in SUBSET Nat :
              /\ last = Len(history[d][n]) /\ last \in 1 .. Len(history[d][n])
              /\ history[d][n][last].kind = "file" /\ history'[d][n][last].kind = "file"
              /\ history[d][n][last].bytes \in Seq(Bytes)
              /\ length <= Len(history[d][n][last].bytes) + 1
              /\ length > Len(history[d][n][last].bytes) => length \in places
              /\ history'[d][n][last].bytes
                   = Written(history[d][n][last].bytes, places, length)
              /\ \A e \in Dirs, m \in Names :
                   /\ Len(history'[e][m]) = Len(history[e][m])
                   /\ \A i \in 1 .. Len(history[e][m]) :
                        ~(e = d /\ m = n /\ i = last) => history'[e][m][i] = history[e][m][i]
              /\ written' = IF pc = "read" /\ d = held.dir /\ n = Name /\ held.version = last
                            THEN written \cup places ELSE written
<1>1. PICK d \in Dirs, n \in Touched :
        /\ Current(d, n).kind = "file"
        /\ \E length \in 0 .. Len(Current(d, n).bytes) + 1 :
           \E places \in {{}} \cup {{k} : k \in 1 .. length} :
             /\ length <= MaxAssetBytes + 1
             /\ length > Len(Current(d, n).bytes) => length \in places
             /\ length < Len(Current(d, n).bytes) => places = {}
             /\ Written(Current(d, n).bytes, places, length) # Current(d, n).bytes
             /\ history' = [history EXCEPT ![d][n][Len(history[d][n])].bytes
                                           = Written(Current(d, n).bytes, places, length)]
             /\ written' = IF /\ pc = "read" /\ d = held.dir /\ n = Name
                              /\ held.version = Len(history[d][n])
                           THEN written \cup places ELSE written
  BY DEF Rewrite
<1>0. PICK length \in 0 .. Len(Current(d, n).bytes) + 1 :
        \E places \in {{}} \cup {{k} : k \in 1 .. length} :
          /\ length > Len(Current(d, n).bytes) => length \in places
          /\ history' = [history EXCEPT ![d][n][Len(history[d][n])].bytes
                                        = Written(Current(d, n).bytes, places, length)]
          /\ written' = IF /\ pc = "read" /\ d = held.dir /\ n = Name
                           /\ held.version = Len(history[d][n])
                        THEN written \cup places ELSE written
  BY <1>1
<1>2. PICK places \in {{}} \cup {{k} : k \in 1 .. length} :
        /\ length > Len(Current(d, n).bytes) => length \in places
        /\ history' = [history EXCEPT ![d][n][Len(history[d][n])].bytes
                                      = Written(Current(d, n).bytes, places, length)]
        /\ written' = IF /\ pc = "read" /\ d = held.dir /\ n = Name
                         /\ held.version = Len(history[d][n])
                      THEN written \cup places ELSE written
  BY <1>0
<1> DEFINE bytes == Written(Current(d, n).bytes, places, length)
<1> DEFINE old  == history[d][n]
           last == Len(old)
           file == [old[last] EXCEPT !.bytes = bytes]
           new  == [old EXCEPT ![last] = file]
<1>3. /\ n \in Names /\ history \in [Dirs -> [Names -> Seq(Files)]]
      /\ old \in Seq(Files) /\ old # <<>> /\ last \in Nat /\ last \in 1 .. Len(old)
  BY LoadAssumption DEF HistoryInv
<1>4. history' = [history EXCEPT ![d][n] = new]  BY <1>2
<1> HIDE DEF bytes
<1>5. old[last].kind = "file" /\ old[last] = Current(d, n) /\ old[last] \in Files
  BY <1>1, <1>3 DEF Current
<1>6. old[last] \in [kind : {"file"}, meta : Metadata, bytes : Seq(Bytes)]
  BY <1>5 DEF Files
<1>7. bytes \in Seq(Bytes) /\ length \in Nat /\ Current(d, n).bytes \in Seq(Bytes)
  BY <1>2, <1>5, <1>6, WrittenBytes DEF bytes
<1>8. file \in Files /\ file.kind = "file" /\ file.bytes = bytes
  BY <1>6, <1>7 DEF Files
<1> HIDE DEF file, last
<1>9. /\ new \in Seq(Files) /\ Len(new) = Len(old) /\ new[last] = file
      /\ \A i \in 1 .. Len(old) : i # last => new[i] = old[i]
  BY <1>3, <1>8
<1> HIDE DEF new
<1>10. /\ [history EXCEPT ![d][n] = new] \in [Dirs -> [Names -> Seq(Files)]]
       /\ \A e \in Dirs, m \in Names :
            [history EXCEPT ![d][n] = new][e][m] = IF e = d /\ m = n THEN new ELSE history[e][m]
  BY <1>3, <1>9, OneNameSet
<1>11. /\ history' \in [Dirs -> [Names -> Seq(Files)]]
       /\ \A e \in Dirs, m \in Names :
            history'[e][m] = IF e = d /\ m = n THEN new ELSE history[e][m]
  BY <1>4, <1>10, ZenonT(60)
<1>12. \A e \in Dirs, m \in Names :
         /\ Len(history'[e][m]) = Len(history[e][m])
         /\ \A i \in 1 .. Len(history[e][m]) :
              ~(e = d /\ m = n /\ i = last) => history'[e][m][i] = history[e][m][i]
  BY <1>9, <1>11
<1>13. /\ history'[d][n][last].kind = "file" /\ history'[d][n][last].bytes = bytes
  BY <1>3, <1>8, <1>9, <1>11
<1>14. /\ history[d][n][last].kind = "file" /\ history[d][n][last].bytes \in Seq(Bytes)
       /\ length <= Len(history[d][n][last].bytes) + 1
       /\ length > Len(history[d][n][last].bytes) => length \in places
       /\ bytes = Written(history[d][n][last].bytes, places, length)
  BY <1>2, <1>5, <1>7 DEF bytes
<1>15. /\ last = Len(history[d][n])
       /\ written' = IF pc = "read" /\ d = held.dir /\ n = Name /\ held.version = last
                     THEN written \cup places ELSE written
  BY <1>2 DEF last
<1> HIDE DEF old
<1>16. history'[d][n][last].bytes = Written(history[d][n][last].bytes, places, length)
  BY <1>13, <1>14
<1>17. last \in Nat /\ last \in 1 .. Len(history[d][n])  BY <1>3 DEF old
<1>18. places \in SUBSET Nat  BY <1>2
<1>19. n \in Names /\ history' \in [Dirs -> [Names -> Seq(Files)]]
  BY <1>3, <1>11
<1> HIDE DEF last
<1> DEFINE P(e, m, v, l, p) ==
         /\ v = Len(history[e][m]) /\ v \in 1 .. Len(history[e][m])
         /\ history[e][m][v].kind = "file" /\ history'[e][m][v].kind = "file"
         /\ history[e][m][v].bytes \in Seq(Bytes)
         /\ l <= Len(history[e][m][v].bytes) + 1
         /\ l > Len(history[e][m][v].bytes) => l \in p
         /\ history'[e][m][v].bytes = Written(history[e][m][v].bytes, p, l)
         /\ \A f \in Dirs, o \in Names :
              /\ Len(history'[f][o]) = Len(history[f][o])
              /\ \A i \in 1 .. Len(history[f][o]) :
                   ~(f = e /\ o = m /\ i = v) => history'[f][o][i] = history[f][o][i]
         /\ written' = IF pc = "read" /\ e = held.dir /\ m = Name /\ held.version = v
                       THEN written \cup p ELSE written
<1>20. P(d, n, last, length, places)
  BY <1>12, <1>13, <1>14, <1>15, <1>16, <1>17
<1>21. d \in Dirs /\ n \in Names /\ last \in Nat /\ length \in Nat /\ places \in SUBSET Nat
  BY <1>7, <1>17, <1>18, <1>19
<1> HIDE DEF P
<1>22. \E e \in Dirs, m \in Names, v \in Nat, l \in Nat, p \in SUBSET Nat : P(e, m, v, l, p)
  BY <1>20, <1>21, Zenon
<1> QED  BY <1>19, <1>22 DEF P

\* What the operator puts under a name is a file, or nothing.
LEMMA WrittenFiles == Absent \in Files /\ New \in Files
<1>1. Absent \in Files  BY DEF Absent, Files
<1>2. New \in Files
  <2>1. <<"new", "new">> \in Seq(Bytes)  BY DEF Bytes
  <2>2. [root |-> FALSE, group |-> {}, other |-> {}] \in Metadata  BY DEF Metadata
  <2> QED  BY <2>1, <2>2 DEF New, Files
<1> QED  BY <1>1, <1>2

\* The operator's steps keep the tree well formed, and touch nothing else than
\* the last version of a name, which then is a file before and after.
LEMMA OperateHistory ==
  ASSUME HistoryInv, Operate
  PROVE  /\ HistoryInv'
         /\ \A e \in Dirs, m \in Names :
              /\ Len(history'[e][m]) \in {Len(history[e][m]), Len(history[e][m]) + 1}
              /\ \A i \in 1 .. Len(history[e][m]) :
                   \/ history'[e][m][i] = history[e][m][i]
                   \/ history'[e][m][i].kind = "file" /\ history[e][m][i].kind = "file"
<1>1. pc' = pc /\ dir' = dir
  BY DEF Operate, SwapRoot, SwapUnit, Replace, Rewrite, Change
<1>2. /\ history \in [Dirs -> [Names -> Seq(Files)]] /\ Touched \subseteq Names
      /\ \A d \in Dirs, n \in Names : Len(history[d][n]) \in Nat \ {0}
  BY LoadAssumption DEF HistoryInv
<1>3. CASE SwapRoot \/ SwapUnit
  <2>1. history' = history  BY <1>3 DEF SwapRoot, SwapUnit
  <2> QED  BY <1>1, <2>1 DEF HistoryInv
<1>4. CASE Replace
  <2>1. PICK d \in Dirs, n \in Touched, file \in {New, Absent} :
          history' = [history EXCEPT ![d][n] = Append(@, file)]
    BY <1>4 DEF Replace
  <2>2. n \in Names /\ file \in Files
    BY <1>2, WrittenFiles
  <2>3. /\ history' \in [Dirs -> [Names -> Seq(Files)]]
        /\ \A e \in Dirs, m \in Names :
             /\ Len(history'[e][m]) \in {Len(history[e][m]), Len(history[e][m]) + 1}
             /\ \A i \in 1 .. Len(history[e][m]) : history'[e][m][i] = history[e][m][i]
    BY <1>2, <2>1, <2>2, ReplaceHistory
  <2>4. \A e \in Dirs, m \in Names : history'[e][m] # <<>>
    <3> TAKE e \in Dirs, m \in Names
    <3>1. Len(history'[e][m]) > 0  BY <1>2, <2>3
    <3> QED  BY <3>1
  <2> QED  BY <1>1, <2>3, <2>4 DEF HistoryInv
<1>5. CASE Rewrite
  <2>1. /\ history' \in [Dirs -> [Names -> Seq(Files)]]
        /\ \A e \in Dirs, m \in Names :
             /\ Len(history'[e][m]) = Len(history[e][m])
             /\ \A i \in 1 .. Len(history[e][m]) :
                  \/ history'[e][m][i] = history[e][m][i]
                  \/ history'[e][m][i].kind = "file" /\ history[e][m][i].kind = "file"
    BY <1>5, RewriteHistory
  <2>2. \A e \in Dirs, m \in Names : history'[e][m] # <<>>
    <3> TAKE e \in Dirs, m \in Names
    <3>1. Len(history'[e][m]) > 0  BY <1>2, <2>1
    <3> QED  BY <3>1
  <2>3. HistoryInv'  BY <1>1, <2>1, <2>2 DEF HistoryInv
  <2> QED  BY <2>1, <2>3
<1> QED  BY <1>3, <1>4, <1>5 DEF Operate

\* What the checks on an opened descriptor say of it.
LEMMA FileErrorOf ==
  ASSUME NEW file \in Files
  PROVE  /\ file.kind = "file" => file.bytes \in Seq(Bytes) /\ Len(file.bytes) \in Nat
         /\ FileError(file) = "none" <=>
              file.kind = "file" /\ Secure(file.meta, FALSE) /\ Len(file.bytes) <= MaxAssetBytes
         /\ FileError(file) = "not_found" <=> file = Absent
<1>1. CASE file \in [kind : {"absent", "symlink", "directory", "denied"}]
  <2>1. CASE file.kind = "absent"
    <3>1. file = Absent  BY <1>1, <2>1 DEF Absent
    <3> QED  BY <2>1, <3>1 DEF FileError
  <2>2. CASE file.kind \in {"symlink", "directory", "denied"}
    <3>1. file # Absent  BY <2>2 DEF Absent
    <3>2. FileError(file) \in {"permission", "unsafe"}  BY <2>2 DEF FileError
    <3> QED  BY <2>2, <3>1, <3>2
  <2> QED  BY <1>1, <2>1, <2>2
<1>2. CASE file \in [kind : {"file"}, meta : Metadata, bytes : Seq(Bytes)]
  <2>1. file.kind = "file" /\ file.bytes \in Seq(Bytes) /\ Len(file.bytes) \in Nat
    BY <1>2
  <2>2. file # Absent  BY <2>1 DEF Absent
  <2>3. FileError(file) = IF ~Secure(file.meta, FALSE) THEN "permission"
                          ELSE IF Len(file.bytes) > MaxAssetBytes THEN "rejected" ELSE "none"
    BY <2>1 DEF FileError
  <2>4. Len(file.bytes) > MaxAssetBytes <=> ~(Len(file.bytes) <= MaxAssetBytes)
    BY <2>1, LoadAssumption
  <2> QED  BY <2>1, <2>2, <2>3, <2>4
<1> QED  BY <1>1, <1>2 DEF Files

\* The name at hand is one of the role.
LEMMA NameAtHand ==
  ASSUME ProgressInv, outcome = "loading"
  PROVE  /\ next \in 1 .. Len(ReadOrder(role)) /\ Len(ReadOrder(role)) \in Nat
         /\ Name \in Required(role) \cup Optional(role) /\ Name \in Names
<1>1. role \in Roles /\ next \in 1 .. Len(ReadOrder(role)) /\ Len(ReadOrder(role)) \in Nat
  BY OrderOfARole DEF ProgressInv
<1>2. Name \in Required(role) \cup Optional(role)
  BY <1>1, OrderOfARole DEF Name
<1> QED  BY <1>1, <1>2 DEF Names

\* Every name has a first version, and it is one of the files there can be.
LEMMA InitHistory == Init => HistoryInv
<1> SUFFICES ASSUME Init PROVE HistoryInv
  OBVIOUS
<1>1. world.files \in [Dirs -> [Names -> Files]]
  BY LoadAssumption DEF Init
<1>2. history = [d \in Dirs |-> [n \in Names |-> <<world.files[d][n]>>]]
  BY DEF Init
<1>3. \A d \in Dirs, n \in Names :
        <<world.files[d][n]>> \in Seq(Files) /\ <<world.files[d][n]>> # <<>>
  BY <1>1
<1>4. \A d \in Dirs : [n \in Names |-> <<world.files[d][n]>>] \in [Names -> Seq(Files)]
  BY <1>3
<1>5. history \in [Dirs -> [Names -> Seq(Files)]]
  BY <1>2, <1>4
<1>6. \A d \in Dirs, n \in Names : history[d][n] # <<>>
  BY <1>2, <1>3
<1> QED  BY <1>5, <1>6 DEF Init, HistoryInv, Reading

\* The loader leaves the tree alone and reads only a directory it opened.
LEMMA NextHistory ==
  ASSUME HistoryInv, SourceInv, [Next]_vars PROVE HistoryInv'
<1>1. CASE Load
  <2>1. history' = history
    BY <1>1 DEF Load, ResolveUnitDir, OpenRoot, OpenUnit, CheckDuplicates, Inspect, SkipOptional,
                ReadFull, Keep, Fail, Refuse, Fault
  <2>2. pc' \in Reading => dir' \in Dirs
    <3>1. CASE OpenUnit
      BY <3>1 DEF OpenUnit, Fail, Refuse, Fault, Reading
    <3>2. CASE pc \in Reading
      BY <1>1, <3>2 DEF Load, ResolveUnitDir, OpenRoot, OpenUnit, CheckDuplicates, Inspect,
                        SkipOptional, ReadFull, Keep, Fail, Refuse, Fault, Reading, HistoryInv
    <3>3. CASE ResolveUnitDir \/ OpenRoot
      BY <3>3 DEF ResolveUnitDir, OpenRoot, Fail, Refuse, Fault, Reading
    <3>4. pc \in Reading \/ OpenUnit \/ ResolveUnitDir \/ OpenRoot
      BY <1>1 DEF Load, CheckDuplicates, Inspect, SkipOptional, ReadFull, Reading
    <3> QED  BY <3>1, <3>2, <3>3, <3>4
  <2> QED  BY <2>1, <2>2 DEF HistoryInv
<1>2. CASE Operate  BY <1>2, OperateHistory
<1>3. CASE UNCHANGED vars
  BY <1>3 DEF vars, HistoryInv
<1> QED  BY <1>1, <1>2, <1>3 DEF Next

\* The open file stays the one that was inspected.
LEMMA NextHeld ==
  ASSUME HeldInv, HistoryInv, SourceInv, ProgressInv, [Next]_vars PROVE HeldInv'
<1>1. CASE Inspect
  <2>1. CASE pc' = "read"
    <3> DEFINE file == Current(dir, Name)
    <3>1. /\ FileError(file) = "none" /\ pc = "inspect"
          /\ held' = [dir |-> dir, version |-> Len(history[dir][Name]), size |-> Len(file.bytes)]
          /\ seen' = file.bytes /\ written' = {}
          /\ UNCHANGED <<role, next, history, dir>>
      BY <1>1, <2>1 DEF Inspect, Source, Refuse, Fault, Fail, task
    <3>2. dir \in Dirs /\ Name \in Names
      BY <3>1, NameAtHand DEF HistoryInv, Reading, ProgressInv
    <3>3. /\ history[dir][Name] \in Seq(Files) /\ history[dir][Name] # <<>>
      BY <3>2 DEF HistoryInv
    <3>4. /\ Len(history[dir][Name]) \in 1 .. Len(history[dir][Name]) /\ file \in Files
          /\ file = history[dir][Name][Len(history[dir][Name])]
      BY <3>3 DEF Current
    <3>5. /\ file.kind = "file" /\ file.bytes \in Seq(Bytes) /\ Len(file.bytes) <= MaxAssetBytes
      BY <3>1, <3>4, FileErrorOf
    <3>6. Name' = Name  BY <3>1 DEF Name, ReadOrder
    <3>7. held'.dir = dir /\ held'.version = Len(history[dir][Name]) /\ held'.size = Len(seen')
      BY <3>1
    <3>8. OpenFile' = file
      BY <3>1, <3>4, <3>6, <3>7 DEF OpenFile
    <3> HIDE DEF file
    <3>9. OnlyWritten(OpenFile.bytes)'  BY <3>1, <3>8 DEF OnlyWritten
    <3> QED  BY <3>1, <3>4, <3>5, <3>6, <3>7, <3>8, <3>9 DEF HeldInv
  <2> QED  BY <2>1 DEF HeldInv
<1>2. CASE Load /\ ~Inspect
  <2>1. pc' # "read"
    BY <1>2 DEF Load, ResolveUnitDir, OpenRoot, OpenUnit, CheckDuplicates, SkipOptional,
                ReadFull, Keep, Advance, Fail, Refuse, Fault
  <2> QED  BY <2>1 DEF HeldInv
<1>3. CASE Operate
  <2> SUFFICES ASSUME pc' = "read" PROVE HeldInv'
    BY DEF HeldInv
  <2>1. UNCHANGED <<role, next, pc, dir, held, seen>>
    BY <1>3 DEF Operate, SwapRoot, SwapUnit, Replace, Rewrite, Change, task
  <2>2. Name' = Name  BY <2>1 DEF Name, ReadOrder
  <2> DEFINE d == dir  n == Name  v == held.version
  <2>3. /\ dir \in Dirs /\ Name \in Names /\ pc = "read"
    BY <2>1, NameAtHand DEF HistoryInv, Reading, ProgressInv
  <2>4. /\ held.dir = dir /\ v \in 1 .. Len(history[dir][Name])
        /\ seen \in Seq(Bytes) /\ held.size = Len(seen) /\ Len(seen) <= MaxAssetBytes
        /\ OpenFile.kind = "file" /\ OpenFile.bytes \in Seq(Bytes)
        /\ OnlyWritten(OpenFile.bytes)
        /\ OpenFile = history[dir][Name][v]
    BY <2>3 DEF HeldInv, OpenFile
  <2>5. /\ Len(history'[dir][Name]) \in {Len(history[dir][Name]), Len(history[dir][Name]) + 1}
        /\ Len(history[dir][Name]) \in Nat
        /\ \/ history'[dir][Name][v] = history[dir][Name][v]
           \/ history'[dir][Name][v].kind = "file"
    BY <1>3, <2>3, <2>4, OperateHistory DEF HistoryInv
  <2>6. OpenFile' = history'[dir][Name][v] /\ v \in 1 .. Len(history'[dir][Name])
    BY <2>1, <2>2, <2>4, <2>5 DEF OpenFile
  <2>7. OpenFile'.kind = "file"
    BY <2>4, <2>5, <2>6
  <2>8. OpenFile'.bytes \in Seq(Bytes) /\ OnlyWritten(OpenFile.bytes)'
    <3>1. CASE SwapRoot \/ SwapUnit
      <4>1. written' = written /\ history' = history  BY <3>1 DEF SwapRoot, SwapUnit
      <4> QED  BY <2>1, <2>4, <2>6, <4>1 DEF OnlyWritten
    <3>2. CASE Replace
      <4>1. written' = written  BY <3>2 DEF Replace
      <4>2. history'[dir][Name][v] = history[dir][Name][v]
        <5>1. PICK e \in Dirs, m \in Touched, file \in {New, Absent} :
                history' = [history EXCEPT ![e][m] = Append(@, file)]
          BY <3>2 DEF Replace
        <5>2. m \in Names /\ file \in Files
          BY <5>1, LoadAssumption, WrittenFiles
        <5> QED  BY <2>3, <2>4, <5>1, <5>2, ReplaceHistory DEF HistoryInv
      <4> QED  BY <2>1, <2>4, <2>6, <4>1, <4>2 DEF OnlyWritten
    <3>3. CASE Rewrite
      <4>1. PICK e \in Dirs, m \in Names, last \in Nat, length \in Nat, places \in SUBSET Nat :
              /\ last = Len(history[e][m]) /\ last \in 1 .. Len(history[e][m])
              /\ history[e][m][last].kind = "file" /\ history'[e][m][last].kind = "file"
              /\ history[e][m][last].bytes \in Seq(Bytes)
              /\ length <= Len(history[e][m][last].bytes) + 1
              /\ length > Len(history[e][m][last].bytes) => length \in places
              /\ history'[e][m][last].bytes
                   = Written(history[e][m][last].bytes, places, length)
              /\ \A f \in Dirs, o \in Names :
                   /\ Len(history'[f][o]) = Len(history[f][o])
                   /\ \A i \in 1 .. Len(history[f][o]) :
                        ~(f = e /\ o = m /\ i = last) => history'[f][o][i] = history[f][o][i]
              /\ written' = IF pc = "read" /\ e = held.dir /\ m = Name /\ held.version = last
                            THEN written \cup places ELSE written
        BY <3>3, RewriteHistory
      <4>2. CASE e = dir /\ m = Name /\ v = last
        <5> DEFINE old == OpenFile.bytes
        <5>1. written' = written \cup places  BY <2>3, <2>4, <4>1, <4>2
        <5>2. history[e][m][last] = OpenFile /\ history'[e][m][last] = OpenFile'
          BY <2>4, <2>6, <4>2
        <5>3. /\ old \in Seq(Bytes) /\ length \in 0 .. Len(old) + 1
              /\ length > Len(old) => length \in places
              /\ OpenFile'.bytes = Written(old, places, length)
          BY <4>1, <5>2
        <5>4. OnlyWritten(old)  BY <2>4
        <5> HIDE DEF old
        <5>5. /\ OpenFile'.bytes \in Seq(Bytes) /\ Len(OpenFile'.bytes) = length
              /\ \A i \in 1 .. length :
                   OpenFile'.bytes[i] = IF i \in places THEN "new" ELSE old[i]
          <6>1. /\ Written(old, places, length) \in Seq(Bytes)
                /\ Len(Written(old, places, length)) = length
                /\ \A i \in 1 .. length :
                     Written(old, places, length)[i] = IF i \in places THEN "new" ELSE old[i]
            BY <5>3, WrittenBytes
          <6> QED  BY <5>3, <6>1
        <5>6. ASSUME NEW k \in 1 .. length, k <= Len(seen)
              PROVE  OpenFile'.bytes[k] = seen[k] \/ k \in written'
          <6>1. CASE k \in places  BY <5>1, <6>1
          <6>2. CASE k \notin places
            <7>1. k \in 1 .. Len(old)  BY <5>3, <6>2
            <7>2. old[k] = seen[k] \/ k \in written  BY <5>4, <5>6, <7>1 DEF OnlyWritten
            <7> QED  BY <5>1, <5>5, <6>2, <7>2
          <6> QED  BY <6>1, <6>2
        <5> QED  BY <2>1, <5>5, <5>6 DEF OnlyWritten
      <4>3. CASE ~(e = dir /\ m = Name /\ v = last)
        <5>1. written' = written  BY <2>4, <4>1, <4>3
        <5>2. history'[dir][Name][v] = history[dir][Name][v]  BY <2>3, <2>4, <4>1, <4>3
        <5> QED  BY <2>1, <2>4, <2>6, <5>1, <5>2 DEF OnlyWritten
      <4> QED  BY <4>2, <4>3
    <3> QED  BY <1>3, <3>1, <3>2, <3>3 DEF Operate
  <2> QED  BY <2>1, <2>2, <2>4, <2>6, <2>7, <2>8 DEF HeldInv
<1>4. CASE UNCHANGED vars
  BY <1>4 DEF vars, HeldInv, OpenFile, OnlyWritten, Name, ReadOrder, task, watch
<1> QED  BY <1>1, <1>2, <1>3, <1>4 DEF Next

\* The inspected size cuts out what was inspected, but for what was written.
LEMMA ReadIsInspected ==
  ASSUME HeldInv, pc = "read", Len(Filled) >= held.size
  PROVE  LET data == SubSeq(Filled, 1, held.size) IN
           /\ data \in Seq(Bytes) /\ Len(data) = Len(seen)
           /\ \A k \in 1 .. Len(data) : data[k] = seen[k] \/ k \in written
           /\ Filled = seen => data = seen
<1> DEFINE data == SubSeq(Filled, 1, held.size)
<1>1. /\ seen \in Seq(Bytes) /\ held.size = Len(seen) /\ Len(seen) \in Nat
      /\ Filled \in Seq(Bytes) /\ Len(Filled) \in Nat /\ OnlyWritten(Filled)
  BY DEF HeldInv, OpenFile, Filled
<1>2. Len(Filled) >= Len(seen)  BY <1>1
<1>3. \A i \in 1 .. Len(seen) : Filled[i] \in Bytes
  BY <1>1, <1>2
<1>4. /\ data \in Seq(Bytes)
      /\ Len(data) = IF 1 <= Len(seen) THEN Len(seen) - 1 + 1 ELSE 0
      /\ \A i \in 1 .. Len(seen) - 1 + 1 : data[i] = Filled[1 + i - 1]
  BY <1>1, <1>3, SubSeqProperties
<1> HIDE DEF data
<1>5. Len(data) = Len(seen) /\ \A i \in 1 .. Len(seen) : data[i] = Filled[i]
  BY <1>1, <1>4
<1>6. \A k \in 1 .. Len(data) : data[k] = seen[k] \/ k \in written
  <2> TAKE k \in 1 .. Len(data)
  <2>1. k \in 1 .. Len(Filled) /\ k <= Len(seen) /\ data[k] = Filled[k]
    BY <1>1, <1>2, <1>5
  <2> QED  BY <1>1, <2>1 DEF OnlyWritten
<1>7. Filled = seen => data = seen
  BY <1>1, SubSeqFull DEF data
<1> QED  BY <1>4, <1>5, <1>6, <1>7 DEF data

\* Nothing but a completed read adds to the bundle.
LEMMA BundleGrows ==
  ASSUME [Next]_vars, DOMAIN bundle' # DOMAIN bundle
  PROVE  /\ ReadFull /\ Len(Filled) >= held.size
         /\ LET data == SubSeq(Filled, 1, held.size) IN ~Rejected(data) /\ Keep(data)
<1>1. ~(UNCHANGED vars) /\ ~Operate
  BY DEF vars, got, Operate, SwapRoot, SwapUnit, Replace, Rewrite, Change
<1>2. Load  BY <1>1 DEF Next
<1>3. ReadFull
  BY <1>2 DEF Load, ResolveUnitDir, OpenRoot, OpenUnit, CheckDuplicates, Inspect, SkipOptional,
              Fail, Refuse, Fault, got
<1> QED  BY <1>3 DEF ReadFull, Refuse, Fault, Fail, got

(***************************************************************************)
(* Whatever is renamed, replaced, cut, extended or overwritten during a    *)
(* load, and however often: a value that is loaded has the length its file *)
(* had when it was inspected (a scalar may lose its trailing line feed),   *)
(* and its bytes are the inspected ones but for places written in between, *)
(* which the code takes as they are.                                       *)
(***************************************************************************)
THEOREM NoTornRead == Spec => ReadAsInspected
<1> DEFINE I == SourceInv /\ ProgressInv /\ HistoryInv /\ HeldInv
           A == \A n \in DOMAIN bundle' \ DOMAIN bundle : AsInspected(n, bundle'[n])
<1>1. Init => I
  <2>1. Init => HeldInv  BY DEF Init, HeldInv
  <2> QED  BY <2>1, InitSource, InitProgress, InitHistory
<1>2. I /\ [Next]_vars => I'
  BY NextSource, NextProgress, NextHistory, NextHeld
<1>3. I /\ [Next]_vars => A
  <2> SUFFICES ASSUME I, [Next]_vars, NEW n \in DOMAIN bundle' \ DOMAIN bundle
               PROVE  AsInspected(n, bundle'[n])
    OBVIOUS
  <2> DEFINE data == SubSeq(Filled, 1, held.size)
  <2>1. ReadFull /\ Len(Filled) >= held.size /\ Keep(data)
    BY BundleGrows
  <2>2. /\ data \in Seq(Bytes) /\ Len(data) = Len(seen)
        /\ \A k \in 1 .. Len(data) : data[k] = seen[k] \/ k \in written
    BY <2>1, ReadIsInspected DEF ReadFull
  <2>3. n = Name /\ bundle'[n] = Value(data)
    BY <2>1 DEF Keep
  <2> HIDE DEF data
  <2>4. CASE Value(data) = data
    BY <2>2, <2>3, <2>4 DEF AsInspected
  <2>5. CASE Value(data) # data
    <3>1. /\ n \in Entries(RequiredScalars[role]) /\ data # <<>>
          /\ Value(data) = SubSeq(data, 1, Len(data) - 1)
      BY <2>3, <2>5 DEF Value, ScalarValue
    <3>2. Len(data) \in Nat /\ Len(data) - 1 \in Nat
      BY <2>2, <3>1
    <3>3. \A i \in 1 .. Len(data) - 1 : data[i] \in Bytes
      BY <2>2, <3>2
    <3>4. /\ Len(Value(data)) = IF 1 <= Len(data) - 1 THEN Len(data) - 1 - 1 + 1 ELSE 0
          /\ \A i \in 1 .. Len(data) - 1 - 1 + 1 : Value(data)[i] = data[1 + i - 1]
      BY <3>1, <3>2, <3>3, SubSeqProperties
    <3> DEFINE m == Len(data) - 1
    <3>5. Len(Value(data)) = Len(data) - 1
      <4>1. m \in Nat /\ Len(Value(data)) = IF 1 <= m THEN m - 1 + 1 ELSE 0
        BY <3>2, <3>4
      <4> HIDE DEF m
      <4>2. Len(Value(data)) = m  BY <4>1
      <4> QED  BY <4>2 DEF m
    <3>6. ASSUME NEW k \in 1 .. Len(data) - 1 PROVE Value(data)[k] = data[k]
      <4>1. k \in 1 .. Len(data) - 1 - 1 + 1 /\ 1 + k - 1 = k  BY <3>2
      <4> QED  BY <3>4, <4>1
    <3>7. \A k \in 1 .. Len(data) - 1 : k \in 1 .. Len(data)  BY <3>2
    <3> QED  BY <2>2, <2>3, <3>1, <3>5, <3>6, <3>7 DEF AsInspected
  <2> QED  BY <2>4, <2>5
<1>4. A => [A]_vars  OBVIOUS
<1> QED  BY <1>1, <1>2, <1>3, <1>4, PTL DEF Spec, ReadAsInspected

-----------------------------------------------------------------------------
\* A step that adds nothing keeps what is said of the bundle, as long as what
\* was absent once stays in the history.
LEMMA SameContent ==
  ASSUME ContentInv, UNCHANGED <<role, bundle, origin, next>>,
         \A i \in 1 .. next - 1 : Skipped(i) => Skipped(i)',
         pc' \in Opening \cup {"list"} => next = 1
  PROVE  ContentInv'
<1>1. ReadOrder(role)' = ReadOrder(role)  BY DEF ReadOrder
<1>2. \A i \in 1 .. next - 1 : Passed(i)' \/ Skipped(i)'
  BY <1>1 DEF ContentInv, Passed
<1>3. \A n \in DOMAIN bundle' :
        /\ bundle'[n] # <<>>
        /\ n \in Entries(RequiredScalars[role])' => Entries(bundle'[n]) \cap {"lf", "ctl"} = {}
  BY DEF ContentInv
<1> QED  BY <1>2, <1>3 DEF ContentInv

\* A name that is dealt with joins the bundle, or was absent.
LEMMA MoreContent ==
  ASSUME ContentInv, ProgressInv, pc \in {"inspect", "read"}, Advance,
         UNCHANGED <<role, history, dir>>,
         DOMAIN bundle' = DOMAIN origin',
         \/ UNCHANGED bundle /\ Skipped(next)
         \/ /\ DOMAIN bundle' = {Name} \cup DOMAIN bundle
            /\ \A n \in DOMAIN bundle : n # Name => bundle'[n] = bundle[n]
            /\ bundle'[Name] # <<>>
            /\ Name \in Entries(RequiredScalars[role]) =>
                 Entries(bundle'[Name]) \cap {"lf", "ctl"} = {}
  PROVE  ContentInv'
<1>1. next \in Nat \ {0}  BY DEF ProgressInv
<1>2. next' = next + 1 /\ pc' \in {"inspect", "returned"}
  BY DEF Advance
<1>3. ReadOrder(role)' = ReadOrder(role)  BY DEF ReadOrder
<1>4. \A n \in DOMAIN bundle' :
        /\ bundle'[n] # <<>>
        /\ n \in Entries(RequiredScalars[role])' => Entries(bundle'[n]) \cap {"lf", "ctl"} = {}
  BY DEF ContentInv
<1>5. ASSUME NEW i \in 1 .. next' - 1 PROVE Passed(i)' \/ Skipped(i)'
  <2>1. CASE i = next
    BY <1>3, <2>1 DEF Passed, Skipped, Name
  <2>2. CASE i # next
    <3>1. i \in 1 .. next - 1  BY <1>1, <1>2, <2>2
    <3>2. Passed(i) \/ Skipped(i)  BY <3>1 DEF ContentInv
    <3> QED  BY <1>3, <3>2 DEF Passed, Skipped
  <2> QED  BY <2>1, <2>2
<1> QED  BY <1>2, <1>4, <1>5 DEF ContentInv, Opening

\* What a step adds to the bundle is usable, and what it skips was absent.
LEMMA NextContent ==
  ASSUME ContentInv, SourceInv, ProgressInv, HistoryInv, [Next]_vars PROVE ContentInv'
<1>1. CASE SkipOptional
  <2> DEFINE file == Current(dir, Name)
  <2>1. /\ pc = "inspect" /\ FileError(file) = "not_found" /\ Advance
        /\ UNCHANGED <<role, history, dir, bundle, origin>>
    <3>1. /\ pc = "inspect" /\ FileError(Current(Source, Name)) = "not_found" /\ Advance
          /\ UNCHANGED <<role, history, dir, bundle, origin>>
      BY <1>1 DEF SkipOptional, task, got
    <3> QED  BY <3>1 DEF Source
  <2>2. dir \in Dirs /\ Name \in Names
    BY <2>1, NameAtHand DEF HistoryInv, Reading, ProgressInv
  <2>3. history[dir][Name] \in Seq(Files) /\ history[dir][Name] # <<>>
    BY <2>2 DEF HistoryInv
  <2>4. /\ Len(history[dir][Name]) \in 1 .. Len(history[dir][Name]) /\ file \in Files
        /\ file = history[dir][Name][Len(history[dir][Name])]
    BY <2>3 DEF Current
  <2>5. file = Absent  BY <2>1, <2>4, FileErrorOf
  <2>6. Skipped(next)  BY <2>4, <2>5 DEF Skipped, Entries, Name
  <2>7. DOMAIN bundle' = DOMAIN origin'  BY <2>1 DEF ContentInv
  <2> QED  BY <2>1, <2>6, <2>7, MoreContent
<1>2. CASE ReadFull
  <2>1. ASSUME NEW data, ~Rejected(data), Keep(data) PROVE ContentInv'
    <3>1. /\ pc = "read" /\ Advance /\ UNCHANGED <<role, history, dir>>
      BY <1>2, <2>1 DEF ReadFull, Keep, task
    <3>2. /\ DOMAIN bundle' = {Name} \cup DOMAIN bundle /\ DOMAIN origin' = {Name} \cup DOMAIN origin
          /\ bundle'[Name] = Value(data)
          /\ \A n \in DOMAIN bundle : n # Name => bundle'[n] = bundle[n]
      BY <2>1 DEF Keep
    <3>3. Value(data) # <<>>
      BY <2>1 DEF Rejected, Value, ScalarError, AssetError
    <3>4. Name \in Entries(RequiredScalars[role]) => Entries(Value(data)) \cap {"lf", "ctl"} = {}
      BY <2>1 DEF Rejected, Value, ScalarError, Entries
    <3>5. DOMAIN bundle' = DOMAIN origin'  BY <3>2 DEF ContentInv
    <3> QED  BY <3>1, <3>2, <3>3, <3>4, <3>5, MoreContent
  <2>2. ASSUME NEW kind, Fail(kind) PROVE ContentInv'
    <3>1. UNCHANGED <<role, bundle, origin, next, history, dir>> /\ pc' = "returned"
      BY <2>2 DEF Fail, task, got
    <3>2. \A i \in 1 .. next - 1 : Skipped(i) => Skipped(i)'
      BY <3>1 DEF Skipped, ReadOrder
    <3> QED  BY <3>1, <3>2, SameContent DEF Opening
  <2> QED  BY <1>2, <2>1, <2>2 DEF ReadFull, Refuse, Fault
<1>3. CASE Load /\ ~SkipOptional /\ ~ReadFull
  <2>1. UNCHANGED <<role, bundle, origin, next, history>>
    BY <1>3 DEF Load, ResolveUnitDir, OpenRoot, OpenUnit, CheckDuplicates, Inspect, Fail, Refuse,
                Fault, task, got
  <2>2. pc \in Opening \/ dir' = dir
    BY <1>3 DEF Load, ResolveUnitDir, OpenRoot, OpenUnit, CheckDuplicates, Inspect, Fail, Refuse,
                Fault, Opening
  <2>3. pc' \in Opening \cup {"list"} => pc \in Opening \cup {"list"}
    BY <1>3 DEF Load, ResolveUnitDir, OpenRoot, OpenUnit, CheckDuplicates, Inspect, Fail, Refuse,
                Fault, Opening
  <2>4. pc \in Opening \cup {"list"} => next = 1  BY DEF ContentInv
  <2>5. ASSUME NEW i \in 1 .. next - 1, Skipped(i) PROVE Skipped(i)'
    <3>1. next # 1  BY <2>5
    <3> QED  BY <2>1, <2>2, <2>4, <2>5, <3>1 DEF Skipped, ReadOrder
  <2> QED  BY <2>1, <2>3, <2>4, <2>5, SameContent
<1>4. CASE Operate
  <2>1. UNCHANGED <<role, bundle, origin, next, dir, pc>> /\ pc # "returned"
    BY <1>4 DEF Operate, SwapRoot, SwapUnit, Replace, Rewrite, Change, task, got
  <2>2. pc \in Opening \cup {"list"} => next = 1  BY DEF ContentInv
  <2>3. ASSUME NEW i \in 1 .. next - 1, Skipped(i) PROVE Skipped(i)'
    <3> DEFINE n == ReadOrder(role)[i]
    <3>1. /\ role \in Roles /\ i \in 1 .. Len(ReadOrder(role)) /\ next # 1
      BY <2>1, <2>3, OrderOfARole DEF ProgressInv
    <3>2. n \in Names  BY <3>1, OrderOfARole DEF Names
    <3>3. dir \in Dirs
      BY <2>1, <2>2, <3>1 DEF HistoryInv, SourceInv, Reading, Opening
    <3>4. PICK j \in 1 .. Len(history[dir][n]) : history[dir][n][j] = Absent
      BY <2>3 DEF Skipped, Entries
    <3>5. /\ Len(history'[dir][n]) \in {Len(history[dir][n]), Len(history[dir][n]) + 1}
          /\ \/ history'[dir][n][j] = history[dir][n][j]
             \/ history[dir][n][j].kind = "file"
      BY <1>4, <3>2, <3>3, OperateHistory
    <3>6. history'[dir][n][j] = Absent
      BY <3>4, <3>5 DEF Absent
    <3>7. Len(history[dir][n]) \in Nat  BY <3>2, <3>3 DEF HistoryInv
    <3>8. j \in 1 .. Len(history'[dir][n])  BY <3>5, <3>7
    <3>9. ReadOrder(role)' = ReadOrder(role)  BY <2>1 DEF ReadOrder
    <3> QED  BY <2>1, <3>6, <3>8, <3>9 DEF Skipped, Entries
  <2> QED  BY <2>1, <2>2, <2>3, SameContent
<1>5. CASE UNCHANGED vars
  <2>1. UNCHANGED <<role, bundle, origin, next, history, dir, pc>>
    BY <1>5 DEF vars, task, got
  <2>2. \A i \in 1 .. next - 1 : Skipped(i) => Skipped(i)'
    BY <2>1 DEF Skipped, ReadOrder
  <2> QED  BY <2>1, <2>2, SameContent DEF ContentInv
<1> QED  BY <1>1, <1>2, <1>3, <1>4, <1>5 DEF Next, Load

\* A bundle that is returned as a success is complete.
LEMMA LoadedHasAll ==
  ASSUME ContentInv, ProgressInv PROVE LoadedIsComplete
<1> SUFFICES ASSUME outcome = "loaded" PROVE LoadedIsComplete
  BY DEF LoadedIsComplete
<1>1. /\ role \in Roles /\ Len(ReadOrder(role)) \in Nat \ {0} /\ next = Len(ReadOrder(role)) + 1
  BY OrderOfARole DEF ProgressInv
<1>2. ASSUME NEW n \in Required(role) \cup Optional(role)
      PROVE  \E i \in 1 .. next - 1 : ReadOrder(role)[i] = n
  <2>1. PICK i \in 1 .. Len(ReadOrder(role)) : ReadOrder(role)[i] = n
    BY <1>1, OrderOfARole
  <2> QED  BY <1>1, <2>1
<1>3. Required(role) \subseteq DOMAIN bundle
  BY <1>2 DEF ProgressInv, Passed
<1>4. \A n \in DOMAIN bundle : n \in Required(role) \cup Optional(role)
  <2> TAKE n \in DOMAIN bundle
  <2>1. PICK i \in 1 .. next - 1 : ReadOrder(role)[i] = n  BY DEF ProgressInv
  <2>2. i \in 1 .. Len(ReadOrder(role))  BY <1>1
  <2> QED  BY <1>1, <2>1, <2>2, OrderOfARole
<1>5. \A n \in Optional(role) \ DOMAIN bundle : Absent \in Entries(history[dir][n])
  <2> TAKE n \in Optional(role) \ DOMAIN bundle
  <2>1. PICK i \in 1 .. next - 1 : ReadOrder(role)[i] = n  BY <1>2
  <2> QED  BY <2>1 DEF ContentInv, Passed, Skipped
<1> QED  BY <1>3, <1>4, <1>5 DEF LoadedIsComplete, ContentInv

-----------------------------------------------------------------------------
\* A scalar is accepted when it is some text that a line feed may end.
LEMMA ScalarIs ==
  ASSUME NEW b \in Seq(Bytes)
  PROVE  ~ScalarError(b) <=>
           /\ Len(b) <= MaxScalarBytes
           /\ \E m \in {Len(b), Len(b) - 1} :
                /\ m > 0
                /\ \A i \in 1 .. m : b[i] \in {"old", "new"}
                /\ \A i \in m + 1 .. Len(b) : b[i] = "lf"
<1> DEFINE v == ScalarValue(b)
           ends == b # <<>> /\ b[Len(b)] = "lf"
           text(m) == /\ m > 0
                      /\ \A i \in 1 .. m : b[i] \in {"old", "new"}
                      /\ \A i \in m + 1 .. Len(b) : b[i] = "lf"
<1>1. /\ Len(b) \in Nat /\ (b = <<>>) = (Len(b) = 0) /\ MaxScalarBytes \in Nat
      /\ \A i \in 1 .. Len(b) : b[i] \in {"old", "new", "lf", "ctl"}
  BY LoadAssumption DEF Bytes
<1>2. /\ Len(v) = (IF ends THEN Len(b) - 1 ELSE Len(b)) /\ Len(v) \in Nat
      /\ \A i \in 1 .. Len(v) : v[i] = b[i]
      /\ (v = <<>>) = (Len(v) = 0)
  <2>1. CASE ends
    <3>1. v = SubSeq(b, 1, Len(b) - 1)  BY <2>1 DEF ScalarValue
    <3>2. \A i \in 1 .. Len(b) - 1 : b[i] \in Bytes  BY <1>1 DEF Bytes
    <3>3. Len(b) - 1 \in Nat  BY <1>1, <2>1
    <3>4. /\ v \in Seq(Bytes)
          /\ Len(v) = IF 1 <= Len(b) - 1 THEN Len(b) - 1 - 1 + 1 ELSE 0
          /\ \A i \in 1 .. Len(b) - 1 - 1 + 1 : v[i] = b[1 + i - 1]
      BY <1>1, <3>1, <3>2, <3>3, SubSeqProperties
    <3> HIDE DEF v
    <3>5. Len(v) = Len(b) - 1
      <4> DEFINE k == Len(b) - 1
      <4>1. k \in Nat /\ Len(v) = IF 1 <= k THEN k - 1 + 1 ELSE 0  BY <3>3, <3>4
      <4> HIDE DEF k
      <4>2. Len(v) = k  BY <4>1
      <4> QED  BY <4>2 DEF k
    <3>6. \A i \in 1 .. Len(v) : v[i] = b[i]  BY <1>1, <3>3, <3>4, <3>5
    <3> QED  BY <2>1, <3>3, <3>4, <3>5, <3>6
  <2>2. CASE ~ends
    <3>1. v = b  BY <2>2 DEF ScalarValue
    <3> QED  BY <1>1, <2>2, <3>1
  <2> QED  BY <2>1, <2>2
<1>3. ScalarError(b) <=> \/ Len(b) > MaxScalarBytes \/ v = <<>>
                         \/ \E i \in 1 .. Len(v) : v[i] \in {"lf", "ctl"}
  BY DEF ScalarError
<1>4. ASSUME ~ScalarError(b)
      PROVE  Len(b) <= MaxScalarBytes /\ \E m \in {Len(b), Len(b) - 1} : text(m)
  <2> HIDE DEF v
  <2>1. Len(v) > 0 /\ Len(b) <= MaxScalarBytes  BY <1>1, <1>2, <1>3, <1>4
  <2>2. Len(v) \in {Len(b), Len(b) - 1}  BY <1>2
  <2>3. \A i \in 1 .. Len(v) : b[i] \in {"old", "new"}
    <3> TAKE i \in 1 .. Len(v)
    <3>1. i \in 1 .. Len(b)  BY <1>1, <1>2
    <3>2. v[i] = b[i] /\ v[i] \notin {"lf", "ctl"}  BY <1>2, <1>3, <1>4
    <3> QED  BY <1>1, <3>1, <3>2
  <2>4. \A i \in Len(v) + 1 .. Len(b) : b[i] = "lf"
    <3> TAKE i \in Len(v) + 1 .. Len(b)
    <3>1. ends /\ i = Len(b)  BY <1>1, <1>2
    <3> QED  BY <3>1
  <2> QED  BY <2>1, <2>2, <2>3, <2>4
<1>5. ASSUME Len(b) <= MaxScalarBytes, NEW m \in {Len(b), Len(b) - 1}, text(m)
      PROVE  ~ScalarError(b)
  <2> HIDE DEF v
  <2>1. Len(b) > 0 /\ m \in Nat  BY <1>1, <1>5
  <2>2. m = Len(v)
    <3>1. CASE m = Len(b)
      <4>1. b[Len(b)] \in {"old", "new"}  BY <1>5, <2>1, <3>1
      <4>2. ~ends  BY <4>1
      <4> QED  BY <1>2, <3>1, <4>2
    <3>2. CASE m = Len(b) - 1
      <4>1. Len(b) \in m + 1 .. Len(b)  BY <1>1, <2>1, <3>2
      <4>2. ends  BY <1>1, <1>5, <2>1, <4>1
      <4> QED  BY <1>2, <3>2, <4>2
    <3> QED  BY <3>1, <3>2
  <2>3. \A i \in 1 .. Len(v) : v[i] \in {"old", "new"}  BY <1>2, <1>5, <2>2
  <2>4. v # <<>>  BY <1>2, <1>5, <2>2
  <2> QED  BY <1>1, <1>3, <1>5, <2>3, <2>4
<1> QED  BY <1>4, <1>5

\* What makes a file usable is what the checks on its descriptor and on its
\* bytes ask for.
LEMMA UsableIs ==
  ASSUME NEW n, Current(unit[root], n) \in Files
  PROVE  Usable(n) <=>
           /\ FileError(Current(unit[root], n)) = "none"
           /\ ~(IF n \in Entries(RequiredScalars[role])
                THEN ScalarError(Current(unit[root], n).bytes)
                ELSE AssetError(Current(unit[root], n).bytes))
<1> DEFINE file == Current(unit[root], n)
           b == file.bytes
           text == \E m \in {Len(b), Len(b) - 1} :
                     /\ m > 0 /\ Len(b) <= MaxScalarBytes
                     /\ \A i \in 1 .. m : b[i] \in {"old", "new"}
                     /\ \A i \in m + 1 .. Len(b) : b[i] = "lf"
<1>1. Usable(n) <=> /\ file.kind = "file" /\ Secure(file.meta, FALSE)
                    /\ Len(b) \in 1 .. MaxAssetBytes
                    /\ n \in Entries(RequiredScalars[role]) => text
  BY DEF Usable
<1> HIDE DEF text
<1>2. /\ file.kind = "file" => b \in Seq(Bytes) /\ Len(b) \in Nat
      /\ FileError(file) = "none" <=>
           file.kind = "file" /\ Secure(file.meta, FALSE) /\ Len(b) <= MaxAssetBytes
  BY FileErrorOf
<1>3. CASE file.kind # "file"
  BY <1>1, <1>2, <1>3
<1>4. CASE file.kind = "file"
  <2>1. b \in Seq(Bytes) /\ Len(b) \in Nat /\ MaxAssetBytes \in Nat  BY <1>2, <1>4, LoadAssumption
  <2> HIDE DEF b
  <2>2. ~ScalarError(b) <=> text  BY <2>1, ScalarIs DEF text
  <2>3. ~AssetError(b) <=> Len(b) > 0 /\ Len(b) <= MaxAssetBytes
    <3>1. (b = <<>>) = (Len(b) = 0)  BY <2>1
    <3> QED  BY <2>1, <3>1 DEF AssetError
  <2>4. text => Len(b) > 0
    BY <2>1 DEF text
  <2>5. Len(b) \in 1 .. MaxAssetBytes <=> Len(b) > 0 /\ Len(b) <= MaxAssetBytes
    BY <2>1
  <2> HIDE DEF file
  <2>6. FileError(file) = "none" <=> Secure(file.meta, FALSE) /\ Len(b) <= MaxAssetBytes
    BY <1>2, <1>4
  <2>7. CASE n \in Entries(RequiredScalars[role])
    <3>1. Usable(n) <=> Secure(file.meta, FALSE) /\ Len(b) > 0 /\ Len(b) <= MaxAssetBytes /\ text
      BY <1>1, <1>4, <2>5, <2>7
    <3>2. Usable(n) <=> FileError(file) = "none" /\ ~ScalarError(b)
      BY <2>2, <2>4, <2>6, <3>1
    <3> QED  BY <2>7, <3>2 DEF b, file
  <2>8. CASE n \notin Entries(RequiredScalars[role])
    <3>1. Usable(n) <=> Secure(file.meta, FALSE) /\ Len(b) > 0 /\ Len(b) <= MaxAssetBytes
      BY <1>1, <1>4, <2>5, <2>8
    <3>2. Usable(n) <=> FileError(file) = "none" /\ ~AssetError(b)
      BY <2>3, <2>6, <3>1
    <3> QED  BY <2>8, <3>2 DEF b, file
  <2> QED  BY <2>7, <2>8
<1> QED  BY <1>3, <1>4

-----------------------------------------------------------------------------
\* In a calm load nothing moves but the loader, and it does not fail.
LEMMA CalmStep ==
  ASSUME BoundsInv, [Next]_vars, changes' = 0, faults' = 0
  PROVE  /\ changes = 0 /\ faults = 0 /\ ~Operate /\ ~Fault
         /\ UNCHANGED <<role, world, root, unit, history>>
<1>1. changes \in Nat /\ faults \in Nat  BY LoadAssumption DEF BoundsInv
<1>2. ~Operate
  <2>1. Operate => changes' = changes + 1
    BY DEF Operate, SwapRoot, SwapUnit, Replace, Rewrite, Change
  <2> QED  BY <1>1, <2>1
<1>3. ~Fault
  <2>1. Fault => faults' = faults + 1  BY DEF Fault
  <2> QED  BY <1>1, <2>1
<1>4. CASE UNCHANGED vars
  BY <1>2, <1>3, <1>4 DEF vars, task, place, bounds
<1>5. CASE Load
  <2>1. UNCHANGED <<role, world, root, unit, history, changes, faults>>
    BY <1>3, <1>5 DEF Load, ResolveUnitDir, OpenRoot, OpenUnit, CheckDuplicates, Inspect,
       SkipOptional, ReadFull, Keep, Refuse, Fail, task, place, bounds
  <2> QED  BY <1>2, <1>3, <2>1
<1> QED  BY <1>2, <1>4, <1>5 DEF Next

\* What is loadable depends on what does not move then.
LEMMA SameLoadable ==
  ASSUME UNCHANGED <<role, world, root, unit, history>>
  PROVE  /\ Loadable' = Loadable /\ ReadOrder(role)' = ReadOrder(role)
         /\ \A i : InOrder(ReadOrder(role)[i])' = InOrder(ReadOrder(role)[i])
<1>1. /\ Required(role)' = Required(role) /\ Optional(role)' = Optional(role)
      /\ ReadOrder(role)' = ReadOrder(role)
  BY DEF Required, Optional, ReadOrder
<1>2. \A n : Usable(n)' = Usable(n)
  BY DEF Usable, Current
<1>3. \A n : Current(unit[root], n)' = Current(unit[root], n)
  BY DEF Current
<1>4. Loadable' = Loadable
  BY <1>1, <1>2, <1>3 DEF Loadable
<1>5. ASSUME NEW i
      PROVE InOrder(ReadOrder(role)[i])' = InOrder(ReadOrder(role)[i])
  BY <1>1, <1>2, <1>3 DEF InOrder
<1> QED  BY <1>1, <1>4, <1>5

\* A directory is loadable when every name of the role is in order in it.
LEMMA LoadableIs ==
  ASSUME role \in Roles
  PROVE  Loadable <=>
           /\ world.variable = "below" /\ root \in Trees /\ unit[root] \in Dirs
           /\ Secure(world.meta[unit[root]], TRUE) /\ world.listing[unit[root]] = "plain"
           /\ \A i \in 1 .. Len(ReadOrder(role)) : InOrder(ReadOrder(role)[i])
<1>1. \A i \in 1 .. Len(ReadOrder(role)) : ReadOrder(role)[i] \in Required(role) \cup Optional(role)
  BY OrderOfARole
<1>2. \A n \in Required(role) \cup Optional(role) :
        \E i \in 1 .. Len(ReadOrder(role)) : ReadOrder(role)[i] = n
  BY OrderOfARole
<1>3. Optional(role) \cap Required(role) = {}  BY ListsOfARole
<1>4. (\A i \in 1 .. Len(ReadOrder(role)) : InOrder(ReadOrder(role)[i]))
        <=> \A n \in Required(role) \cup Optional(role) : InOrder(n)
  BY <1>1, <1>2
<1>5. (\A n \in Required(role) \cup Optional(role) : InOrder(n))
        <=> /\ \A n \in Required(role) : Usable(n)
            /\ \A n \in Optional(role) : Current(unit[root], n) = Absent \/ Usable(n)
  BY <1>3 DEF InOrder
<1> QED  BY <1>4, <1>5 DEF Loadable

\* A name that is dealt with and in order: the load goes on to the next, or it
\* returns and everything was in order.
LEMMA AdvanceCalm ==
  ASSUME CalmInv, ProgressInv, pc \in {"inspect", "read"}, changes = 0, faults = 0,
         UNCHANGED <<role, world, root, unit, history, tree, dir>>, Advance, InOrder(Name)
  PROVE  CalmInv'
<1>1. /\ world.variable = "below" /\ root \in Trees /\ tree = root /\ unit[root] \in Dirs
      /\ dir = unit[root] /\ Secure(world.meta[dir], TRUE) /\ world.listing[dir] = "plain"
      /\ \A i \in 1 .. next - 1 : InOrder(ReadOrder(role)[i])
  BY DEF CalmInv, Reading
<1>2. /\ role \in Roles /\ next \in Nat \ {0} /\ next' = next + 1
      /\ ReadOrder(role)' = ReadOrder(role)
  BY SameLoadable DEF ProgressInv, Advance
<1>3. \A i \in 1 .. next : InOrder(ReadOrder(role)[i])
  <2> TAKE i \in 1 .. next
  <2>1. i = next \/ i \in 1 .. next - 1  BY <1>2
  <2> QED  BY <1>1, <2>1 DEF Name
<1>4. CASE next = Len(ReadOrder(role))
  <2>1. pc' = "returned" /\ outcome' = "loaded"  BY <1>4 DEF Advance
  <2>2. Loadable'  BY <1>1, <1>2, <1>3, <1>4, LoadableIs, SameLoadable
  <2> QED  BY <2>1, <2>2 DEF CalmInv, Reading
<1>5. CASE next # Len(ReadOrder(role))
  <2>1. pc' = "inspect"  BY <1>5 DEF Advance
  <2>2. \A i \in 1 .. next' - 1 : InOrder(ReadOrder(role)[i])'
    <3> TAKE i \in 1 .. next' - 1
    <3>1. i \in 1 .. next  BY <1>2
    <3>2. InOrder(ReadOrder(role)[i])  BY <1>3, <3>1
    <3> QED  BY <3>2, SameLoadable
  <2> QED  BY <1>1, <2>1, <2>2 DEF CalmInv, Reading
<1> QED  BY <1>4, <1>5

\* A refusal is right when the directory was not loadable.
LEMMA RefuseCalm ==
  ASSUME NEW kind \in Errors, Refuse(kind), ~Loadable PROVE CalmInv'
<1>1. /\ UNCHANGED <<role, world, root, unit, history>>
      /\ pc' = "returned" /\ outcome' = kind /\ kind # "loaded"
  BY DEF Refuse, Fail, task, place, Errors
<1>2. Loadable \in BOOLEAN  BY DEF Loadable
<1>3. Loadable' = FALSE  BY <1>1, <1>2, SameLoadable
<1> QED  BY <1>1, <1>3 DEF CalmInv, Reading

\* The name at hand names a file of the directory, or nothing.
LEMMA FileAtHand ==
  ASSUME ProgressInv, HistoryInv, pc \in {"inspect", "read"}
  PROVE  /\ next \in 1 .. Len(ReadOrder(role)) /\ role \in Roles
         /\ Name \in Required(role) \cup Optional(role) /\ Current(dir, Name) \in Files
<1>1. /\ next \in 1 .. Len(ReadOrder(role)) /\ role \in Roles
      /\ Name \in Required(role) \cup Optional(role) /\ Name \in Names
  BY NameAtHand DEF ProgressInv
<1>2. dir \in Dirs  BY DEF HistoryInv, Reading
<1>3. history[dir][Name] \in Seq(Files) /\ history[dir][Name] # <<>>
  BY <1>1, <1>2 DEF HistoryInv
<1> QED  BY <1>1, <1>3 DEF Current

\* The directories are opened, and their metadata and listing are in order.
LEMMA OpenCalm ==
  ASSUME CalmInv, ProgressInv, ContentInv, changes = 0, faults = 0, ~Fault,
         ResolveUnitDir \/ OpenRoot \/ OpenUnit \/ CheckDuplicates,
         UNCHANGED <<role, world, root, unit, history>>
  PROVE  CalmInv'
<1>1. role \in Roles  BY DEF ProgressInv
<1>2. CASE ResolveUnitDir
  <2>1. CASE world.variable = "below"
    <3>1. pc' = "root"  BY <1>2, <2>1 DEF ResolveUnitDir, Refuse, Fail
    <3> QED  BY <2>1, <3>1 DEF CalmInv, Reading
  <2>2. CASE world.variable # "below"
    <3>1. ~Loadable  BY <2>2 DEF Loadable
    <3>2. Refuse("not_found") \/ Refuse("unsafe")  BY <1>2, <2>2 DEF ResolveUnitDir
    <3> QED  BY <3>1, <3>2, RefuseCalm DEF Errors
  <2> QED  BY <2>1, <2>2
<1>3. CASE OpenRoot
  <2>1. world.variable = "below"  BY <1>3 DEF OpenRoot, CalmInv
  <2>2. CASE root \in Trees /\ tree' = root /\ pc' = "unit"
    BY <2>1, <2>2 DEF CalmInv, Reading
  <2>3. CASE root \notin Trees /\ Refuse(DirError(root))
    <3>1. ~Loadable  BY <2>3 DEF Loadable
    <3>2. DirError(root) \in Errors  BY <2>3 DEF ProgressInv, DirError, Errors
    <3> QED  BY <2>3, <3>1, <3>2, RefuseCalm
  <2> QED  BY <1>3, <2>2, <2>3 DEF OpenRoot
<1>4. CASE OpenUnit
  <2>1. world.variable = "below" /\ root \in Trees /\ tree = root
    BY <1>4 DEF OpenUnit, CalmInv
  <2>2. CASE /\ unit[tree] \in Dirs /\ Secure(world.meta[unit[tree]], TRUE)
             /\ dir' = unit[tree] /\ pc' = "list" /\ tree' = tree
    BY <2>1, <2>2 DEF CalmInv, Reading
  <2>3. CASE unit[tree] \in Dirs /\ ~Secure(world.meta[unit[tree]], TRUE) /\ Refuse("permission")
    <3>1. ~Loadable  BY <2>1, <2>3 DEF Loadable
    <3> QED  BY <2>3, <3>1, RefuseCalm DEF Errors
  <2>4. CASE unit[tree] \notin Dirs /\ Refuse(DirError(unit[tree]))
    <3>1. ~Loadable  BY <2>1, <2>4 DEF Loadable
    <3>2. DirError(unit[tree]) \in Errors
      BY <2>1, <2>4 DEF ProgressInv, DirError, Errors
    <3> QED  BY <2>4, <3>1, <3>2, RefuseCalm
  <2> QED  BY <1>4, <2>2, <2>3, <2>4 DEF OpenUnit
<1>5. CASE CheckDuplicates
  <2>1. /\ world.variable = "below" /\ root \in Trees /\ tree = root
        /\ unit[root] \in Dirs /\ dir = unit[root] /\ Secure(world.meta[dir], TRUE)
    BY <1>5 DEF CheckDuplicates, CalmInv, Reading
  <2>2. CASE world.listing[dir] = "plain" /\ pc' = "inspect" /\ UNCHANGED <<tree, dir, next>>
    <3>1. next' = 1  BY <1>5, <2>2 DEF ContentInv, CheckDuplicates
    <3>2. \A i \in 1 .. next' - 1 : InOrder(ReadOrder(role)[i])'  BY <3>1
    <3> QED  BY <2>1, <2>2, <3>2 DEF CalmInv, Reading
  <2>3. CASE world.listing[dir] # "plain" /\ (Refuse("rejected") \/ Refuse("unsafe"))
    <3>1. ~Loadable  BY <2>1, <2>3 DEF Loadable
    <3> QED  BY <2>3, <3>1, RefuseCalm DEF Errors
  <2> QED  BY <1>5, <2>2, <2>3 DEF CheckDuplicates
<1> QED  BY <1>2, <1>3, <1>4, <1>5

\* What is refused or skipped about one name was not in order, or was absent.
LEMMA NameCalm ==
  ASSUME CalmInv, ProgressInv, HistoryInv, HeldInv, changes = 0, faults = 0, ~Fault,
         Inspect \/ SkipOptional \/ ReadFull,
         UNCHANGED <<role, world, root, unit, history>>
  PROVE  CalmInv'
<1> DEFINE file == Current(dir, Name)
<1>1. pc \in {"inspect", "read"}  BY DEF Inspect, SkipOptional, ReadFull
<1>2. /\ world.variable = "below" /\ root \in Trees /\ tree = root
      /\ unit[root] \in Dirs /\ dir = unit[root] /\ Secure(world.meta[dir], TRUE)
      /\ world.listing[dir] = "plain"
      /\ \A i \in 1 .. next - 1 : InOrder(ReadOrder(role)[i])
  BY <1>1 DEF CalmInv, Reading
<1>3. /\ next \in 1 .. Len(ReadOrder(role)) /\ role \in Roles
      /\ Name \in Required(role) \cup Optional(role) /\ file \in Files
      /\ Name = ReadOrder(role)[next]
  BY <1>1, FileAtHand DEF Name
<1>4. ~InOrder(Name) => ~Loadable  BY <1>3, LoadableIs
<1>5. Usable(Name) <=> FileError(file) = "none" /\ ~Rejected(file.bytes)
  BY <1>2, <1>3, UsableIs DEF Rejected
<1>6. /\ file.kind = "file" => file.bytes \in Seq(Bytes) /\ Len(file.bytes) \in Nat
      /\ FileError(file) = "none" => file.kind = "file"
      /\ FileError(file) = "not_found" <=> file = Absent
  BY <1>3, FileErrorOf
<1>7. InOrder(Name) <=> \/ Usable(Name)
                        \/ Name \notin Required(role) /\ file = Absent
  BY <1>2 DEF InOrder
<1>8. Optional(role) \cap Required(role) = {}  BY <1>3, ListsOfARole
<1>9. CASE Inspect
  <2>1. CASE FileError(file) = "none" /\ pc' = "read"
    <3>1. /\ held' = [dir |-> dir, version |-> Len(history[dir][Name]), size |-> Len(file.bytes)]
          /\ seen' = file.bytes /\ UNCHANGED <<next, dir, tree>>
      BY <1>9, <2>1 DEF Inspect, Source, Fail, Refuse, Fault
    <3>2. held'.version = Len(history[dir][Name])  BY <3>1
    <3>3. Name' = Name /\ Current(dir, Name)' = file
      BY <3>1 DEF Name, ReadOrder, Current
    <3>4. \A i \in 1 .. next' - 1 : InOrder(ReadOrder(role)[i])'
      BY <1>2, <3>1, SameLoadable
    <3>5. OpenFile'.bytes = seen' /\ held'.version = Len(history'[dir'][Name'])
      BY <3>1, <3>2, <3>3 DEF OpenFile, Current
    <3>6. FileError(Current(dir, Name)') = "none"
      BY <2>1, <3>3
    <3> HIDE DEF file
    <3> QED  BY <1>2, <2>1, <3>1, <3>4, <3>5, <3>6 DEF CalmInv, Reading
  <2>2. CASE /\ FileError(file) # "none" /\ Refuse(FileError(file))
             /\ ~(FileError(file) = "not_found" /\ Name \in Optional(role))
    <3>1. ~InOrder(Name)
      BY <1>3, <1>5, <1>6, <1>7, <1>8, <2>2
    <3>2. FileError(file) \in Errors
      BY <2>2 DEF FileError, Errors
    <3> HIDE DEF file
    <3> QED  BY <1>4, <2>2, <3>1, <3>2, RefuseCalm
  <2> QED  BY <1>9, <2>1, <2>2 DEF Inspect, Source
<1>10. CASE SkipOptional
  <2>1. InOrder(Name)
    BY <1>6, <1>7, <1>8, <1>10 DEF SkipOptional, Source
  <2> QED  BY <1>1, <1>10, <2>1, AdvanceCalm DEF SkipOptional
<1>11. CASE ReadFull
  <2>1. /\ pc = "read" /\ held.version = Len(history[dir][Name])
        /\ FileError(file) = "none" /\ held.dir = dir
        /\ held.size = Len(seen) /\ seen = OpenFile.bytes
    BY <1>11 DEF ReadFull, CalmInv, HeldInv
  <2>2. Filled = file.bytes /\ OpenFile = file
    BY <2>1 DEF Filled, OpenFile, Current
  <2>3. Len(Filled) >= held.size /\ ~(Len(Filled) < held.size)
    BY <1>6, <2>1, <2>2
  <2>4. SubSeq(Filled, 1, held.size) = file.bytes
    BY <2>1, <2>2, <2>3, ReadIsInspected
  <2>5. \/ ~Rejected(file.bytes) /\ Keep(file.bytes)
        \/ Rejected(file.bytes) /\ Refuse("rejected")
    <3> DEFINE data == SubSeq(Filled, 1, held.size)
    <3>1. \/ ~Rejected(data) /\ Keep(data)
          \/ Rejected(data) /\ Refuse("rejected")
      BY <1>11, <2>3 DEF ReadFull
    <3>2. data = file.bytes  BY <2>4
    <3> HIDE DEF data, file
    <3> QED  BY <3>1, <3>2
  <2>6. CASE ~Rejected(file.bytes) /\ Keep(file.bytes)
    <3>1. InOrder(Name)  BY <1>5, <1>7, <2>1, <2>6
    <3>2. Advance /\ UNCHANGED <<tree, dir>>  BY <2>6 DEF Keep
    <3> QED  BY <1>1, <3>1, <3>2, AdvanceCalm
  <2>7. CASE Rejected(file.bytes) /\ Refuse("rejected")
    <3>1. ~Usable(Name)  BY <1>5, <2>7
    <3>2. file # Absent  BY <1>6, <2>1 DEF Absent
    <3>3. ~InOrder(Name)  BY <1>7, <3>1, <3>2
    <3> QED  BY <1>4, <2>7, <3>3, RefuseCalm DEF Errors
  <2> QED  BY <2>5, <2>6, <2>7
<1> QED  BY <1>9, <1>10, <1>11

\* The verdict stays right: with every step of a calm load.
LEMMA NextCalm ==
  ASSUME CalmInv, ProgressInv, HistoryInv, HeldInv, ContentInv, BoundsInv, [Next]_vars
  PROVE  CalmInv'
<1> SUFFICES ASSUME changes' = 0, faults' = 0 PROVE CalmInv'
  BY DEF CalmInv
<1>1. /\ changes = 0 /\ faults = 0 /\ ~Operate /\ ~Fault
      /\ UNCHANGED <<role, world, root, unit, history>>
  BY CalmStep
<1>2. CASE ResolveUnitDir \/ OpenRoot \/ OpenUnit \/ CheckDuplicates
  BY <1>1, <1>2, OpenCalm
<1>3. CASE Inspect \/ SkipOptional \/ ReadFull
  BY <1>1, <1>3, NameCalm
<1>4. CASE UNCHANGED vars
  <2>1. /\ UNCHANGED <<pc, tree, dir, next, held, outcome, seen>> /\ Name' = Name
    BY <1>4 DEF vars, watch, Name, ReadOrder, task
  <2>2. \A i \in 1 .. next' - 1 : InOrder(ReadOrder(role)[i])' = InOrder(ReadOrder(role)[i])
    BY <1>1, SameLoadable
  <2>3. Loadable' = Loadable  BY <1>1, SameLoadable
  <2>4. Current(dir, Name)' = Current(dir, Name)  BY <1>1, <2>1 DEF Current
  <2>5. OpenFile' = OpenFile  BY <1>1, <2>1 DEF OpenFile
  <2> QED  BY <1>1, <2>1, <2>2, <2>3, <2>4, <2>5 DEF CalmInv
<1> QED  BY <1>1, <1>2, <1>3, <1>4 DEF Next, Load

\* The bounds and the descriptors.
LEMMA NextBounds ==
  ASSUME BoundsInv, [Next]_vars PROVE BoundsInv'
<1>1. /\ changes \in Nat /\ faults \in Nat /\ MaxChanges \in Nat /\ MaxFaults \in Nat
      /\ changes \in 0 .. MaxChanges /\ faults \in 0 .. MaxFaults
  BY LoadAssumption DEF BoundsInv
<1>2. CASE UNCHANGED vars
  BY <1>2 DEF vars, BoundsInv, task, bounds
<1>3. CASE Operate
  <2>1. changes < MaxChanges /\ changes' = changes + 1 /\ UNCHANGED <<world, fds, faults>>
    BY <1>3 DEF Operate, SwapRoot, SwapUnit, Replace, Rewrite, Change, task
  <2>2. changes' \in 0 .. MaxChanges  BY <1>1, <2>1
  <2> QED  BY <2>1, <2>2 DEF BoundsInv
<1>4. CASE Load
  <2>1. world' = world /\ changes' = changes
    BY <1>4 DEF Load, ResolveUnitDir, OpenRoot, OpenUnit, CheckDuplicates, Inspect, SkipOptional,
                ReadFull, Keep, Refuse, Fault, Fail, task, bounds
  <2>2. faults' = faults \/ (faults < MaxFaults /\ faults' = faults + 1)
    BY <1>4 DEF Load, ResolveUnitDir, OpenRoot, OpenUnit, CheckDuplicates, Inspect, SkipOptional,
                ReadFull, Keep, Refuse, Fault, bounds
  <2>3. faults' \in 0 .. MaxFaults  BY <1>1, <2>2
  <2>4. fds' \subseteq {"root", "unit", "file"}
    BY <1>4 DEF BoundsInv, Load, ResolveUnitDir, OpenRoot, OpenUnit, CheckDuplicates, Inspect,
                SkipOptional, ReadFull, Keep, Advance, Refuse, Fault, Fail
  <2> QED  BY <2>1, <2>3, <2>4 DEF BoundsInv
<1> QED  BY <1>2, <1>3, <1>4 DEF Next

\* The parts of the invariant give the types.
LEMMA OutcomeTypes ==
  ASSUME SourceInv, ProgressInv, ContentInv, BoundsInv PROVE TypeOK
<1>1. DOMAIN bundle \subseteq Names
  <2> SUFFICES ASSUME NEW n \in DOMAIN bundle PROVE n \in Names
    OBVIOUS
  <2>1. PICK i \in 1 .. next - 1 : ReadOrder(role)[i] = n  BY DEF ProgressInv
  <2>2. role \in Roles /\ next \in Nat /\ next <= Len(ReadOrder(role)) + 1
    BY DEF ProgressInv
  <2>3. i \in 1 .. Len(ReadOrder(role))  BY <2>1, <2>2, OrderOfARole
  <2> QED  BY <2>1, <2>2, <2>3, OrderOfARole DEF Names
<1>2. pc \in {"resolve", "root", "unit", "list", "inspect", "read", "returned"}
  BY DEF SourceInv, Opening, Reading
<1> QED  BY <1>1, <1>2 DEF TypeOK, ProgressInv, ContentInv, BoundsInv

\* A load starts with the verdict open.
LEMMA InitOutcome ==
  ASSUME Init PROVE OutcomeInv
<1>1. HeldInv /\ CalmInv  BY DEF Init, HeldInv, CalmInv, Reading
<1>2. ContentInv  BY DEF Init, ContentInv, NoMap, Opening
<1>3. BoundsInv  BY LoadAssumption DEF Init, BoundsInv
<1> QED  BY <1>1, <1>2, <1>3, InitSource, InitProgress, InitHistory DEF OutcomeInv

(***************************************************************************)
(* Whatever is renamed, replaced and written during a load: a bundle it    *)
(* returns has every required credential of the role, each usable, and no  *)
(* other role's; and with nothing changing and nothing failing, the load   *)
(* succeeds exactly when the directory it names is usable as it stands.    *)
(***************************************************************************)
THEOREM OutcomesAreRight == Spec => []OutcomeIsRight
<1>1. Init => OutcomeInv  BY InitOutcome
<1>2. OutcomeInv /\ [Next]_vars => OutcomeInv'
  BY NextSource, NextProgress, NextHistory, NextHeld, NextContent, NextCalm, NextBounds
     DEF OutcomeInv
<1>3. OutcomeInv => OutcomeIsRight
  <2> SUFFICES ASSUME OutcomeInv PROVE OutcomeIsRight
    OBVIOUS
  <2>1. TypeOK  BY OutcomeTypes DEF OutcomeInv
  <2>2. LoadedIsComplete  BY LoadedHasAll DEF OutcomeInv
  <2>3. VerdictIsRight
    BY DEF OutcomeInv, ProgressInv, CalmInv, VerdictIsRight
  <2> QED  BY <2>1, <2>2, <2>3 DEF OutcomeIsRight
<1> QED  BY <1>1, <1>2, <1>3, PTL DEF Spec
=============================================================================
