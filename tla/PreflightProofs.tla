-------------------------- MODULE PreflightProofs ---------------------------
(***************************************************************************)
(* Proofs about a preflight run on a host that changes under it, for any   *)
(* set of hosts, worlds and options.                                       *)
(***************************************************************************)
EXTENDS Preflight, SequenceTheorems, FiniteSetTheorems, TLAPS

Early   == {"start", "refused", "config", "scan"}
Probing == {"disk", "parent", "passwd", "accounts", "directory", "listeners", "tables"}
Late    == {"dns", "certificate", "returned"}

\* Which probes were called by then.
CallsInv ==
    /\ options \in Options
    /\ options.offline => pc \in Early \union {"returned"}
    /\ ProbesOnlyWhenAllowed

-----------------------------------------------------------------------------
\* A run starts with no call.
LEMMA InitCalls ==
    ASSUME Init PROVE CallsInv
BY DEF Init, CallsInv, ProbesOnlyWhenAllowed, Early

\* A probe of the evidence checks is called only when it is live.
LEMMA EvidenceCalls ==
    ASSUME CallsInv, CheckDNS \/ CheckCertificate PROVE CallsInv'
<1>1. /\ options' = options /\ pc \in {"dns", "certificate"}
      /\ pc' \in {"dns", "certificate", "returned"}
  BY DEF CheckDNS, CheckCertificate, Ask, Fail, world
<1>2. ~options.offline
  BY <1>1 DEF CallsInv, Early
<1>3. ~isNilNetProbe => options.netProbe = "live"
  BY OptionsAssumption DEF CallsInv, isNilNetProbe
<1>4. isNilNetProbe => calls' = calls
  BY DEF CheckDNS, CheckCertificate, Ask
<1> QED  BY <1>1, <1>2, <1>3, <1>4 DEF CallsInv, ProbesOnlyWhenAllowed

\* The steps that an offline run may take call nothing, the others are not
\* reached by one.
LEMMA HostCalls ==
    ASSUME CallsInv,
           \/ Start \/ InspectConfig \/ ScanConfig \/ AvailableBytes
           \/ InspectPasswd \/ ReadPasswd \/ InspectDirectory
           \/ Listeners \/ ReadTable \/ CheckPorts
    PROVE  CallsInv'
<1>1. CASE Start
  BY <1>1 DEF Start, CallsInv, ProbesOnlyWhenAllowed, Early, world
<1>2. CASE InspectConfig
  BY <1>2, OptionsAssumption
  DEF InspectConfig, AfterCredentials, CallsInv, ProbesOnlyWhenAllowed, Early, world
<1>3. CASE ScanConfig
  BY <1>3 DEF ScanConfig, AfterCredentials, CallsInv, ProbesOnlyWhenAllowed, Early, world
<1>4. CASE \/ AvailableBytes \/ InspectPasswd \/ ReadPasswd \/ InspectDirectory
           \/ Listeners \/ ReadTable \/ CheckPorts
  <2>1. options' = options /\ pc \in Probing
    BY <1>4 DEF AvailableBytes, InspectPasswd, ReadPasswd, InspectDirectory, Listeners, ReadTable,
                CheckPorts, Probing, world
  <2>2. calls' \in {calls, calls \union {"AvailableBytes"}, calls \union {"Identity"},
                   calls \union {"Listeners"}}
    BY <1>4 DEF AvailableBytes, InspectPasswd, ReadPasswd, InspectDirectory, Listeners, ReadTable,
                CheckPorts
  <2> QED  BY <2>1, <2>2 DEF CallsInv, ProbesOnlyWhenAllowed, Early, Probing
<1> QED  BY <1>1, <1>2, <1>3, <1>4

\* Every step keeps the record of calls within what is allowed.
LEMMA NextCalls ==
    ASSUME CallsInv, [Next]_vars PROVE CallsInv'
<1>1. CASE Change \/ Tick \/ UNCHANGED vars
  BY <1>1 DEF Change, Tick, vars, CallsInv, ProbesOnlyWhenAllowed
<1> QED  BY <1>1, EvidenceCalls, HostCalls DEF Next, Run

(***************************************************************************)
(* An offline run calls no probe, and an absent NetProbe is never called,  *)
(* whatever the host does meanwhile.                                       *)
(***************************************************************************)
THEOREM NoProbeUnasked == Spec => []ProbesOnlyWhenAllowed
<1>1. Init => CallsInv  BY InitCalls
<1>2. CallsInv /\ [Next]_vars => CallsInv'  BY NextCalls
<1>3. CallsInv => ProbesOnlyWhenAllowed  BY DEF CallsInv
<1> QED  BY <1>1, <1>2, <1>3, PTL DEF Spec

-----------------------------------------------------------------------------
(***************************************************************************)
(* The listener scan.  A socket that was open when it began and still is,  *)
(* is in every table that has been read and is its own, unless the scan    *)
(* has failed; and the port verdict of an online run is given once, after  *)
(* the scan.                                                               *)
(***************************************************************************)
Scanned(s) == \E j \in 1 .. 4 : j < i /\ TableOrder[j] = s.table
Held(list, x) == \E k \in DOMAIN list : list[k] = x
Statuses == {"pass", "fail", "skip"}
Verdicts == Names \X Statuses

ScanInv ==
    /\ host \in Hosts /\ options \in Options
    /\ pc \in Early \union Probing \union Late
    /\ checks \in Seq(Verdicts)
    /\ steady \subseteq host.sockets
    /\ pc = "tables" =>
          /\ i \in 1 .. 5
          /\ found.ok => \A s \in steady : Scanned(s) /\ Listens(s) => s \in found.listeners
    /\ pc \in Early \union Probing /\ ~options.offline => ~Passed("ports")
    /\ pc \in {"start", "refused"} => checks = <<>>
    /\ SteadyListenerIsSeen

-----------------------------------------------------------------------------
\* What a longer list holds.
LEMMA HeldAppend ==
    ASSUME NEW S, NEW list \in Seq(S), NEW e \in S
    PROVE  /\ Append(list, e) \in Seq(S)
           /\ \A x : Held(Append(list, e), x) <=> Held(list, x) \/ x = e
<1>1. /\ Append(list, e) \in Seq(S) /\ Len(Append(list, e)) = Len(list) + 1
      /\ \A k \in 1 .. Len(list) : Append(list, e)[k] = list[k]
      /\ Append(list, e)[Len(list) + 1] = e
  BY AppendProperties
<1>2. DOMAIN list = 1 .. Len(list) /\ Len(list) \in Nat
      /\ DOMAIN Append(list, e) = 1 .. Len(list) + 1
  BY <1>1, LenProperties
<1> QED  BY <1>1, <1>2 DEF Held

LEMMA HeldConcat ==
    ASSUME NEW S, NEW list \in Seq(S), NEW more \in Seq(S)
    PROVE  /\ list \o more \in Seq(S)
           /\ \A x : Held(list \o more, x) <=> Held(list, x) \/ Held(more, x)
<1>1. /\ list \o more \in Seq(S) /\ Len(list \o more) = Len(list) + Len(more)
      /\ \A k \in 1 .. Len(list) + Len(more) :
            (list \o more)[k] = IF k <= Len(list) THEN list[k] ELSE more[k - Len(list)]
  BY ConcatProperties
<1>2. /\ DOMAIN list = 1 .. Len(list) /\ Len(list) \in Nat
      /\ DOMAIN more = 1 .. Len(more) /\ Len(more) \in Nat
      /\ DOMAIN (list \o more) = 1 .. Len(list) + Len(more)
  BY <1>1, LenProperties
<1>3. ASSUME NEW x, Held(list, x) PROVE Held(list \o more, x)
  BY <1>1, <1>2, <1>3 DEF Held
<1>4. ASSUME NEW x, Held(more, x) PROVE Held(list \o more, x)
  <2>1. PICK k \in 1 .. Len(more) : more[k] = x  BY <1>2, <1>4 DEF Held
  <2>2. /\ k + Len(list) \in 1 .. Len(list) + Len(more)
        /\ ~(k + Len(list) <= Len(list)) /\ (k + Len(list)) - Len(list) = k
    BY <1>2
  <2> QED  BY <1>1, <1>2, <2>1, <2>2 DEF Held
<1>5. ASSUME NEW x, Held(list \o more, x) PROVE Held(list, x) \/ Held(more, x)
  <2>1. PICK k \in 1 .. Len(list) + Len(more) : (list \o more)[k] = x  BY <1>2, <1>5 DEF Held
  <2>2. CASE k <= Len(list)  BY <1>1, <1>2, <2>1, <2>2 DEF Held
  <2>3. CASE ~(k <= Len(list))
    <3>1. k - Len(list) \in 1 .. Len(more)  BY <1>2, <2>3
    <3> QED  BY <1>1, <1>2, <2>1, <2>3, <3>1 DEF Held
  <2> QED  BY <2>2, <2>3
<1> QED  BY <1>1, <1>3, <1>4, <1>5

\* Short lists, spelled out.
LEMMA ShortLists ==
    ASSUME NEW S, NEW a \in S, NEW b \in S
    PROVE  /\ <<a>> \in Seq(S) /\ <<a, b>> \in Seq(S)
           /\ \A x : Held(<<a>>, x) <=> x = a
           /\ \A x : Held(<<a, b>>, x) <=> x = a \/ x = b
BY DEF Held

\* A verdict is one of the ten, with one of three statuses.
LEMMA ResultType ==
    ASSUME NEW name \in Names, NEW passed PROVE Result(name, passed) \in Verdicts
BY DEF Result, Verdicts, Statuses

\* A run starts with nothing scanned.
LEMMA InitScan ==
    ASSUME Init PROVE ScanInv
<1>1. checks \in Seq(Verdicts) /\ ~Passed("ports")
  BY EmptySeq DEF Init, Passed
<1> QED  BY <1>1 DEF Init, ScanInv, SteadyListenerIsSeen, Early

\* A step that adds verdicts of other checks and leaves the scan alone.
LEMMA OtherVerdicts ==
    ASSUME ScanInv, UNCHANGED <<host, options, steady, found>>, checks' \in Seq(Verdicts),
           Passed("ports")' <=> Passed("ports"),
           \/ pc \in (Early \union Probing) \ {"tables"}
                /\ pc' \in (Early \union Probing \union {"returned"}) \ {"start", "refused", "tables"}
                /\ (pc' = "returned" => options.offline)
           \/ pc \in Late /\ pc' \in Late
    PROVE  ScanInv'
BY DEF ScanInv, SteadyListenerIsSeen, Reserved, Early, Probing, Late

\* The steps before the scan, and the evidence checks after it.
LEMMA OutsideTheScan ==
    ASSUME ScanInv,
           \/ InspectConfig \/ ScanConfig \/ AvailableBytes \/ InspectPasswd \/ ReadPasswd
           \/ InspectDirectory \/ CheckDNS \/ CheckCertificate
    PROVE  ScanInv'
<1> DEFINE Kept == checks' \in Seq(Verdicts) /\ (Passed("ports")' <=> Passed("ports"))
<1>1. checks \in Seq(Verdicts) /\ options \in Options  BY DEF ScanInv
<1>2. ASSUME NEW name \in Names \ {"ports"}, NEW passed,
             checks' = Append(checks, Result(name, passed))
      PROVE  Kept
  <2>1. Result(name, passed) \in Verdicts  BY ResultType
  <2>2. Result(name, passed) # <<"ports", "pass">>  BY DEF Result
  <2>3. /\ checks' \in Seq(Verdicts)
        /\ Held(checks', <<"ports", "pass">>) <=> Held(checks, <<"ports", "pass">>)
    BY <1>1, <1>2, <2>1, <2>2, HeldAppend
  <2> QED  BY <2>3 DEF Passed, Held
<1>3. ASSUME NEW status \in Statuses, AfterCredentials(status) PROVE Kept
  <2> DEFINE two == << <<"credentials", status>>, Result("fail-closed", TRUE) >>
             one == << Result(IF options.offline THEN "offline-mode" ELSE "environment", TRUE) >>
  <2>1. /\ <<"credentials", status>> \in Verdicts /\ Result("fail-closed", TRUE) \in Verdicts
        /\ Result("offline-mode", TRUE) \in Verdicts /\ Result("environment", TRUE) \in Verdicts
    BY ResultType DEF Verdicts, Names
  <2>2. two \in Seq(Verdicts) /\ one \in Seq(Verdicts)
    BY <2>1, ShortLists
  <2>3. ~Held(two, <<"ports", "pass">>) /\ ~Held(one, <<"ports", "pass">>)
    BY DEF Held, Result
  <2>4. checks' = (checks \o two) \o one
    BY <1>3 DEF AfterCredentials
  <2> HIDE DEF two, one
  <2>5. /\ checks \o two \in Seq(Verdicts)
        /\ Held(checks \o two, <<"ports", "pass">>) <=> Held(checks, <<"ports", "pass">>)
    BY <1>1, <2>2, <2>3, HeldConcat
  <2>6. /\ checks' \in Seq(Verdicts)
        /\ Held(checks', <<"ports", "pass">>) <=> Held(checks \o two, <<"ports", "pass">>)
    <3> DEFINE most == checks \o two
    <3>1. most \in Seq(Verdicts)  BY <2>5
    <3> HIDE DEF most
    <3>2. /\ most \o one \in Seq(Verdicts)
          /\ Held(most \o one, <<"ports", "pass">>) <=> Held(most, <<"ports", "pass">>)
      BY <2>2, <2>3, <3>1, HeldConcat
    <3> QED  BY <2>4, <3>2 DEF most
  <2> QED  BY <2>5, <2>6 DEF Passed, Held
<1>4. checks' = checks => Kept
  BY <1>1 DEF Passed
<1>5. /\ UNCHANGED <<host, options, steady, found>>
      /\ \/ pc \in (Early \union Probing) \ {"tables"}
              /\ pc' \in (Early \union Probing \union {"returned"}) \ {"start", "refused", "tables"}
              /\ (pc' = "returned" => options.offline)
         \/ pc \in Late /\ pc' \in Late
  <2>1. CASE InspectConfig \/ ScanConfig
    BY <2>1, <1>1, OptionsAssumption
    DEF InspectConfig, ScanConfig, AfterCredentials, Early, Probing, Late, world
  <2>2. CASE AvailableBytes \/ InspectPasswd
    BY <2>2 DEF AvailableBytes, Statfs, InspectPasswd, Early, Probing, Late, world
  <2>3. CASE ReadPasswd \/ InspectDirectory
    BY <2>3 DEF ReadPasswd, InspectDirectory, Early, Probing, Late, world
  <2>4. CASE CheckDNS \/ CheckCertificate
    <3>1. UNCHANGED <<host, options, steady, found>>
      BY <2>4 DEF CheckDNS, CheckCertificate, world
    <3>2. pc \in {"dns", "certificate"} /\ pc' \in {"dns", "certificate", "returned"}
      BY <2>4 DEF CheckDNS, CheckCertificate, Ask, Fail
    <3> QED  BY <3>1, <3>2 DEF Late
  <2> QED  BY <2>1, <2>2, <2>3, <2>4
<1>6. Kept
  <2>1. CASE InspectConfig
    BY <2>1, <1>1, <1>3, <1>4, OptionsAssumption DEF InspectConfig, Statuses
  <2>2. CASE ScanConfig
    BY <2>2, <1>3 DEF ScanConfig, Statuses
  <2>3. CASE AvailableBytes
    BY <2>3, <1>2, <1>4 DEF AvailableBytes, Statfs, Names
  <2>4. CASE InspectPasswd
    BY <2>4, <1>2, <1>4 DEF InspectPasswd, Names
  <2>5. CASE ReadPasswd
    BY <2>5, <1>2, <1>4 DEF ReadPasswd, Names
  <2>6. CASE InspectDirectory
    BY <2>6, <1>2, <1>4 DEF InspectDirectory, Names
  <2>7. CASE CheckDNS
    <3>1. \/ checks' = checks \/ checks' = Append(checks, Result("dns-evidence", TRUE))
          \/ checks' = Append(checks, Result("dns-evidence", FALSE))
      BY <2>7 DEF CheckDNS, Ask, Fail
    <3> QED  BY <3>1, <1>2, <1>4 DEF Names
  <2>8. CASE CheckCertificate
    <3>1. \/ checks' = checks \/ checks' = Append(checks, Result("certificate-evidence", TRUE))
          \/ checks' = Append(checks, Result("certificate-evidence", FALSE))
      BY <2>8 DEF CheckCertificate, Ask, Fail
    <3> QED  BY <3>1, <1>2, <1>4 DEF Names
  <2> QED  BY <2>1, <2>2, <2>3, <2>4, <2>5, <2>6, <2>7, <2>8
<1> QED  BY <1>5, <1>6, OtherVerdicts

\* The first verdict, and for an offline run that of the reservations.
LEMMA StartOfTheRun ==
    ASSUME ScanInv, Start PROVE ScanInv'
<1>1. checks = <<>> /\ UNCHANGED <<host, options, steady>>  BY DEF Start, ScanInv, world
<1>2. CASE options.role \notin RoleNames
  BY <1>1, <1>2 DEF Start, ScanInv, SteadyListenerIsSeen, Passed, Early, Probing, Late
<1>3. CASE options.role \in RoleNames
  <2> DEFINE e == Result("arch", options.arch \in {"amd64", "arm64"})
             f == Result("ports", TRUE)
             arch == <<e>>
             rest == IF options.offline THEN <<f>> ELSE <<>>
  <2>a. e \in Verdicts /\ e # <<"ports", "pass">>
    BY ResultType DEF Names, Result
  <2>b. f \in Verdicts
    BY ResultType DEF Names
  <2> HIDE DEF e, f
  <2>1. arch \in Seq(Verdicts) /\ ~Held(arch, <<"ports", "pass">>)
    BY <2>a, ShortLists
  <2>2. rest \in Seq(Verdicts) /\ (~options.offline => ~Held(rest, <<"ports", "pass">>))
    <3>1. CASE options.offline  BY <3>1, <2>b, ShortLists
    <3>2. CASE ~options.offline
      <4>1. rest = <<>>  BY <3>2
      <4>2. <<>> \in Seq(Verdicts)  BY EmptySeq
      <4>3. \A k : k \notin DOMAIN <<>>  BY EmptySeq
      <4> QED  BY <4>1, <4>2, <4>3 DEF Held
    <3> QED  BY <3>1, <3>2
  <2>3. checks' = arch \o rest /\ pc' = "config"
    BY <1>3 DEF Start, e, f
  <2> HIDE DEF arch, rest
  <2>4. /\ checks' \in Seq(Verdicts)
        /\ ~options.offline => ~Held(checks', <<"ports", "pass">>)
    BY <2>1, <2>2, <2>3, HeldConcat
  <2>5. ~options'.offline => ~Passed("ports")'
    BY <1>1, <2>4 DEF Passed, Held
  <2> QED
    BY <1>1, <2>3, <2>4, <2>5 DEF ScanInv, SteadyListenerIsSeen, Early, Probing, Late
<1> QED  BY <1>2, <1>3

\* The order of the tables, place by place.
LEMMA TableOrderFacts ==
    /\ Len(TableOrder) = 4
    /\ \A table \in Tables : \E j \in 1 .. 4 : TableOrder[j] = table
BY DEF TableOrder, Tables

\* The scan begins: nothing is read, and every open socket is steady.
LEMMA ScanBegins ==
    ASSUME ScanInv, Listeners PROVE ScanInv'
<1>1. /\ UNCHANGED <<host, options, checks>> /\ pc = "listeners" /\ pc' = "tables" /\ i' = 1
      /\ steady' = host.sockets
  BY DEF Listeners, world
<1>2. ~options.offline => ~Passed("ports")
  BY <1>1 DEF ScanInv, Probing
<1>3. \A s : ~Scanned(s)'
  BY <1>1 DEF Scanned
<1> QED
  BY <1>1, <1>2, <1>3 DEF ScanInv, SteadyListenerIsSeen, Passed, Early, Probing, Late

\* A table is read: its steady listeners are in it, for a table that does not
\* exist has none.
LEMMA ScanGoesOn ==
    ASSUME ScanInv, ReadTable PROVE ScanInv'
<1> DEFINE table == TableOrder[i]
           parsed == parseProcNet(Rows(table))
<1>1. /\ UNCHANGED <<host, options, checks, steady, pc>> /\ pc = "tables" /\ i \in 1 .. 5
  BY DEF ReadTable, ScanInv, world
<1>2. i \in 1 .. 4
  BY <1>1, TableOrderFacts DEF ReadTable
<1>3. ~options.offline => ~Passed("ports")
  BY <1>1 DEF ScanInv, Probing
<1>4. i' \in 1 .. 5
  BY <1>2, TableOrderFacts DEF ReadTable
<1>5. ASSUME found'.ok, NEW s \in steady', Scanned(s)', Listens(s)
      PROVE  s \in found'.listeners
  <2>1. s \in host.sockets /\ host.tables[s.table] # "absent"
    BY <1>1, <1>5, HostsAssumption DEF ScanInv
  <2>2. CASE host.tables[table] = "present" /\ parsed.ok
    <3>1. /\ found' = [found EXCEPT !.listeners = @ \union parsed.listeners]
          /\ i' = i + 1
      BY <2>2 DEF ReadTable, Skippable
    <3>2. CASE s.table = table
      <4>1. s \in parsed.listeners  BY <2>1, <3>2, <1>5 DEF parseProcNet, Rows
      <4> QED  BY <3>1, <4>1
    <3>3. CASE s.table # table
      BY <3>1, <3>3, <1>1, <1>2, <1>5 DEF Scanned, ScanInv
    <3> QED  BY <3>2, <3>3
  <2>3. CASE ~(host.tables[table] = "present" /\ parsed.ok) /\ Skippable(table)
    <3>1. found' = found /\ i' = i + 1
      BY <2>3 DEF ReadTable
    <3>2. s.table # table  BY <2>1, <2>3 DEF Skippable
    <3> QED  BY <3>1, <3>2, <1>1, <1>2, <1>5 DEF Scanned, ScanInv
  <2>4. CASE ~(host.tables[table] = "present" /\ parsed.ok) /\ ~Skippable(table)
    BY <2>4, <1>5 DEF ReadTable, Broken
  <2> QED  BY <2>2, <2>3, <2>4
<1> QED
  BY <1>1, <1>3, <1>4, <1>5 DEF ScanInv, SteadyListenerIsSeen, Passed, Early, Probing, Late

\* The verdict: what is reserved and listens is a conflict, and every steady
\* listener has been read by now.
LEMMA ScanEnds ==
    ASSUME ScanInv, CheckPorts PROVE ScanInv'
<1> DEFINE verdict == Result("ports", found.ok /\ ~Conflicts(options.role, found.listeners))
<1>1. /\ UNCHANGED <<host, options, steady>> /\ pc = "tables" /\ pc' = "dns" /\ i > 4 /\ i \in 1 .. 5
      /\ checks' = Append(checks, verdict) /\ checks \in Seq(Verdicts)
  BY TableOrderFacts DEF CheckPorts, ScanInv, world
<1>2. verdict \in Verdicts
  BY ResultType DEF Names
<1> HIDE DEF verdict
<1>3. /\ checks' \in Seq(Verdicts)
      /\ Held(checks', <<"ports", "pass">>) =>
            Held(checks, <<"ports", "pass">>) \/ verdict = <<"ports", "pass">>
  BY <1>1, <1>2, HeldAppend
<1>4. verdict = <<"ports", "pass">> => found.ok /\ ~Conflicts(options.role, found.listeners)
  BY DEF verdict, Result
<1>5. ASSUME Passed("ports")', ~options.offline, NEW s \in steady, Reserved(s) PROVE FALSE
  <2>1. ~Passed("ports")  BY <1>1, <1>5 DEF ScanInv, Probing
  <2>2. found.ok /\ ~Conflicts(options.role, found.listeners)
    BY <1>3, <1>4, <1>5, <2>1 DEF Passed, Held
  <2>3. s.table \in Tables  BY <1>5, HostsAssumption DEF ScanInv
  <2>4. Scanned(s)  BY <1>1, <2>3, TableOrderFacts DEF Scanned
  <2>5. Listens(s)  BY <1>5 DEF Listens, Reserved, Protocol
  <2>6. s \in found.listeners  BY <1>1, <1>5, <2>2, <2>4, <2>5 DEF ScanInv
  <2> QED  BY <1>5, <2>2, <2>6 DEF Conflicts, Reserved
<1>6. SteadyListenerIsSeen'
  BY <1>1, <1>5 DEF SteadyListenerIsSeen, Reserved
<1> QED  BY <1>1, <1>3, <1>6 DEF ScanInv, Early, Probing, Late

\* The host changes: sockets that are still open stay steady.
LEMMA HostChanges ==
    ASSUME ScanInv, Change PROVE ScanInv'
<1>1. /\ UNCHANGED <<options, pc, checks, i, found>> /\ host' \in Hosts
      /\ steady' \subseteq steady /\ steady' \subseteq host'.sockets
  BY DEF Change
<1> QED
  BY <1>1 DEF ScanInv, SteadyListenerIsSeen, Passed, Scanned, Reserved, Early, Probing, Late

\* Every step keeps the scan's invariant.
LEMMA NextScan ==
    ASSUME ScanInv, [Next]_vars PROVE ScanInv'
<1>1. CASE Tick \/ UNCHANGED vars
  BY <1>1 DEF Tick, vars, ScanInv, SteadyListenerIsSeen, Passed, Scanned, Reserved, world
<1> QED
  BY <1>1, OutsideTheScan, StartOfTheRun, ScanBegins, ScanGoesOn, ScanEnds, HostChanges
  DEF Next, Run

(***************************************************************************)
(* An online preflight that passes the port check has not missed a socket  *)
(* that held a reserved port during its whole scan, however many others    *)
(* opened and closed between the reads of the four tables.                 *)
(***************************************************************************)
THEOREM NoSteadyListenerIsMissed == Spec => []SteadyListenerIsSeen
<1>1. Init => ScanInv  BY InitScan
<1>2. ScanInv /\ [Next]_vars => ScanInv'  BY NextScan
<1>3. ScanInv => SteadyListenerIsSeen  BY DEF ScanInv
<1> QED  BY <1>1, <1>2, <1>3, PTL DEF Spec

-----------------------------------------------------------------------------
(***************************************************************************)
(* What the report says.  A check is in the list exactly when the run has  *)
(* come past it, and once; the disk verdict is about the last volume       *)
(* looked at; and evidence that passed was asked for and accepted for the  *)
(* targets before this one, or for all of them.                            *)
(***************************************************************************)
NamesOf(list) == {list[k][1] : k \in DOMAIN list}
Report(list) ==
    /\ list \in Seq(Verdicts)
    /\ IsFiniteSet(NamesOf(list)) /\ Cardinality(NamesOf(list)) = Len(list)
    /\ \A n : Held(list, <<n, "skip">>) => n = "credentials"

Judged == Late \union {"listeners", "tables"}
Due(n) ==
    \/ n = "arch" /\ pc \notin {"start", "refused"}
    \/ n = "ports" /\ IF options.offline THEN pc \notin {"start", "refused"} ELSE pc \in Late
    \/ n \in {"credentials", "fail-closed"} /\ pc \notin Early
    \/ n = "offline-mode" /\ options.offline /\ pc \notin Early
    \/ n = "environment" /\ ~options.offline /\ pc \notin Early
    \/ n = "disk" /\ ~options.offline /\ pc \notin Early \union {"disk", "parent"}
    \/ n = "runtime-identity" /\ ~options.offline /\ pc \in Judged
    \/ n = "dns-evidence" /\ ~options.offline /\ pc \in {"certificate", "returned"}
    \/ n = "certificate-evidence" /\ ~options.offline /\ pc = "returned"
Recorded == Report(checks) /\ \A n : n \in NamesOf(checks) <=> Due(n)

RunInv ==
    /\ host \in Hosts /\ net \in Nets /\ options \in Options
    /\ pc \in Early \union Probing \union Late
    /\ changes \in 0 .. MaxChanges /\ i \in 1 .. 5
    /\ now \in Nat /\ clock \in Nat /\ now <= clock
    /\ IF pc \in Late THEN clock - now <= MaxElapsed ELSE clock = now
    /\ calls \subseteq {"Environment", "AvailableBytes", "Identity", "Listeners", "DNS",
                        "Certificate"}
    /\ pc \notin {"start", "refused"} => options.role \in RoleNames

DiskInv ==
    Due("disk") => /\ volume.blocks \in Nat /\ volume.size \in Nat \ {0}
                   /\ Passed("disk") <=> EnoughSpace(volume)

Asked == roleTargets(options.role)
Resolves(j)  == AcceptsDNS(Asked[j], net.dns[Asked[j]])
Certified(j) == AcceptsCertificate(Asked[j], net.certificates[Asked[j]], now)
EvidenceInv ==
    /\ pc \in {"dns", "certificate"} => i \in 1 .. Len(Asked)
    /\ pc = "dns" => /\ i > 1 => "DNS" \in calls
                     /\ \A j \in 1 .. i - 1 : Resolves(j)
    /\ Passed("dns-evidence") => "DNS" \in calls /\ \A j \in 1 .. Len(Asked) : Resolves(j)
    /\ pc = "certificate" => /\ i > 1 => "Certificate" \in calls
                             /\ \A j \in 1 .. i - 1 : Certified(j)
    /\ Passed("certificate-evidence") =>
           "Certificate" \in calls /\ \A j \in 1 .. Len(Asked) : Certified(j)

ReportInv == CallsInv /\ Recorded /\ RunInv /\ DiskInv /\ EvidenceInv

-----------------------------------------------------------------------------
\* A verdict of a new name is one more name in the report.
LEMMA ReportAppend ==
    ASSUME NEW list, Report(list), NEW e \in Verdicts, e[1] \notin NamesOf(list),
           e[2] = "skip" => e[1] = "credentials"
    PROVE  /\ Report(Append(list, e))
           /\ NamesOf(Append(list, e)) = NamesOf(list) \union {e[1]}
           /\ \A x : Held(Append(list, e), x) <=> Held(list, x) \/ x = e
<1> DEFINE more == Append(list, e)
<1>1. /\ list \in Seq(Verdicts) /\ Len(list) \in Nat
      /\ IsFiniteSet(NamesOf(list)) /\ Cardinality(NamesOf(list)) = Len(list)
  BY DEF Report
<1>2. /\ more \in Seq(Verdicts) /\ Len(more) = Len(list) + 1
      /\ \A k \in 1 .. Len(list) : more[k] = list[k]
      /\ more[Len(list) + 1] = e
  BY <1>1, AppendProperties
<1>3. \A x : Held(more, x) <=> Held(list, x) \/ x = e
  BY <1>1, HeldAppend
<1>4. NamesOf(more) = NamesOf(list) \union {e[1]}
  <2>1. \A s : DOMAIN list = 1 .. Len(list) /\ DOMAIN more = 1 .. Len(more)
    BY <1>1, <1>2, LenProperties
  <2> HIDE DEF more
  <2>2. \A n : n \in NamesOf(list) <=> \E x : Held(list, x) /\ x[1] = n
    BY DEF NamesOf, Held
  <2>3. \A n : n \in NamesOf(more) <=> \E x : Held(more, x) /\ x[1] = n
    BY DEF NamesOf, Held
  <2> QED  BY <1>3, <2>2, <2>3
<1>5. /\ IsFiniteSet(NamesOf(list) \union {e[1]})
      /\ Cardinality(NamesOf(list) \union {e[1]}) = Len(list) + 1
  BY <1>1, FS_AddElement
<1>6. ASSUME NEW n, Held(more, <<n, "skip">>) PROVE n = "credentials"
  <2>1. Held(list, <<n, "skip">>) \/ <<n, "skip">> = e  BY <1>3, <1>6
  <2> QED  BY <2>1 DEF Report
<1> HIDE DEF more
<1> QED  BY <1>2, <1>3, <1>4, <1>5, <1>6 DEF Report, more

\* What has its name in a report has one of three verdicts.
LEMMA NamedIsHeld ==
    ASSUME NEW list, Report(list), NEW n
    PROVE  n \in NamesOf(list) <=> \E s \in Statuses : Held(list, <<n, s>>)
<1>1. list \in Seq(Verdicts)  BY DEF Report
<1>2. \A k \in DOMAIN list : list[k] \in Names \X Statuses
  BY <1>1 DEF Verdicts
<1>3. ASSUME NEW k \in DOMAIN list, list[k][1] = n
      PROVE  \E s \in Statuses : Held(list, <<n, s>>)
  <2>1. list[k] = <<n, list[k][2]>> /\ list[k][2] \in Statuses  BY <1>2, <1>3
  <2> QED  BY <2>1 DEF Held
<1>4. ASSUME NEW s \in Statuses, Held(list, <<n, s>>) PROVE n \in NamesOf(list)
  BY <1>4 DEF Held, NamesOf
<1> QED  BY <1>3, <1>4 DEF NamesOf

\* A run past one more check records its verdict, and the others stay.
LEMMA AddVerdict ==
    ASSUME Recorded, NEW name \in Names, NEW passed \in BOOLEAN,
           checks' = Append(checks, Result(name, passed)), ~Due(name),
           \A n : Due(n)' <=> Due(n) \/ n = name
    PROVE  /\ Recorded' /\ (Passed(name)' <=> passed)
           /\ \A n : n # name => (Passed(n)' <=> Passed(n))
<1> DEFINE e == Result(name, passed)
<1>1. e \in Verdicts /\ e[1] = name /\ e[2] # "skip"
      /\ (e = <<name, "pass">> <=> passed)
      /\ \A n : n # name => e # <<n, "pass">>
  BY ResultType DEF Result
<1>2. e[1] \notin NamesOf(checks) /\ Report(checks)  BY <1>1 DEF Recorded
<1> HIDE DEF e
<1>3. /\ Report(Append(checks, e))
      /\ NamesOf(Append(checks, e)) = NamesOf(checks) \union {name}
      /\ \A x : Held(Append(checks, e), x) <=> Held(checks, x) \/ x = e
  BY <1>1, <1>2, ReportAppend
<1>4. checks' = Append(checks, e)  BY DEF e
<1>5. \A n : n \in NamesOf(checks)' <=> Due(n)'
  BY <1>3, <1>4 DEF Recorded, NamesOf
<1>6. Recorded'  BY <1>3, <1>4, <1>5 DEF Recorded, Report, Held, NamesOf
<1>7. \A n : Passed(n)' <=> Held(checks, <<n, "pass">>) \/ <<n, "pass">> = e
  BY <1>3, <1>4 DEF Passed, Held
<1>8. \A n : Passed(n) <=> Held(checks, <<n, "pass">>)
  BY DEF Passed, Held
<1>9. ~Held(checks, <<name, "pass">>)
  BY NamedIsHeld DEF Recorded, Statuses
<1> QED  BY <1>1, <1>6, <1>7, <1>8, <1>9

\* A step that adds no verdict leaves all of them.
LEMMA SameVerdicts ==
    ASSUME Recorded, checks' = checks, \A n : Due(n)' <=> Due(n)
    PROVE  Recorded' /\ \A n : Passed(n)' <=> Passed(n)
BY DEF Recorded, Report, Passed, Held, NamesOf

\* The three verdicts that come at once after the credentials.
LEMMA AddCredentials ==
    ASSUME Recorded, NEW status \in Statuses, AfterCredentials(status),
           pc \in {"config", "scan"}, options' = options, options.offline \in BOOLEAN
    PROVE  /\ Recorded'
           /\ \A n : n \in {"disk", "dns-evidence", "certificate-evidence"} =>
                  (Passed(n)' <=> Passed(n))
<1> DEFINE a == <<"credentials", status>>
           b == Result("fail-closed", TRUE)
           mode == IF options.offline THEN "offline-mode" ELSE "environment"
           c == Result(mode, TRUE)
           one == Append(checks, a)
           two == Append(one, b)
           all == Append(two, c)
<1>1. /\ a \in Verdicts /\ a[1] = "credentials"
      /\ b \in Verdicts /\ b[1] = "fail-closed" /\ b[2] # "skip"
      /\ mode \in Names
      /\ c \in Verdicts /\ c[1] = mode /\ c[2] # "skip"
  BY ResultType DEF Verdicts, Names, Result
<1>2. Report(checks) /\ \A n : n \in NamesOf(checks) <=> Due(n)
  BY DEF Recorded
<1>3. checks' = (checks \o <<a, b>>) \o <<c>>
  BY DEF AfterCredentials
<1>4. mode \in {"offline-mode", "environment"}  OBVIOUS
<1> HIDE DEF a, b, c, mode
<1>5. checks' = all
  <2>1. checks \in Seq(Verdicts)  BY <1>2 DEF Report
  <2> QED  BY <1>1, <1>3, <2>1
<1>6. /\ Report(one) /\ NamesOf(one) = NamesOf(checks) \union {"credentials"}
      /\ \A x : Held(one, x) <=> Held(checks, x) \/ x = a
  <2>1. "credentials" \notin NamesOf(checks)  BY <1>2 DEF Due, Early
  <2> QED  BY <1>1, <1>2, <2>1, ReportAppend
<1> HIDE DEF one
<1>7. /\ Report(two) /\ NamesOf(two) = NamesOf(one) \union {"fail-closed"}
      /\ \A x : Held(two, x) <=> Held(one, x) \/ x = b
  <2>1. "fail-closed" \notin NamesOf(one)  BY <1>2, <1>6 DEF Due, Early
  <2> QED  BY <1>1, <1>6, <2>1, ReportAppend
<1> HIDE DEF two
<1>8. /\ Report(all) /\ NamesOf(all) = NamesOf(two) \union {mode}
      /\ \A x : Held(all, x) <=> Held(two, x) \/ x = c
  <2>1. mode \notin NamesOf(two)  BY <1>2, <1>4, <1>6, <1>7 DEF Due, Early
  <2> QED  BY <1>1, <1>7, <2>1, ReportAppend
<1> HIDE DEF all
<1>9. pc' = (IF options.offline THEN "returned" ELSE "disk")
  BY DEF AfterCredentials
<1>10. \A n : Due(n)' <=> Due(n) \/ n \in {"credentials", "fail-closed", mode}
  BY <1>9 DEF Due, Early, Late, Judged, mode
<1>11. NamesOf(all) = NamesOf(checks) \union {"credentials", "fail-closed", mode}
  BY <1>6, <1>7, <1>8
<1>12. Recorded'
  <2>1. \A n : n \in NamesOf(all) <=> Due(n)'  BY <1>2, <1>10, <1>11
  <2> QED  BY <1>5, <1>8, <2>1 DEF Recorded, Report, Held, NamesOf
<1>13. ASSUME NEW n \in {"disk", "dns-evidence", "certificate-evidence"}
       PROVE  Passed(n)' <=> Passed(n)
  <2>1. <<n, "pass">> # a /\ <<n, "pass">> # b /\ <<n, "pass">> # c
    BY <1>1, <1>4
  <2>2. Held(all, <<n, "pass">>) <=> Held(checks, <<n, "pass">>)
    BY <1>6, <1>7, <1>8, <2>1
  <2> QED  BY <1>5, <2>2 DEF Passed, Held
<1> QED  BY <1>12, <1>13

\* The first verdicts.
LEMMA StartRecorded ==
    ASSUME Recorded, pc = "start", options.offline \in BOOLEAN, options' = options,
           pc' = "config",
           checks' = <<Result("arch", options.arch \in {"amd64", "arm64"})>>
                     \o IF options.offline THEN <<Result("ports", TRUE)>> ELSE <<>>
    PROVE  /\ Recorded'
           /\ \A n : n \notin {"arch", "ports"} => (Passed(n)' <=> Passed(n))
<1> DEFINE a == Result("arch", options.arch \in {"amd64", "arm64"})
           b == Result("ports", TRUE)
           none == <<>>
           one == Append(none, a)
           two == Append(one, b)
<1>1. /\ a \in Verdicts /\ a[1] = "arch" /\ a[2] # "skip"
      /\ b \in Verdicts /\ b[1] = "ports" /\ b[2] # "skip"
  BY ResultType DEF Names, Result
<1>2. Report(none) /\ NamesOf(none) = {} /\ \A x : ~Held(none, x)
  <2>1. <<>> \in Seq(Verdicts) /\ \A k : k \notin DOMAIN <<>>  BY EmptySeq
  <2>2. NamesOf(<<>>) = {} /\ \A x : ~Held(<<>>, x)  BY <2>1 DEF NamesOf, Held
  <2> QED  BY <2>1, <2>2, FS_EmptySet DEF Report
<1>3. \A n : ~Passed(n)
  <2>1. \A n : n \notin NamesOf(checks)
    BY DEF Recorded, Due, Early, Late, Judged
  <2> QED  BY <2>1, NamedIsHeld DEF Recorded, Passed, Held, Statuses
<1>4. /\ options.offline => checks' = <<a>> \o <<b>>
      /\ ~options.offline => checks' = <<a>> \o <<>>
  OBVIOUS
<1> HIDE DEF a, b
<1>5. /\ options.offline => checks' = two
      /\ ~options.offline => checks' = one
  <2>1. <<a>> \o <<b>> = two  OBVIOUS
  <2>2. <<a>> \o <<>> = one  OBVIOUS
  <2> QED  BY <1>4, <2>1, <2>2
<1> HIDE DEF none
<1>6. /\ Report(one) /\ NamesOf(one) = {"arch"} /\ \A x : Held(one, x) <=> x = a
  <2>1. /\ Report(Append(none, a)) /\ NamesOf(Append(none, a)) = NamesOf(none) \union {a[1]}
        /\ \A x : Held(Append(none, a), x) <=> Held(none, x) \/ x = a
    BY <1>1, <1>2, ReportAppend
  <2> QED  BY <1>1, <1>2, <2>1
<1> HIDE DEF one
<1>7. /\ Report(two) /\ NamesOf(two) = {"arch", "ports"}
      /\ \A x : Held(two, x) <=> x = a \/ x = b
  <2>1. b[1] \notin NamesOf(one)  BY <1>1, <1>6
  <2>2. /\ Report(Append(one, b)) /\ NamesOf(Append(one, b)) = NamesOf(one) \union {b[1]}
        /\ \A x : Held(Append(one, b), x) <=> Held(one, x) \/ x = b
    BY <1>1, <1>6, <2>1, ReportAppend
  <2> QED  BY <1>1, <1>6, <2>2
<1> HIDE DEF two
<1>8. \A n : Due(n)' <=> n = "arch" \/ (n = "ports" /\ options.offline)
  BY DEF Due, Early, Late, Judged
<1>9. ASSUME NEW list, Report(list), checks' = list,
             \A n : n \in NamesOf(list) <=> n = "arch" \/ (n = "ports" /\ options.offline),
             \A x : Held(list, x) => x = a \/ x = b
      PROVE  Recorded' /\ \A n : n \notin {"arch", "ports"} => ~Passed(n)'
  <2>1. \A n : n \in NamesOf(list) <=> Due(n)'  BY <1>8, <1>9
  <2>2. Recorded'
    <3>1. Report(checks)' <=> Report(checks')  BY DEF Report, Held, NamesOf
    <3>2. NamesOf(checks)' = NamesOf(checks')  BY DEF NamesOf
    <3>3. Report(checks') /\ NamesOf(checks') = NamesOf(list)  BY <1>9
    <3> QED  BY <2>1, <3>1, <3>2, <3>3 DEF Recorded
  <2>3. \A n : Passed(n)' <=> Held(list, <<n, "pass">>)
    BY <1>9 DEF Passed, Held
  <2>4. ASSUME NEW n, n \notin {"arch", "ports"} PROVE <<n, "pass">> # a /\ <<n, "pass">> # b
    BY <1>1, <2>4
  <2> QED  BY <1>9, <2>2, <2>3, <2>4
<1>10. CASE options.offline
  <2>1. Report(two) /\ checks' = two /\ \A x : Held(two, x) => x = a \/ x = b
    BY <1>5, <1>7, <1>10
  <2>2. \A n : n \in NamesOf(two) <=> n = "arch" \/ (n = "ports" /\ options.offline)
    BY <1>7, <1>10
  <2> QED  BY <1>3, <1>9, <2>1, <2>2
<1>11. CASE ~options.offline
  <2>1. Report(one) /\ checks' = one /\ \A x : Held(one, x) => x = a \/ x = b
    BY <1>5, <1>6, <1>11
  <2>2. \A n : n \in NamesOf(one) <=> n = "arch" \/ (n = "ports" /\ options.offline)
    BY <1>6, <1>11
  <2> QED  BY <1>3, <1>9, <2>1, <2>2
<1> QED  BY <1>10, <1>11

-----------------------------------------------------------------------------
\* Two lists of one element make a list of two.
LEMMA TwoInOrder ==
    ASSUME NEW a, NEW b PROVE <<a>> \o <<b>> = <<a, b>>
<1> DEFINE S == {a, b}
           list == <<a>> \o <<b>>
<1>1. <<a>> \in Seq(S) /\ <<b>> \in Seq(S) /\ <<a, b>> \in Seq(S)  OBVIOUS
<1> HIDE DEF S
<1>2. list \in Seq(S) /\ Len(list) = 2 /\ list[1] = a /\ list[2] = b
  BY <1>1, ConcatProperties
<1> HIDE DEF list
<1>3. Len(<<a, b>>) = 2 /\ \A j \in 1 .. 2 : list[j] = <<a, b>>[j]
  BY <1>2
<1>4. list = <<a, b>>
  BY <1>1, <1>2, <1>3, SeqEqual
<1> QED  BY <1>4 DEF list

\* A role has one or two targets, and every target of it is asked about.
LEMMA AskedTargets ==
    ASSUME options.role \in RoleNames
    PROVE  /\ Len(Asked) \in 1 .. 2
           /\ \A j \in 1 .. Len(Asked) : Asked[j] \in Targets
           /\ \A t \in Targets : targetSpecs[t].role = options.role =>
                  \E j \in 1 .. Len(Asked) : Asked[j] = t
<1>1. Targets = {"mihomo", "native", "egress"}
  BY DEF Targets, targetSpecs
<1>2. /\ targetSpecs["mihomo"].role = "gateway" /\ targetSpecs["native"].role = "gateway"
      /\ targetSpecs["egress"].role = "egress"
  BY DEF targetSpecs
<1>3. CASE options.role = "gateway"
  <2>1. Asked = (<<"mihomo">> \o <<"native">>) \o <<>>
    BY <1>2, <1>3 DEF Asked, roleTargets
  <2>2. Asked = <<"mihomo", "native">>
    <3>1. <<"mihomo">> \o <<"native">> = <<"mihomo", "native">>
      BY TwoInOrder
    <3>2. <<"mihomo", "native">> \o <<>> = <<"mihomo", "native">>  OBVIOUS
    <3> QED  BY <2>1, <3>1, <3>2
  <2>3. Len(Asked) = 2 /\ Asked[1] = "mihomo" /\ Asked[2] = "native"  BY <2>2
  <2> QED  BY <1>1, <1>2, <1>3, <2>3
<1>4. CASE options.role = "egress"
  <2>1. Asked = (<<>> \o <<>>) \o <<"egress">>
    BY <1>2, <1>4 DEF Asked, roleTargets
  <2>2. Asked = <<"egress">>  BY <2>1
  <2>3. Len(Asked) = 1 /\ Asked[1] = "egress"  BY <2>2
  <2> QED  BY <1>1, <1>2, <1>4, <2>3
<1> QED  BY <1>3, <1>4 DEF RoleNames

\* The word arithmetic of the disk check decides about the true number.
LEMMA EnoughSpaceIsTrue ==
    ASSUME NEW v, v.blocks \in Nat, v.size \in Nat \ {0}
    PROVE  EnoughSpace(v) <=> v.readable /\ v.blocks * v.size >= MinFree
<1> DEFINE b == v.blocks
           z == v.size
           q == MaxWord \div z
<1>1. b \in Nat /\ z \in Nat /\ z > 0 /\ MaxWord \in Nat /\ MinFree \in Nat
      /\ MinFree <= MaxWord
  BY WordAssumption
<1>2. q \in Nat /\ q * z <= MaxWord /\ MaxWord < (q + 1) * z
  BY <1>1
<1>3. Bytes(v) = IF b > q THEN MaxWord ELSE (b * z) % (MaxWord + 1)
  BY DEF Bytes
<1>4. EnoughSpace(v) <=> v.readable /\ Bytes(v) >= MinFree
  BY DEF EnoughSpace
<1> HIDE DEF b, z, q
<1>5. CASE b > q
  <2>1. b >= q + 1  BY <1>1, <1>2, <1>5
  <2>2. b * z >= (q + 1) * z  BY <1>1, <1>2, <2>1
  <2>3. (q + 1) * z \in Nat /\ b * z \in Nat  BY <1>1, <1>2
  <2>4. b * z >= MinFree  BY <1>1, <1>2, <2>2, <2>3
  <2> QED  BY <1>1, <1>3, <1>4, <1>5, <2>4 DEF b, z
<1>6. CASE ~(b > q)
  <2>1. b <= q  BY <1>1, <1>2, <1>6
  <2>2. b * z <= q * z  BY <1>1, <1>2, <2>1
  <2>3. q * z \in Nat /\ b * z \in Nat  BY <1>1, <1>2
  <2>4. b * z < MaxWord + 1  BY <1>1, <1>2, <2>2, <2>3
  <2>5. (b * z) % (MaxWord + 1) = b * z
    <3> DEFINE x == b * z
    <3>1. x \in Nat /\ x < MaxWord + 1  BY <2>3, <2>4
    <3> HIDE DEF x
    <3>2. x % (MaxWord + 1) = x  BY <1>1, <3>1
    <3> QED  BY <3>2 DEF x
  <2> QED  BY <1>3, <1>4, <1>6, <2>5 DEF b, z
<1> QED  BY <1>5, <1>6

\* A step that is not about the disk leaves that verdict.
LEMMA DiskStays ==
    ASSUME DiskInv, UNCHANGED volume, Passed("disk")' <=> Passed("disk"),
           Due("disk")' => Due("disk")
    PROVE  DiskInv'
BY DEF DiskInv, EnoughSpace, Bytes

\* A step that is not about the evidence leaves what passed.
LEMMA EvidenceStays ==
    ASSUME EvidenceInv, UNCHANGED <<net, options, now>>, calls \subseteq calls',
           Passed("dns-evidence")' <=> Passed("dns-evidence"),
           Passed("certificate-evidence")' <=> Passed("certificate-evidence"),
           \/ pc' \notin {"dns", "certificate"}
           \/ pc' = pc /\ i' = i
    PROVE  EvidenceInv'
<1>1. Asked' = Asked  BY DEF Asked
<1>2. \A j : (Resolves(j)' <=> Resolves(j)) /\ (Certified(j)' <=> Certified(j))
  BY <1>1 DEF Resolves, Certified
<1> QED  BY <1>1, <1>2 DEF EvidenceInv

\* A step that adds a verdict about neither, or none at all.
LEMMA OneVerdict ==
    ASSUME Recorded, DiskInv, EvidenceInv,
           NEW name \in Names \ {"disk", "dns-evidence", "certificate-evidence"},
           NEW passed \in BOOLEAN, checks' = Append(checks, Result(name, passed)), ~Due(name),
           \A n : Due(n)' <=> Due(n) \/ n = name,
           UNCHANGED <<net, options, now, volume>>, calls \subseteq calls',
           pc' \notin {"dns", "certificate"}
    PROVE  Recorded' /\ DiskInv' /\ EvidenceInv'
<1>1. /\ Recorded' /\ (Passed(name)' <=> passed)
      /\ \A n : n # name => (Passed(n)' <=> Passed(n))
  BY AddVerdict
<1> QED  BY <1>1, DiskStays, EvidenceStays

LEMMA NoVerdict ==
    ASSUME Recorded, DiskInv, EvidenceInv, checks' = checks, \A n : Due(n)' <=> Due(n),
           UNCHANGED <<net, options, now, volume>>, calls \subseteq calls',
           \/ pc' \notin {"dns", "certificate"}
           \/ pc' = pc /\ i' = i
    PROVE  Recorded' /\ DiskInv' /\ EvidenceInv'
<1>1. Recorded' /\ \A n : Passed(n)' <=> Passed(n)
  BY SameVerdicts
<1> QED  BY <1>1, DiskStays, EvidenceStays

-----------------------------------------------------------------------------
\* The verdicts before the host is looked at.
LEMMA FirstSteps ==
    ASSUME ReportInv, Start \/ InspectConfig \/ ScanConfig
    PROVE  Recorded' /\ RunInv' /\ DiskInv' /\ EvidenceInv'
<1>1. /\ UNCHANGED <<host, net, clock, changes, options, now, i, volume>>
      /\ options \in Options /\ options.offline \in BOOLEAN
      /\ Recorded /\ RunInv /\ DiskInv /\ EvidenceInv
  BY OptionsAssumption DEF Start, InspectConfig, ScanConfig, world, ReportInv, RunInv
<1>2. ASSUME pc \in Early, pc' \in Early \union {"disk", "returned"},
             calls \subseteq calls', calls' \subseteq calls \union {"Environment"},
             pc' = "returned" => options.offline,
             pc' \notin {"start", "refused"} => options.role \in RoleNames,
             Recorded',
             \A n : n \in {"disk", "dns-evidence", "certificate-evidence"} =>
                  (Passed(n)' <=> Passed(n))
      PROVE  Recorded' /\ RunInv' /\ DiskInv' /\ EvidenceInv'
  <2>1. ~Due("disk") /\ ~Due("disk")'
    BY <1>1, <1>2 DEF Due, Early
  <2>2. DiskInv'  BY <2>1 DEF DiskInv
  <2>3. EvidenceInv'
    <3>1. pc' \notin {"dns", "certificate"}  BY <1>2 DEF Early
    <3> QED  BY <1>1, <1>2, <3>1, EvidenceStays
  <2>4. clock - now <= MaxElapsed /\ (pc' \notin Late => clock = now)
    BY <1>1, <1>2, ElapsedAssumption, MarginAssumption DEF RunInv, Early, Late
  <2>5. RunInv'
    BY <1>1, <1>2, <2>4 DEF RunInv, Early, Probing, Late
  <2> QED  BY <1>2, <2>2, <2>3, <2>5
<1>3. CASE Start
  <2>1. pc = "start" /\ calls' = calls  BY <1>3 DEF Start
  <2>2. CASE options.role \notin RoleNames
    <3>1. pc' = "refused" /\ checks' = checks  BY <1>3, <2>2 DEF Start
    <3>2. \A n : Due(n)' <=> Due(n)
      BY <1>1, <2>1, <3>1 DEF Due, Early, Late, Judged
    <3>3. Recorded' /\ \A n : Passed(n)' <=> Passed(n)
      BY <1>1, <3>1, <3>2, SameVerdicts
    <3> QED  BY <1>2, <2>1, <2>2, <3>1, <3>3 DEF Early
  <2>3. CASE options.role \in RoleNames
    <3>1. /\ pc' = "config"
          /\ checks' = <<Result("arch", options.arch \in {"amd64", "arm64"})>>
                       \o IF options.offline THEN <<Result("ports", TRUE)>> ELSE <<>>
      BY <1>3, <2>3 DEF Start
    <3>2. /\ Recorded'
          /\ \A n : n \notin {"arch", "ports"} => (Passed(n)' <=> Passed(n))
      BY <1>1, <2>1, <3>1, StartRecorded
    <3> QED  BY <1>2, <2>1, <2>3, <3>1, <3>2 DEF Early
  <2> QED  BY <2>2, <2>3
<1>4. ASSUME NEW status \in Statuses, AfterCredentials(status), pc \in {"config", "scan"}
      PROVE  Recorded' /\ RunInv' /\ DiskInv' /\ EvidenceInv'
  <2>1. /\ Recorded'
        /\ \A n : n \in {"disk", "dns-evidence", "certificate-evidence"} =>
               (Passed(n)' <=> Passed(n))
    BY <1>1, <1>4, AddCredentials
  <2>2. /\ pc' = IF options.offline THEN "returned" ELSE "disk"
        /\ calls' = calls \union IF options.offline THEN {} ELSE {"Environment"}
    BY <1>4 DEF AfterCredentials
  <2>3. options.role \in RoleNames  BY <1>1, <1>4 DEF RunInv
  <2>4. pc \in Early /\ pc' \in Early \union {"disk", "returned"}  BY <1>4, <2>2 DEF Early
  <2>5. calls \subseteq calls' /\ calls' \subseteq calls \union {"Environment"}  BY <2>2
  <2> QED  BY <1>1, <1>2, <2>1, <2>2, <2>3, <2>4, <2>5
<1>5. CASE InspectConfig
  <2>1. pc = "config"  BY <1>5 DEF InspectConfig
  <2>2. CASE pc' = "scan" /\ UNCHANGED <<checks, calls>>
    <3>1. \A n : Due(n)' <=> Due(n)
      BY <1>1, <2>1, <2>2 DEF Due, Early, Late, Judged
    <3>2. Recorded' /\ \A n : Passed(n)' <=> Passed(n)
      BY <1>1, <2>2, <3>1, SameVerdicts
    <3>3. options.role \in RoleNames  BY <1>1, <2>1 DEF RunInv
    <3> QED  BY <1>2, <2>1, <2>2, <3>2, <3>3 DEF Early
  <2>3. CASE \E status \in Statuses : AfterCredentials(status)
    BY <1>4, <2>1, <2>3
  <2> QED  BY <1>1, <1>5, <2>2, <2>3, OptionsAssumption DEF InspectConfig, Statuses
<1>6. CASE ScanConfig
  <2>1. pc = "scan" /\ \E status \in Statuses : AfterCredentials(status)
    BY <1>6 DEF ScanConfig, Statuses
  <2> QED  BY <1>4, <2>1
<1> QED  BY <1>3, <1>5, <1>6

\* While the host is looked at, nothing of the evidence is reached, and the
\* run is an online one of a known role.
LEMMA OnTheHost ==
    ASSUME ReportInv, pc \in Probing
    PROVE  /\ ~options.offline /\ options.role \in RoleNames /\ options \in Options
           /\ Recorded /\ RunInv /\ DiskInv /\ EvidenceInv
           /\ host \in Hosts /\ clock = now /\ checks \in Seq(Verdicts)
BY DEF ReportInv, CallsInv, RunInv, Recorded, Report, Probing, Early, Late

\* What a step on the host keeps of the run's bounds.
LEMMA HostRun ==
    ASSUME ReportInv, pc \in Probing, pc' \in Probing,
           UNCHANGED <<host, net, clock, changes, options, now>>, i' \in 1 .. 5,
           calls' \subseteq calls \union {"Environment", "AvailableBytes", "Identity", "Listeners"}
    PROVE  RunInv'
<1>1. RunInv /\ clock = now /\ options.role \in RoleNames
  BY OnTheHost
<1> QED  BY <1>1 DEF RunInv, Early, Late, Probing

\* The steps that look at the host, one by one.
LEMMA HostSteps ==
    ASSUME ReportInv,
           \/ AvailableBytes \/ InspectPasswd \/ ReadPasswd \/ InspectDirectory
           \/ Listeners \/ ReadTable
    PROVE  Recorded' /\ RunInv' /\ DiskInv' /\ EvidenceInv'
<1>1. pc \in Probing /\ UNCHANGED <<host, net, clock, changes, options, now>>
  BY DEF AvailableBytes, InspectPasswd, ReadPasswd, InspectDirectory, Listeners, ReadTable,
         Probing, world
<1>2. /\ ~options.offline /\ host \in Hosts
      /\ Recorded /\ RunInv /\ DiskInv /\ EvidenceInv /\ i \in 1 .. 5
  BY <1>1, OnTheHost DEF RunInv
<1>3. CASE AvailableBytes
  <2>1. /\ pc \in {"disk", "parent"} /\ calls' = calls \union {"AvailableBytes"} /\ i' = i
    BY <1>3 DEF AvailableBytes
  <2>2. ASSUME NEW path \in {"runtime", "run"}, volume' = host.volumes[path],
               checks' = Append(checks, Result("disk", EnoughSpace(host.volumes[path]))),
               pc' = "passwd"
        PROVE  Recorded' /\ RunInv' /\ DiskInv' /\ EvidenceInv'
    <3> DEFINE v == host.volumes[path]
    <3>1. v.blocks \in Nat /\ v.size \in Nat \ {0}
      BY <1>2, VolumesAssumption
    <3>2. EnoughSpace(v) \in BOOLEAN  BY DEF EnoughSpace
    <3>3. \A n : Due(n)' <=> Due(n) \/ n = "disk"
      BY <1>1, <1>2, <2>1, <2>2 DEF Due, Early, Late, Judged
    <3>4. ~Due("disk") /\ "disk" \in Names
      BY <2>1 DEF Due, Names
    <3>5. volume' = v /\ checks' = Append(checks, Result("disk", EnoughSpace(v)))
      BY <2>2
    <3> HIDE DEF v
    <3>6. /\ Recorded' /\ (Passed("disk")' <=> EnoughSpace(v))
          /\ \A n : n # "disk" => (Passed(n)' <=> Passed(n))
      BY <1>2, <3>2, <3>3, <3>4, <3>5, AddVerdict
    <3>7. EnoughSpace(volume)' <=> EnoughSpace(v)
      BY <3>5 DEF EnoughSpace, Bytes
    <3>8. DiskInv'  BY <3>1, <3>5, <3>6, <3>7 DEF DiskInv
    <3>9. EvidenceInv'
      BY <1>1, <1>2, <2>1, <2>2, <3>6, EvidenceStays
    <3>10. RunInv'
      BY <1>1, <1>2, <2>1, <2>2, HostRun DEF Probing
    <3> QED  BY <3>6, <3>8, <3>9, <3>10
  <2>3. CASE pc' = "parent" /\ UNCHANGED <<volume, checks>>
    <3>1. \A n : Due(n)' <=> Due(n)
      BY <1>1, <1>2, <2>1, <2>3 DEF Due, Early, Late, Judged
    <3>2. Recorded' /\ DiskInv' /\ EvidenceInv'
      BY <1>1, <1>2, <2>1, <2>3, <3>1, NoVerdict
    <3>3. RunInv'
      BY <1>1, <1>2, <2>1, <2>3, HostRun DEF Probing
    <3> QED  BY <3>2, <3>3
  <2> QED  BY <1>3, <2>2, <2>3 DEF AvailableBytes, Statfs
<1>4. ASSUME NEW passed \in BOOLEAN, pc \in {"passwd", "accounts", "directory"},
             checks' = Append(checks, Result("runtime-identity", passed)),
             pc' = "listeners", UNCHANGED <<i, volume>>, calls \subseteq calls',
             calls' \subseteq calls \union {"Identity"}
      PROVE  Recorded' /\ RunInv' /\ DiskInv' /\ EvidenceInv'
  <2>1. \A n : Due(n)' <=> Due(n) \/ n = "runtime-identity"
    BY <1>1, <1>2, <1>4 DEF Due, Early, Late, Judged
  <2>2. ~Due("runtime-identity")
        /\ "runtime-identity" \in Names \ {"disk", "dns-evidence", "certificate-evidence"}
    BY <1>4 DEF Due, Names, Judged, Late
  <2>3. Recorded' /\ DiskInv' /\ EvidenceInv'
    BY <1>1, <1>2, <1>4, <2>1, <2>2, OneVerdict
  <2>4. RunInv'
    BY <1>1, <1>2, <1>4, HostRun DEF Probing
  <2> QED  BY <2>3, <2>4
<1>5. ASSUME pc \in Probing \ {"disk", "parent"}, pc' \in Probing \ {"disk", "parent"},
             pc \in Judged <=> pc' \in Judged,
             checks' = checks, volume' = volume, i' \in 1 .. 5, calls \subseteq calls',
             calls' \subseteq calls \union {"Identity", "Listeners"}
      PROVE  Recorded' /\ RunInv' /\ DiskInv' /\ EvidenceInv'
  <2>1. \A n : Due(n)' <=> Due(n)
    BY <1>1, <1>2, <1>5 DEF Due, Early, Late, Judged, Probing
  <2>2. Recorded' /\ DiskInv' /\ EvidenceInv'
    <3>1. pc' \notin {"dns", "certificate"}  BY <1>5 DEF Probing
    <3> QED  BY <1>1, <1>2, <1>5, <2>1, <3>1, NoVerdict
  <2>3. RunInv'
    BY <1>1, <1>2, <1>5, HostRun
  <2> QED  BY <2>2, <2>3
<1>6. CASE InspectPasswd
  <2>1. /\ pc = "passwd" /\ calls' = calls \union {"Identity"} /\ UNCHANGED <<i, volume>>
        /\ \/ pc' = "accounts" /\ checks' = checks
           \/ pc' = "listeners" /\ checks' = Append(checks, Result("runtime-identity", FALSE))
    BY <1>6 DEF InspectPasswd
  <2> QED  BY <1>2, <1>4, <1>5, <2>1 DEF Probing, Judged, Late
<1>7. CASE ReadPasswd
  <2>1. /\ pc = "accounts" /\ UNCHANGED <<i, volume, calls>>
        /\ \/ pc' = "directory" /\ checks' = checks
           \/ pc' = "listeners" /\ checks' = Append(checks, Result("runtime-identity", FALSE))
    BY <1>7 DEF ReadPasswd
  <2> QED  BY <1>2, <1>4, <1>5, <2>1 DEF Probing, Judged, Late
<1>8. CASE InspectDirectory
  <2>1. /\ pc = "directory" /\ UNCHANGED <<i, volume, calls>> /\ pc' = "listeners"
        /\ checks' = Append(checks, Result("runtime-identity", AcceptsIdentity(account, host.dir)))
    BY <1>8 DEF InspectDirectory
  <2>2. AcceptsIdentity(account, host.dir) \in BOOLEAN  BY DEF AcceptsIdentity
  <2> QED  BY <1>4, <2>1, <2>2
<1>9. CASE Listeners
  <2>1. /\ pc = "listeners" /\ pc' = "tables" /\ i' = 1 /\ UNCHANGED <<checks, volume>>
        /\ calls' = calls \union {"Listeners"}
    BY <1>9 DEF Listeners
  <2> QED  BY <1>5, <2>1 DEF Probing, Judged, Late
<1>10. CASE ReadTable
  <2>1. /\ pc = "tables" /\ pc' = pc /\ UNCHANGED <<checks, volume, calls>>
        /\ i <= Len(TableOrder) /\ i' \in {i + 1, Len(TableOrder) + 1}
    BY <1>10 DEF ReadTable
  <2>2. i' \in 1 .. 5
    BY <1>2, <2>1, TableOrderFacts
  <2> QED  BY <1>1, <1>5, <2>1, <2>2 DEF Probing, Judged, Late
<1> QED  BY <1>3, <1>6, <1>7, <1>8, <1>9, <1>10

\* The first of one or two places.
LEMMA FirstPlace ==
    ASSUME NEW k \in 1 .. 2, NEW j, j = 1
    PROVE  j \in 1 .. k /\ ~(j > 1) /\ \A l \in 1 .. j - 1 : FALSE
OBVIOUS

\* The port verdict; the clock is read, and the evidence is asked for next.
LEMMA PortsStep ==
    ASSUME ReportInv, CheckPorts
    PROVE  Recorded' /\ RunInv' /\ DiskInv' /\ EvidenceInv'
<1> DEFINE passed == found.ok /\ ~Conflicts(options.role, found.listeners)
<1>1. /\ pc = "tables" /\ pc' = "dns" /\ i' = 1 /\ now' = clock
      /\ UNCHANGED <<host, net, clock, changes, options, volume, calls>>
      /\ checks' = Append(checks, Result("ports", passed))
  BY DEF CheckPorts, world
<1>2. /\ ~options.offline /\ clock = now /\ options.role \in RoleNames
      /\ Recorded /\ RunInv /\ DiskInv /\ EvidenceInv
  BY <1>1, OnTheHost DEF Probing
<1>3. passed \in BOOLEAN  OBVIOUS
<1> HIDE DEF passed
<1>4. \A n : Due(n)' <=> Due(n) \/ n = "ports"
  BY <1>1, <1>2 DEF Due, Early, Late, Judged
<1>5. ~Due("ports") /\ "ports" \in Names
  BY <1>1, <1>2 DEF Due, Names, Late
<1>6. /\ Recorded' /\ \A n : n # "ports" => (Passed(n)' <=> Passed(n))
  BY <1>1, <1>2, <1>3, <1>4, <1>5, AddVerdict
<1>7. DiskInv'
  <2>1. Due("disk")' => Due("disk")  BY <1>4
  <2> QED  BY <1>1, <1>2, <1>6, <2>1, DiskStays
<1>8. ~Passed("dns-evidence") /\ ~Passed("certificate-evidence")
  <2>1. ~Due("dns-evidence") /\ ~Due("certificate-evidence")  BY <1>1 DEF Due
  <2> QED  BY <1>2, <2>1, NamedIsHeld DEF Recorded, Passed, Held, Statuses
<1>9. EvidenceInv'
  <2>1. Len(Asked') \in 1 .. 2
    BY <1>1, <1>2, AskedTargets DEF Asked
  <2>2. ~Passed("dns-evidence")' /\ ~Passed("certificate-evidence")'
    BY <1>6, <1>8
  <2>3. i' \in 1 .. Len(Asked') /\ ~(i' > 1) /\ \A j \in 1 .. i' - 1 : FALSE
    BY <1>1, <2>1, FirstPlace
  <2>4. pc' = "dns"  BY <1>1
  <2> QED  BY <2>2, <2>3, <2>4 DEF EvidenceInv
<1>10. RunInv'
  BY <1>1, <1>2, ElapsedAssumption, MarginAssumption DEF RunInv, Early, Late, Probing
<1> QED  BY <1>6, <1>7, <1>9, <1>10

\* An answer that is accepted is about the target that was asked for.
LEMMA AcceptedIsAsked ==
    ASSUME net \in Nets, options.role \in RoleNames, i \in 1 .. Len(Asked)
    PROVE  /\ (\E facts \in Answers(net.dns) : AcceptsDNS(Target, facts)) => Resolves(i)
           /\ (\E facts \in Answers(net.certificates) : AcceptsCertificate(Target, facts, now))
                => Certified(i)
<1>1. Target = Asked[i] /\ Target \in Targets
  BY AskedTargets DEF Target, Asked
<1>2. \A t \in Targets : net.dns[t].target = t /\ net.certificates[t].target = t
  BY NetsAssumption
<1>3. ASSUME NEW facts \in Answers(net.dns), AcceptsDNS(Target, facts) PROVE Resolves(i)
  <2>1. PICK t \in Targets : facts = net.dns[t]  BY <1>3 DEF Answers
  <2>2. facts.target = Target  BY <1>3 DEF AcceptsDNS
  <2>3. facts = net.dns[Target]  BY <1>2, <2>1, <2>2
  <2> QED  BY <1>1, <1>3, <2>3 DEF Resolves
<1>4. ASSUME NEW facts \in Answers(net.certificates), AcceptsCertificate(Target, facts, now)
      PROVE  Certified(i)
  <2>1. PICK t \in Targets : facts = net.certificates[t]  BY <1>4 DEF Answers
  <2>2. facts.target = Target  BY <1>4 DEF AcceptsCertificate
  <2>3. facts = net.certificates[Target]  BY <1>2, <2>1, <2>2
  <2> QED  BY <1>1, <1>4, <2>3 DEF Certified
<1> QED  BY <1>3, <1>4

\* What a question about the evidence does, whatever kind it is of.
LEMMA AskCases ==
    ASSUME NEW name, NEW method, NEW acceptable, NEW following,
           Ask(name, method, acceptable, following), UNCHANGED options
    PROVE  \/ /\ checks' = Append(checks, Result(name, FALSE)) /\ pc' = following /\ i' = 1
              /\ calls \subseteq calls' /\ calls' \subseteq calls \union {method}
           \/ /\ acceptable /\ i = Len(Asked) /\ calls' = calls \union {method}
              /\ checks' = Append(checks, Result(name, TRUE)) /\ pc' = following /\ i' = 1
           \/ /\ acceptable /\ i # Len(Asked) /\ calls' = calls \union {method}
              /\ checks' = checks /\ pc' = pc /\ i' = i + 1
BY DEF Ask, Fail, Asked

\* The questions about names.
LEMMA NameStep ==
    ASSUME ReportInv, CheckDNS
    PROVE  Recorded' /\ RunInv' /\ DiskInv' /\ EvidenceInv'
<1> DEFINE good == \E facts \in Answers(net.dns) : AcceptsDNS(Target, facts)
<1>1. /\ pc = "dns" /\ UNCHANGED <<host, net, clock, changes, options, now, volume>>
      /\ Ask("dns-evidence", "DNS", good, "certificate")
  BY DEF CheckDNS, world
<1> HIDE DEF good
<1>2. /\ Recorded /\ RunInv /\ DiskInv /\ EvidenceInv /\ options.role \in RoleNames
      /\ ~options.offline /\ net \in Nets /\ i \in 1 .. Len(Asked)
  BY <1>1 DEF ReportInv, RunInv, CallsInv, Early, EvidenceInv
<1>3. Len(Asked) \in 1 .. 2 /\ Asked' = Asked
  BY <1>1, <1>2, AskedTargets DEF Asked
<1>4. \A j : (Resolves(j)' <=> Resolves(j)) /\ (Certified(j)' <=> Certified(j))
  BY <1>1, <1>3 DEF Resolves, Certified
<1>5. good => Resolves(i)  BY <1>2, AcceptedIsAsked DEF good
<1>6. /\ ~Passed("dns-evidence") /\ ~Passed("certificate-evidence")
      /\ ~Due("dns-evidence") /\ ~Due("certificate-evidence")
  <2>1. ~Due("dns-evidence") /\ ~Due("certificate-evidence")  BY <1>1 DEF Due
  <2> QED  BY <1>2, <2>1, NamedIsHeld DEF Recorded, Passed, Held, Statuses
<1>7. ASSUME pc' \in {"dns", "certificate"}, i' \in 1 .. 2,
             calls' \subseteq calls \union {"DNS"}
      PROVE  RunInv'
  BY <1>1, <1>2, <1>7 DEF RunInv, Early, Probing, Late
<1>8. \A j \in 1 .. i - 1 : Resolves(j)  BY <1>1, <1>2 DEF EvidenceInv
<1>9. ASSUME NEW passed \in BOOLEAN, checks' = Append(checks, Result("dns-evidence", passed)),
             pc' = "certificate", i' = 1, calls \subseteq calls',
             calls' \subseteq calls \union {"DNS"},
             passed => good /\ i = Len(Asked) /\ "DNS" \in calls'
      PROVE  Recorded' /\ RunInv' /\ DiskInv' /\ EvidenceInv'
  <2>1. \A n : Due(n)' <=> Due(n) \/ n = "dns-evidence"
    BY <1>1, <1>2, <1>9 DEF Due, Early, Late, Judged
  <2>2. "dns-evidence" \in Names  BY DEF Names
  <2>3. /\ Recorded' /\ (Passed("dns-evidence")' <=> passed)
        /\ \A n : n # "dns-evidence" => (Passed(n)' <=> Passed(n))
    BY <1>2, <1>6, <1>9, <2>1, <2>2, AddVerdict
  <2>4. DiskInv'
    <3>1. Due("disk")' => Due("disk")  BY <2>1
    <3> QED  BY <1>1, <1>2, <2>3, <3>1, DiskStays
  <2>5. ASSUME passed, NEW j \in 1 .. Len(Asked) PROVE Resolves(j)
    <3>1. j = i \/ j \in 1 .. i - 1  BY <1>2, <1>3, <1>9, <2>5
    <3> QED  BY <1>5, <1>8, <1>9, <2>5, <3>1
  <2>6. ~Passed("certificate-evidence")'  BY <1>6, <2>3
  <2>7. i' \in 1 .. Len(Asked') /\ ~(i' > 1) /\ \A j \in 1 .. i' - 1 : FALSE
    BY <1>3, <1>9, FirstPlace
  <2>8. EvidenceInv'
    BY <1>3, <1>4, <1>9, <2>3, <2>5, <2>6, <2>7 DEF EvidenceInv
  <2> QED  BY <1>7, <1>9, <2>3, <2>4, <2>8
<1>10. CASE /\ good /\ i # Len(Asked) /\ calls' = calls \union {"DNS"}
            /\ checks' = checks /\ pc' = pc /\ i' = i + 1
  <2>1. \A n : Due(n)' <=> Due(n)
    BY <1>1, <1>10 DEF Due
  <2>2. Recorded' /\ \A n : Passed(n)' <=> Passed(n)
    BY <1>2, <1>10, <2>1, SameVerdicts
  <2>3. DiskInv'  BY <1>1, <1>2, <2>1, <2>2, DiskStays
  <2>4. i' \in 1 .. Len(Asked') /\ i' \in 1 .. 2
    <3> DEFINE k == Len(Asked)
    <3>1. i \in 1 .. k /\ k \in 1 .. 2 /\ i # k  BY <1>2, <1>3, <1>10
    <3> HIDE DEF k
    <3>2. i + 1 \in 1 .. k /\ i + 1 \in 1 .. 2  BY <3>1
    <3> QED  BY <1>3, <1>10, <3>2 DEF k
  <2>5. \A j \in 1 .. i' - 1 : Resolves(j)
    <3> TAKE j \in 1 .. i' - 1
    <3>1. j = i \/ j \in 1 .. i - 1  BY <1>2, <1>3, <1>10
    <3> QED  BY <1>5, <1>8, <1>10, <3>1
  <2>6. pc' = "dns" /\ "DNS" \in calls'  BY <1>1, <1>10
  <2>7. ~Passed("certificate-evidence")' /\ ~Passed("dns-evidence")'  BY <1>6, <2>2
  <2>8. EvidenceInv'
    BY <1>4, <2>4, <2>5, <2>6, <2>7 DEF EvidenceInv
  <2> QED  BY <1>1, <1>7, <1>10, <2>2, <2>3, <2>4, <2>8
<1>11. \/ /\ checks' = Append(checks, Result("dns-evidence", FALSE)) /\ pc' = "certificate"
          /\ i' = 1 /\ calls \subseteq calls' /\ calls' \subseteq calls \union {"DNS"}
       \/ /\ good /\ i = Len(Asked) /\ calls' = calls \union {"DNS"}
          /\ checks' = Append(checks, Result("dns-evidence", TRUE)) /\ pc' = "certificate"
          /\ i' = 1
       \/ /\ good /\ i # Len(Asked) /\ calls' = calls \union {"DNS"}
          /\ checks' = checks /\ pc' = pc /\ i' = i + 1
  BY <1>1, AskCases
<1>12. CASE /\ checks' = Append(checks, Result("dns-evidence", FALSE)) /\ pc' = "certificate"
            /\ i' = 1 /\ calls \subseteq calls' /\ calls' \subseteq calls \union {"DNS"}
  BY <1>9, <1>12
<1>13. CASE /\ good /\ i = Len(Asked) /\ calls' = calls \union {"DNS"}
            /\ checks' = Append(checks, Result("dns-evidence", TRUE)) /\ pc' = "certificate"
            /\ i' = 1
  <2>1. /\ calls \subseteq calls' /\ calls' \subseteq calls \union {"DNS"} /\ "DNS" \in calls'
    BY <1>13
  <2> QED  BY <1>9, <1>13, <2>1
<1> QED  BY <1>10, <1>11, <1>12, <1>13

\* The questions about certificates.
LEMMA CertificateStep ==
    ASSUME ReportInv, CheckCertificate
    PROVE  Recorded' /\ RunInv' /\ DiskInv' /\ EvidenceInv'
<1> DEFINE good == \E facts \in Answers(net.certificates) : AcceptsCertificate(Target, facts, now)
<1>1. /\ pc = "certificate" /\ UNCHANGED <<host, net, clock, changes, options, now, volume>>
      /\ Ask("certificate-evidence", "Certificate", good, "returned")
  BY DEF CheckCertificate, world
<1> HIDE DEF good
<1>2. /\ Recorded /\ RunInv /\ DiskInv /\ EvidenceInv /\ options.role \in RoleNames
      /\ ~options.offline /\ net \in Nets /\ i \in 1 .. Len(Asked)
  BY <1>1 DEF ReportInv, RunInv, CallsInv, Early, EvidenceInv
<1>3. Len(Asked) \in 1 .. 2 /\ Asked' = Asked
  BY <1>1, <1>2, AskedTargets DEF Asked
<1>4. \A j : (Resolves(j)' <=> Resolves(j)) /\ (Certified(j)' <=> Certified(j))
  BY <1>1, <1>3 DEF Resolves, Certified
<1>5. good => Certified(i)  BY <1>2, AcceptedIsAsked DEF good
<1>6. ~Passed("certificate-evidence") /\ ~Due("certificate-evidence")
  <2>1. ~Due("certificate-evidence")  BY <1>1 DEF Due
  <2> QED  BY <1>2, <2>1, NamedIsHeld DEF Recorded, Passed, Held, Statuses
<1>7. ASSUME pc' \in {"certificate", "returned"}, i' \in 1 .. 2,
             calls' \subseteq calls \union {"Certificate"}
      PROVE  RunInv'
  BY <1>1, <1>2, <1>7 DEF RunInv, Early, Probing, Late
<1>8. \A j \in 1 .. i - 1 : Certified(j)  BY <1>1, <1>2 DEF EvidenceInv
<1>9. ASSUME NEW passed \in BOOLEAN, checks' = Append(checks, Result("certificate-evidence", passed)),
             pc' = "returned", i' = 1, calls \subseteq calls',
             calls' \subseteq calls \union {"Certificate"},
             passed => good /\ i = Len(Asked) /\ "Certificate" \in calls'
      PROVE  Recorded' /\ RunInv' /\ DiskInv' /\ EvidenceInv'
  <2>1. \A n : Due(n)' <=> Due(n) \/ n = "certificate-evidence"
    BY <1>1, <1>2, <1>9 DEF Due, Early, Late, Judged
  <2>2. "certificate-evidence" \in Names  BY DEF Names
  <2>3. /\ Recorded' /\ (Passed("certificate-evidence")' <=> passed)
        /\ \A n : n # "certificate-evidence" => (Passed(n)' <=> Passed(n))
    BY <1>2, <1>6, <1>9, <2>1, <2>2, AddVerdict
  <2>4. DiskInv'
    <3>1. Due("disk")' => Due("disk")  BY <2>1
    <3> QED  BY <1>1, <1>2, <2>3, <3>1, DiskStays
  <2>5. ASSUME passed, NEW j \in 1 .. Len(Asked) PROVE Certified(j)
    <3>1. j = i \/ j \in 1 .. i - 1  BY <1>2, <1>3, <1>9, <2>5
    <3> QED  BY <1>5, <1>8, <1>9, <2>5, <3>1
  <2>6. Passed("dns-evidence")' <=> Passed("dns-evidence")  BY <2>3
  <2>8. EvidenceInv'
    BY <1>2, <1>3, <1>4, <1>9, <2>3, <2>5, <2>6 DEF EvidenceInv
  <2> QED  BY <1>7, <1>9, <2>3, <2>4, <2>8
<1>10. CASE /\ good /\ i # Len(Asked) /\ calls' = calls \union {"Certificate"}
            /\ checks' = checks /\ pc' = pc /\ i' = i + 1
  <2>1. \A n : Due(n)' <=> Due(n)
    BY <1>1, <1>10 DEF Due
  <2>2. Recorded' /\ \A n : Passed(n)' <=> Passed(n)
    BY <1>2, <1>10, <2>1, SameVerdicts
  <2>3. DiskInv'  BY <1>1, <1>2, <2>1, <2>2, DiskStays
  <2>4. i' \in 1 .. Len(Asked') /\ i' \in 1 .. 2
    <3> DEFINE k == Len(Asked)
    <3>1. i \in 1 .. k /\ k \in 1 .. 2 /\ i # k  BY <1>2, <1>3, <1>10
    <3> HIDE DEF k
    <3>2. i + 1 \in 1 .. k /\ i + 1 \in 1 .. 2  BY <3>1
    <3> QED  BY <1>3, <1>10, <3>2 DEF k
  <2>5. \A j \in 1 .. i' - 1 : Certified(j)
    <3> TAKE j \in 1 .. i' - 1
    <3>1. j = i \/ j \in 1 .. i - 1  BY <1>2, <1>3, <1>10
    <3> QED  BY <1>5, <1>8, <1>10, <3>1
  <2>6. pc' = "certificate" /\ "Certificate" \in calls'  BY <1>1, <1>10
  <2>7. ~Passed("certificate-evidence")' /\ (Passed("dns-evidence")' <=> Passed("dns-evidence"))
    BY <1>6, <2>2
  <2>8. EvidenceInv'
    BY <1>2, <1>3, <1>4, <1>10, <2>4, <2>5, <2>6, <2>7 DEF EvidenceInv
  <2> QED  BY <1>1, <1>7, <1>10, <2>2, <2>3, <2>4, <2>8
<1>11. \/ /\ checks' = Append(checks, Result("certificate-evidence", FALSE)) /\ pc' = "returned"
          /\ i' = 1 /\ calls \subseteq calls' /\ calls' \subseteq calls \union {"Certificate"}
       \/ /\ good /\ i = Len(Asked) /\ calls' = calls \union {"Certificate"}
          /\ checks' = Append(checks, Result("certificate-evidence", TRUE)) /\ pc' = "returned"
          /\ i' = 1
       \/ /\ good /\ i # Len(Asked) /\ calls' = calls \union {"Certificate"}
          /\ checks' = checks /\ pc' = pc /\ i' = i + 1
  BY <1>1, AskCases
<1>12. CASE /\ checks' = Append(checks, Result("certificate-evidence", FALSE)) /\ pc' = "returned"
            /\ i' = 1 /\ calls \subseteq calls' /\ calls' \subseteq calls \union {"Certificate"}
  BY <1>9, <1>12
<1>13. CASE /\ good /\ i = Len(Asked) /\ calls' = calls \union {"Certificate"}
            /\ checks' = Append(checks, Result("certificate-evidence", TRUE)) /\ pc' = "returned"
            /\ i' = 1
  <2>1. /\ calls \subseteq calls' /\ calls' \subseteq calls \union {"Certificate"} /\ "Certificate" \in calls'
    BY <1>13
  <2> QED  BY <1>9, <1>13, <2>1
<1> QED  BY <1>10, <1>11, <1>12, <1>13

-----------------------------------------------------------------------------
\* The host and the time go on: the report and what it rests on stay.
LEMMA WorldGoesOn ==
    ASSUME ReportInv, Change \/ Tick \/ UNCHANGED vars
    PROVE  Recorded' /\ RunInv' /\ DiskInv' /\ EvidenceInv'
<1>1. /\ UNCHANGED <<net, options, pc, checks, now, i, volume, calls>>
      /\ Recorded /\ RunInv /\ DiskInv /\ EvidenceInv
  BY DEF Change, Tick, vars, ReportInv
<1>2. \A n : Due(n)' <=> Due(n)  BY <1>1 DEF Due
<1>3. Recorded' /\ DiskInv' /\ EvidenceInv'
  BY <1>1, <1>2, NoVerdict
<1>4. CASE Change
  <2>1. host' \in Hosts /\ clock' = clock /\ changes < MaxChanges /\ changes' = changes + 1
    BY <1>4 DEF Change
  <2>2. changes' \in 0 .. MaxChanges
    <3>1. changes \in Nat /\ MaxChanges \in Nat  BY <1>1, ChangesAssumption DEF RunInv
    <3> QED  BY <2>1, <3>1
  <2> QED  BY <1>1, <1>3, <2>1, <2>2 DEF RunInv
<1>5. CASE Tick
  <2>1. /\ pc \in Late /\ clock' = clock + 1 /\ clock - now < MaxElapsed
        /\ UNCHANGED <<host, changes>>
    BY <1>5 DEF Tick, Late
  <2>2. /\ clock \in Nat /\ now \in Nat /\ now <= clock /\ MaxElapsed \in Nat
    BY <1>1, ElapsedAssumption DEF RunInv
  <2>3. clock' \in Nat /\ now <= clock' /\ clock' - now <= MaxElapsed
    BY <2>1, <2>2
  <2> QED  BY <1>1, <1>3, <2>1, <2>3 DEF RunInv
<1>6. CASE UNCHANGED vars
  BY <1>1, <1>3, <1>6 DEF vars, RunInv
<1> QED  BY <1>4, <1>5, <1>6

\* A run starts with an empty report.
LEMMA InitReport ==
    ASSUME Init PROVE ReportInv
<1>1. checks = <<>> /\ pc = "start" /\ \A k : k \notin DOMAIN checks
  BY EmptySeq DEF Init
<1>2. NamesOf(checks) = {} /\ \A x : ~Held(checks, x)
  BY <1>1 DEF NamesOf, Held
<1>3. \A n : ~Due(n)
  BY <1>1 DEF Due, Early, Late, Judged
<1>4. Recorded
  <2>1. checks \in Seq(Verdicts) /\ Len(checks) = 0  BY <1>1, EmptySeq
  <2> QED  BY <1>2, <1>3, <2>1, FS_EmptySet DEF Recorded, Report
<1>5. RunInv
  BY ChangesAssumption DEF Init, RunInv, Early, Late
<1>6. \A n : ~Passed(n)  BY <1>2 DEF Passed, Held
<1>7. DiskInv /\ EvidenceInv
  BY <1>1, <1>3, <1>6 DEF DiskInv, EvidenceInv
<1> QED  BY <1>4, <1>5, <1>7, InitCalls DEF ReportInv

\* Every step keeps what the report rests on.
LEMMA NextReport ==
    ASSUME ReportInv, [Next]_vars PROVE ReportInv'
<1>1. CallsInv'  BY NextCalls DEF ReportInv
<1>2. Recorded' /\ RunInv' /\ DiskInv' /\ EvidenceInv'
  BY FirstSteps, HostSteps, PortsStep, NameStep, CertificateStep, WorldGoesOn DEF Next, Run
<1> QED  BY <1>1, <1>2 DEF ReportInv

\* What passed as evidence is true: accepted facts of every target.
LEMMA EvidenceIsTrue ==
    ASSUME ReportInv PROVE CertificatePassIsTrue /\ DNSPassIsTrue
<1>1. /\ RunInv /\ EvidenceInv /\ net \in Nets  BY DEF ReportInv, RunInv
<1>2. ASSUME Passed("dns-evidence") \/ Passed("certificate-evidence")
      PROVE  options.role \in RoleNames /\ pc \in Late
  <2>1. Due("dns-evidence") \/ Due("certificate-evidence")
    BY <1>2, NamedIsHeld DEF ReportInv, Recorded, Passed, Held, Statuses
  <2>2. pc \in {"certificate", "returned"}  BY <2>1 DEF Due
  <2> QED  BY <1>1, <2>2 DEF RunInv, Late
<1>3. CertificatePassIsTrue
  <2> SUFFICES ASSUME pc = "returned", Passed("certificate-evidence"),
                      NEW t \in Targets, targetSpecs[t].role = options.role
               PROVE  LET c == net.certificates[t]
                      IN  /\ c.present /\ c.trusted
                          /\ c.notBefore <= clock /\ clock < c.notAfter
                          /\ \E k \in DOMAIN c.names : c.names[k][1].word = targetSpecs[t].label
    BY DEF CertificatePassIsTrue
  <2> DEFINE c == net.certificates[t]
  <2>1. PICK j \in 1 .. Len(Asked) : Asked[j] = t  BY <1>2, AskedTargets
  <2>2. AcceptsCertificate(t, c, now)  BY <1>1, <2>1 DEF EvidenceInv, Certified
  <2>3. c.present /\ c.trusted /\ c.notBefore <= now /\ c.notAfter - now >= Margin
    BY <2>2 DEF AcceptsCertificate, InDate
  <2>4. \E k \in DOMAIN c.names : c.names[k][1].word = targetSpecs[t].label
    BY <2>2 DEF AcceptsCertificate, sanMatchesLabel, hasExpectedLabel
  <2>5. c.notBefore \in Int /\ c.notAfter \in Int  BY <1>1, NetsAssumption
  <2>6. now \in Nat /\ clock \in Nat /\ now <= clock /\ clock - now <= MaxElapsed
    BY <1>1, <1>2 DEF RunInv
  <2>7. MaxElapsed \in Nat /\ Margin \in Nat /\ MaxElapsed < Margin
    BY ElapsedAssumption, MarginAssumption
  <2> HIDE DEF c
  <2>8. c.notBefore <= clock /\ clock < c.notAfter
    BY <2>3, <2>5, <2>6, <2>7
  <2> QED  BY <2>3, <2>4, <2>8 DEF c
<1>4. DNSPassIsTrue
  <2> SUFFICES ASSUME Passed("dns-evidence"),
                      NEW t \in Targets, targetSpecs[t].role = options.role
               PROVE  LET d == net.dns[t]
                      IN  /\ d.resolved
                          /\ d.name[1].word = targetSpecs[t].label
                          /\ \A k \in DOMAIN d.name : d.name[k].safe
                          /\ d.addresses # <<>>
                          /\ \A k \in DOMAIN d.addresses :
                                d.addresses[k] \notin {"loopback", "unspecified", "multicast",
                                                       "malformed"}
    BY DEF DNSPassIsTrue
  <2> DEFINE d == net.dns[t]
  <2>1. PICK j \in 1 .. Len(Asked) : Asked[j] = t  BY <1>2, AskedTargets
  <2>2. AcceptsDNS(t, d)  BY <1>1, <2>1 DEF EvidenceInv, Resolves
  <2> HIDE DEF d
  <2>3. /\ d.resolved /\ d.name[1].word = targetSpecs[t].label
        /\ \A k \in DOMAIN d.name : d.name[k].safe
        /\ Len(d.addresses) \in 1 .. MaxNames
        /\ \A k \in DOMAIN d.addresses : d.addresses[k] \in {"public", "private"}
    BY <2>2 DEF AcceptsDNS, isSafeProbeName, hasExpectedLabel, UsableAddresses
  <2>4. d.addresses # <<>>
    <3>1. Len(d.addresses) # 0  BY <2>3, MarginAssumption
    <3>2. Len(<<>>) = 0  BY EmptySeq
    <3> QED  BY <3>1, <3>2
  <2> QED  BY <2>3, <2>4 DEF d
<1> QED  BY <1>3, <1>4

(***************************************************************************)
(* What a report says of the outside is true, however the host changes and *)
(* whatever the probes answer: an OK online result has all its evidence,   *)
(* names and certificates that passed hold of every entry point, and every *)
(* check is made once.                                                     *)
(***************************************************************************)
THEOREM ReportsAreTrue == Spec => []ReportIsTrue
<1>1. ReportInv /\ [Next]_vars => ReportInv'  BY NextReport
<1>2. ReportInv => ReportIsTrue
  <2> SUFFICES ASSUME ReportInv PROVE ReportIsTrue
    OBVIOUS
  <2>1. /\ Report(checks) /\ (\A n : n \in NamesOf(checks) <=> Due(n))
        /\ RunInv /\ DiskInv /\ EvidenceInv /\ CallsInv
    BY DEF ReportInv, Recorded
  <2>2. TypeOK
    <3>1. \A k \in DOMAIN checks : checks[k][1] \in Names /\ checks[k][2] \in {"pass", "fail", "skip"}
      BY <2>1 DEF Report, Verdicts, Statuses
    <3>2. Cardinality({checks[k][1] : k \in DOMAIN checks}) = Len(checks)
      BY <2>1 DEF Report, NamesOf
    <3>3. now \in 0 .. clock  BY <2>1 DEF RunInv
    <3> QED  BY <2>1, <3>1, <3>2, <3>3 DEF TypeOK, RunInv, Early, Probing, Late
  <2>3. AbsentEvidenceFails
    <3> SUFFICES ASSUME pc = "returned", OK, ~options.offline
                 PROVE  /\ {checks[k][1] : k \in DOMAIN checks} = Names \ {"offline-mode"}
                        /\ {"DNS", "Certificate"} \subseteq calls
      BY DEF AbsentEvidenceFails
    <3>1. NamesOf(checks) = Names \ {"offline-mode"}
      BY <2>1 DEF Due, Early, Late, Judged, Names
    <3>2. ASSUME NEW n \in {"dns-evidence", "certificate-evidence"} PROVE Passed(n)
      <4>1. n \in NamesOf(checks)  BY <3>1 DEF Names
      <4>2. PICK s \in Statuses : Held(checks, <<n, s>>)  BY <2>1, <4>1, NamedIsHeld
      <4>3. s # "skip"  BY <2>1, <4>2 DEF Report
      <4>4. s # "fail"  BY <4>2 DEF OK, Held
      <4>5. s = "pass"  BY <4>3, <4>4 DEF Statuses
      <4> QED  BY <4>2, <4>5 DEF Passed, Held
    <3>3. {"DNS", "Certificate"} \subseteq calls
      BY <2>1, <3>2 DEF EvidenceInv
    <3> QED  BY <3>1, <3>3 DEF NamesOf
  <2>4. CertificatePassIsTrue /\ DNSPassIsTrue  BY EvidenceIsTrue
  <2> QED  BY <2>2, <2>3, <2>4 DEF ReportIsTrue
<1> QED  BY InitReport, <1>1, <1>2, PTL DEF Spec

-----------------------------------------------------------------------------
(***************************************************************************)
(* What the run has seen of the files.  Each verdict rests on moments of   *)
(* the past, in the order of the steps that looked; moments are only       *)
(* added, so what was seen stays seen.                                     *)
(***************************************************************************)
SmallFile(a)   == past[a].passwd.kind = "file" /\ ~past[a].passwd.large
OwnLine(b, uid, gid) ==
    \E k \in DOMAIN past[b].passwd.lines :
        /\ LinesOf(past[b].passwd.lines, Account) = {k}
        /\ past[b].passwd.lines[k].uid = uid /\ past[b].passwd.lines[k].gid = gid
Closed(dir)    == dir.kind = "dir" /\ dir.mode = "0700" /\ dir.uid # 0 /\ dir.gid # 0
Readable(a)    == past[a].config.kind \notin {"missing", "link", "dir"}
Harmless(b)    == /\ past[b].config.kind \notin {"missing", "dir"}
                  /\ \A line \in past[b].config.lines : ~Leaks(line)

Moments == 1 .. Len(past)
FileSeen        == \E a \in Moments : SmallFile(a)
AccountSeen     == \E b \in Moments : \E a \in 1 .. b :
                       SmallFile(a) /\ OwnLine(b, account.uid, account.gid)
IdentitySeen    == \E c \in Moments : \E b \in 1 .. c : \E a \in 1 .. b :
                       /\ SmallFile(a) /\ OwnLine(b, past[c].dir.uid, past[c].dir.gid)
                       /\ Closed(past[c].dir)
MissingSeen     == \E a \in Moments : past[a].dir.kind = "missing"
VolumeSeen      == \E b \in Moments :
                       \/ past[b].dir.kind # "missing" /\ volume = past[b].volumes["runtime"]
                       \/ /\ volume = past[b].volumes["run"]
                          /\ \E a \in 1 .. b : past[a].dir.kind = "missing"
ConfigSeen      == \E a \in Moments : Readable(a)
CredentialsSeen == \E b \in Moments : \E a \in 1 .. b : Readable(a) /\ Harmless(b)

PastInv == /\ past \in Seq({Files(h) : h \in Hosts})
           /\ Len(past) >= 1 /\ past[Len(past)] = Files(host)

SeenInv ==
    /\ pc = "scan" => ConfigSeen
    /\ pc = "parent" => MissingSeen
    /\ pc = "accounts" => FileSeen
    /\ pc = "directory" => AccountSeen
    /\ Due("disk") => VolumeSeen
    /\ Passed("runtime-identity") => IdentitySeen
    /\ Passed("credentials") => CredentialsSeen

-----------------------------------------------------------------------------
\* The last moment is the present one.
LEMMA Present ==
    ASSUME PastInv
    PROVE  /\ Len(past) \in Moments /\ Moments = DOMAIN past /\ Len(past) \in Nat
           /\ past[Len(past)].passwd = host.passwd /\ past[Len(past)].dir = host.dir
           /\ past[Len(past)].config = host.config /\ past[Len(past)].volumes = host.volumes
<1>1. past[Len(past)] = Files(host) /\ Len(past) \in Nat /\ Len(past) >= 1
      /\ DOMAIN past = 1 .. Len(past)
  BY LenProperties DEF PastInv
<1> QED  BY <1>1 DEF Files, Moments

\* What passes after a verdict has been added passed before, or is that one.
LEMMA PassedAppend ==
    ASSUME checks \in Seq(Verdicts), NEW name \in Names, NEW passed \in BOOLEAN,
           checks' = Append(checks, Result(name, passed)), NEW n
    PROVE  Passed(n)' => Passed(n) \/ (n = name /\ passed)
<1> DEFINE e == Result(name, passed)
<1>1. e \in Verdicts /\ (e = <<n, "pass">> => n = name /\ passed)
  BY ResultType DEF Result
<1> HIDE DEF e
<1>2. \A x : Held(Append(checks, e), x) <=> Held(checks, x) \/ x = e
  BY <1>1, HeldAppend
<1>3. Passed(n)' <=> Held(Append(checks, e), <<n, "pass">>)
  BY DEF Passed, Held, e
<1> QED  BY <1>1, <1>2, <1>3 DEF Passed, Held

\* The credentials verdict passes with the status it is given, and the markers
\* after it are no verdicts about files.
LEMMA PassedCredentials ==
    ASSUME checks \in Seq(Verdicts), NEW status \in Statuses, AfterCredentials(status)
    PROVE  /\ Passed("credentials")' => Passed("credentials") \/ status = "pass"
           /\ Passed("runtime-identity")' => Passed("runtime-identity")
<1> DEFINE a == <<"credentials", status>>
           b == Result("fail-closed", TRUE)
           c == Result(IF options.offline THEN "offline-mode" ELSE "environment", TRUE)
           two == checks \o <<a, b>>
<1>1. /\ a \in Verdicts /\ b \in Verdicts /\ c \in Verdicts
      /\ \A n \in {"credentials", "runtime-identity"} : <<n, "pass">> # b /\ <<n, "pass">> # c
      /\ <<"runtime-identity", "pass">> # a /\ (<<"credentials", "pass">> = a => status = "pass")
  BY ResultType DEF Verdicts, Names, Result
<1>2. checks' = two \o <<c>>
  BY DEF AfterCredentials
<1> HIDE DEF a, b, c
<1>3. /\ two \in Seq(Verdicts)
      /\ \A x : Held(two, x) <=> Held(checks, x) \/ x = a \/ x = b
  <2> DEFINE more == <<a, b>>
  <2>1. more \in Seq(Verdicts) /\ \A x : Held(more, x) <=> x = a \/ x = b
    BY <1>1, ShortLists
  <2> HIDE DEF more
  <2>2. /\ checks \o more \in Seq(Verdicts)
        /\ \A x : Held(checks \o more, x) <=> Held(checks, x) \/ Held(more, x)
    BY <2>1, HeldConcat
  <2> QED  BY <2>1, <2>2 DEF more
<1> HIDE DEF two
<1>4. \A x : Held(two \o <<c>>, x) <=> Held(two, x) \/ x = c
  <2> DEFINE more == <<c>>
  <2>1. more \in Seq(Verdicts) /\ \A x : Held(more, x) <=> x = c
    BY <1>1, ShortLists
  <2> HIDE DEF more
  <2>2. \A x : Held(two \o more, x) <=> Held(two, x) \/ Held(more, x)
    BY <1>3, <2>1, HeldConcat
  <2> QED  BY <2>1, <2>2 DEF more
<1>5. \A n : Passed(n)' <=> Held(two \o <<c>>, <<n, "pass">>)
  BY <1>2 DEF Passed, Held
<1>6. \A n : Passed(n) <=> Held(checks, <<n, "pass">>)
  BY DEF Passed, Held
<1> QED  BY <1>1, <1>3, <1>4, <1>5, <1>6

\* The database has one line of the account when it is parsed.
LEMMA ParsedIsOwn ==
    ASSUME NEW data, parsePasswdUIDGID(data, Account).ok
    PROVE  \E k \in DOMAIN data :
               /\ LinesOf(data, Account) = {k}
               /\ data[k].uid = parsePasswdUIDGID(data, Account).uid
               /\ data[k].gid = parsePasswdUIDGID(data, Account).gid
<1>1. \E k \in DOMAIN data : IsOnly(data, Account, k)
  BY DEF parsePasswdUIDGID, NoAccount
<1> DEFINE k == CHOOSE k \in DOMAIN data : IsOnly(data, Account, k)
<1>2. k \in DOMAIN data /\ IsOnly(data, Account, k)
  BY <1>1
<1>3. parsePasswdUIDGID(data, Account) = [ok |-> TRUE, uid |-> data[k].uid, gid |-> data[k].gid]
  BY <1>1 DEF parsePasswdUIDGID
<1> HIDE DEF k
<1> QED  BY <1>2, <1>3 DEF IsOnly

-----------------------------------------------------------------------------
\* A step of the run looks at the host as it is, and changes none of the past.
LEMMA RunKeepsPast ==
    ASSUME Run PROVE UNCHANGED <<host, past>>
<1>1. CASE CheckDNS \/ CheckCertificate
  BY <1>1 DEF CheckDNS, CheckCertificate, world
<1> QED
  BY <1>1 DEF Run, Start, InspectConfig, ScanConfig, AvailableBytes, InspectPasswd, ReadPasswd,
              InspectDirectory, Listeners, ReadTable, CheckPorts, world

\* What was seen stays seen, by a step that leaves past, volume and verdicts.
LEMMA SeenStays ==
    ASSUME past' = past
    PROVE  /\ ConfigSeen' <=> ConfigSeen
           /\ MissingSeen' <=> MissingSeen
           /\ FileSeen' <=> FileSeen
           /\ IdentitySeen' <=> IdentitySeen
           /\ CredentialsSeen' <=> CredentialsSeen
           /\ volume' = volume => (VolumeSeen' <=> VolumeSeen)
BY DEF ConfigSeen, MissingSeen, FileSeen, IdentitySeen, CredentialsSeen, VolumeSeen, Moments,
       SmallFile, OwnLine, Closed, Readable, Harmless

\* A run starts with the present moment only.
LEMMA InitSeen ==
    ASSUME Init PROVE PastInv /\ SeenInv
<1> DEFINE f == Files(host)
           S == {Files(h) : h \in Hosts}
<1>1. f \in S /\ past = <<f>>  BY DEF Init
<1> HIDE DEF f, S
<1>2. <<f>> \in Seq(S) /\ Len(<<f>>) = 1 /\ <<f>>[1] = f  BY <1>1
<1>3. PastInv  BY <1>1, <1>2 DEF PastInv, f, S
<1>4. pc = "start" /\ checks = <<>> /\ \A k : k \notin DOMAIN checks  BY EmptySeq DEF Init
<1> QED  BY <1>3, <1>4 DEF SeenInv, Due, Early, Passed

\* The steps that look at nothing of the files.
LEMMA ElsewhereSeen ==
    ASSUME ReportInv, SeenInv, past' = past,
           \/ Start \/ Listeners \/ ReadTable \/ CheckPorts \/ CheckDNS \/ CheckCertificate
    PROVE  SeenInv'
<1>1. /\ checks \in Seq(Verdicts) /\ options.offline \in BOOLEAN /\ Recorded
  BY OptionsAssumption DEF ReportInv, Recorded, Report, RunInv
<1>2. /\ UNCHANGED <<volume, options>>
      /\ pc' \notin {"scan", "parent", "accounts", "directory"}
      /\ Due("disk")' => Due("disk")
  <2>1. CASE Start
    BY <2>1 DEF Start, world, Due, Early
  <2>2. CASE Listeners \/ ReadTable \/ CheckPorts
    BY <2>2 DEF Listeners, ReadTable, CheckPorts, world, Due, Early
  <2>3. CASE CheckDNS \/ CheckCertificate
    <3>1. /\ UNCHANGED <<volume, options>> /\ pc \in {"dns", "certificate"}
          /\ pc' \in {"dns", "certificate", "returned"}
      BY <2>3 DEF CheckDNS, CheckCertificate, Ask, Fail, world
    <3> QED  BY <3>1 DEF Due, Early
  <2> QED  BY <2>1, <2>2, <2>3
<1>3. ASSUME NEW n \in {"runtime-identity", "credentials"} PROVE Passed(n)' => Passed(n)
  <2>1. CASE checks' = checks  BY <2>1 DEF Passed
  <2>2. ASSUME NEW name \in {"ports", "dns-evidence", "certificate-evidence"},
               NEW passed \in BOOLEAN, checks' = Append(checks, Result(name, passed))
        PROVE  Passed(n)' => Passed(n)
    <3>1. name \in Names  BY DEF Names
    <3> QED  BY <1>1, <2>2, <3>1, PassedAppend
  <2>3. CASE Start /\ checks' # checks
    <3>1. /\ pc = "start" /\ pc' = "config" /\ options' = options
          /\ checks' = <<Result("arch", options.arch \in {"amd64", "arm64"})>>
                       \o IF options.offline THEN <<Result("ports", TRUE)>> ELSE <<>>
      BY <2>3 DEF Start, world
    <3>2. \A m : m \notin {"arch", "ports"} => (Passed(m)' <=> Passed(m))
      BY <1>1, <3>1, StartRecorded
    <3> QED  BY <3>2
  <2>4. CASE Listeners \/ ReadTable
    BY <2>1, <2>4 DEF Listeners, ReadTable
  <2>5. CASE CheckPorts
    BY <2>2, <2>5 DEF CheckPorts
  <2>6. CASE CheckDNS
    <3>1. \/ checks' = checks \/ checks' = Append(checks, Result("dns-evidence", TRUE))
          \/ checks' = Append(checks, Result("dns-evidence", FALSE))
      BY <2>6 DEF CheckDNS, Ask, Fail
    <3> QED  BY <2>1, <2>2, <3>1
  <2>7. CASE CheckCertificate
    <3>1. \/ checks' = checks \/ checks' = Append(checks, Result("certificate-evidence", TRUE))
          \/ checks' = Append(checks, Result("certificate-evidence", FALSE))
      BY <2>7 DEF CheckCertificate, Ask, Fail
    <3> QED  BY <2>1, <2>2, <3>1
  <2> QED  BY <2>1, <2>3, <2>4, <2>5, <2>6, <2>7
<1> QED  BY <1>2, <1>3, SeenStays DEF SeenInv

\* The two looks at the configuration file.
LEMMA CredentialsSteps ==
    ASSUME ReportInv, PastInv, SeenInv, past' = past, InspectConfig \/ ScanConfig
    PROVE  SeenInv'
<1>0. PICK b \in Moments : b = Len(past)  BY Present
<1>1. /\ checks \in Seq(Verdicts) /\ options \in Options /\ options.offline \in BOOLEAN
      /\ UNCHANGED options /\ pc \in {"config", "scan"}
  BY OptionsAssumption
  DEF ReportInv, Recorded, Report, RunInv, InspectConfig, ScanConfig, world
<1>2. b \in Moments /\ b \in 1 .. b /\ past[b].config = host.config
  BY <1>0, Present DEF Moments
<1>3. ASSUME NEW status \in Statuses, AfterCredentials(status),
             status = "pass" => CredentialsSeen
      PROVE  SeenInv'
  <2>1. pc' \in {"returned", "disk"} /\ (pc' = "returned" => options.offline)
    BY <1>3 DEF AfterCredentials
  <2>2. ~Due("disk")'  BY <1>1, <2>1 DEF Due, Early
  <2>3. /\ Passed("credentials")' => CredentialsSeen
        /\ Passed("runtime-identity")' => IdentitySeen
    BY <1>1, <1>3, PassedCredentials DEF SeenInv
  <2> QED  BY <2>1, <2>2, <2>3, SeenStays DEF SeenInv
<1>4. CASE InspectConfig
  <2>1. CASE pc' = "scan" /\ checks' = checks /\ Readable(b)
    <3>1. ConfigSeen  BY <1>2, <2>1 DEF ConfigSeen
    <3>2. ~Due("disk")'  BY <2>1 DEF Due, Early
    <3>3. \A n : Passed(n)' <=> Passed(n)  BY <2>1 DEF Passed
    <3> QED  BY <2>1, <3>1, <3>2, <3>3, SeenStays DEF SeenInv
  <2>2. CASE AfterCredentials("skip") \/ AfterCredentials("fail")
    BY <1>3, <2>2 DEF Statuses
  <2> QED
    BY <1>1, <1>2, <1>4, <2>1, <2>2, OptionsAssumption DEF InspectConfig, Readable
<1>5. CASE ScanConfig
  <2>1. CASE AfterCredentials("fail")  BY <1>3, <2>1 DEF Statuses
  <2>2. CASE AfterCredentials("pass") /\ Harmless(b)
    <3>1. PICK a \in Moments : Readable(a)  BY <1>5 DEF ScanConfig, SeenInv, ConfigSeen
    <3>2. a \in 1 .. b  BY <1>0, <3>1 DEF Moments
    <3>3. CredentialsSeen  BY <1>2, <2>2, <3>1, <3>2 DEF CredentialsSeen
    <3> QED  BY <1>3, <2>2, <3>3 DEF Statuses
  <2> QED  BY <1>2, <1>5, <2>1, <2>2 DEF ScanConfig, Harmless
<1> QED  BY <1>4, <1>5

\* The measure of the disk, on the directory or on its parent.
LEMMA DiskSteps ==
    ASSUME ReportInv, PastInv, SeenInv, past' = past, AvailableBytes
    PROVE  SeenInv'
<1>0. PICK b \in Moments : b = Len(past)  BY Present
<1>1. checks \in Seq(Verdicts) /\ pc \in {"disk", "parent"} /\ UNCHANGED options
  BY DEF ReportInv, Recorded, Report, AvailableBytes, world
<1>2. /\ b \in Moments /\ b \in Nat /\ past[b].dir = host.dir /\ past[b].volumes = host.volumes
  BY <1>0, Present
<1>3. CASE pc' = "parent" /\ checks' = checks /\ host.dir.kind = "missing"
  <2>1. MissingSeen  BY <1>2, <1>3 DEF MissingSeen
  <2>2. ~Due("disk")'  BY <1>3 DEF Due, Early
  <2>3. \A n : Passed(n)' <=> Passed(n)  BY <1>3 DEF Passed
  <2> QED  BY <1>3, <2>1, <2>2, <2>3, SeenStays DEF SeenInv
<1>4. ASSUME NEW path \in {"runtime", "run"}, volume' = host.volumes[path], pc' = "passwd",
             checks' = Append(checks, Result("disk", EnoughSpace(host.volumes[path]))),
             path = "runtime" => host.dir.kind # "missing",
             path = "run" => MissingSeen
      PROVE  SeenInv'
  <2>1. VolumeSeen'
    <3>1. CASE path = "runtime"
      <4>1. b \in Moments' /\ past'[b].dir.kind # "missing" /\ volume' = past'[b].volumes["runtime"]
        BY <1>2, <1>4, <3>1 DEF Moments
      <4> QED  BY <4>1 DEF VolumeSeen
    <3>2. CASE path = "run"
      <4>1. PICK a \in Moments : past[a].dir.kind = "missing"  BY <1>4, <3>2 DEF MissingSeen
      <4>2. /\ b \in Moments' /\ volume' = past'[b].volumes["run"]
            /\ a \in 1 .. b /\ past'[a].dir.kind = "missing"
        BY <1>2, <1>4, <3>2, <4>1, <1>0 DEF Moments
      <4> QED  BY <4>2 DEF VolumeSeen
    <3> QED  BY <3>1, <3>2
  <2>2. \A n : Passed(n)' => Passed(n) \/ n = "disk"
    <3>1. EnoughSpace(host.volumes[path]) \in BOOLEAN /\ "disk" \in Names
      BY DEF EnoughSpace, Names
    <3> QED  BY <1>1, <1>4, <3>1, PassedAppend
  <2> QED  BY <1>4, <2>1, <2>2, SeenStays DEF SeenInv
<1>5. CASE pc = "disk" /\ host.dir.kind # "missing"
  <2>1. /\ volume' = host.volumes["runtime"] /\ pc' = "passwd"
        /\ checks' = Append(checks, Result("disk", EnoughSpace(host.volumes["runtime"])))
    BY <1>5 DEF AvailableBytes, Statfs
  <2> QED  BY <1>4, <1>5, <2>1
<1>6. CASE pc = "disk" /\ host.dir.kind = "missing"
  BY <1>3, <1>6 DEF AvailableBytes, Statfs
<1>7. CASE pc = "parent"
  <2>1. /\ volume' = host.volumes["run"] /\ pc' = "passwd"
        /\ checks' = Append(checks, Result("disk", EnoughSpace(host.volumes["run"])))
    BY <1>7 DEF AvailableBytes, Statfs
  <2> QED  BY <1>4, <1>7, <2>1 DEF SeenInv
<1> QED  BY <1>1, <1>5, <1>6, <1>7

\* The three looks of the identity probe.
LEMMA IdentitySteps ==
    ASSUME ReportInv, PastInv, SeenInv, past' = past,
           InspectPasswd \/ ReadPasswd \/ InspectDirectory
    PROVE  SeenInv'
<1>0. PICK b \in Moments : b = Len(past)  BY Present
<1>1. /\ checks \in Seq(Verdicts) /\ pc \in {"passwd", "accounts", "directory"}
      /\ UNCHANGED <<options, volume>> /\ ~options.offline
  <2>1. pc \in {"passwd", "accounts", "directory"} /\ UNCHANGED <<options, volume>>
    BY DEF InspectPasswd, ReadPasswd, InspectDirectory, world
  <2> QED  BY <2>1 DEF ReportInv, Recorded, Report, CallsInv, Early
<1>2. /\ b \in Moments /\ b \in Nat /\ past[b].dir = host.dir /\ past[b].passwd = host.passwd
  BY <1>0, Present
<1>3. VolumeSeen  BY <1>1 DEF SeenInv, Due, Early
<1>4. ASSUME NEW passed \in BOOLEAN, pc' = "listeners",
             checks' = Append(checks, Result("runtime-identity", passed)), passed => IdentitySeen
      PROVE  SeenInv'
  <2>1. "runtime-identity" \in Names  BY DEF Names
  <2>2. /\ Passed("runtime-identity")' => IdentitySeen
        /\ Passed("credentials")' => CredentialsSeen
    BY <1>1, <1>4, <2>1, PassedAppend DEF SeenInv
  <2> QED  BY <1>1, <1>3, <1>4, <2>2, SeenStays DEF SeenInv
<1>5. ASSUME checks' = checks, pc' \in {"accounts", "directory"},
             pc' = "accounts" => FileSeen, pc' = "directory" => AccountSeen'
      PROVE  SeenInv'
  <2>1. \A n : Passed(n)' <=> Passed(n)  BY <1>5 DEF Passed
  <2> QED  BY <1>1, <1>3, <1>5, <2>1, SeenStays DEF SeenInv
<1>6. CASE InspectPasswd
  <2>1. \/ /\ pc' = "listeners" /\ checks' = Append(checks, Result("runtime-identity", FALSE))
        \/ pc' = "accounts" /\ checks' = checks /\ SmallFile(b)
    BY <1>2, <1>6 DEF InspectPasswd, SmallFile
  <2>2. SmallFile(b) => FileSeen  BY <1>2 DEF FileSeen
  <2> QED  BY <1>4, <1>5, <2>1, <2>2
<1>7. CASE ReadPasswd
  <2> DEFINE data == host.passwd.lines
             parsed == parsePasswdUIDGID(data, Account)
  <2>1. \/ /\ pc' = "listeners" /\ checks' = Append(checks, Result("runtime-identity", FALSE))
        \/ pc' = "directory" /\ checks' = checks /\ parsed.ok /\ account' = parsed
    BY <1>7 DEF ReadPasswd
  <2>2. CASE pc' = "directory" /\ checks' = checks /\ parsed.ok /\ account' = parsed
    <3>1. OwnLine(b, parsed.uid, parsed.gid)
      BY <1>2, <2>2, ParsedIsOwn DEF OwnLine
    <3> HIDE DEF parsed
    <3>2. OwnLine(b, account.uid, account.gid)'
      <4>1. account'.uid = parsed.uid /\ account'.gid = parsed.gid  BY <2>2
      <4> QED  BY <3>1, <4>1 DEF OwnLine
    <3>3. PICK a \in Moments : SmallFile(a)  BY <1>7 DEF ReadPasswd, SeenInv, FileSeen
    <3>4. a \in 1 .. b /\ SmallFile(a)'  BY <1>0, <3>3 DEF Moments, SmallFile
    <3>5. AccountSeen'
      <4>1. b \in Moments'  BY <1>2 DEF Moments
      <4> QED  BY <3>2, <3>4, <4>1 DEF AccountSeen
    <3> QED  BY <1>5, <2>2, <3>5
  <2> QED  BY <1>4, <2>1, <2>2
<1>8. CASE InspectDirectory
  <2> DEFINE passed == AcceptsIdentity(account, host.dir)
  <2>1. /\ pc = "directory" /\ pc' = "listeners"
        /\ checks' = Append(checks, Result("runtime-identity", passed))
    BY <1>8 DEF InspectDirectory
  <2>2. passed \in BOOLEAN  BY DEF AcceptsIdentity
  <2>3. ASSUME passed PROVE IdentitySeen
    <3>1. /\ Closed(past[b].dir) /\ past[b].dir.uid = account.uid /\ past[b].dir.gid = account.gid
      BY <1>2, <2>3 DEF AcceptsIdentity, Closed
    <3>2. PICK d \in Moments : \E a \in 1 .. d :
              SmallFile(a) /\ OwnLine(d, account.uid, account.gid)
      BY <2>1 DEF SeenInv, AccountSeen
    <3>3. PICK a \in 1 .. d : SmallFile(a) /\ OwnLine(d, account.uid, account.gid)
      BY <3>2
    <3>4. OwnLine(d, past[b].dir.uid, past[b].dir.gid)  BY <3>1, <3>3
    <3>5. d \in 1 .. b  BY <1>0, <3>2 DEF Moments
    <3> QED  BY <1>2, <3>1, <3>3, <3>4, <3>5 DEF IdentitySeen
  <2> HIDE DEF passed
  <2> QED  BY <1>4, <2>1, <2>2, <2>3
<1> QED  BY <1>6, <1>7, <1>8

\* The host goes on: the past grows by one moment, and nothing of it changes.
LEMMA PastGrows ==
    ASSUME PastInv, SeenInv, Change PROVE PastInv' /\ SeenInv'
<1> DEFINE S == {Files(h) : h \in Hosts}
           f == Files(host')
<1>1. past' = Append(past, f) /\ f \in S /\ UNCHANGED <<pc, options, checks, account, volume>>
  BY DEF Change
<1>2. past \in Seq(S)  BY DEF PastInv
<1> HIDE DEF S, f
<1>3. /\ past' \in Seq(S) /\ Len(past') = Len(past) + 1 /\ past'[Len(past) + 1] = f
      /\ \A k \in 1 .. Len(past) : past'[k] = past[k]
  BY <1>1, <1>2, AppendProperties
<1>4. Len(past) \in Nat  BY <1>2, LenProperties
<1>5. PastInv'
  BY <1>3, <1>4 DEF PastInv, S, f
<1>6. Moments \subseteq Moments' /\ \A k \in Moments : past'[k] = past[k] /\ 1 .. k \subseteq Moments
  BY <1>3, <1>4 DEF Moments
<1>7. \A k \in Moments :
          /\ SmallFile(k) => SmallFile(k)'
          /\ Readable(k) => Readable(k)'
          /\ Harmless(k) => Harmless(k)'
  BY <1>6 DEF SmallFile, Readable, Harmless
<1>8. ASSUME NEW k \in Moments, NEW uid, NEW gid, OwnLine(k, uid, gid)
      PROVE  \E l \in DOMAIN past'[k].passwd.lines :
                /\ LinesOf(past'[k].passwd.lines, Account) = {l}
                /\ past'[k].passwd.lines[l].uid = uid /\ past'[k].passwd.lines[l].gid = gid
  BY <1>6, <1>8 DEF OwnLine
<1>9. ConfigSeen => ConfigSeen'  BY <1>6, <1>7 DEF ConfigSeen
<1>10. MissingSeen => MissingSeen'  BY <1>6 DEF MissingSeen
<1>11. FileSeen => FileSeen'  BY <1>6, <1>7 DEF FileSeen
<1>12. AccountSeen => AccountSeen'
  <2> SUFFICES ASSUME NEW b \in Moments, NEW a \in 1 .. b, SmallFile(a),
                      OwnLine(b, account.uid, account.gid)
               PROVE  AccountSeen'
    BY DEF AccountSeen
  <2>1. OwnLine(b, account.uid, account.gid)'
    <3>1. past'[b] = past[b] /\ account' = account  BY <1>1, <1>6
    <3> QED  BY <3>1 DEF OwnLine
  <2>2. b \in Moments' /\ SmallFile(a)'  BY <1>6, <1>7
  <2> QED  BY <2>1, <2>2 DEF AccountSeen
<1>13. IdentitySeen => IdentitySeen'
  <2> SUFFICES ASSUME NEW c \in Moments, NEW b \in 1 .. c, NEW a \in 1 .. b, SmallFile(a),
                      OwnLine(b, past[c].dir.uid, past[c].dir.gid), Closed(past[c].dir)
               PROVE  IdentitySeen'
    BY DEF IdentitySeen
  <2>1. b \in Moments /\ a \in Moments  BY <1>6
  <2>2. past'[c] = past[c] /\ c \in Moments'  BY <1>6
  <2>3. OwnLine(b, past[c].dir.uid, past[c].dir.gid)'  BY <1>8, <2>1, <2>2 DEF OwnLine
  <2>4. SmallFile(a)' /\ Closed(past[c].dir)'  BY <1>7, <2>1, <2>2 DEF Closed
  <2> QED  BY <2>2, <2>3, <2>4 DEF IdentitySeen
<1>14. CredentialsSeen => CredentialsSeen'
  <2> SUFFICES ASSUME NEW b \in Moments, NEW a \in 1 .. b, Readable(a), Harmless(b)
               PROVE  CredentialsSeen'
    BY DEF CredentialsSeen
  <2>1. b \in Moments' /\ Readable(a)' /\ Harmless(b)'  BY <1>6, <1>7
  <2> QED  BY <2>1 DEF CredentialsSeen
<1>15. VolumeSeen => VolumeSeen'
  <2> SUFFICES ASSUME NEW b \in Moments,
                      \/ past[b].dir.kind # "missing" /\ volume = past[b].volumes["runtime"]
                      \/ /\ volume = past[b].volumes["run"]
                         /\ \E a \in 1 .. b : past[a].dir.kind = "missing"
               PROVE  VolumeSeen'
    BY DEF VolumeSeen
  <2>1. b \in Moments' /\ past'[b] = past[b] /\ \A a \in 1 .. b : past'[a] = past[a]
    BY <1>6
  <2> QED  BY <1>1, <2>1 DEF VolumeSeen
<1>16. (Due("disk")' <=> Due("disk")) /\ \A n : Passed(n)' <=> Passed(n)
  BY <1>1 DEF Due, Passed
<1> QED
  BY <1>1, <1>5, <1>9, <1>10, <1>11, <1>12, <1>13, <1>14, <1>15, <1>16 DEF SeenInv

\* Every step keeps what was seen.
LEMMA NextSeen ==
    ASSUME ReportInv, PastInv, SeenInv, [Next]_vars PROVE PastInv' /\ SeenInv'
<1>1. CASE Run
  <2>1. UNCHANGED <<host, past>>  BY <1>1, RunKeepsPast
  <2>2. PastInv'  BY <2>1 DEF PastInv, Files
  <2> QED
    BY <1>1, <2>1, <2>2, ElsewhereSeen, CredentialsSteps, DiskSteps, IdentitySteps DEF Run
<1>2. CASE Tick \/ UNCHANGED vars
  <2>1. UNCHANGED <<host, past, pc, options, checks, account, volume>>
    BY <1>2 DEF Tick, vars
  <2>2. (Due("disk")' <=> Due("disk")) /\ \A n : Passed(n)' <=> Passed(n)
    BY <2>1 DEF Due, Passed
  <2>3. AccountSeen' <=> AccountSeen
    BY <2>1 DEF AccountSeen, Moments, SmallFile, OwnLine
  <2> QED  BY <2>1, <2>2, <2>3, SeenStays DEF PastInv, SeenInv, Files
<1> QED  BY <1>1, <1>2, PastGrows DEF Next

(***************************************************************************)
(* What a report says of the host is true of what was there, moment by     *)
(* moment, however often its files are replaced between the reads: which   *)
(* volume was measured and how much it holds, whose the runtime directory  *)
(* is, and that the configuration that was read holds no secret.           *)
(***************************************************************************)
THEOREM HostVerdictsHold == Spec => []HostVerdictsAreTrue
<1> DEFINE Inv == ReportInv /\ PastInv /\ SeenInv
<1>1. Init => Inv  BY InitReport, InitSeen
<1>2. Inv /\ [Next]_vars => Inv'  BY NextReport, NextSeen
<1>3. Inv => HostVerdictsAreTrue
  <2> SUFFICES ASSUME ReportInv, PastInv, SeenInv PROVE HostVerdictsAreTrue
    OBVIOUS
  <2>1. Moments = DOMAIN past  BY Present
  <2>2. DiskVerdictIsTrue
    <3> SUFFICES ASSUME \E k \in DOMAIN checks : checks[k][1] = "disk"
                 PROVE  /\ VolumeSeen
                        /\ Passed("disk") <=> volume.readable /\ volume.blocks * volume.size >= MinFree
      BY <2>1 DEF DiskVerdictIsTrue, VolumeSeen
    <3>1. Due("disk") /\ DiskInv  BY DEF ReportInv, Recorded, NamesOf
    <3>2. /\ volume.blocks \in Nat /\ volume.size \in Nat \ {0}
          /\ Passed("disk") <=> EnoughSpace(volume)
      BY <3>1 DEF DiskInv
    <3> QED  BY <3>1, <3>2, EnoughSpaceIsTrue DEF SeenInv
  <2>3. IdentityPassIsTrue
    <3> SUFFICES ASSUME IdentitySeen PROVE Passed("runtime-identity") => IdentityPassIsTrue
      BY DEF IdentityPassIsTrue, SeenInv
    <3> QED  BY <2>1 DEF IdentityPassIsTrue, IdentitySeen, SmallFile, OwnLine, Closed
  <2>4. CredentialsPassIsTrue
    BY <2>1 DEF CredentialsPassIsTrue, SeenInv, CredentialsSeen, Readable, Harmless
  <2> QED  BY <2>2, <2>3, <2>4 DEF HostVerdictsAreTrue
<1> QED  BY <1>1, <1>2, <1>3, PTL DEF Spec
=============================================================================
