----------------------------- MODULE Preflight ------------------------------
(***************************************************************************)
(* One run of preflight (internal/preflight): the checks in their order,   *)
(* every probe call and file read a step of its own, while the host goes   *)
(* on living.  The host probe is the one of Linux; the answers of a        *)
(* NetProbe may belong to another question than the one asked.             *)
(***************************************************************************)
EXTENDS HostChecks, EvidenceChecks, FiniteSets

CONSTANTS Hosts,      \* the states the host may be in
          Nets,       \* the DNS and certificate facts of the world
          Options,    \* the options a run may be given
          MaxChanges, \* bound: changes of the host during one run
          MaxElapsed  \* bound: time the evidence probes may take

ASSUME ElapsedAssumption == MaxElapsed \in 0 .. Margin - 1
ASSUME ChangesAssumption == MaxChanges \in Nat

\* A socket is listed in one of the four tables, and that table exists.
ASSUME HostsAssumption ==
    \A h \in Hosts : \A s \in h.sockets : s.table \in Tables /\ h.tables[s.table] # "absent"

\* A volume counts its free blocks, and a block is not empty.
ASSUME VolumesAssumption ==
    \A h \in Hosts : \A p \in {"runtime", "run"} :
        /\ h.volumes[p].blocks \in Nat
        /\ h.volumes[p].size \in Nat \ {0}

\* Facts say which target they are of; the bounds of a certificate are times.
ASSUME NetsAssumption ==
    \A n \in Nets : \A t \in Targets :
        /\ n.dns[t].target = t /\ n.certificates[t].target = t
        /\ n.certificates[t].notBefore \in Int /\ n.certificates[t].notAfter \in Int

ASSUME OptionsAssumption ==
    \A o \in Options : /\ o.offline \in BOOLEAN
                       /\ o.netProbe \in {"nil", "typed nil", "live"}
                       /\ o.config \in {"none", "path", "traversal"}

VARIABLES host,     \* the state of the host
          net,      \* the facts of the world, by target
          clock,    \* the time
          changes,  \* changes of the host so far
          options,  \* Options of the run
          past,     \* history: the files of the host so far, those of now last
          pc,       \* the next step
          checks,   \* Result.Checks: names with their status
          now,      \* the instant certificates are judged at
          i,        \* index of the loop of the step
          found,    \* listeners collected, or Broken
          account,  \* the account's identifiers
          volume,   \* what Statfs last answered
          calls,    \* probe methods invoked
          steady    \* sockets open ever since the listener scan began

vars == <<host, net, clock, changes, options, past, pc, checks, now, i, found,
          account, volume, calls, steady>>

Nothing == [ok |-> TRUE, listeners |-> {}]
Broken == [ok |-> FALSE, listeners |-> {}]
NoVolume == [readable |-> FALSE, blocks |-> 0, size |-> 1]

\* Mutant: a nil pointer in the interface passes for a probe.
isNilInterface == options.netProbe = "nil"

\* A NetProbe that is nil, or holds nil, is replaced by the unavailable one.
isNilNetProbe == options.netProbe \in {"nil", "typed nil"}

\* What a run looks at beside the sockets.
Files(h) == [volumes |-> h.volumes, passwd |-> h.passwd, dir |-> h.dir, config |-> h.config]

Init ==
    /\ host \in Hosts /\ net \in Nets /\ past = <<Files(host)>>
    /\ clock = 0 /\ changes = 0
    /\ options \in Options
    /\ pc = "start" /\ checks = <<>> /\ now = 0 /\ i = 1
    /\ found = Nothing /\ account = NoAccount /\ volume = NoVolume
    /\ calls = {} /\ steady = {}

Result(name, passed) == <<name, IF passed THEN "pass" ELSE "fail">>

world == <<host, net, clock, changes, options, past>>

\* parseRole, checkArch and the reservation matrix of an offline run.
Start ==
    /\ pc = "start"
    /\ IF options.role \notin RoleNames
       THEN pc' = "refused" /\ checks' = checks
       ELSE /\ pc' = "config"
            /\ checks' = <<Result("arch", options.arch \in {"amd64", "arm64"})>>
                         \o IF options.offline THEN <<Result("ports", TRUE)>> ELSE <<>>
    /\ UNCHANGED <<world, now, i, found, account, volume, calls, steady>>

\* The credentials verdict, then what follows without reading anything: the
\* posture marker, the end of an offline run, the environment of an online one.
AfterCredentials(status) ==
    /\ checks' = checks \o << <<"credentials", status>>, Result("fail-closed", TRUE) >>
                        \o << Result(IF options.offline THEN "offline-mode" ELSE "environment", TRUE) >>
    /\ pc' = IF options.offline THEN "returned" ELSE "disk"
    /\ calls' = calls \union IF options.offline THEN {} ELSE {"Environment"}

\* checkCredentialsPlaceholder up to Lstat ...
InspectConfig ==
    /\ pc = "config"
    /\ CASE options.config = "none" -> AfterCredentials("skip")
         [] options.config = "traversal" -> AfterCredentials("fail")
         [] options.config = "path" ->
              IF host.config.kind \notin {"missing", "link", "dir"}
              THEN pc' = "scan" /\ UNCHANGED <<checks, calls>>
              ELSE AfterCredentials("fail")
    /\ UNCHANGED <<world, now, i, found, account, volume, steady>>

\* ... and the read, which follows whatever the path has become since.
ScanConfig ==
    /\ pc = "scan"
    /\ AfterCredentials(IF /\ host.config.kind \notin {"missing", "dir"}
                           /\ \A line \in host.config.lines : ~Leaks(line)
                        THEN "pass" ELSE "fail")
    /\ UNCHANGED <<world, now, i, found, account, volume, steady>>

\* Mutant: whatever is wrong with the directory, the parent is measured.
StatfsAnyError(path, missing) ==
    IF path = "runtime" /\ (host.dir.kind = "missing" \/ ~host.volumes[path].readable)
    THEN missing
    ELSE /\ volume' = host.volumes[path]
         /\ checks' = Append(checks, Result("disk", EnoughSpace(host.volumes[path])))
         /\ pc' = "passwd"

\* Statfs: a missing directory is not an error but the parent's business.
Statfs(path, missing) ==
    IF path = "runtime" /\ host.dir.kind = "missing"
    THEN missing
    ELSE /\ volume' = host.volumes[path]
         /\ checks' = Append(checks, Result("disk", EnoughSpace(host.volumes[path])))
         /\ pc' = "passwd"

AvailableBytes ==
    /\ pc \in {"disk", "parent"}
    /\ calls' = calls \union {"AvailableBytes"}
    /\ IF pc = "disk"
       THEN Statfs("runtime", pc' = "parent" /\ UNCHANGED <<volume, checks>>)
       ELSE Statfs("run", FALSE)
    /\ UNCHANGED <<world, now, i, found, account, steady>>

\* Identity: readPasswd inspects the path ...
InspectPasswd ==
    /\ pc = "passwd"
    /\ calls' = calls \union {"Identity"}
    /\ IF host.passwd.kind = "file" /\ ~host.passwd.large
       THEN pc' = "accounts" /\ UNCHANGED checks
       ELSE pc' = "listeners" /\ checks' = Append(checks, Result("runtime-identity", FALSE))
    /\ UNCHANGED <<world, now, i, found, account, volume, steady>>

\* ... and reads it, ...
ReadPasswd ==
    /\ pc = "accounts"
    /\ LET parsed == parsePasswdUIDGID(host.passwd.lines, Account)
           readable == host.passwd.kind \in {"file", "link"}
       IN  IF readable /\ parsed.ok
           THEN /\ account' = parsed
                /\ pc' = "directory" /\ UNCHANGED checks
           ELSE /\ checks' = Append(checks, Result("runtime-identity", FALSE))
                /\ pc' = "listeners" /\ UNCHANGED account
    /\ UNCHANGED <<world, now, i, found, volume, calls, steady>>

\* ... then inspects the runtime directory, which the check compares with it.
InspectDirectory ==
    /\ pc = "directory"
    /\ checks' = Append(checks, Result("runtime-identity", AcceptsIdentity(account, host.dir)))
    /\ pc' = "listeners"
    /\ UNCHANGED <<world, now, i, found, account, volume, calls, steady>>

\* Listeners: the first table is opened on the host as it is now.
Listeners ==
    /\ pc = "listeners"
    /\ calls' = calls \union {"Listeners"}
    /\ steady' = host.sockets
    /\ pc' = "tables" /\ i' = 1
    /\ UNCHANGED <<world, checks, now, found, account, volume>>

\* A table that cannot be read ends the scan, unless it is one of IPv6 and
\* does not exist; a malformed row ends it too.
Rows(table) == {s \in host.sockets : s.table = table}


\* Mutant: whatever goes wrong with a table of IPv6 is skipped.
SkippableUnreadable(table) == table \notin Required

Skippable(table) == table \notin Required /\ host.tables[table] = "absent"

ReadTable ==
    /\ pc = "tables" /\ i <= Len(TableOrder)
    /\ LET table == TableOrder[i]
           parsed == parseProcNet(Rows(table))
       IN  CASE host.tables[table] = "present" /\ parsed.ok ->
                  /\ found' = [found EXCEPT !.listeners = @ \union parsed.listeners]
                  /\ i' = i + 1
             [] Skippable(table) ->
                  i' = i + 1 /\ UNCHANGED found
             [] OTHER ->
                  found' = Broken /\ i' = Len(TableOrder) + 1
    /\ UNCHANGED <<world, pc, checks, now, account, volume, calls, steady>>

\* The conflict scan; the clock is read once, for all certificates to come.
CheckPorts ==
    /\ pc = "tables" /\ i > Len(TableOrder)
    /\ checks' = Append(checks, Result("ports", /\ found.ok
                                                /\ ~Conflicts(options.role, found.listeners)))
    /\ now' = clock
    /\ pc' = "dns" /\ i' = 1
    /\ UNCHANGED <<world, found, account, volume, calls, steady>>

\* What a NetProbe may answer: an error, or the facts of some target.
Answers(facts) == {facts[t] : t \in Targets}

\* An answer that is not accepted, an error or an absent probe ends a check.
Fail(name, next) ==
    /\ checks' = Append(checks, Result(name, FALSE))
    /\ pc' = next /\ i' = 1

\* One target of the loop of a check: the first answer that is not accepted
\* fails the check, the last one accepted passes it.  Any question may also be
\* answered by an error; "acceptable" says that a good answer is possible.
Target == roleTargets(options.role)[i]

Ask(name, method, acceptable, next) ==
    LET Pass == IF i = Len(roleTargets(options.role))
                THEN checks' = Append(checks, Result(name, TRUE)) /\ pc' = next /\ i' = 1
                ELSE i' = i + 1 /\ UNCHANGED <<checks, pc>>
    IN  IF isNilNetProbe
        THEN Fail(name, next) /\ UNCHANGED calls
        ELSE /\ calls' = calls \union {method}
             /\ \/ Fail(name, next)
                \/ acceptable /\ Pass

CheckDNS ==
    /\ pc = "dns"
    /\ Ask("dns-evidence", "DNS",
           \E facts \in Answers(net.dns) : AcceptsDNS(Target, facts), "certificate")
    /\ UNCHANGED <<world, now, found, account, volume, steady>>

CheckCertificate ==
    /\ pc = "certificate"
    /\ Ask("certificate-evidence", "Certificate",
           \E facts \in Answers(net.certificates) : AcceptsCertificate(Target, facts, now),
           "returned")
    /\ UNCHANGED <<world, now, found, account, volume, steady>>

Run ==
    \/ Start \/ InspectConfig \/ ScanConfig \/ AvailableBytes
    \/ InspectPasswd \/ ReadPasswd \/ InspectDirectory
    \/ Listeners \/ ReadTable \/ CheckPorts
    \/ CheckDNS \/ CheckCertificate

-----------------------------------------------------------------------------
\* The host goes on: one of its facts changes, or a socket opens or closes.
Differs(h, field) == /\ h # host
                     /\ h = [host EXCEPT ![field] = h[field]]

Change ==
    /\ changes < MaxChanges
    /\ pc \notin {"returned", "refused"}
    /\ \E h \in Hosts :
           /\ \E field \in DOMAIN host : Differs(h, field)
           /\ host' = h
           /\ steady' = steady \intersect h.sockets
           /\ past' = Append(past, Files(h))
    /\ changes' = changes + 1
    /\ UNCHANGED <<net, clock, options, pc, checks, now, i, found, account, volume, calls>>

\* Time passes while the evidence probes answer.
Tick ==
    /\ pc \in {"dns", "certificate"}
    /\ clock - now < MaxElapsed
    /\ clock' = clock + 1
    /\ UNCHANGED <<host, net, changes, options, past, pc, checks, now, i, found,
                   account, volume, calls, steady>>

Next == Run \/ Change \/ Tick

Spec == Init /\ [][Next]_vars

-----------------------------------------------------------------------------
Names == {"arch", "credentials", "fail-closed", "environment", "disk",
          "runtime-identity", "ports", "dns-evidence", "certificate-evidence",
          "offline-mode"}

Passed(name) == \E k \in DOMAIN checks : checks[k] = <<name, "pass">>

\* OK of the result: no check has failed.
OK == \A k \in DOMAIN checks : checks[k][2] # "fail"

\* Every variable that a run changes stays in its set.
TypeOK ==
    /\ host \in Hosts /\ options \in Options
    /\ clock \in Nat /\ now \in 0 .. clock /\ changes \in 0 .. MaxChanges
    /\ pc \in {"start", "refused", "config", "scan", "disk", "parent", "passwd",
               "accounts", "directory", "listeners", "tables", "dns",
               "certificate", "returned"}
    /\ \A k \in DOMAIN checks : /\ checks[k][1] \in Names
                                /\ checks[k][2] \in {"pass", "fail", "skip"}
    /\ Cardinality({checks[k][1] : k \in DOMAIN checks}) = Len(checks)
    /\ i \in 1 .. 5
    /\ calls \subseteq {"Environment", "AvailableBytes", "Identity", "Listeners",
                        "DNS", "Certificate"}

\* An offline run calls no probe at all, and a NetProbe that is absent, in
\* either of its two disguises, is never called either.
ProbesOnlyWhenAllowed ==
    /\ options.offline => calls = {}
    /\ options.netProbe # "live" => calls \intersect {"DNS", "Certificate"} = {}

\* An online run is never found OK without its evidence: every check of the
\* list was made, and both kinds of evidence came from a live probe.
AbsentEvidenceFails ==
    (pc = "returned" /\ OK /\ ~options.offline) =>
        /\ {checks[k][1] : k \in DOMAIN checks} = Names \ {"offline-mode"}
        /\ {"DNS", "Certificate"} \subseteq calls

\* A socket that holds a reserved port during the whole scan is never missed,
\* whatever its row looks like and whatever opens or closes around it.
Reserved(s) == /\ <<Protocol(s.table), s.port>> \in roleReservations(options.role)
               /\ s.table \in {"udp", "udp6"} \/ s.listening

SteadyListenerIsSeen ==
    (Passed("ports") /\ ~options.offline) => \A s \in steady : ~Reserved(s)

\* A certificate check that passes is true when it passes: every entry point
\* of the role has a trusted certificate, in date at this instant although it
\* was judged at an earlier one, and naming the entry point.
CertificatePassIsTrue ==
    (pc = "returned" /\ Passed("certificate-evidence")) =>
        \A t \in Targets : targetSpecs[t].role = options.role =>
            LET c == net.certificates[t]
            IN  /\ c.present /\ c.trusted
                /\ c.notBefore <= clock /\ clock < c.notAfter
                /\ \E k \in DOMAIN c.names : c.names[k][1].word = targetSpecs[t].label

\* Likewise for names: every entry point of the role resolves, under its own
\* label and a name that is one, to addresses that others can reach.
DNSPassIsTrue ==
    Passed("dns-evidence") =>
        \A t \in Targets : targetSpecs[t].role = options.role =>
            LET d == net.dns[t]
            IN  /\ d.resolved
                /\ d.name[1].word = targetSpecs[t].label
                /\ \A k \in DOMAIN d.name : d.name[k].safe
                /\ d.addresses # <<>>
                /\ \A k \in DOMAIN d.addresses :
                       d.addresses[k] \notin {"loopback", "unspecified", "multicast", "malformed"}

\* What a report says of the outside is true: an online result that is OK has
\* all of its evidence, and names and certificates that passed hold of every
\* entry point of the role.
ReportIsTrue ==
    /\ TypeOK /\ AbsentEvidenceFails
    /\ CertificatePassIsTrue /\ DNSPassIsTrue

\* The disk verdict is about the true number of free bytes, also where the
\* product does not fit the word, of the volume that counts: the runtime
\* directory's at a moment when it existed, or that of /run, measured after a
\* moment when the directory was missing.
DiskVerdictIsTrue ==
    (\E k \in DOMAIN checks : checks[k][1] = "disk") =>
        /\ Passed("disk") <=> volume.readable /\ volume.blocks * volume.size >= MinFree
        /\ \E b \in DOMAIN past :
              \/ past[b].dir.kind # "missing" /\ volume = past[b].volumes["runtime"]
              \/ /\ volume = past[b].volumes["run"]
                 /\ \E a \in 1 .. b : past[a].dir.kind = "missing"

\* An identity that passes was there to be seen, in this order and not at one
\* moment: an account database that is a small regular file, a database whose
\* only line of the account gives two identifiers, none of them root's, and a
\* directory of that owner closed to everybody else.
IdentityPassIsTrue ==
    Passed("runtime-identity") =>
        \E c \in DOMAIN past : \E b \in 1 .. c : \E a \in 1 .. b :
            LET lines == past[b].passwd.lines
                dir == past[c].dir
            IN  /\ past[a].passwd.kind = "file" /\ ~past[a].passwd.large
                /\ \E k \in DOMAIN lines :
                       /\ LinesOf(lines, Account) = {k}
                       /\ lines[k].uid = dir.uid /\ lines[k].gid = dir.gid
                /\ dir.kind = "dir" /\ dir.mode = "0700"
                /\ dir.uid # 0 /\ dir.gid # 0

\* Credentials that pass, offline or online: the path was neither a link nor a
\* directory, and what it led to at that moment or later held no secret.
CredentialsPassIsTrue ==
    Passed("credentials") =>
        \E b \in DOMAIN past : \E a \in 1 .. b :
            /\ past[a].config.kind \notin {"missing", "link", "dir"}
            /\ past[b].config.kind \notin {"missing", "dir"}
            /\ \A line \in past[b].config.lines : ~Leaks(line)

\* The verdicts about files and directories of a host that changes meanwhile
\* each hold of what was there, moment by moment in the order of the reads.
\* (Sockets are SteadyListenerIsSeen's; arch and the posture markers look at
\* nothing that changes.)
HostVerdictsAreTrue == DiskVerdictIsTrue /\ IdentityPassIsTrue /\ CredentialsPassIsTrue

\* What the probe says of the account database: links are refused, so an
\* identity that passes rests on a regular file.  The code does not have this
\* property (it looks first and opens the path again to read it, and follows a
\* link that has appeared) and no run checks it.
DatabaseIsNoLink ==
    Passed("runtime-identity") =>
        \E b \in DOMAIN past :
            /\ past[b].passwd.kind = "file"
            /\ parsePasswdUIDGID(past[b].passwd.lines, Account).ok

\* What the facts type says of the names of a certificate: they are matched
\* against the DNS name that was observed.  The code does not have this
\* property (it matches their first labels only) and no run checks it.
NamesMatchObservedName ==
    (pc = "returned" /\ Passed("dns-evidence") /\ Passed("certificate-evidence")) =>
        \A t \in Targets : targetSpecs[t].role = options.role =>
            \E k \in DOMAIN net.certificates[t].names :
                net.certificates[t].names[k] = net.dns[t].name
=============================================================================
