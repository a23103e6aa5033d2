---------------------------- MODULE MCPreflight -----------------------------
(* Small hosts and worlds for Preflight: one family of states per part of  *)
(* the host, around a host that passes every check.                        *)
EXTENDS Preflight

CONSTANT MCSocketsOpen   \* sockets open at a time

\* ------------------------------------------------------------------ host
Socket(table, port, listening, legible) ==
    [table |-> table, port |-> port, listening |-> listening, legible |-> legible]

AllSockets == {Socket("tcp", 8443, TRUE, TRUE), Socket("tcp6", 8443, TRUE, FALSE),
               Socket("tcp", 7890, FALSE, FALSE), Socket("udp6", 17894, FALSE, TRUE),
               Socket("udp", 443, FALSE, TRUE), Socket("tcp", 443, TRUE, TRUE)}

Present == [t \in Tables |-> "present"]
NoIPv6 == [Present EXCEPT !["tcp6"] = "absent", !["udp6"] = "absent"]
Unreadable == [Present EXCEPT !["udp6"] = "unreadable"]
NoUDP == [Present EXCEPT !["udp"] = "absent"]

Volume(readable, blocks, size) == [readable |-> readable, blocks |-> blocks, size |-> size]
AllVolumes == {Volume(TRUE, 5, 2), Volume(TRUE, 3, 2), Volume(TRUE, 8, 2), Volume(FALSE, 5, 2)}

Line(name, uid, gid, shape) == [name |-> name, uid |-> uid, gid |-> gid, shape |-> shape]
Mine == Line(Account, 7, 7, "whole")
Passwd(kind, lines) == [kind |-> kind, large |-> FALSE, lines |-> lines]
AllPasswds == {Passwd("file", <<Line("root", 0, 0, "whole"), Mine>>),
               Passwd("link", <<Mine>>), Passwd("file", <<Mine, Mine>>),
               Passwd("file", <<Line(Account, 0, 7, "whole")>>),
               Passwd("file", <<Line(Account, 9, 9, "short"), Mine>>),
               Passwd("file", <<Line(Account, 7, -1, "whole")>>),
               Passwd("file", <<Mine, Line("root", 0, 0, "overlong")>>),
               Passwd("file", <<Line("root", 0, 0, "whole"), Mine, Line("other", 5, 5, "whole")>>),
               Passwd("missing", <<>>)}

Dir(kind, mode, uid) == [kind |-> kind, mode |-> mode, uid |-> uid, gid |-> uid]
AllDirs == {Dir("dir", "0700", 7), Dir("missing", "0700", 7), Dir("dir", "0755", 7),
            Dir("dir", "0700", 0), Dir("link", "0700", 7)}

Field(value) == [names |-> TRUE, colon |-> TRUE, value |-> value]
Config(kind, lines) == [kind |-> kind, lines |-> lines]
AllConfigs == {Config("file", {Field("${PLACEHOLDER}"), Field("userpass")}),
               Config("file", {Field("hunter2")}), Config("link", {Field("hunter2")}),
               Config("link", {Field("userpass")}),
               Config("missing", {}), Config("dir", {})}

Good == [sockets |-> {}, tables |-> Present,
         volumes |-> [p \in {"runtime", "run"} |-> Volume(TRUE, 5, 2)],
         passwd |-> Passwd("file", <<Line("root", 0, 0, "whole"), Mine>>),
         dir |-> Dir("dir", "0700", 7),
         config |-> Config("file", {Field("${PLACEHOLDER}"), Field("userpass")})]

\* No socket is open in a table that does not exist.
SocketHosts ==
    {h \in [sockets : SUBSET AllSockets, tables : {Present, NoIPv6, Unreadable, NoUDP},
            volumes : {Good.volumes}, passwd : {Good.passwd}, dir : {Good.dir},
            config : {Good.config}] :
        /\ Cardinality(h.sockets) <= MCSocketsOpen
        /\ \A s \in h.sockets : h.tables[s.table] # "absent"}

SweepHosts ==
    [sockets : {{}}, tables : {Present}, volumes : [{"runtime", "run"} -> AllVolumes],
     passwd : {Good.passwd}, dir : AllDirs, config : {Good.config}]
    \union [sockets : {{}}, tables : {Present}, volumes : {Good.volumes},
            passwd : AllPasswds, dir : AllDirs, config : {Good.config}]
    \union [sockets : {{}}, tables : {Present}, volumes : {Good.volumes},
            passwd : {Good.passwd}, dir : {Good.dir}, config : AllConfigs]

MCHosts == SocketHosts \union SweepHosts

\* ------------------------------------------------------------- evidence
Label(word, safe) == [word |-> word, safe |-> safe]
Base == Label("example", TRUE)
Name(word) == <<Label(word, TRUE), Base>>
GoodName(t) == Name(targetSpecs[t].label)

DNS(t, resolved, name, addresses) ==
    [target |-> t, resolved |-> resolved, name |-> name, addresses |-> addresses]
GoodDNS == [t \in Targets |-> DNS(t, TRUE, GoodName(t), <<"public">>)]
SomeDNS(t) ==
    {GoodDNS[t], DNS(t, FALSE, GoodName(t), <<"public">>),
     DNS(t, TRUE, GoodName(t), <<"public", "loopback">>),
     DNS(t, TRUE, GoodName(t), <<>>),
     DNS(t, TRUE, Name("native-gateway"), <<"private">>),
     DNS(t, TRUE, <<Label(targetSpecs[t].label, TRUE), Label("", FALSE)>>, <<"public">>),
     DNS(t, TRUE, <<Label(targetSpecs[t].label, TRUE), Label("other", TRUE)>>, <<"public">>)}

Both == <<Name("mihomo-gateway"), Name("native-gateway"), Name("proxy-egress")>>
Certificate(t, trusted, from, to, names) ==
    [target |-> t, present |-> TRUE, trusted |-> trusted, notBefore |-> from,
     notAfter |-> to, names |-> names]
\* Times are relative: preflight begins at 0, a bound of 0 is a missing one.
GoodCertificates == [t \in Targets |-> Certificate(t, TRUE, -1, 5, Both)]
SomeCertificates(t) ==
    {GoodCertificates[t], Certificate(t, FALSE, -1, 5, Both), Certificate(t, TRUE, 1, 9, Both),
     Certificate(t, TRUE, -1, 3, Both), Certificate(t, TRUE, -1, 2, Both), Certificate(t, TRUE, -2, -1, Both),
     Certificate(t, TRUE, -1, 5, <<<<Label("*", FALSE), Base>>>>),
     [GoodCertificates[t] EXCEPT !.present = FALSE]}

GoodNet == [dns |-> GoodDNS, certificates |-> GoodCertificates]

\* Two targets of a kind vary together, as one may answer for the other; no
\* check relates DNS to certificates.
MCNets ==
    {[GoodNet EXCEPT !.dns["mihomo"] = a, !.dns["native"] = b] :
        a \in SomeDNS("mihomo"), b \in SomeDNS("native")}
    \union {[GoodNet EXCEPT !.certificates["mihomo"] = c, !.certificates["native"] = d] :
               c \in SomeCertificates("mihomo"), d \in SomeCertificates("native")}
    \union {[GoodNet EXCEPT !.dns["egress"] = e, !.certificates["egress"] = f] :
               e \in SomeDNS("egress"), f \in SomeCertificates("egress")}

\* -------------------------------------------------------------- options
Option(role, offline, arch, config, netProbe) ==
    [role |-> role, offline |-> offline, arch |-> arch, config |-> config, netProbe |-> netProbe]

SocketOptions == {Option(r, FALSE, "amd64", "none", "live") : r \in RoleNames}
FileOptions == {Option("gateway", o, a, c, "typed nil") : o \in BOOLEAN,
                    a \in {"amd64", "riscv64"}, c \in {"none", "path", "traversal"}}
EvidenceOptions == {Option(r, FALSE, "arm64", "none", n) :
                        r \in RoleNames, n \in {"nil", "live", "typed nil"}}
                   \union {Option("laptop", TRUE, "amd64", "none", "nil")}
MCOptions == SocketOptions \union FileOptions \union EvidenceOptions

\* ------------------------------------------------------------- families
\* One part of the world is swept at a time, and its changes with it: sockets
\* that open and close, files that change once, or evidence while time passes.
MCInit ==
    /\ \/ host \in SocketHosts /\ net = GoodNet /\ options \in SocketOptions
       \/ host \in SweepHosts /\ net = GoodNet /\ options \in FileOptions
       \/ host = Good /\ net \in MCNets /\ options \in EvidenceOptions
    /\ Init

MCNext ==
    \/ Run
    \/ options \in EvidenceOptions /\ Tick
    \/ options \in SocketOptions /\ Change /\ host' \in SocketHosts
    \/ options \in FileOptions /\ changes = 0 /\ Change /\ host' \in SweepHosts

MCSpec == MCInit /\ [][MCNext]_vars
=============================================================================
