--------------------------- MODULE EvidenceChecks ---------------------------
(***************************************************************************)
(* The typed facts a NetProbe answers with, and what the name and          *)
(* certificate checks of preflight accept (internal/preflight/netprobe.go).*)
(* A name is a sequence of labels, a label a record of its lower-case      *)
(* word and whether its characters and length are those of a host name.    *)
(***************************************************************************)
EXTENDS Naturals, Sequences

CONSTANTS Margin,    \* certRenewalMargin
          MaxNames   \* maxProbeNames

ASSUME MarginAssumption == Margin \in Nat \ {0} /\ MaxNames \in Nat \ {0}

RoleNames == {"gateway", "egress"}

\* targetSpecs: the label and the only role of every target.
targetSpecs == [mihomo |-> [label |-> "mihomo-gateway", role |-> "gateway"],
                native |-> [label |-> "native-gateway", role |-> "gateway"],
                egress |-> [label |-> "proxy-egress", role |-> "egress"]]

Targets == DOMAIN targetSpecs

\* The targets of a role, in declaration order.
roleTargets(role) ==
    LET Of(t) == IF targetSpecs[t].role = role THEN <<t>> ELSE <<>>
    IN  Of("mihomo") \o Of("native") \o Of("egress")

\* A host name of two labels or more; an empty label stands for a leading, a
\* trailing or a doubled dot and is never safe, nor is a label of a name that
\* is too long.
isSafeProbeName(name) ==
    /\ Len(name) > 1
    /\ \A i \in DOMAIN name : name[i].safe

\* The first label is compared whole and without case; a single label is no
\* deployment name.
hasExpectedLabel(name, want) ==
    /\ Len(name) > 1
    /\ name[1].word = want

sanMatchesLabel(sans, want) ==
    \E i \in DOMAIN sans : isSafeProbeName(sans[i]) /\ hasExpectedLabel(sans[i], want)

\* parseProbeAddr and the scope test: a numeric literal without zone or
\* surrounding space, neither loopback, unspecified nor multicast.
UsableAddresses == {"public", "private"}

AcceptsDNS(t, facts) ==
    /\ facts.target = t
    /\ facts.resolved
    /\ isSafeProbeName(facts.name)
    /\ hasExpectedLabel(facts.name, targetSpecs[t].label)
    /\ Len(facts.addresses) \in 1 .. MaxNames
    /\ \A i \in DOMAIN facts.addresses : facts.addresses[i] \in UsableAddresses

\* Mutant: a certificate that is still valid is good enough.
InDateNow(facts, now) == facts.notBefore <= now /\ now < facts.notAfter

\* A zero time is the missing bound.
InDate(facts, now) ==
    /\ facts.notBefore # 0 /\ facts.notAfter # 0
    /\ facts.notBefore < facts.notAfter
    /\ facts.notBefore <= now
    /\ now < facts.notAfter
    /\ facts.notAfter - now >= Margin

AcceptsCertificate(t, facts, now) ==
    /\ facts.target = t
    /\ facts.present
    /\ facts.trusted
    /\ InDate(facts, now)
    /\ Len(facts.names) \in 1 .. MaxNames
    /\ sanMatchesLabel(facts.names, targetSpecs[t].label)
=============================================================================
