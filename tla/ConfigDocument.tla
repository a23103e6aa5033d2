--------------------------- MODULE ConfigDocument ---------------------------
(***************************************************************************)
(* Parse and validate of internal/config/config.go: the line automaton that*)
(* reads a config document into top-level scalars and sections of key/value*)
(* pairs, and the allowlists and network posture the result must satisfy.  *)
(*                                                                         *)
(* A line is what splitKV and the indentation make of it.  Reading starts  *)
(* after lines that gave the scalars of Header their values.               *)
(***************************************************************************)
EXTENDS Integers, Sequences, FiniteSets

CONSTANTS
  Lines,     \* lines the document may have
  Header,    \* [role -> scalars that the first lines set]
  MaxLines   \* bound: further lines of the document

ASSUME LinesAssumption == MaxLines \in Nat

Roles    == {"gateway", "egress"}
Sections == {"listeners", "users"}

VARIABLES
  role,      \* the role the document is read for
  scalars,   \* Document.scalars
  sections,  \* Document.sections: [name -> sequence of <<key, value>>]
  section,   \* curSection, "" outside
  banned,    \* rawLines, as far as it matters: holds a forbidden text
  verdict,   \* "reading", "accepted" or "rejected"
  read       \* observation: the lines read

doc  == <<scalars, sections, section, banned>>
vars == <<role, doc, verdict, read>>

TypeOK ==
  /\ role \in Roles /\ section \in Sections \cup {""}
  /\ DOMAIN sections = Sections /\ banned \in BOOLEAN
  /\ verdict \in {"reading", "accepted", "rejected"}
  /\ Len(read) <= MaxLines /\ \A i \in 1 .. Len(read) : read[i] \in Lines

Init ==
  /\ role \in Roles
  /\ scalars = Header[role]
  /\ sections = [s \in Sections |-> <<>>] /\ section = ""
  /\ banned = FALSE /\ verdict = "reading" /\ read = <<>>

-----------------------------------------------------------------------------
\* roleAllowlists, sectionAllowlists, isSectionName.
ScalarKeys ==
  [gateway |-> {"schema", "role", "mixed-port", "bind-address", "controller-listen",
                "gateway-egress-password", "gateway-egress-user", "egress-server",
                "egress-port", "egress-sni"},
   egress  |-> {"schema", "role", "listen-address", "port", "sni", "gateway-node-user",
                "gateway-node-password", "max-users"}]
SectionKeys ==
  [listeners |-> {"name", "type", "listen", "port", "users", "udp"},
   users     |-> {"username", "password"}]
IsSection(k) == k = "users" \/ (role = "gateway" /\ k = "listeners")

Reject == verdict' = "rejected" /\ UNCHANGED doc
Proceed == UNCHANGED verdict
SetScalar(l) ==
  scalars' = [k \in DOMAIN scalars \cup {l.key} |->
                IF k = l.key THEN l.value ELSE scalars[k]]
Collect(l) ==
  /\ sections' = [sections EXCEPT ![section] = Append(@, <<l.key, l.value>>)]
  /\ UNCHANGED <<scalars, section>> /\ Proceed

\* A list item, whatever its indentation, belongs to the section that is open.
Item(l) ==
  /\ l.item
  /\ \/ section # "" /\ Collect(l) /\ banned' = (banned \/ l.banned)
     \/ section = "" /\ Reject

\* Mutant: a scalar leaves the section open.
TopLevelKeepsSection(l) ==
  /\ ~l.item /\ l.indent = 0
  /\ \/ /\ l.value = "" /\ IsSection(l.key)
        /\ section' = l.key /\ UNCHANGED <<scalars, sections>>
     \/ /\ l.value # ""
        /\ SetScalar(l) /\ UNCHANGED <<sections, section>>
  /\ Proceed /\ banned' = (banned \/ l.banned)

\* A key at the margin opens a section or sets a scalar and closes the section.
TopLevel(l) ==
  /\ ~l.item /\ l.indent = 0
  /\ \/ /\ l.value = "" /\ IsSection(l.key)
        /\ section' = l.key /\ UNCHANGED <<scalars, sections>> /\ Proceed
        /\ banned' = (banned \/ l.banned)
     \/ l.value = "" /\ ~IsSection(l.key) /\ Reject
     \/ /\ l.value # ""
        /\ SetScalar(l)
        /\ section' = "" /\ UNCHANGED sections /\ Proceed
        /\ banned' = (banned \/ l.banned)

\* Mutant: only lines at the margin are searched.
IndentedUnsearched(l) ==
  /\ ~l.item /\ l.indent > 0
  /\ \/ section # "" /\ Collect(l) /\ UNCHANGED banned
     \/ section = "" /\ Reject

Indented(l) ==
  /\ ~l.item /\ l.indent > 0
  /\ \/ section # "" /\ Collect(l) /\ banned' = (banned \/ l.banned)
     \/ section = "" /\ Reject

\* One turn of Parse's loop; splitKV refuses a line without a key.
ReadLine ==
  /\ verdict = "reading" /\ Len(read) < MaxLines
  /\ \E l \in Lines :
       /\ read' = Append(read, l)
       /\ CASE l.comment -> UNCHANGED <<doc, verdict>>
            [] ~l.comment /\ l.key = "" -> Reject
            [] OTHER -> Item(l) \/ TopLevel(l) \/ Indented(l)
  /\ UNCHANGED role

-----------------------------------------------------------------------------
Pairs(s)  == {sections[s][i] : i \in 1 .. Len(sections[s])}
Scalar(k) == IF k \in DOMAIN scalars THEN scalars[k] ELSE ""

IsPlaceholder(v) == v = "${VAR}"
IsMachineUser(v) == v \in {"edge-user"}

\* Allowlists, binding of schema and role, placeholders for credentials.
ValidFields ==
  /\ DOMAIN scalars \subseteq ScalarKeys[role]
  /\ \A s \in Sections : \A kv \in Pairs(s) : IsSection(s) /\ kv[1] \in SectionKeys[s]
  /\ Scalar("schema") = "private-proxy/v1" /\ Scalar("role") = role

ValidCredentials ==
  /\ \A k \in {"gateway-egress-password", "gateway-node-password"} \cap DOMAIN scalars :
       IsPlaceholder(scalars[k])
  /\ \A kv \in Pairs("users") : kv[1] = "password" => IsPlaceholder(kv[2])

\* validateGatewayListeners: the listener a pair belongs to is the last one
\* that was named.
Listeners ==
  [gateway_trojan |-> [type |-> "trojan", listen |-> "0.0.0.0", port |-> "8443"],
   gateway_https  |-> [type |-> "http", listen |-> "127.0.0.1", port |-> "18444"],
   gateway_tproxy |-> [type |-> "tproxy", listen |-> "127.0.0.1", port |-> "17894",
                       udp |-> "true"]]
Fits(name, kv) ==
  kv[1] \in DOMAIN Listeners[name] => kv[2] = Listeners[name][kv[1]]

ValidListeners ==
  LET items == sections["listeners"]
      Named(i) == items[i][1] = "name"
      Belongs(i, j) == j < i /\ Named(j) /\ \A k \in j + 1 .. i - 1 : ~Named(k)
  IN  /\ \A i \in 1 .. Len(items) :
           IF Named(i)
           THEN /\ items[i][2] \in DOMAIN Listeners
                /\ \A j \in 1 .. i - 1 : items[j] # items[i]
           ELSE \E j \in 1 .. i - 1 : Belongs(i, j) /\ Fits(items[j][2], items[i])
      /\ \A n \in DOMAIN Listeners : <<"name", n>> \in Pairs("listeners")

\* The host of controller-listen, without port and brackets.
ControllerHost(v) ==
  CASE v = "0.0.0.0:9090" -> "0.0.0.0" [] v = "[::]:9090" -> "::"
    [] v = ":9090" -> "" [] OTHER -> v

\* portOfListener: the first port that follows the pair in the same item.
PortOfListener(kv) ==
  LET items == sections["listeners"]
      hits  == {j \in 1 .. Len(items) :
                  /\ items[j][1] = "port"
                  /\ \E i \in 1 .. j - 1 :
                       items[i] = kv /\ \A k \in i + 1 .. j : items[k][1] # "name"}
  IN  IF hits = {} THEN "" ELSE items[CHOOSE j \in hits : \A k \in hits : j <= k][2]

\* validateNetworkPosture.
ValidPosture ==
  /\ role = "gateway" =>
       /\ Scalar("egress-port") \in {"", "443"}
       /\ sections["listeners"] # <<>> => ValidListeners
  /\ role = "egress" =>
       /\ IsMachineUser(Scalar("gateway-node-user"))
       /\ Scalar("port") \in {"", "443"}
  /\ Scalar("mixed-port") = "7890" => Scalar("bind-address") = "127.0.0.1"
  /\ "controller-listen" \in DOMAIN scalars =>
       ControllerHost(scalars["controller-listen"]) \notin {"0.0.0.0", "::", ""}
  /\ ~banned
  /\ <<"listen", "0.0.0.0">> \in Pairs("listeners") =>
       PortOfListener(<<"listen", "0.0.0.0">>) # "7890"
  /\ sections["users"] # <<>> =>
       /\ \E kv \in Pairs("users") : kv[1] = "username"
       /\ <<"username", "">> \notin Pairs("users")

\* The end of the document.
Validate ==
  /\ verdict = "reading"
  /\ verdict' = IF ValidFields /\ ValidCredentials /\ ValidPosture
                THEN "accepted" ELSE "rejected"
  /\ UNCHANGED <<role, doc, read>>

Next == ReadLine \/ Validate
Spec == Init /\ [][Next]_vars

-----------------------------------------------------------------------------
Accepted == verdict = "accepted"

\* The document as it is written: the lines that count, those of a section.
Counts(i) == ~read[i].comment
AtMargin(i) == Counts(i) /\ ~read[i].item /\ read[i].indent = 0
Latest(lines) == CHOOSE i \in lines : \A j \in lines : j <= i
Opener(i) ==
  LET before == {j \in 1 .. i - 1 : AtMargin(j)}
  IN  IF before = {} \/ read[Latest(before)].value # "" THEN ""
      ELSE read[Latest(before)].key
Within(s) == {i \in 1 .. Len(read) : Counts(i) /\ ~AtMargin(i) /\ Opener(i) = s}
Place(s, i) == Cardinality({j \in Within(s) : j <= i})

(***************************************************************************)
(* What Parse hands on is the document: a scalar has the value of the last *)
(* line at the margin that sets it, and a section holds the pairs written  *)
(* under its headings, in order and none twice.                            *)
(***************************************************************************)
ParsesAsWritten ==
  Accepted =>
    /\ \A k \in DOMAIN scalars :
         LET set == {i \in 1 .. Len(read) : AtMargin(i) /\ read[i].key = k /\ read[i].value # ""}
         IN  IF set = {} THEN scalars[k] = Header[role][k]
             ELSE \E i \in set : scalars[k] = read[i].value /\ \A j \in set : j <= i
    /\ \A i \in 1 .. Len(read) :
         AtMargin(i) /\ read[i].value # "" => read[i].key \in DOMAIN scalars
    /\ \A s \in Sections :
         /\ Len(sections[s]) = Cardinality(Within(s))
         /\ \A i \in Within(s) : sections[s][Place(s, i)] = <<read[i].key, read[i].value>>

(***************************************************************************)
(* No line of an accepted document has a forbidden text, not even a line   *)
(* whose value a later one replaces (validateNetworkPosture searches the   *)
(* raw lines).                                                             *)
(***************************************************************************)
BannedNowhere ==
  Accepted => \A i \in 1 .. Len(read) : Counts(i) => ~read[i].banned

(***************************************************************************)
(* Every user password written in an accepted document is a placeholder,   *)
(* under whichever of several users headings it stands.                    *)
(***************************************************************************)
UserPasswordsArePlaceholders ==
  Accepted =>
    \A i \in Within("users") : read[i].key = "password" => IsPlaceholder(read[i].value)

(***************************************************************************)
(* "real secrets are rejected": no credential field of an accepted document*)
(* is ever given anything but a placeholder (validate).  The code does not *)
(* have this property, a repeated key hides the earlier value, and no run  *)
(* checks it.                                                              *)
(***************************************************************************)
CredentialsArePlaceholders ==
  Accepted =>
    \A i \in 1 .. Len(read) :
      AtMargin(i) /\ read[i].key \in {"gateway-egress-password", "gateway-node-password"} =>
        IsPlaceholder(read[i].value)

\* The lines of the list item that line i belongs to.
ItemStart(i) == {j \in 1 .. i : read[j].item /\ \A k \in j + 1 .. i : ~read[k].item}
SameItem(i, j) == ItemStart(i) # {} /\ ItemStart(i) = ItemStart(j)
Pinned ==
  \A i, j \in Within("listeners") :
    read[i].key = "name" /\ SameItem(i, j) =>
      Fits(read[i].value, <<read[j].key, read[j].value>>)

(***************************************************************************)
(* "This prevents a config-only edit from ... moving a listener away from  *)
(* the release template": in an accepted document every list item under    *)
(* listeners has the fixed values of the listener it names.  The code does *)
(* not have this property for items that do not begin with their name, and *)
(* no run checks it; NamedListenersArePinned is what it does have.         *)
(***************************************************************************)
ListenersArePinned == Accepted => Pinned

(***************************************************************************)
(* If every item begins with its name, as the reviewed documents do, the   *)
(* fixed listeners are all there, once, each with its own fixed values     *)
(* (validateGatewayListeners).                                             *)
(***************************************************************************)
NamedListenersArePinned ==
  Accepted /\ Within("listeners") # {}
  /\ (\A i \in Within("listeners") : read[i].item = (read[i].key = "name")) =>
    /\ Pinned
    /\ \A n \in DOMAIN Listeners :
         \E i \in Within("listeners") :
           /\ read[i].key = "name" /\ read[i].value = n
           /\ \A j \in Within("listeners") : read[j].key = "name" /\ read[j].value = n => j = i

(***************************************************************************)
(* An accepted document is what was written and keeps the fixed posture.   *)
(***************************************************************************)
AcceptedIsAsWritten ==
  TypeOK /\ ParsesAsWritten /\ UserPasswordsArePlaceholders /\ NamedListenersArePinned
=============================================================================
