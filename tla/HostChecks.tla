----------------------------- MODULE HostChecks -----------------------------
(***************************************************************************)
(* What the Linux probe makes of the host's tables and what the host       *)
(* checks of preflight accept: the listener tables (procnet.go), the       *)
(* account database (passwd.go), the runtime directory and its disk space  *)
(* (probe_linux.go, preflight.go).                                         *)
(***************************************************************************)
EXTENDS Integers, Sequences

CONSTANTS MinFree,   \* minFreeBytes
          MaxWord,   \* the largest value of the unsigned word of a byte count
          MaxLines   \* maxPasswdLines

ASSUME WordAssumption == MaxWord \in Nat /\ MinFree \in 1 .. MaxWord

Account == "privateproxy"

\* The protocol and port pairs a role intends to bind.
roleReservations(role) ==
    CASE role = "gateway" -> {<<"tcp", 8443>>, <<"tcp", 18444>>, <<"tcp", 7890>>,
                              <<"tcp", 17894>>, <<"udp", 17894>>}
      [] role = "egress" -> {<<"udp", 443>>}
      [] OTHER -> {}

\* The tables in reading order; only those of IPv6 may be missing.
TableOrder == <<"tcp", "udp", "tcp6", "udp6">>

Tables == {"tcp", "udp", "tcp6", "udp6"}

Required == {"tcp", "udp"}

Protocol(table) == IF table \in {"tcp", "tcp6"} THEN "tcp" ELSE "udp"

\* One row: its local address is validated before its state is looked at, so a
\* row that cannot be read is an error whatever its state.
Malformed(row) == ~row.legible

Listens(row) == Protocol(row.table) = "udp" \/ row.listening

\* A table is refused whole as soon as one row is malformed.
parseProcNet(rows) ==
    [ok |-> \A row \in rows : ~Malformed(row),
     listeners |-> {row \in rows : Listens(row)}]

Conflicts(role, listeners) ==
    \E row \in listeners : <<Protocol(row.table), row.port>> \in roleReservations(role)

\* The account's only line, with two numeric identifiers (-1 is text that is
\* none); short lines and other accounts are passed over, and a line over the
\* width bound, or one line too many, spoils the whole database.
NoAccount == [ok |-> FALSE, uid |-> 0, gid |-> 0]

LinesOf(data, name) ==
    {k \in DOMAIN data : data[k].shape = "whole" /\ data[k].name = name}

IsOnly(data, name, k) ==
    /\ Len(data) <= MaxLines
    /\ \A j \in DOMAIN data : data[j].shape # "overlong"
    /\ LinesOf(data, name) = {k}
    /\ data[k].uid >= 0 /\ data[k].gid >= 0

parsePasswdUIDGID(data, name) ==
    IF \E k \in DOMAIN data : IsOnly(data, name, k)
    THEN LET line == data[CHOOSE k \in DOMAIN data : IsOnly(data, name, k)]
         IN  [ok |-> TRUE, uid |-> line.uid, gid |-> line.gid]
    ELSE NoAccount

\* Free blocks times block size, saturating where the word would overflow.
Bytes(volume) ==
    IF volume.blocks > MaxWord \div volume.size
    THEN MaxWord
    ELSE (volume.blocks * volume.size) % (MaxWord + 1)

EnoughSpace(volume) == volume.readable /\ Bytes(volume) >= MinFree

\* The directory is the account's own, closed to everybody else.
AcceptsIdentity(account, dir) ==
    /\ account.uid # 0 /\ account.gid # 0
    /\ dir.kind = "dir"
    /\ dir.mode = "0700"
    /\ dir.uid = account.uid /\ dir.gid = account.gid

\* A line of the role configuration that names a credential may only hold a
\* placeholder, one of the known words, or nothing.
isKnownSafe(value) == value \in {"true", "false", "userpass", "strict"}

Leaks(line) ==
    /\ line.names /\ line.colon
    /\ line.value \notin {"", "${PLACEHOLDER}"}
    /\ ~isKnownSafe(line.value)
=============================================================================
