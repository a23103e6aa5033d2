-------------------------- MODULE MCTrafficSampler --------------------------
(* Hosts and a calendar for small instances of TrafficSampler.             *)
EXTENDS TrafficSampler, TLC

\* No connection is sniffed.
Unsniffed == <<IpOnly, Unattributed>>

\* A connection is sniffed, late or at once, or never.
Sniffed == <<"a.example", IpOnly, Unattributed>>

\* One month as long as the bounded clock: the horizon expires nothing.
OneMonth == <<0, MaxClock + 1>>

\* Bound: one of these in a behaviour: a name is learnt, bytes pass outside of
\* an open connection, the engine restarts, the collector is killed or a request
\* fails of itself; and a restart of an engine without connections.  The fall
\* back around a restart, when nobody answers, is no fault and stays.
Named == \E c \in Conns : conns[c].host # IpOnly
Connected == \E c \in Conns : conns[c].began # -1
Unlisted == Connected /\ SumOf(totals) # SumOf([c \in Conns |-> conns[c].bytes])
OneUpset ==
  LET upset == <<Named, Unlisted, marker > 1, faults > 0>>
  IN  Cardinality({i \in 1 .. 4 : upset[i]}) <= 1
=============================================================================
