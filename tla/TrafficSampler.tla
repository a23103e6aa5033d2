--------------------------- MODULE TrafficSampler ---------------------------
(***************************************************************************)
(* The polling collector of deploy/traffic/traffic.py: collect(), with     *)
(* --domains and --epoch-file, and Store.record.                           *)
(*                                                                         *)
(* A sample is three reads of another process that may restart between     *)
(* them: the epoch marker, the cumulative totals and open connections, and *)
(* the marker again.  One SQLite transaction then bills the difference     *)
(* from the previous sample to the buckets the interval overlaps, once for *)
(* the gateway and once split by the hosts of the connections.  One        *)
(* direction is modelled: the other runs through the same arithmetic.      *)
(***************************************************************************)
EXTENDS AccountingTime, FiniteSetsExt

CONSTANTS
  Conns,         \* connections the engine may ever open
  HostOrder,     \* the hosts in the order of sorted(), Unattributed included
  Unattributed,  \* the host of bytes no connection accounts for
  IpOnly,        \* the host of a connection not yet sniffed
  Untracked,     \* bytes may pass that no listed connection counts
  Interval,      \* seconds between samples (2)
  MaxBytes,      \* bound: bytes relayed, over all starts
  MaxBoots,      \* bound: engine starts
  MaxFaults      \* bound: kills of the collector, and requests that fail
                 \* although the engine is up

Hosts == {HostOrder[i] : i \in 1 .. Len(HostOrder)}
Boots == 1 .. MaxBoots
SumOf(f) == MapThenSumSet(LAMBDA h : f[h], DOMAIN f)
Starts == {s \in Times : s % Bucket = 0}

ASSUME SamplerAssumption ==
  /\ Interval \in Nat \ {0} /\ MaxBytes \in Nat /\ MaxBoots \in Nat
  /\ MaxFaults \in Nat /\ Untracked \in BOOLEAN /\ IsFiniteSet(Conns)
  /\ HostOrder \in Seq(Hosts)
  /\ Unattributed \in Hosts /\ IpOnly \in Hosts \ {Unattributed}
  /\ \A i, j \in 1 .. Len(HostOrder) : HostOrder[i] = HostOrder[j] => i = j
  /\ \A t \in Times \ {0} : Cutoff(t) < t

VARIABLES
  now,           \* the clock
  engine,        \* "down" or "up"
  marker,        \* the epoch file: the number of the latest start, 0 for none
  totals,        \* [boot -> bytes it has relayed]
  conns,         \* [connection -> what the engine knows of it]
  collector,     \* the next step of a turn of collect()
  before,        \* the epoch read before the fetch
  reply,         \* the fetched total, and the connections or NoList
  cursor,        \* table cursor
  buckets,       \* table buckets
  domain_state,  \* table domain_state
  domain_cursor, \* table domain_cursor: [connection -> host and bytes]
  domain_buckets,\* table domain_buckets
  domain_sampling,\* table domain_sampling
  sampled,       \* history: [boot -> its total in the latest sample recorded]
  baseline,      \* history: the first sample's cursor
  fellBack,      \* history: a sample was recorded without its connections
  crossed,       \* history: bucket boundaries inside recorded intervals
  faults         \* history: faults so far

engineVars  == <<engine, marker, totals, conns>>
turnVars    == <<collector, before, reply>>
ledgerVars  == <<cursor, buckets, domain_state, domain_cursor, domain_buckets,
                 domain_sampling>>
historyVars == <<sampled, baseline, fellBack, crossed>>
vars == <<now, engineVars, turnVars, ledgerVars, historyVars, faults>>

Unopened  == [open |-> FALSE, host |-> IpOnly, began |-> -1, bytes |-> 0]
NoList    == [listed |-> FALSE, ids |-> {}, bytes |-> [c \in Conns |-> 0],
              host |-> [c \in Conns |-> IpOnly]]
NoReply   == [boot |-> 0, total |-> 0, list |-> NoList]
NoCursor  == [at |-> -1, total |-> 0, epoch |-> 0]
Unseen    == [seen |-> FALSE, host |-> IpOnly, bytes |-> 0]
EmptyRow  == [bytes |-> 0, observed |-> 0, estimated |-> 0, resets |-> 0]

TypeOK ==
  LET row    == [bytes: Nat, observed: Nat, estimated: Nat, resets: Nat]
      sample == [at: Times \cup {-1}, total: 0 .. MaxBytes, epoch: 0 .. MaxBoots]
  IN  /\ now \in Times
      /\ engine \in {"down", "up"}
      /\ marker \in 0 .. MaxBoots
      /\ totals \in [Boots -> 0 .. MaxBytes]
      /\ conns \in [Conns -> [open: BOOLEAN, host: Hosts, began: Times \cup {-1},
                              bytes: 0 .. MaxBytes]]
      /\ collector \in {"before", "fetch", "listing", "total", "after"}
      /\ before \in 0 .. MaxBoots
      /\ reply.boot \in 0 .. MaxBoots /\ reply.total \in 0 .. MaxBytes
      /\ reply.list.ids \subseteq Conns
      /\ cursor \in sample /\ domain_state \in sample
      /\ buckets \in [Starts -> row] /\ domain_sampling \in [Starts -> row]
      /\ domain_cursor \in [Conns -> [seen: BOOLEAN, host: Hosts, bytes: Nat]]
      /\ domain_buckets \in [Starts -> [Hosts -> Nat]]
      /\ sampled \in [Boots -> 0 .. MaxBytes] /\ baseline \in sample
      /\ fellBack \in BOOLEAN /\ crossed \in Nat /\ faults \in 0 .. MaxFaults

Init ==
  /\ now = 0
  /\ engine = "down" /\ marker = 0
  /\ totals = [b \in Boots |-> 0]
  /\ conns = [c \in Conns |-> Unopened]
  /\ collector = "before" /\ before = 0 /\ reply = NoReply
  /\ cursor = NoCursor /\ domain_state = NoCursor
  /\ buckets = [s \in Starts |-> EmptyRow]
  /\ domain_cursor = [c \in Conns |-> Unseen]
  /\ domain_buckets = [s \in Starts |-> [h \in Hosts |-> 0]]
  /\ domain_sampling = [s \in Starts |-> EmptyRow]
  /\ sampled = [b \in Boots |-> 0]
  /\ baseline = NoCursor /\ fellBack = FALSE /\ crossed = 0
  /\ faults = 0

-----------------------------------------------------------------------------
\* The engine.  run_mihomo.py publishes a fresh marker, then becomes the
\* engine; its counters start from zero.
Start ==
  /\ engine = "down" /\ marker < MaxBoots
  /\ engine' = "up" /\ marker' = marker + 1
  /\ UNCHANGED <<now, totals, conns, turnVars, ledgerVars, historyVars, faults>>

Die ==
  /\ engine = "up" /\ engine' = "down"
  /\ conns' = [c \in Conns |-> [conns[c] EXCEPT !.open = FALSE]]
  /\ UNCHANGED <<now, marker, totals, turnVars, ledgerVars, historyVars, faults>>

Open(c, h) ==
  /\ engine = "up" /\ conns[c].began = -1
  /\ conns' = [conns EXCEPT ![c] = [open |-> TRUE, host |-> h,
                                      began |-> Unix(now), bytes |-> 0]]
  /\ UNCHANGED <<now, engine, marker, totals, turnVars, ledgerVars, historyVars, faults>>

\* The name a connection opened by address turns out to be for.
Sniff(c, h) ==
  /\ conns[c].open /\ conns[c].host = IpOnly /\ h # IpOnly
  /\ conns' = [conns EXCEPT ![c].host = h]
  /\ UNCHANGED <<now, engine, marker, totals, turnVars, ledgerVars, historyVars, faults>>

\* A byte passes through nested trackers: the engine counts it once, each of
\* their connections counts it too.  The trackers may be closed already.
Relay(nest) ==
  /\ engine = "up" /\ SumOf(totals) < MaxBytes
  /\ Untracked \/ nest # {}
  /\ \A c \in nest : conns[c].open
  /\ totals' = [totals EXCEPT ![marker] = @ + 1]
  /\ conns' = [c \in Conns |-> IF c \in nest
                               THEN [conns[c] EXCEPT !.bytes = @ + 1]
                               ELSE conns[c]]
  /\ UNCHANGED <<now, engine, marker, turnVars, ledgerVars, historyVars, faults>>

Close(c) ==
  /\ conns[c].open
  /\ conns' = [conns EXCEPT ![c].open = FALSE]
  /\ UNCHANGED <<now, engine, marker, totals, turnVars, ledgerVars, historyVars, faults>>

-----------------------------------------------------------------------------
\* A turn of collect().
CanFail == faults < MaxFaults
Fault == faults' = faults + 1

\* The process is killed and started again: only the database is left.
CollectorKill ==
  /\ collector # "before" /\ CanFail /\ Fault
  /\ collector' = "before" /\ before' = 0 /\ reply' = NoReply
  /\ UNCHANGED <<now, engineVars, ledgerVars, historyVars>>

ReadBefore ==
  /\ collector = "before" /\ marker # 0
  /\ before' = marker /\ collector' = "fetch"
  /\ UNCHANGED <<now, engineVars, reply, ledgerVars, historyVars, faults>>

\* fetch_connections: the engine lists its connections and reads its total ...
FetchBegin ==
  /\ collector = "fetch" /\ engine = "up"
  /\ reply' = [boot |-> marker, total |-> totals[marker],
               list |-> [NoList EXCEPT !.listed = TRUE,
                                       !.ids = {c \in Conns : conns[c].open}]]
  /\ collector' = "listing"
  /\ UNCHANGED <<now, engineVars, before, ledgerVars, historyVars, faults>>

\* ... and reads each connection's counter as it encodes the reply.
FetchEnd ==
  /\ collector = "listing" /\ engine = "up" /\ marker = reply.boot
  /\ reply' = [reply EXCEPT
                 !.boot = 0,
                 !.list.bytes = [c \in Conns |-> IF c \in reply.list.ids
                                                 THEN conns[c].bytes ELSE 0],
                 !.list.host = [c \in Conns |-> IF c \in reply.list.ids
                                                THEN conns[c].host ELSE IpOnly]]
  /\ collector' = "after"
  /\ UNCHANGED <<now, engineVars, before, ledgerVars, historyVars, faults>>

\* The engine is gone, the reply is late, too large or not valid: collect falls
\* back to fetch(), the total alone.
FetchFails ==
  /\ collector \in {"fetch", "listing"}
  /\ \/ engine = "down" /\ UNCHANGED faults
     \/ collector = "listing" /\ marker # reply.boot /\ UNCHANGED faults
     \/ CanFail /\ Fault
  /\ collector' = "total" /\ reply' = NoReply
  /\ UNCHANGED <<now, engineVars, before, ledgerVars, historyVars>>

FetchTotal ==
  /\ collector = "total" /\ engine = "up"
  /\ reply' = [NoReply EXCEPT !.total = totals[marker]]
  /\ collector' = "after"
  /\ UNCHANGED <<now, engineVars, before, ledgerVars, historyVars, faults>>

\* Mutant: the marker is not read again.
SameSourceAlways == TRUE

SameSource == marker = before

-----------------------------------------------------------------------------
\* Store.record.  A span is the interval from the previous sample, with the
\* part of it older than the retention horizon cut away.
Span(prev, at) ==
  [old |-> prev.at, at |-> at,
   from |-> IF prev.at > Cutoff(at) THEN prev.at ELSE Cutoff(at)]

Overlapped(span) == {s \in Starts : s + Bucket > span.from /\ s < span.at}
Left(span, s)  == IF s > span.from THEN s ELSE span.from
\* Mutant: the last bucket is covered to its end.
RightWhole(span, s) == s + Bucket

Right(span, s) == IF s + Bucket < span.at THEN s + Bucket ELSE span.at

\* The part of x that falls into bucket s, by cumulative integer division.
Share(x, span, s) ==
  LET upTo(t) == (x * (t - span.old)) \div (span.at - span.old)
  IN  upTo(Right(span, s)) - upTo(Left(span, s))

\* Mutant: only a counter that goes back is a restart.
IsResetByCounter(prev) == reply.total < prev.total

IsReset(prev) == before # prev.epoch \/ reply.total < prev.total

Delta(prev) == IF IsReset(prev) THEN reply.total ELSE reply.total - prev.total
Estimated(prev, at) == IsReset(prev) \/ at - prev.at > 2 * Interval

\* A table of buckets after x bytes and the seconds of the span are added.
Added(table, prev, at, x) ==
  LET span == Span(prev, at)
      row(s) ==
        LET seconds == Right(span, s) - Left(span, s)
            old == table[s]
        IN  [bytes     |-> old.bytes + Share(x, span, s),
             observed  |-> old.observed + (IF Estimated(prev, at) THEN 0 ELSE seconds),
             estimated |-> old.estimated + (IF Estimated(prev, at) THEN seconds ELSE 0),
             resets    |-> old.resets + (IF IsReset(prev) /\ Left(span, s) = span.from
                                         THEN 1 ELSE 0)]
  IN  [s \in Starts |-> IF s \in Overlapped(span) THEN row(s) ELSE table[s]]

-----------------------------------------------------------------------------
\* Store._record_domains.
Rank(h) == CHOOSE i \in 1 .. Len(HostOrder) : HostOrder[i] = h
Preceding(u, h) == SumOf([g \in {g \in Hosts : Rank(g) < Rank(h)} |-> u[g]])

\* x shared out in proportion to u, whose sum is whole.
Spread(x, u, whole) ==
  [h \in Hosts |-> (x * (Preceding(u, h) + u[h])) \div whole
                     - (x * Preceding(u, h)) \div whole]

\* Mutant: a connection is billed its lifetime in every sample.
BillableLifetime(c, at) == reply.list.bytes[c]

\* What connection c passed since the previous snapshot.  One that is older than
\* that snapshot and was not in it is not billed its old lifetime.
Billable(c, at) ==
  LET old == domain_cursor[c]
      list == reply.list
  IN  IF old.seen /\ old.host = list.host[c] /\ list.bytes[c] >= old.bytes
      THEN list.bytes[c] - old.bytes
      ELSE IF ~old.seen /\ domain_state.at <= conns[c].began /\ conns[c].began <= at
      THEN list.bytes[c]
      ELSE 0

Used(at) ==
  [h \in Hosts |->
     IF IsReset(domain_state) THEN 0
     ELSE SumOf([c \in {c \in reply.list.ids : reply.list.host[c] = h}
                   |-> Billable(c, at)])]

\* Mutant: the hosts are not capped to the gateway's bytes.
CappedNever(used, budget) == used

Capped(used, budget) ==
  IF SumOf(used) > budget THEN Spread(budget, used, SumOf(used)) ELSE used

Clipped(used, budget) ==
  IF SumOf(used) > budget THEN SumOf(used) - budget ELSE 0

Attributed(used, budget) ==
  LET capped == Capped(used, budget)
  IN  [capped EXCEPT ![Unattributed] = budget - SumOf(capped)]

DomainAdded(at, budget) ==
  LET span  == Span(domain_state, at)
      usage == Attributed(Used(at), budget)
      part(s) == IF budget = 0 THEN [h \in Hosts |-> 0]
                 ELSE Spread(Share(budget, span, s), usage, budget)
  IN  [s \in Starts |-> [h \in Hosts |->
         domain_buckets[s][h] + (IF s \in Overlapped(span) THEN part(s)[h] ELSE 0)]]

Pruned(table, empty, t) ==
  [s \in Starts |-> IF s < Cutoff(t) THEN empty ELSE table[s]]

\* The cursor of a connection outlives its table only with the domain state.
PrunedCursor(connections, state, t) ==
  IF state.at # -1 /\ state.at < Cutoff(t)
  THEN [c \in Conns |-> Unseen] ELSE connections

NoUsage == [h \in Hosts |-> 0]
Sample(at) == [at |-> at, total |-> reply.total, epoch |-> before]
Snapshot == [c \in Conns |-> IF c \in reply.list.ids
                             THEN [seen |-> TRUE, host |-> reply.list.host[c],
                                   bytes |-> reply.list.bytes[c]]
                             ELSE Unseen]

\* The domain half: a first snapshot is a baseline.
RecordDomains(at) ==
  LET budget == Delta(domain_state)
      first  == domain_state.at = -1
  IN  IF reply.list.listed /\ domain_state.at < at
      THEN /\ domain_state' = Sample(at)
           /\ domain_cursor' = PrunedCursor(Snapshot, Sample(at), at)
           /\ domain_buckets' = Pruned(IF first THEN domain_buckets
                                       ELSE DomainAdded(at, budget), NoUsage, at)
           /\ domain_sampling' =
                Pruned(IF first THEN domain_sampling
                       ELSE Added(domain_sampling, domain_state, at,
                                  Clipped(Used(at), budget)), EmptyRow, at)
           /\ crossed' = IF first THEN crossed
                         ELSE crossed + Cardinality(Overlapped(Span(domain_state, at))) - 1
      ELSE /\ domain_cursor' = PrunedCursor(domain_cursor, domain_state, at)
           /\ domain_buckets' = Pruned(domain_buckets, NoUsage, at)
           /\ domain_sampling' = Pruned(domain_sampling, EmptyRow, at)
           /\ UNCHANGED <<domain_state, crossed>>

\* A turn ends by pruning, whatever became of its sample.  A process that waits
\* for the next turn is one that is about to read the marker.
EndTurn == collector' = "before" /\ before' = 0 /\ reply' = NoReply

PruneAlone ==
  /\ buckets' = Pruned(buckets, EmptyRow, Unix(now))
  /\ domain_buckets' = Pruned(domain_buckets, NoUsage, Unix(now))
  /\ domain_sampling' = Pruned(domain_sampling, EmptyRow, Unix(now))
  /\ domain_cursor' = PrunedCursor(domain_cursor, domain_state, Unix(now))
  /\ UNCHANGED <<cursor, domain_state, historyVars>>

\* The marker is read again, then the clock; the transaction prunes itself.
Record ==
  LET at == Unix(now)
  IN  /\ collector = "after" /\ SameSource /\ cursor.at < at
      /\ buckets' = Pruned(IF cursor = NoCursor THEN buckets
                           ELSE Added(buckets, cursor, at, Delta(cursor)), EmptyRow, at)
      /\ RecordDomains(at)
      /\ cursor' = Sample(at)
      /\ sampled' = [sampled EXCEPT ![before] = reply.total]
      /\ baseline' = IF cursor = NoCursor THEN Sample(at) ELSE baseline
      /\ fellBack' = (fellBack \/ ~reply.list.listed)
      /\ EndTurn
      /\ UNCHANGED <<now, engineVars, faults>>

ClockNotAdvanced ==
  /\ collector = "after" /\ SameSource /\ Unix(now) <= cursor.at
  /\ PruneAlone /\ EndTurn
  /\ UNCHANGED <<now, engineVars, faults>>

\* sample_failed: no marker, no answer, or a restart during the sample.
SampleFails ==
  /\ \/ collector = "before" /\ marker = 0 /\ UNCHANGED faults
     \/ collector = "total" /\ engine = "down" /\ UNCHANGED faults
     \/ collector = "total" /\ CanFail /\ Fault
     \/ collector = "after" /\ ~SameSource /\ UNCHANGED faults
  /\ PruneAlone /\ EndTurn
  /\ UNCHANGED <<now, engineVars>>

-----------------------------------------------------------------------------
Tick ==
  /\ now < MaxClock /\ now' = now + 1
  /\ UNCHANGED <<engineVars, turnVars, ledgerVars, historyVars, faults>>

EngineNext ==
  \/ Start \/ Die
  \/ \E c \in Conns, h \in Hosts \ {Unattributed} : Open(c, h) \/ Sniff(c, h)
  \/ \E nest \in SUBSET Conns : Relay(nest)
  \/ \E c \in Conns : Close(c)

CollectorNext ==
  \/ CollectorKill
  \/ ReadBefore \/ FetchBegin \/ FetchEnd \/ FetchFails \/ FetchTotal
  \/ Record \/ ClockNotAdvanced \/ SampleFails

Next == EngineNext \/ CollectorNext \/ Tick
Spec == Init /\ [][Next]_vars

-----------------------------------------------------------------------------
Column(table, field) == SumOf([s \in Starts |-> table[s][field]])
HostTotal(h) == SumOf([s \in Starts |-> domain_buckets[s][h]])
DomainTotal(s) == SumOf(domain_buckets[s])

\* The buckets hold exactly what the samples saw: of every engine start the
\* total in the last sample recorded of it, less what the first sample found.
\* Neither a split over bucket boundaries, a restart, a failed sample nor a
\* killed collector bills a byte twice or drops one that was sampled.
BilledIsSampled ==
  cursor # NoCursor =>
    Column(buckets, "bytes") = SumOf(sampled) - baseline.total

\* A cursor never holds a total of another engine start than its epoch says: a
\* restart between the two reads of the marker must not be billed as a
\* continuation.
CursorIsOfItsEpoch ==
  \A state \in {cursor, domain_state} :
    state.epoch # 0 => state.total <= totals[state.epoch]

\* Every second between the first and the latest sample is covered once, either
\* as observed or as estimated, in the bucket it belongs to; likewise for the
\* snapshots of connections.
CoveredOnce(table, first, last) ==
  \A s \in Starts :
    table[s].observed + table[s].estimated
      = Cardinality({t \in Times : first <= t /\ t < last /\ BucketStart(t) = s})
SecondsOnce ==
  /\ CoveredOnce(buckets, baseline.at, cursor.at)
  /\ ~fellBack => CoveredOnce(domain_sampling, baseline.at, domain_state.at)

\* While every sample has its connections, the hosts of a bucket add up to
\* the gateway's bytes of that bucket ("Boundary allocation conserves total
\* integer bytes per 15-minute bucket", docs/traffic-accounting.md).  Over all
\* buckets the hosts never exceed the gateway, whatever failed, and no host is
\* ever given a negative part.
DomainsWithinGateway ==
  LET hosts == [s \in Starts |-> DomainTotal(s)]
  IN  /\ \A s \in Starts, h \in Hosts : domain_buckets[s][h] >= 0
      /\ ~fellBack => \A s \in Starts : hosts[s] = buckets[s].bytes
      /\ SumOf(hosts) <= Column(buckets, "bytes")

\* A host is billed no more than its connections passed, but for one byte of
\* rounding at a bucket boundary; all named hosts together no more than all
\* connections passed.
DomainBilledWithinUsage ==
  LET passed(S) == SumOf([c \in S |-> conns[c].bytes])
      billed == [h \in Hosts \ {Unattributed} |-> HostTotal(h)]
  IN  /\ \A h \in Hosts \ {Unattributed, IpOnly} :
           billed[h] <= passed({c \in Conns : conns[c].host = h}) + crossed
      /\ SumOf(billed) <= passed(Conns) + crossed

\* The bytes of the hosts are bounded from both sides: by the gateway's total
\* and by what their connections passed.
DomainsAreBounded == DomainsWithinGateway /\ DomainBilledWithinUsage

\* docs/traffic-accounting.md: "Reports expose clipped byte counts rather than
\* allowing domain totals to exceed the sampled global total", for the bytes of
\* one bucket, as a report over that bucket shows them.
BucketDomainsWithinTotal ==
  \A s \in Starts : DomainTotal(s) <= buckets[s].bytes
=============================================================================
