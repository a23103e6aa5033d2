# TLA+ models of proxyctl

proxyctl renders, checks and operates a pair of proxy gateways. What has to be
right in it, and what a unit test reaches little of: the accounting of traffic,
which crosses two processes and a directory; the publication of rendered
bundles, which several invocations may race for; the render that leads to it,
which handles secrets on a host that changes under it; preflight, whose report
has to be true of such a host; and the text stages between them, which must not
be confused by what they are given. This directory holds their specifications, the TLC
configurations that check small instances, and TLAPS proofs of the safety
properties that matter most.

Every definition is translated from the source. `PROJECT.json` maps each one to
the lines it stands for, lists what can go wrong in this code (hazards) with
the properties that would catch it, and names the runs, the mutants that show
each property can fail, and the theorems.

    tlc -workers 2 -config pipeline_crash.cfg MCAccountingPipeline.tla
    tlapm AccountingPipelineProofs.tla

## 1. Inventory

| component | state | operations | interacts with | hard because |
|---|---|---|---|---|
| engine domain journal (`engine/mihomo/overlay/.../domain_accounting.go`, `accounting.patch`) | rows in memory, epoch, sequence, interval, unclean flag; files of the spool | start, add (every relayed payload), flush every 2 s, stop, exit on error | relay goroutines call `add` under a mutex; batches go to the spool directory | any of seven system calls of a flush can fail or be cut by a crash; a sample is dated before the mutex is taken; a stop does not stop relays |
| spool directory | `<epoch>-<seq>.json`, `.batch.tmp`, `.running`, `.writer.lock` | create, rename, unlink, fsync, list | written by the engine, listed and emptied by the collector | names are visible before they are durable; an unlink is undone by a power loss; a listing is not a snapshot |
| engine importer (`deploy/traffic/traffic.py`: `collect_engine`, `drain_engine`, `validate_batch`, `Store.import_batch`, `Store.prune`) | SQLite: buckets, domain_buckets, domain_sampling, kernel_epochs, accounting_meta, cursor, domain_state | list, validate all, import in order (one transaction each), unlink, fsync, prune | reads the spool; reports read the database | commit and unlink are two steps; replays; gaps; retention prunes in two places |
| polling collector (`traffic.py`: `collect`, `Store.record`, `_record_domains`, `process_epoch`) | the same database, domain_cursor | sample the controller, attribute deltas to buckets and domains | polls the engine's HTTP controller; epoch marker written by `run_mihomo.py` | engine restarts between the two readings of one sample; counters that reset; integer division over buckets |
| reports and health (`traffic.py`: `report`, `domain_report`, `healthy`) | none | read one snapshot of the database | the database | labels ("complete", "kernel-byte-counters") make claims about history |
| render write transaction (`internal/render/writer.go`, `writer_linux.go`) | output directory, private staging directory, lists of staged and published names | inspect, stage, fsync, publish without replacing, fsync, clean up, roll back | concurrent invocations, crashes | all-or-nothing over several files with `linkat`; residue after every failing call; which error outranks which |
| render pipeline (`internal/render/render.go`, `loader.go`, `schema.go`, `substitute.go`, `yaml_scalar.go`) | in-memory bundle | validate, load credentials, substitute, transact, zero | credential loader, write transaction | order of checks; zeroing on every exit; a template read at three moments; values put into a text that is searched again |
| credential loader (`internal/credential`) | open descriptors, secret buffers | open directory, read each file by descriptor, close, zero | a credential directory the operator may rotate | consistency of a set of files read one by one; system calls that fail between them |
| configuration validation (`internal/config`) | scalars, sections, the section being read, the banned flag | read a line, validate | render, preflight, verify | sections reopened, keys repeated, items whose fields come in any order |
| preflight (`internal/preflight`) | the list of verdicts | one check after the other: architecture, credentials, disk, account, ports, DNS, certificates | host, DNS and certificate probes of the caller | every fact is read once, at its own moment, from a host that goes on; probes are missing, fail or answer something else |
| launchers (`deploy/compose/*.py`, `compose.yaml`, systemd units) | epoch marker, routing policy, child processes | start, supervise, clean up | every container | supervision order at shutdown |
| IKEv2/Hysteria renderers (`deploy/ikev2`, `deploy/hysteria-gateway`) | generated files, nftables and ip rules | render, load, configure policy | strongSwan, nftables | replacement of a live directory; forwarding while the policy is being replaced |
| command line, status, verify (`cmd/proxyctl`, `internal/status`, `internal/verify`, `internal/safex`) | none | dispatch; redact every error text | all of `internal` | sequential and read-only, but a redaction that rewrites a text must find what it hides from itself |
| release and build tools (`scripts/release`, `engine/mihomo/build.py`, `tools/`) | archives | offline | none | none at run time |

What makes each correct:

* **Journal, spool and importer together.** A payload that passed is counted
  once, or a later report can tell that something was lost; nothing is counted
  twice whatever crashes; the checkpoint says exactly what was imported; the
  spool never becomes impossible to drain; retention deletes only what left
  the window.
* **Polling collector.** The bytes of a domain never exceed the gateway's; a
  restarted engine's counter is never subtracted from the old one's; gaps are
  labelled.
* **Write transaction.** Two renders never mix their files; a visible file is
  whole; success is durable; existing files are never replaced; an error says
  whether anything was left behind.
* **Render pipeline, loader.** Nothing is published unless everything was
  validated and loaded; secrets are zeroed on every exit; all files come from
  one directory, of the length that was inspected; what is rendered is the
  pinned template, for its own role.
* **Text stages.** A document is understood as it is written; a value is put
  in once and read back as it was; a redacted text holds no secret and stays
  what it is when it is redacted again.
* **Preflight.** A check passes only if it is true, and never for lack of
  evidence; an offline run asks nobody.
* **Launchers and policy.** A child's death takes the group down; no traffic is
  forwarded outside the policy while the policy is being replaced.

## 2. Plan

Done, in this order:

1. `AccountingTime`, `AccountingSpool`, `DomainJournal`, `EngineImport`,
   composed in `AccountingPipeline`; the abstract `AccountingPromise` and the
   refinement.
2. `WriteTransaction`.
3. `AccountingPipelineProofs`, with the step simulation of `AccountingPromise`
   in its second part; `WriteTransactionProofs`.
4. `TrafficSampler`: the polling collector against an engine that restarts, with
   the epoch marker; `TrafficSamplerProofs`.
5. `CredentialNames`, `BundlePromise`, `CredentialLoad`: the loader and the
   promise it keeps; `CredentialLoadProofs`.
6. `RenderRun`, built on that promise; `RenderRunProofs`.
7. `ConfigDocument`, `TextPasses`, `Substitution`, `Redaction`: the text stages;
   `ConfigDocumentProofs`.
8. `HostChecks`, `EvidenceChecks`, `Preflight`; `PreflightProofs`.
9. `TextStagesProofs`: `Substitution` and `Redaction` for texts of any length.

Possible next:

10. The polling collector where the horizon does expire rows: no byte is billed
    twice (`EveryByteIsBilledOnce` assumes that nothing expires).
11. `ShutdownPolicy`: `configure_policy.py`, `run_policy.py` and
    `run_strongswan.py` at start, restart and stop.
12. `UsageReport`: `report`, `domain_report` and `healthy` as operators over
    the two database models.

## 3. Modules

### Accounting

`AccountingTime` has the wall clock (ticks finer than seconds), 15 minute
buckets and `Cutoff`, the calendar arithmetic of `cutoff()` with the clamp of
the day and the time of day kept.

`AccountingSpool` has the directory. `spool` is what both processes list,
`synced` what it held at its last fsync; a host crash keeps what is in both and
any part of the rest, and tears a file whose bytes were not fsynced. Bytes are
*units*, one per payload increment a tracker reports; a sum is the set of units
it is made of, so that "twice" and "never" are visible. `row[u]` is the
(bucket, domain) row `add` put the unit in; a batch refers to it.

`DomainJournal` has one action per step of the engine: `StartMark`, `StartSync`
(marker file, its fsync), `Pass` (the tracker moves a payload and reads the
clock), `Add` (the mutex), `FlushRefuse`, `FlushWrite`, `FlushRename`,
`FlushSync`, `FlushError`, `Stop`, `Exit`, `EngineKill`. A flush holds the
mutex, so `Add` waits for `flush = "idle"`, but `Pass` does not. `FlushWrite`
merges the checks with the write and fsync of `.batch.tmp`, which nobody else
sees. What an error of `flush` means depends on its caller, and is
`FlushAbandoned`: the start fails, the ticker exits the process, the stop
prints a message.

`EngineImport` has one action per step of the collector: `ScanBegin` and
`ScanEnd` (the listing is not a snapshot), `Import`, `ImportRefused`, `Unlink`,
`DrainEnd`, `DrainError`, `CollectorKill`. The guards of `import_batch` are
`Duplicate`, `Conflict`, `Gap` and `Overlap`; its transaction is
`ImportTransaction`. `counted[u]` stands for both bucket tables, which one
transaction updates with the same rows; the digest of a batch is the batch;
`domain_state` repeats `cursor` and is not kept twice; `domain_cursor` belongs
to the polling collector.

`AccountingPipeline` composes the two with `HostCrash` and a clock that may
step back, and states the properties. `AccountingPromise` is what it all
promises, with no files and no processes: each unit is unseen, volatile,
durable, counted or lost; durable is never lost; the total grows by what
becomes counted. `KeepsThePromise` is the refinement.

### Polling collector

`TrafficSampler` has the collector that samples the engine's controller instead
of importing its journal. The engine is external: `Start` publishes the epoch
marker as `run_mihomo.py` does and counts from zero, connections open, are
sniffed, close, and `Relay` counts a byte once in the total and once in each
tracker it passes. A turn of `collect` is `ReadBefore`, `FetchBegin` (the list
and the total), `FetchEnd` (the counters of the listed connections, read while
the reply is encoded), or `FetchFails` and `FetchTotal`, and then one of
`Record`, `ClockNotAdvanced` and `SampleFails`. `Record` contains the second
read of the marker and of the clock: between those reads and the commit nothing
the collector uses can change. It contains `_record_domains` and `prune`, which
share its transaction, and stands for the prune at the end of the turn too, which
any later turn repeats with a later clock. The wait between turns is left out, so a
turn may follow at any time. One direction of traffic is modelled; upload and
download go through the same arithmetic, and a restart found by either resets
both. `buckets` and `domain_sampling` have the same columns, `bytes` being the
clipped bytes in the latter. `sampled`, `baseline`, `fellBack` and `crossed`
only record history for the properties.

### Write transaction

`WriteTransaction` runs any number of renders (`Writers`) through
`writeTransactionWithBackend`, one action per system call that another render
or a crash can come between. `final`/`finalSynced` and `staging`/`stagingSynced`
are the output directory as visible and as on disk; `links[w]` is the content of
a staging directory; `staged` and `published` are the two lists the code keeps,
which are not the same thing as what exists, and that difference is what
`rollback` can get wrong. Existence checks of the final names are one step
(names only appear while renders run); the write, fsync and close of a staged
file are one step (private); `Rollback` is one step with the set of removals
that failed.

### Credentials and render

`CredentialNames` has the two roles and the names `load` reads for each, in its
order. `BundlePromise` is what a render may rely on: one answer, which is a
bundle with all required names and nothing outside the role's allowlist, or an
error, after which some asset bytes may be left in memory.

`CredentialLoad` is one load (`loader.go`, `source.go`, `fd_linux_impl.go`).
Every system call is a step: `ResolveUnitDir`, `OpenRoot`, `OpenUnit`,
`CheckDuplicates` (the listing), and for each name `Inspect` (openat, fstat) and
`ReadFull`, or `SkipOptional`. Between any two of them `Fault` may fail a call
and `Operate` may change the host: rename another tree or directory into place,
replace a file, rewrite it in place. A rewrite cuts a file, lengthens it by a
byte or overwrites one byte; a longer write is several of them, and one that
falls between two read(2) calls of `ReadFull` is as if it came before or after,
since nothing is said of the bytes it touches. An overwrite after the fstat is
taken as it is, and nobody notices: the code guards the length
(`fd_linux_impl.go:158-163`) and promises no more, so `ReadAsInspected` says that
the bundle has the inspected length and differs from the inspected bytes only
where somebody wrote since (`written`). The listing of a directory is fixed per
directory: `Replace` changes what a name leads to, not which names are listed.
`Source` is the directory behind the held
descriptor, which is what makes `OneDirectory` true; `history` keeps the versions
a name has had so that an opened file stays the opened one. Bytes are classes
(old, new, line feed, control character). `Returned` maps an outcome to an
answer of `BundlePromise`; `KeepsPromise` is the refinement. The unit path has
one component below the root.

`RenderRun` is `Run` of `render.go` from its options to its deferred cleanups.
The production loader is `BundlePromise` itself, so the composition of loader
and render is the composition of two refinements; an injected loader (the
`Loader` interface is exported) may answer with a nil bundle, another role's
bundle, or any list of materials (`Offers`). `live` is the set of buffers that
hold secret bytes, `deferred` the cleanups that were registered; `Return` runs
them. The template is looked at in three steps (`InspectTemplate`,
`ReadTemplate`, `CheckConfined`) between which `Swap` may change what its paths
name. `text` is the content that was read, which is of one of the two roles or
other; what `Publish` puts under the config's name is that content if the
rendered buffer is still what it was, and `RendersPinnedTemplate` compares it
with the role. `Publish` is the write transaction with its three outcomes, which
`WriteTransaction` models in detail.

### Text stages

`ConfigDocument` is the automaton of `Parse`, one action per line (`ReadLine`)
and `Validate` at the end. A line is what `splitKV` and its indentation make of
it: indentation, list item, key, value, banned word, comment. `read` keeps the
lines for the properties, which say which lines a section consists of
(`Within`, by the last heading before each) and where in it each stands
(`Place`).

`TextPasses` is what both stages below have in common: a pass over a text writes
something at the place it has reached and goes on at a later one (`Step`,
`Rewrite`). It is where all recursion over texts happens, by one recursive
function (`Written`).

`Substitution` is `validateTemplate`, `substituteConfig`,
`substituteCredentials` and `quoteYAML` over texts of characters that matter to
them: dollar, braces, quote, backslash, names of one letter per kind of
placeholder. One action per name, as each replacement (`ReplaceAll`) searches
the result of the one before. `Escaped` is what quoting does, and `ReadBack`
reads the result as a YAML reader would.

`Redaction` is `Redact` of `safex/errors.go`, one action per pass and per round
of the URL pass (`redactURLCredsOnce` until a round changes nothing, then
`redactHeaderAuth` and `redactAssignments`), called a second time on its own
result (`Again`).

### Preflight

`HostChecks` has what the Linux probe makes of the host's tables and what the
host checks accept (`procnet.go`, `passwd.go`, `probe_linux.go`);
`EvidenceChecks` the targets and what is accepted as DNS and certificate
evidence (`netprobe.go`). `Preflight` is one run: one action per probe call and
file access, in the order of the code, on a host that changes (`Change`) and a
clock that runs (`Tick`). The lstat and the read of a file are two steps, and
the read follows whatever the path has become. A `NetProbe` may answer an error
or the facts of any target, and may be absent in both ways an interface can be.
`steady` is the set of sockets that were open ever since the scan began, `past`
the states its files have gone through: a verdict about files is compared with
moments of `past`, in the order in which the code looked, never with the
variables the code decided on.

An assumption of this module: the text of one `/proc/net` table is a snapshot.
`os.ReadFile` loops over read(2), and between two of these calls the kernel may
move a row, so that one that was there all the time is skipped;
`SteadyListenerIsSeen` is about changes between the tables, not about that. The
files that are read (account database, configuration) are one step likewise.

## 4. Runs

An MC module gives each component its instance: `MCAccountingPipeline`
calendars, `MCTrafficSampler` hosts and a calendar, `MCWriteTransaction`
requests and leftovers, `MCCredentialLoad` directories, `MCRenderRun` offers,
`MCTextStages` lines, templates, values and texts, `MCPreflight` hosts and
evidence. Every bound is a CONSTANT.

| run | instance | shows |
|---|---|---|
| `pipeline_crash` | 1 unit, 2 epochs, 2 batches each, no future slack; two faults of any kind while the clock stands still, one once it has moved, or its backward step alone (`TwoUpsets`) | `ExactlyOnce`, `TotalIsImported`, `CheckpointSeparates`, `LossIsReported`, `UnlinkFollowsCommit` |
| `pipeline_history` | 1 unit, 2 epochs, 3 ticks of 1-second buckets, months of one length, 2 retained | `ObservationIsSound`, `RetainedIsCounted` |
| `pipeline_month_end` | a month of one day before months of two | `RetainedIsCounted` fails: see findings |
| `pipeline_drain` | spool and drain limits of 3, one fault, fair collector | `SpoolWithinDrainLimit`, `EveryBatchIsAcknowledged`, and `KeepsThePromise`, the refinement of `AccountingPromise` |
| `journal_batches` | 3 host names, 3 units, row limit 1 | `BatchesAreImportable`: what the engine writes is what `validate_batch` accepts |
| `sampler_restart` | 1 connection, 2 bytes, clock 0..3, 2-second buckets; a host learnt late, bytes outside a listed connection, a second engine start, or 1 fault (`OneUpset`) | `BilledIsSampled`, `CursorIsOfItsEpoch`, `SecondsOnce`, `DomainsAreBounded` |
| `sampler_fallback` | the same without names, with a second start and 1 fault | `BucketDomainsWithinTotal` fails: see findings |
| `writer_crash` | 2 gateway renders (one with the optional client certificate), 2 failing calls or kills, 2 host crashes, four kinds of leftovers, fair renders | `NoMixedBundle`, `PublishedIsWhole`, `CommittedIsDurable`, `ResidueIsReported`, `NeverReplaced`, `OneRenderCommits` |
| `credential_load` | both roles, 2 trees and 2 directories, one of them good or odd in one of about fifty ways; 2 changes by an operator, 1 failing call | `OneDirectory`, `OutcomeIsRight`, `ReadAsInspected`, and `KeepsPromise`, the refinement of `BundlePromise` |
| `render_run` | both roles, every answer of the promise, 28 injected offers, one swap of the template | `WipedOnReturn`, `OutputIsWhole`, `OwnMaterialOnly`, `RendersPinnedTemplate` |
| `text_stages` | documents of up to six lines, templates of up to three pieces with some fifty inputs, error texts of up to five pieces | `BannedNowhere`, `AcceptedIsAsWritten`, `SubstitutionIsExact`, `RedactionSettles` |
| `preflight` | families of hosts around a good one: sockets (two open, two changes), files, accounts and volumes (one change), the evidence of two targets at a time over two ticks | `ReportIsTrue`, `HostVerdictsAreTrue`, `ProbesOnlyWhenAllowed`, `SteadyListenerIsSeen` |

Why these bounds are enough to be interesting: one unit shows a double count or
a loss, since units do not interact except by sharing a batch, which
`journal_batches` (three units, three names) covers. Two epochs are needed for
`LossIsReported`, `Overlap` and the clean-up of a crashed one, two batches for
gaps and replays of an old one. Two faults let a crash follow a failed flush, or
the crash of the replay follow the first one.
A clock that moved matters to an import through the beginning of a batch and the
retention horizon only, so `TwoUpsets` pairs it with one fault; and the second
engine's second batch can be imported between its rename and its acknowledgement,
where the bound stops.
A sample of three seconds over two-second buckets is cut unevenly, two bytes
over it are rounded, and its length is more than two intervals, so that every
branch of `record` is taken; two bytes let the second engine start overtake the
counter of the first. `OneUpset` leaves out little: a killed collector is one that
sampled late, and a request fails without a fault while the engine is down.
`Untracked` lets bytes pass after their tracker
left the table. Two changes let an operator swap a directory and put it back, or
rewrite a file twice, around any step of a load. A value of two characters can
look like either end of a placeholder, and three pieces of a template put
something on both sides of one; four pieces of a text hold a URL inside the
authority of another, or a header after a secret. Two sockets and two changes
move a listener from one table to another behind the scan. The theorems of
section 6 remove the bounds for the properties they cover. The one change that
the files of `preflight` go through falls between any two steps, which separates
inspection from read; more of them only repeat that, and the theorem has any
number.

Deadlock checking is off only where the system really stops: a pipeline
behaviour always has the collector's loop; renders, loads, text stages and
preflight runs end.

`SpoolWithinDrainLimit` allows one fault because each host crash between an
unlink and its fsync can bring one more batch back than the engine counted;
with enough of them both sides refuse. `TotalIsImported` and `KeepsThePromise`
are checked for a horizon that expires nothing, since an expired row is
deliberately not added. The conjunctions among the properties name their parts:
`ReportIsTrue` is true DNS and certificate verdicts and no pass without evidence,
`HostVerdictsAreTrue` the disk, identity and credentials verdicts (ports are
`SteadyListenerIsSeen`'s; the architecture and the markers `fail-closed`,
`environment` and `offline-mode` look at nothing that changes); `OutcomeIsRight` a complete bundle and the right error;
`OutputIsWhole` a whole output and three allowlists that agree;
`AcceptedIsAsWritten`, `SubstitutionIsExact` and `RedactionSettles` likewise.

### Fairness

`pipeline_drain` assumes weak fairness of the collector's own steps
(`CollectorStep`) and nothing of the engine, the clock or the faults: the loop
of `collect_engine` catches what a drain raises, waits two seconds and goes on,
and systemd or Compose restarts the process. It also takes `SlowListing =
FALSE`: if one `glob()` of the spool outlasts a whole restart of the engine, a
batch of the new epoch can be imported before the last one of the old, which is
then refused as "overlapping accounting epochs" for ever. That is a timing
assumption of the code; the safety runs do without it.

`OneRenderCommits` assumes weak fairness of each render: it is a straight line
of system calls, each of which returns. It is stated for behaviours without
faults.

## 5. Findings

* `pipeline_month_end`: `cutoff()` is not monotone. It clamps the day of a
  shorter month and keeps the time of day, so on 29, 30 and 31 May it walks
  through 28 February three times. `prune` deletes at the largest value seen,
  and a later `cutoff(now)` puts deleted buckets back inside the window of a
  report. `docs/traffic-accounting.md:55` promises three calendar months.
* `sampler_fallback`: after a sample that could not list connections the
  gateway's cursor is ahead of the domain cursor, the next snapshot spreads its
  bytes over the longer interval, and a bucket's hosts can add up to more than
  the gateway's bytes of that bucket, although
  `docs/traffic-accounting.md:87-89` says domain totals do not exceed the
  sampled global total and boundary allocation conserves bytes per bucket. The
  sums over all buckets do stay within the gateway's (`DomainsAreBounded`).

Observed while modelling, each stated as a property that no run checks, since
the code does not have it:

* `WipedOnEveryReturn` (`RenderRun`): `load` returns nothing when a later file
  is refused (`credential/loader.go:98`), so the key bytes it already read are in
  no bundle that the deferred `Close` could zero. `render.go:210-213` says asset
  bytes are zeroized whether the render succeeds or fails.
* `ListenersArePinned` (`ConfigDocument`): `Parse` drops the boundaries of list
  items (`config.go:142`), and a pair is attributed to the last name before it,
  so an item that gives its fields before its name is checked against the
  listener before it. `config.go:376-377` says a config-only edit cannot move a
  listener.
* `CredentialsArePlaceholders` (`ConfigDocument`): of a repeated key only the
  last value is validated (`config.go:165`), while the diagnostic of line 271
  says real secrets are rejected.
* `NamesMatchObservedName` (`Preflight`): the names of a certificate are
  compared with the target's first label only (`netprobe.go:353`); the comment at
  `netprobe.go:136-137` says they are matched against the observed DNS name.
* `DatabaseIsNoLink` (`Preflight`): `readPasswd` inspects `/etc/passwd` with
  `Lstat` and reads it by opening the path again, which follows a link that was
  put there in between; `runtime-identity` then passes on lines no regular file
  held. `preflight/probe_linux.go:96-98` says it reads the file "refusing
  symlinks". The configuration is looked at in the same two steps
  (`preflight.go:410-420`), although lines 407-409 say a path "can never read
  through a symlink escape". What the code does have is `HostVerdictsAreTrue`:
  the path was no link when it was inspected, and what was read, then or later,
  satisfies the check.
* `UserinfoIsMasked` (`Redaction`): the scan goes on at the end of an
  authority (`safex/errors.go:200`), which for `a://b://user@host` is inside the
  opening of the second URL; `errors.go:141` speaks of URLs anywhere in the text.

Observed, and not contradicting any text that promises otherwise:

* A backward clock step can leave the spool stuck: a new epoch that begins
  before the last imported second is refused until somebody intervenes. Nothing
  is counted twice (`pipeline_crash`), but observed seconds are only unique
  while the clock does not go back (`ObservationIsSound`).
* A flush that was delayed so long that its interval spans three or more
  buckets, with the row map full, has one `[domain-limit]` row per bucket and
  can exceed the 10002 rows `validate_batch` accepts (`BatchesAreImportable`
  states the exact bound).
* The comment of `rollback` (`writer.go:384`, "Every entry still present in the
  staging directory is removed") is wider than the code: a file whose `fstat`
  failed after its creation, and the staging link of a published name whose
  unlink failed, stay. The returned error says so (`ResidueIsReported`).
* After a host crash in the middle of a publication a second render of the same
  role may publish; that nothing is mixed then needs the two requests to name
  the same files (`RequestsAgree`).
* A certificate and its key that are rotated in place between the two reads of
  one load are of two generations; the code promises nothing of the pair, and
  systemd mounts a fresh directory per start.

## 6. Proofs

`PROJECT.json` lists the theorems. They hold for all values of the constants
that satisfy the ASSUMEs of the modules: bounds are natural numbers,
`TimeAssumption` says that the calendar stays inside the bounded clock, names,
hosts, volumes and evidence are well formed (`InputsAreTexts`,
`SpecialCharacters`, `RedactedTexts`: templates, values and error texts are finite
sequences over a set of characters that has the special ones),
and `SamplerAssumption` that the
connections are finitely many, the hosts a sequence without repetition, and
the retention cutoff of a time before that time. Nothing is assumed of how many
processes, files, units, hosts, faults, crashes or changes there are.

A few theorems need a hypothesis that the code does not guarantee, and say so
in their statement:

| hypothesis | theorems | why it is needed |
|---|---|---|
| `NothingExpires`: every cutoff of the bounded time is 0 | `TotalIsExact`, `PipelineKeepsThePromise`, `EveryByteIsBilledOnce`, `EverySecondIsCoveredOnce`, `HostsAreBounded` | a row older than the horizon is deliberately deleted, or not added at all; what is counted is then no longer what was sampled |
| `CutoffMonotone`: later cutoffs are later | `RetentionIsExact` | `cutoff()` is not monotone (`pipeline_month_end`); `OnlyTheExpiredIsDeleted` does without it |
| the clock was not set back (`steps = 0`) | `RetentionIsExact`, `WriterAndReaderAgree`, `EveryBatchIsImportable`, and inside `ObservationIsSound` | intervals of two epochs can overlap after a backward step |
| `MaxEntries` is positive and at most `DrainLimit` | `DrainAcceptsTheSpool` | the two limits are constants of two programs |
| an interval spans no more buckets than the row limits differ | `EveryBatchIsImportable` | see the findings: a flush delayed for that long is refused; `WriterAndReaderAgree` says it per batch |

**`AccountingPipelineProofs`** proves `PipelineTypeOK`, `CountedExactlyOnce`,
`CheckpointIsExact` and `AcknowledgedAfterCommit`. `ExactlyOnce` is not
inductive: why a unit is not counted again depends on where every copy of it is.
The inductive invariant adds, in this order of use,

* `DiskInv`, `PassedInv`: files of the spool are of epochs that exist, two
  files of one name are one file, and what was passed is what was numbered;
* `FlushInv`, `FreshInv`: in the running epoch everything up to `seq` has left
  memory, the batch in progress is the next one, and what is in memory is in no
  older file and not imported unless the file of a flush in progress is;
* `CollectorInv`: what the drain holds was once listed, and what it is about to
  unlink was committed;
* `CheckpointSeparates`: which makes a replay recognisable.

The second part of the module builds on it what the ledger says of itself.
`LossesAreReported` follows `.running` from the disk into a batch and from there
into the ledger: the marker is durable before a relay is accepted
(`MarkerInv`), so every epoch that began after traffic carries the mark at each
stage (`UncleanInv`). `TotalInv`, `StartedInv` and `RetentionInv` are the
ledger's own bookkeeping; `ClockInv` orders the intervals of all batches while
the clock does not go back, from which `ObservedInv` counts, for each bucket,
only seconds that belong to an imported batch or lie before everything on disk
(`Settled`). `SpoolInv` bounds the listed and the durable directory together,
since a crash may bring an unlinked name back. `RowsInv` ties each row to the
interval of its batch, also when the relay read the clock before the flush.
`PipelineKeepsThePromise` is the refinement of `AccountingPromise`: `AckInv`
(acknowledged means on disk) makes `Fate` a function of where a unit's copies
are (`FateInv`), and then each action is a step or a stutter of the promise.

**`WriteTransactionProofs`** proves `WriterTypeOK`, `BundlesAreNotMixed`,
`PublishedFilesAreWhole`, `CommitIsDurable`, `FinalsAreNeverReplaced` and
`PlainErrorsLeaveNothing`. The heart of the invariant is `LeadIsLock`: a render
that has published anything owns the first name of its request in publication
order, so two renders of one role cannot both have published; `Progress`,
`Filled`, `Owned` and `SyncedIsVisible` tie the program counter to the lists,
the lists to the directory, and what is on disk to what is visible.

**`TrafficSamplerProofs`** has four layers.

* *Sums.* `MapThenSumSet` is a recursive function that picks an element by
  CHOOSE. That it exists, and that its value does not depend on the order, is
  shown by looking at a smallest subset for which it would fail
  (`SmallestSubset`, from the well-foundedness of strict inclusion), since the
  induction theorems of the library cannot be instantiated. `SumAdd`,
  `SumUpdate`, `SumExtend`, `SumSwap` and `SumLinear` are then used like any
  other arithmetic; `HostsTelescope` and `BucketsTelescope` say that parts cut
  by cumulative integer division add up to the whole.
* *Readings.* `EpochsAreNeverMixed`: a total in hand was read of some start
  between the one the first marker named and the latest (`ReadSince`), so equal
  markers leave only one. `EngineStepGrows` keeps old readings and both cursors
  valid. `TypeInv` gives `SamplerTypeOK`: no part of a reading is negative,
  which needs that a snapshot never names more bytes than the counters passed
  (`ConnInv`).
* *The ledger.* `FloorsInv` says that a total is never read of a start after a
  smaller one was recorded of it, so that a delta is what passed; `BilledInv`
  and `SecondsInv` add the deltas and the intervals up over the buckets
  (`EveryByteIsBilledOnce`, `EverySecondIsCoveredOnce`).
* *The hosts.* `HostsInv` keeps what the gateway has been billed and the hosts
  have not (`Pending`, what a fall back leaves behind). `ConnsInv` follows a
  connection from its opening to its last snapshot: what was seen of it, under
  which host, and that a closed one is not listed again. `ChargeInv` bounds what
  was billed to a host by what may have been billed of its connections
  (`Charge`) plus one for each boundary crossed. A named host and all named
  hosts together get the same allowance, `crossed`, since the parts of one
  bucket round the cumulative sum of the hosts before them.

**`CredentialLoadProofs`** proves `BundlesComeFromOneDirectory`,
`LoadKeepsItsPromise`, `NoTornRead` and `OutcomesAreRight`. `SourceInv` says
that the held descriptor does not move: once the unit directory is open, every
origin is the one directory behind it. The refinement rests on `ProgressInv`,
which ties the place in the reading order to what the bundle holds, and on
`AnswerInv`: what is returned is an answer of the promise. `HeldInv` keeps the
version an open file was inspected at and every place written in it since;
`ContentInv` and `CalmInv` say what a load has looked at and found in order,
which decides its verdict on a host that stood still (`OutcomeInv` is their
conjunction).

**`RenderRunProofs`** proves `NothingSecretIsLeft`, `OnlyThePinnedTemplate`,
`OnlyOwnMaterial` and `SuccessMeansAllOfIt`. `CoverInv` is the reason for the
first: while the render goes on, every buffer with secret bytes is covered by a
cleanup that is already registered, except between the loader's answer and the
deferred `Close`, where the only early return is that of a nil bundle.
`MaterialInv` says for whom the render was made, and `ConfigInv` from what: once
the template is read its content is the role's and stays so, and where the
publication set holds the config's name it is the rendered buffer, which no
asset replaces, until it is published or wiped. `WholeInv`
follows the loop over the assets: what it has accepted is the config and the
first `Added` destinations, each still in a live buffer, and a bundle of the
production loader names no destination twice.

**`PreflightProofs`** proves `NoProbeUnasked`, `NoSteadyListenerIsMissed`,
`ReportsAreTrue` and `HostVerdictsHold`. `ScanInv` says that during the scan every steady socket of a
table already read is among the listeners found, or the scan is broken; a change
of the host can only shrink `steady`. `ReportInv` says of the list of checks
that it has exactly the names that are due at this point, each once, and that
what passed was true when it was looked at (`DiskInv` for the saturated product
of blocks and size, `EvidenceInv` for facts of the very target, at times between
the start and now). `SeenInv` says what the run has seen of the files at each
step, as moments of the past in their order; the past only grows (`PastGrows`),
so a later change of the host takes none of it back.

**`ConfigDocumentProofs`** proves `BannedTextIsRefused` and `DocumentsAreRead`.
`ReadInv` says, of any prefix of a document that was not refused: the open
section is the one of the last heading, each scalar has the value of the last
line that sets it, and each section is a table of its lines (`Tabulates`), every
line at the place of its rank and no row without a line. `ListenersAreFixed`
then translates what `validateGatewayListeners` says of positions in a table
into what is written under one list item.

**`TextStagesProofs`** proves `SubstitutionExact` and `RedactionSettled`: what
`text_stages` shows of texts of a few pieces holds of all texts.

* *Passes.* A pass over a text is its effect on a first part followed by its
  effect on the rest as a text of its own, whenever no step of the first part
  depends on the rest or goes beyond the cut (`Behind`). With that, a fact about
  all texts is shown for a shortest one that it could fail for (`ShortestText`,
  from the well-foundedness of the order of numbers).
* *Substitution.* `SubstitutionInv` says that at every step the text is the
  template with the values of some names put in at once (`Put`), that the names
  still to come are the others, and that every value put in is `Inert`: no
  placeholder begins in it or with its last character, and it does not begin
  like the rest of one. Then replacing
  the next name touches the template's own holders only, and the order of the
  names does not matter. For every value that is accepted, the last quote `Quote`
  wrote is the first one that ends the scalar, and each escape gives back the
  character it stands for.
* *Redaction ends.* `RoundsInv` says that the rounds so far and the openings of
  URLs that do not carry a mask stay below the bound. A round that changes the
  text leaves strictly fewer of them: this is what the comment at
  `errors.go:144-153` claims, and it needs that masking one URL cannot complete
  the scheme of another. So the bound is never reached.
* *Redaction settles.* `SettledInv` says that after the passes neither a round of
  the URL pass nor the two other passes change the text: masking a header or a
  line makes no new URL with a user and no new header, since a mask ends an
  authority. That is idempotence.
* *Redaction hides.* `SecretsInv` follows the secrets pass by pass: where every
  secret is in a userinfo, an assignment or a header, each round of the URL pass
  leaves only secrets of the other two kinds or in URLs still to be masked; the
  header pass leaves those of assignments; the line pass none. Nested URLs are
  excluded by the property itself (section 5).

Every invariant and every action property of the passing runs is now stated by
a theorem. Only model-checked, and why:

* `EveryBatchIsAcknowledged` and `OneRenderCommits`: liveness under fairness,
  which the prover does not do.
* The two runs that expect a violation, and the properties listed in section 5
  that the code does not have.

## 7. Not modelled

* **Reports and health, launchers, policy and IKEv2/Hysteria scripts**: planned
  in section 2 as far as they have more than one order of events; the rest is
  formatting and straight-line start-up.
* **Argument handling of the command line, status, verify**: one pass, no
  state, read-only; the redaction their errors pass is modelled.
* **Other platforms**: `writer_other.go`, `fd_other.go` and the stub probe
  refuse every operation.
* **Release builder, build script, tools**: offline, outside the running
  system.

Inside the modelled parts: JSON syntax and sizes of batch files (a file is whole
or torn), canonicalisation of host names, the walk of `openDir` along the path
of an output directory (one refusal), the size of amounts (`counter` limits them
to 63 bits), invalid UTF-8 (one class with control characters), the modes of
`collect` without `--domains` or `--epoch-file`, a second collector (its lock
file excludes one), and an operator who removes files by hand while a render
runs. `PROJECT.json` gives the reasons per component, and lists the hazards no
property covers: one directory listing that outlasts a restart, credentials
rotated between two reads, a load that stops after it read a key, URLs that
overlap.
