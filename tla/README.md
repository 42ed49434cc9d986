# PyTagManager: a TLA+ verification project

PyTagManager manages tagging configurations (containers, revisions,
environments), publishes them to a CDN, runs SDKs in browsers and apps that
apply them, and collects the events those SDKs send. Around this core sits a
set of tools that watch a site and draw conclusions (journeys, audits, site
reports, design references). This project models the parts that keep state, run
concurrently, fail half way or conclude something that is hard to get right.

Paths are relative to the repository; `py/` stands for `python/pytagmanager/`.

## 1. Inventory

| Component | State | Operations | Hard behaviour | What makes it correct |
|---|---|---|---|---|
| Control plane service `py/control/service.py` over the file store `py/control/store.py` | metadata, organizations, workspaces; per container: `container.json`, revision, environment and audit files; one lock file | create organization / workspace / container / revision / environment, activate, rollback, export, import, clone | several processes under one `flock`; operations of several durable writes; crashes and failed writes between them | linear history, gap-free audit log, deployable environments, one default scope, nothing acknowledged is lost, damage does not spread, the lock is given back |
| CDN publisher `py/distribution/` | immutable artefacts, `latest.json`, manifest, headers, index, checksum files | `publish_environment`, `verify`, `read_manifest` | reads before the lock; a stop between any two files | readers see immutable artefacts and pointers that resolve; histories stay |
| Idempotency stores `py/ingest/dedupe.py` | SQLite table, or a table in memory | `claim`, `complete`, `release` | several processes or threads; expiry; eviction | one handler per event, every claim ends, bounded table |
| Collection service `py/ingest/service.py`, `http.py`, `pytagshield.py` | token buckets | `do_POST`, `ingest_event`, `ingest_batch`, forward | a forward that times out after delivery; partial batches; proxies | delivered once but for causes nobody can remove; results in order; the right client charged, and no more granted than its rate |
| Browser SDK `sdk/web/src/pytagmanager.js` | configuration, consent, queue, retry state, local storage | `track`, `setConsent`, `flush`, `_fetchConfig`, timers | callbacks in any order; reloads; retries; partial answers | consent and allowlist hold for what is sent; storage matches the queue; the queue drains |
| iOS and Android SDKs `sdk/ios`, `sdk/android` | configuration and its cache file, consent, queue file, background tasks | `track`, `setConsent`, `flush`, `configure`, lifecycle | state read under a lock and used after it; a kill while a file is written | nothing queued is lost but for reasons that are named; only verified configurations; tasks end |
| Configuration logic `py/control/{conditions,variables,expressions,validation,preview,adapters,pytagshield}.py` | none | evaluate, validate, preview, export | backtracking, cycles, order of resolution, partial projection | agreement with a reference definition; an export broadens in no other way than two that are named |
| Observation and diagnosis `py/observability`, `py/correlation`, `py/diagnostics` | events, snapshots | record, correlate, 14 rules | the page runs on between two reads; events out of order | records and conclusions are about what happened |
| Consent platform checks `py/cmp` | recorded requests, merged states | the audit run, rules | requests race the time stamps | accusations have evidence |
| Site-wide analysis, performance, tag graph, SDR, data dictionary `py/{sitewide,perf,tagexec,sdr,dictionary}` | history files | aggregate, compare, judge | merging order, unlocked history file, lost webhook answers | reports that follow from what was observed |
| Crawler `src/crawler`, DOM extraction `src/dom`, event contract, GTM and vendor clients, exports, discovery, rendering, reports, command line | files written once, or none | conversion, presentation | browsers, network | see section 7 |

How the parts interact: the publisher reads the control plane and writes files a
CDN serves; the SDKs fetch those files, check them and cache them; the SDKs post
batches to the collector; the collector's workers share only the idempotency
store and forward to PyTagShield, an external service. `diagnose` records a
session, correlates its events into journeys, and hands the journeys to the
rules, the site report, the design reference and the tag graph.

The hazards that follow are listed one by one in `PROJECT.json`, each at its
line and with the properties that watch it.

## 2. Modules

| Module | Models | Checked through |
|---|---|---|
| `ControlPlane` | the service on containers, and the file store | `MCControlPlane`, `MCProgress` |
| `ScopeBootstrap` | organizations, workspaces, the default scope | `MCAnalysis` |
| `Publisher`, abstract: `ImmutableCdn` | publication; what its readers rely on | `MCPublisher` |
| `Ingest` | SQLite idempotency store, `_process_validated`, the forwarder's outcomes | `MCIngest` |
| `Collector`, abstract: `EventClaims` | request threads over the in-memory store; what a store promises | `MCCollection` |
| `RateLimiter`, `HttpEndpoint`; both: `ClientCharge` | token buckets; `do_POST`; what they promise together | `MCCollection` |
| `WebSdk` | browser client, and the collector's answer to a batch | `MCWebSdk` |
| `MobileSdk`, `IosLifecycle` | both mobile clients; the lifecycle observer of iOS | `MCMobile`, `MCProgress` |
| `Glob`, `Variables`, `Conditions`, `Preview`, `ShieldExport` | configuration logic | `MCConfig` |
| `Observation`, `Journeys`, `CmpAudit` | recording, correlation and rules, consent audit | `MCDiagnosis`, `MCProgress` |
| `PageTemplates`, `SiteHealth`, `SchemaDrift`, `ScriptIsolation`, `Sdr` | reports over observations | `MCAnalysis` |
| `TagGraph` | the pages of a `diagnose` run, and the graph built from them | `MCAnalysis` |
| `HistoryJobs` | scheduled `diagnose` and `perf` over a history file | `MCAnalysis` |
| `SeqFilter` | keeping some elements of a sequence, with its facts proved; used by `WebSdk`, `MobileSdk` and `Collector` | `MCWebSdk`, `MCMobile`, `MCCollection` |
| `ControlPlaneProofs`, `PartsProofs`, `IngestProofs`, `CollectorProofs`, `PublisherProofs`, `WebSdkProofs`, `MobileProofs` | theorems | |

Definitions marked "Mutant of" are plausible bugs. No action uses them; they
show that each property can fail.

Some MC modules hold several parts side by side. Their variable `part` says
which part a behaviour is about; it never changes, and a step of one part leaves the
others alone. They extend the components whose properties are proved (`MCCollection`:
`Collector` and `ClientCharge`; `MCMobile`: `MobileSdk` of iOS; `MCConfig`: `Glob` and
`Variables`; `MCDiagnosis`: `CmpAudit` and `Observation`; `MCAnalysis`: `HistoryJobs`,
`ScopeBootstrap` and `TagGraph`) and check them under the definitions the theorems state; in a behaviour
about another part these stay in an initial state. The other parts are instances, their
variables are 0 when a behaviour is not about them, and the MC module joins their
properties under one name per question.

### ControlPlane and ScopeBootstrap

Every service operation takes the store-wide lock, reads and checks, and then
does a fixed list of durable writes. The reads and checks under the lock cannot
be disturbed, so they are one action per operation (`CreateRevision`,
`ActivateEnvironment`, ...), which takes the lock and puts the writes still to
do into `job[p]`. Each write is an action: `SaveContainer`, `CreateFile` and
`FillRevision`, `SaveEnvironment`, `NumberEvent`, `CreateFile` and `FillAudit`,
in the order `NextWrite` gives. `Return` releases the lock.

- Files replaced through a temporary file (`_atomic_write`) change in one step.
  Files created with `O_EXCL` (`_write_document_exclusive`) take two. A file that nobody
  will fill puts its directory in `torn`: a crash leaves one, and so does a write whose
  clean-up fails as well, since the error of `unlink` is suppressed. A listing of a
  directory with a torn file raises `CorruptStoreError`, hence the guards
  `RevisionsReadable` and `AuditReadable`, and `AuditUnreadable`: the operation
  has saved its change and cannot record it.
- `WriteFails` is an exception of any write or of the directory `fsync`, with the
  clean-up of `_write_document_exclusive`, which may fail too (and then counts as two
  failures). `Crash` is the death of the process, which frees the lock and cleans nothing.
- A failed `import_container` takes away what it wrote with `rmtree`: `RemoveFile` is one
  `unlink`, in any order, `Removed` the end of it. The removal may raise
  (`RemovalFails`) or be cut short by `Crash`; the container is then in `half`, with any part of its
  files. `MeetsLeftover` is the import that later finds one of them under a name it
  wants to create. A container whose removal was not cut short, and is not under way, is in
  `Undamaged`.
- Refused switches (protected, stale, invalid, nothing to roll back to) write an
  audit event and raise: `Refuse`.
- `clone_container` is `ExportContainer` followed by `ImportAs`, which is what it
  does, the lock being released in between.
- Payloads are reduced to whether validation accepts them (`Preview` models the
  validation), ids to their case-folded form. Checksums are identity of content.
  Imported documents are exports of this or of another store, not files edited by
  hand; what the import's parser rejects is in `Parses`.

`ScopeBootstrap` has the same shape for organizations, workspaces and metadata:
a `Call` computes its writes and its answer from what it reads under the lock,
each write is a step, and a stop may come between any two.

### Publisher

A publisher goes through `BuildPublishedConfig` (the reads of container,
environment and revision), `ReuseExisting` and `ReadBytes` without the publish
lock, then takes it and writes config, checksum, SDK file, checksum,
`latest.json`, its checksum, manifest, headers and index, one action each. A
write of an immutable file that exists with other content is a `Conflict`. `Stop`
is a crash or an exception at any file; the environment is then in `torn` until a
publication of it ends. Contents are told apart by the revision, the environment
they were built for and the time stamp; a checksum stands for its document.

### Collection

`Ingest`: one worker is one request thread of some collector process; `claim`,
`complete` and `release` are one transaction each. The clock is read before
`BEGIN IMMEDIATE` waits for the write lock, so each transaction works with a time
`at` up to `MaxWait` old. Between claim and settlement the worker is at
PyTagShield: `Forward` returns forwarded, rejected or transient, and a transient
result may hide a delivery. `Crash` covers the death of a worker and a settling
transaction that raises. A worker of a process without a forwarder uses
`SkipForward`. Time does not jump back and a worker does not hold an event longer
than `MaxHandling`; the code does not check that `dedupe_claim_ttl_seconds` exceeds
that, so `SingleHandler` and `NoUnexcusedRedelivery` state it as their condition.

`Collector`: the same service over `DedupeCache`, with whole requests: single events, and
batches that mix valid, invalid and foreign items and may repeat an id; every event is
claimed, forwarded and settled before the next; `Answer` builds the results.
`RateLimiter` reads the clock before it takes the lock, so that one request thread may
overtake another; `setback` counts the ticks by which such calls set a bucket's time
back. `HttpEndpoint` carries a
request through proxies that append to the header and then through the checks
of `do_POST` in their order.

### SDKs

`WebSdk`: a step is the code between two `await`s. `_fetchConfig` is
`FetchReadsCache` and then one of `FetchNotModified`, `FetchOk`, `FetchFails`, or
`FetchPointer`, when what came is the pointer `latest.json` and a second request follows it; a
batch is `Flush` (or `Track` at a full batch, or `RetryTimer`) and then one of
`Answer2xx`, `AnswerTransient`, `AnswerRejected`, `NetworkError`. `Reload` keeps only
storage, and the page may pass the `consent` option the next time or not (`host`). Left out: inline `options.config`, `verifyIntegrity: false`, storage that
throws, diagnostics, automatic page views, `close()`, a second tab.

`MobileSdk`: one model for both platforms with five switches (`ExclusiveFlush`,
`ChecksContainer`, `AtomicCache`, `SwallowsSaves`, `AllowWithoutConfig`). Each lock section is a step:
`track` reads the consent in one and stores the event in another, `setConsent`
changes the consent in one and purges in another. The queue and cache files may fail to be
written; iOS swallows this in a purge, whose events then stay in the file. The collector's
answer to a batch settles some events, asks for others again and calls others
`in_progress`, which both clients drop. `Kill` ends the process and may
leave a cache that was written in place damaged. `IosLifecycle` has the two lock
sections of `start`, `stop`, notifications, the background task and its expiry.

### Configuration logic

`Glob` runs the loop of `pattern_matches` step by step against the meaning of a
pattern. `Variables` runs the resolver with its stack and its cache, cycles
included, against the meaning of the declared definitions (`concat`, `coalesce`, and
conversions, which may fail with an error that quotes their argument), which looks at no stack, no
cache and no order; `Reachable`, what validation follows to find cycles and sensitive
sources, is the least closed set. `Conditions` evaluates condition trees and derives the names and patterns
read from them. `Preview` is `validate_config_payload`, `preview_event`, the adapters
and the event index of the public document; `ShieldExport` projects a payload tag by
tag; `Fires` is what the triggers would have sent, by type, name and the rest of the
conditions. Conditions on other fields than the event's name are one opaque leaf.

### Diagnosis and reports

`Observation` records two reads per snapshot while the page runs. `Journeys` takes
events in any order of their time stamps, correlates them, and runs all rules.
`CmpAudit` runs an audit while the page sends requests and changes its signals.
The report modules are functions of their input (`PageTemplates`, `SiteHealth`,
`SchemaDrift`, `ScriptIsolation`, `Sdr`): `MCAnalysis` grows the input by
one observation a step and checks the report of every input. `TagGraph` visits pages in
any order; a step (`DiagnosePage`) is one turn of the loop in `diagnose`, which scans the
page, runs the detectors that were asked for over this page and its session, and adds
what they say to what earlier pages gave. `GraphNodes` and `GraphEdges` are built from
all of it, in every state: a run of `diagnose` may end after any number of pages. `HistoryJobs` has the
job's steps: compare, read again, empty the file, fill it, try the webhook, exit.

## 3. Runs

| Run | Distinct states | Checks |
|---|---|---|
| `control_plane` | 426 991 | `TypeOK`, `AuditNumbered`, `AckedDurable`, `TornTakesTwo`, `AuditExplainsState`, `EnvironmentsDeployable` |
| `control_import` | 497 751 | `RevisionHistoryLinear`, `AcceptedMeansSound`, `ImportReturnsWholeHistory` (an action property) |
| `ingest` | 65 199 | `TableSound`, `SingleHandler`, `NoUnexcusedRedelivery` |
| `collection` | 1 606 235 | `CollectorSafe`, `ClientsCharged`, `ImplementsClaims` (refinement) |
| `web_sdk` | 464 195 | `NothingBlockedIsSent`, `QueueSound`, `ExplicitRefusalHonoured`, `QueueDrains` (liveness) |
| `publisher` | 769 802 | `PublicationsSound`, `TreeSound`, `ReadersSeeImmutableCdn` (refinement) |
| `mobile` | 1 251 255 | `QueueKept`, `ConfigAndConsentHonoured`, `AndroidAndObserverSound` |
| `config` | 3 242 686 | `MatchesAsMeant`, `ResolutionSound`, `PayloadCarriedOver` |
| `diagnosis` | 2 464 293 | `JourneysSound`, `RecordFaithful`, `AuditJust` |
| `progress` | 31 252 | `LockGivenBack`, `QueueDrains`, `TasksAndAuditsEnd` (liveness) |
| `analysis` | 860 680 | `SiteReportSound`, `EvidenceNeverOverstated`, `ExperimentsIsolate`, `AlignmentMeansConformance`, `HistoryKept`, `ScopesSound` |
| `history_exit` | | jobs of `MCAnalysis` only; expects a counterexample to `RegressionFailsTheJob` |

What they show, beyond the names:

- Control plane: whatever crashes and failed writes come, audit logs are numbered
  without gap and their events explain where each environment is; what a call
  returned stays. A file that nobody will fill takes a crash or two failures. Histories stay linear and
  environments deployable, also through imports that stopped half way, except in a
  container whose removal was cut short: the code repairs nothing there, and whoever
  takes its id mixes it in. This damage does not spread: such a container can be
  exported, but no document that `import_container` accepts is damaged.
- Publisher: publishers that wait on the lock with old reads, a stop at any file and
  a rebuilt SDK never change an artefact, never leave a checksum file that rejects its
  artefact, and never lose a publication that returned.
- Collection: claims are exclusive although the in-memory store does not know who made
  them, they end on every path, and the answers to a batch are in the order of its items. A 202
  goes ahead of the outcome only for a single event that another thread has. A client is granted its rate, up
  to the ticks by which overtaken calls set its bucket back, and the table of clients outgrows its limit only
  by clients refused for more than a full bucket.
- SDKs: consent and allowlist hold for every request; an explicit refusal holds but for
  what later `consent_defaults` replace; a persisted queue is what is
  queued; an event leaves a mobile queue only for a reason that is named, `in_progress` being the
  one that is no outcome; queues drain; a background task that was begun is ended.
- Configuration: the one-star matcher decides what a pattern means; what a variable
  resolves to does not depend on the order of declaration, and a trace shows sensitive data
  only in the text of failed conversions; an export to PyTagShield sends what the triggers
  would not have sent in two cases only: an event of a type the trigger is not for, and a name
  with a star that becomes a pattern.
- Diagnosis and reports: every event is attributed to the last interaction before it, a
  healthy journey was seen end to end, severe findings rest on a state that was read,
  templates are the connected components of pages that look alike, a score is within one
  point of the mean, an isolation experiment blocks what follows from its target, which is
  what would stop loading when every script has one parent, an SDR called
  aligned is met by every row and push, and what a journey was found to do wrong stays wrong
  whatever other journeys show.
- `history_exit`: `diagnose --history --fail-on-regression` finds a regression and exits
  with 0: after the comparison nothing looks at the option (`cli.py:795`), although its
  help says "Exit non-zero when --history detects a regression".

### Bounds

- `control_plane`: two clients are enough for every interleaving the lock could miss, as
  operations touch one container and nobody waits for two others. Three versions let a
  switch leave both the current and the previous pointer behind; valid and invalid
  payloads; two failed calls, or a crash and a failed call: enough for a write and its clean-up, or a
  write and the removal after it, to go wrong, and for every later operation to meet what is left.
  `MaxAudit` = 3 bounds the recorded operations. `control_import` has two containers, three versions (those of
  a document from another store, and a new one), two exports, a crash and a failed call: a
  removal is started by the failure and cut short by the crash. Each operation occurs in one of them.
- `ingest`: three workers (one of a collector without forwarder), three events and
  capacity 2, so that a prune happens with a claim outstanding; `Ttl` 4, `ClaimTtl` 3 and
  `MaxHandling` 2 over 7 time units let claims and completed rows expire.
- `collection`: two threads, two events, capacity 1, a single event and four kinds of batch;
  two limiter threads, which may overtake each other, with three clients, a table for one, and charges
  below and above a full bucket; headers through up to two proxies with one forged
  entry.
- `web_sdk`: three events with two names, queue and batch size 2, so that the queue
  overflows while its oldest events are in flight; one retry; two reloads; pages without the
  `consent` option and with a refusal in it.
- `publisher`: two publishers, two environments, two revisions, two time stamps, two SDK
  builds, two activations, one stop.
- `mobile`: two flushes and two events; one tracking thread on iOS and two on Android; two fetches of three
  documents (good, damaged, another container's), so that one may come after a kill; one kill;
  two failures of a request or a file on iOS, one on Android; two starters of the observer and
  three tasks. Two tracking threads on iOS are left to the theorems.
- `config`: patterns and values of up to four symbols over two letters; three variables with
  every expression of one or two references, conversions that fail included; conditions nested
  once, also with a `*` to compare with; triggers for and events of different types.
- `diagnosis`: streams of four events over time stamps 0 to 2, and of three events of every
  kind a rule looks for; two steps of recording with three acts of the page; audits with two
  controls, two recorded requests and three acts of the page.
- `analysis`: up to four pages or journeys, visits to two pages with up to three and two
  elements and two traces each, one of which led to the other page, any set of requests for three URLs, dictionaries of up to three variables, three
  rows and two journeys of a design reference; three jobs with one stop; two clients, two
  organizations, three workspaces, four calls and two stops.
- `progress`: smaller instances of four of these parts, since liveness needs the whole graph.

Bounds on time, audit numbers, events, calls, crashes and stops are named in the
modules. The configurations say `CHECK_DEADLOCK FALSE` because a behaviour may end:
when these are used up, and, in the code, when nobody calls any more.

Symmetry is used for interchangeable clients, workers, events, publishers, revisions,
time stamps, threads and starters, never in a run with a liveness property.

### Fairness

- Control plane: a client that holds the lock goes on to its next write. Nothing under the
  lock waits for anything. `Crash` and `WriteFails` are never required.
- `WebSdk!FairSpec`: the first request of `_fetchConfig` ends (it has a time-out). The
  second one, for the configuration a pointer names, has neither signal nor time-out
  (`pytagmanager.js:828`) and may hang, so nothing is assumed of it, and `QueueDrains` speaks
  of pages whose fetch is over: before that the interval timer does not run. The interval
  timer and the retry timer fire; every batch request ends (`requestTimeoutMs` aborts it); and a
  collector asked again and again does not fail for ever (strong fairness of `Settled`).
  Without the last, `QueueDrains` is false: a network error after the last retry keeps the
  batch and starts a new series.
- Mobile: the timer of `startAutoFlush` fires for ever and a request ends (`Deliver`);
  failures are bounded, which stands for the collector that recovers.
- Lifecycle observer: a scheduled `Task` runs, a flush ends, a `start` that was begun goes on.
- Consent audit: every call of the runner returns; page loads, clicks and reads have time-outs.

## 4. Refinements

- `Collector` implements `EventClaims` (`ImplementsClaims`; proved as
  `ImplementsEventClaims`). The claimant of an event is the thread that handles it, the
  remembered events are those with an unexpired entry.
- `Publisher` implements `ImmutableCdn` (`ReadersSeeImmutableCdn`; proved as
  `ReadersSeeImmutableCdnHolds`). An artefact is the configuration file of a revision, a
  pointer the revision and checksum in `latest.json`.

## 5. Proofs

For every value of the constants that satisfies the assumptions:

`IngestProofs` (`IngestAssumption`):

- `SingleHandlerHolds` and `NoUnexcusedRedeliveryHolds`, from the inductive invariant
  `Inv`. `SingleHandler` alone is not inductive: a purge or a release might free an
  event somebody handles. `ClaimsHeld` excludes it: the row of a handled event is the
  handler's own claim, made at most `MaxHandling` ago, so it survives any purge, and a prune
  touches completed rows only. `Unshared` makes the row's owner unique, so `release` and
  `complete`, which name no owner, hit their own claim. `DeliveriesRemembered` says that an
  event that is not fresh is in a completed row or in the hands of the worker about to
  complete it.
- `TableSoundHolds`: the rows are well typed (`TypeCorrect`) and completed ones never exceed
  `Capacity` (`CapacityHolds`).

`ControlPlaneProofs` (`ConstantsAssumption`, `ForeignDocsAssumption`):

- `TypeCorrect`, `OperationsExclusive` (at most one operation is under way) and
  `AuditNumberedHolds`, from the inductive invariant `AuditInv`. The number of an event
  is computed when the directory is listed and used two steps later: `NumberCurrent`
  says it is still the next one, which rests on `LockHeld` and on `OneEvent`.

And, with `NothingAssumption` (`Idle` is no job and `NoEnv` no environment):

- `TornTakesTwoHolds`: every torn directory is paid for by a crash or by two failures, and a removal
  only ever lessens them.
- `AckedDurableHolds` and `ImportReturnsWholeHistoryHolds`, from
  `StoreInv`. Between two writes of an operation the files on disk are not yet right:
  what is on disk is right only together with what the operation under way has left to
  write. So the invariant follows the pending writes: `JobsKept` says what each kind of
  operation still owes the container it works on, and `EmptyUntilCreated` that a container that is not
  there was promised to nobody and has no revision, unless its removal was cut short: then
  its leftovers get into the next import, which the property excepts.
- `AcceptedMeansSoundHolds`, from `ThreadInv`. Of a container with some of its files gone little
  is true, but what is true survives any loss of files: a version is stored once and in one
  place in the line, and a parent is the revision numbered just before (`Threaded`, over all revisions of all
  containers and documents together). What the import checks, one revision for each
  version and number, and parents and pointers that are there, then leaves no room for a gap.
- `RevisionHistoryLinearHolds` and `EnvironmentsDeployableHolds`, for the containers in
  `Undamaged`, from `LineInv`: the revisions
  on disk followed by the ones still to be written are one line (`JobsLinear`), and what
  is imported is sound by `ThreadInv`, wherever it was exported.
  These three assume `ForeignDocsSound`: a document from another store has a linear
  history and environments that point at its valid revisions. `import_container` checks less:
  versions and numbers are unique, parents and pointers name revisions of the document.
  `AcceptedMeansSoundHolds` is why the assumption is fair: of the documents this code
  exports, those that an import accepts satisfy it.
- `AuditExplainsStateHolds`, from `SwitchInv`: an environment is saved before its event is
  written, so the log explains the environment together with the event pending
  (`SwitchesPlanned`, `LogExplains`), until an error or a crash loses that event, which the
  property excepts.

`CollectorProofs` (`CollectorAssumption`, stated in the theorems and evaluated by TLC for the
instance of `MCCollection`):

- `NoClaimLeftBehindHolds` and `ImplementsEventClaims`. The invariant is
  `NoClaimLeftBehind` with the types of threads and table (`ThreadsTyped`, `CacheTyped`) and
  `Exclusive`, no two threads handle one event. Each half needs the other: a claim is
  refused because the id of a handled event is in flight, and the id stays in flight because
  nobody else handles, hence removes, it.
- `CollectorSafeHolds`, for single events and batches. `InOrder` says that the results noted and the
  items left make up the accepted items; that the answer then follows the request is
  `FilteredIndex`, the place of an item among the accepted ones. `Honest` says that what the
  cache remembers, and every status that stands for an outcome, had one: `duplicate` is
  safe to promise because the cache only remembers what was settled. The exception, a single event
  answered `in_progress`, is followed to the end of the attempt it stands for: it is
  settled, still in flight, or given up. `CacheInv` adds that
  the table is finite, so that one eviction makes up for one entry.
- `ClientsChargedHolds` (`ClientChargeAssumption`), for the endpoint and the limiter side by
  side, from three theorems that need less than their sum:
  - `EndpointSoundHolds`: `HeaderFollowsPath` says that the header is what the sender forged
    followed by the path, one entry for each hop, so that the walk over trusted addresses from its right end
    cannot reach a forged entry unless every hop was trusted.
  - `LimiterSoundHolds`: `Balanced` keeps the books of a client. In every stretch of time up to
    the last call, what was granted and what the bucket still holds are together at most a full
    bucket and what flowed in. The fold over grants is gone: `granted` is cumulative, and a
    stretch is a difference. A call that was overtaken sets the time of the bucket back, and the
    same span is refilled again: the books balance up to `setback`, the ticks this has cost.
  - `LimiterTableHolds`: a refused charge enters its client without the check on the size, but
    only one above a full bucket can be refused to a client the table does not know
    (`entered`), and the next grant empties the table.

`WebSdkProofs` (`WebSdkAssumption`):

- `NothingBlockedIsSentHolds` and `QueueSoundHolds`, from `Inv`: the copy in storage is the
  queue, but for events the last restore left out as too old, none of which is queued
  (`StoreSound`); and a batch
  or a back-off exists only under a configuration (`SendsUnderConfig`), since a queue restored
  by a reload has not been checked against one.
- `ExplicitRefusalHonouredHolds`, for pages with and without the `consent` option: what the page
  refused is not granted (`RefusedNotGranted`), unless `consent_defaults` have granted it
  since (`overridden`), which takes a page without the option.

`MobileProofs` (`MobileAssumption`):

- `QueueKeptHolds`: types, `NothingLost`, and with an exclusive flush `BatchesDisjoint`, from
  `QueueInv`. Every number given to an event is accounted for (`Kept`) through overflow,
  purge, partial answer, a failed write and a kill, and at most one flush is under way (`OneFlush`).
  Events that an answer calls `in_progress` are dropped, and `DroppedUnanswered` says that where
  flushes are exclusive this takes an earlier request that got no answer.
- `ConfigAndConsentHonouredHolds`, for any threads. `ConfigInv` covers what is on its way to becoming the
  configuration: a fetch, or a cache file a kill left half written. `ConsentInv` says that
  an event that is being stored or is queued carries no refused purpose, unless the purge that takes
  it out is still to come, or another thread had made it when the consent changed
  (`late`), or the purge could not save the file (`unpurged`).
- `LifecycleSoundHolds`, from `LifecycleInv`: registrations are numbered from 1, and the task
  that is open is the active one.

`SeqFilter`: what `Filtered` keeps, in which order and where (`FilteredFacts`,
`FilteredIndex`), and facts on parts of a sequence. The library's induction theorems take an operator and
cannot be instantiated here; `NatSetInduction`, from the library's theorem that a
well-founded relation has minimal elements, takes a set and serves for recursive
functions. `SelectSeq` is built in and has no definition the provers unfold, which is why
these models filter with `Filtered`; `MCWebSdk` has TLC check that the two agree
(`FilteredIsSelectSeq`).

`PublisherProofs` (`PublisherAssumption`):

- `PublicationsSoundHolds`, `TreeSoundHolds` and `ReadersSeeImmutableCdnHolds`, from one
  inductive invariant. A publisher decides what to write before it has the lock, so nothing
  follows from what it has in hand alone. The invariant says what it has read by each stage
  (`Equipped`) and what the tree then holds of the files behind it: `Written` for the
  artefacts and their checksums, `Moving` for the pointer, manifest and headers of its
  environment; both rest on `LockHeld`. Artefacts are filed under their own revision
  (`Filed`), histories and pointers name artefacts that are there (`HistoryFiled`,
  `PointersFiled`), and an environment nobody is moving, and no stopped publication left half
  way, is settled (`SlugsSettled`).

`PartsProofs`, one section for each part that stands alone:

- `ScopesSoundHolds` (`ScopeAssumption`): the default scope names what is stored and never moves, and what a
  call returned is where it said. None of this can be seen from the disk alone while a call
  is under way: `Pending` says that what is left to write is a right continuation of what is on
  disk (`store.json` after the organization and workspace it names, and over no other
  default; a container under an identifier nobody has), and `AnswerSound` that the answer is
  right once this is written. A stop drops the rest together with the answer.
- `ResolutionSoundHolds` (`VariablesAssumption`), from `ResolverInv`. The stack of the resolver
  is a path of references (`PathSound`), so in a payload that validates no variable is asked
  for while it is being resolved, a cycle is never met, and what enters the cache is final:
  each entry is `Justified` by the cached values of what it refers to. That there is one way to
  justify a whole cache, the meaning, takes an induction over how many variables a variable reaches. For
  redaction, which holds of every payload, `DataTraced` says that a value, or the text of an error,
  holds only data of variables its own reaches.
- `MatchesAsMeantHolds` (`GlobAssumption`), from `GlobInv`: if the pattern matches at all, it
  matches with the last star it has met starting where the loop will look next, so forgetting
  earlier stars loses nothing. It assumes that values hold no `*`; else it is false (section 6).
- `AuditJustHolds` (`CmpBounds`), from `AuditInv`: what was recorded (`RequestsSound`) and how
  far the runner is (`RunnerSound`) say for every finding where its evidence is, while the page goes
  on sending and changing its signals.
- `RecordFaithfulHolds` (`ObservationBounds`), from `RecordInv`: a snapshot is taken in two
  halves and the page runs in between, so `Accounted` says for each half what was touched
  since the same half of the snapshot before.
- `HistoryKeptHolds` (`HistoryBounds`), from `HistoryInv`: a job compares, reads the file again
  and writes it in two steps, so what was compared is what is written only for a job nobody interrupted.
  `ComparedFresh`, `UnwrittenFresh` and `NotYetIn` follow it through these steps, `SettledKept` what is
  in the file already.
- `EvidenceNeverOverstatedHolds` (`TagGraphAssumption`), from `GraphInv`: each scan is that of its
  visit (`ScansSound`), every finding is a candidate of one page with an interaction of that page
  that sent twice (`DuplicatesSeen`), and indicators are hedged (`Hedged`). A finding carries names
  and not nodes, and a name may be resolved to the node of another page; the edge is
  right all the same because names of containers, of vendors and of snippets are never
  confused. That is assumed: containers start with `GTM-`, and vendors are named by the table
  of signatures.

Only model-checked:

- liveness (`QueueDrains`, `LockGivenBack`, `TasksAndAuditsEnd`), which is out of the
  prover's reach;
- `PayloadCarriedOver`, `JourneysSound`, `SiteReportSound`,
  `ExperimentsIsolate` and `AlignmentMeansConformance`: the modules behind them have recursive operators over
  trees, graphs and streams, or compare a report with its definition over bounded inputs, and a
  proof would be an induction over the data;
- `AndroidAndObserverSound`, the name under which `MCMobile` checks Android and the observer:
  what it says of each follows from the theorems of `MobileProofs`, which hold for the
  switches of either platform.

## 6. Other disagreements met

While modelling, these statements of the repository turned out not to hold for the
code. For each of the following the module has a property that says so; the run named has an instance in which
it does not hold, and does not check it (where brackets give a change, the run as it is does not reach
the case).

- `ControlPlane!DocumentsComplete`: revision and audit files are not written by temporary
  file and rename (`py/control/store.py:370`), so a crash can leave one incomplete;
  `docs/architecture/target-architecture.md:348` says otherwise [`control_plane`].
- `ControlPlane!ImportNoOpMeansSameContent`: an import into an existing container compares
  revisions only (`py/control/service.py:997`); different environments pass as a no-op
  [`control_import`].
- `WebSdk!OnlyVerifiedConfigs`: a cached copy that failed verification is applied on a 304
  answer or when the request fails (`pytagmanager.js:817`, `859`) [`web_sdk` with
  `CachedConfigs <- KeptDamaged`].
- `WebSdk!RetryableIsKept`: a 207 answer removes retryable events, `in_progress` ones among them,
  from the queue (`pytagmanager.js:1136`) [`web_sdk`].
- `Publisher!PointerVerifiable`: of two publishers of one revision, the second writes the
  first one's file with its own integrity digest into `latest.json`
  (`py/distribution/publisher.py:218`) [`publisher`].
- `Publisher!StatusShowsItsEnvironment`: a revision published to a second environment is
  described there by the first one's name (`publisher.py:215`), and `read_manifest` finds
  both [`publisher`].
- `IosLifecycle!TasksEnded`: an observer that the host releases between notification and
  flush never ends its background task [`KeepsObserver` FALSE].
- `CmpAudit!AfterRejectMeansAfter`, `UnreadableIsReported`, `StaleCookieReported`: requests sent
  before the click count as after it, since the time stamp is taken before the first
  attempt (`py/cmp/collector.py:194`); a state that has only the necessary category counts
  as readable; a cookie alone counts as a detection [`diagnosis`].
- `Journeys!AnchorSelectorIsTheAnchors`, `DeniedConsentExplained`, `DuplicatePurchaseFound`: the
  selector of a journey is that of its first event, which may be another one with the time
  stamp of the interaction; without a push, a denial silences the rule on missing requests and the one on consent
  says nothing; pushes before the first interaction or after a window belong to no journey
  [`diagnosis`].
- `Observation!ValuesOnlyOnRequest`, `PushesReported`: cookies keep values that were not asked
  for; a push is missing from the diff once the captured part of the dataLayer is full
  [`diagnosis`; the first with `CaptureValues` FALSE].

Other deviations are named exceptions of properties that are checked, so that
everything else they say is still shown:

- A removal of a half-imported container that is cut short (`py/control/service.py:1058`,
  `store.py:261`) leaves any part of it: revisions without `container.json`, which the next
  import under that identifier mixes in (`ImportReturnsWholeHistory`), or a container with gaps in its
  history and pointers to nothing (`RevisionHistoryLinear`, `EnvironmentsDeployable`), which
  can be used and exported. All three except containers in `half`.
- `_write_document_exclusive` suppresses the error of its own clean-up (`store.py:379`), so two failures
  leave what a crash leaves (`TornTakesTwo`).
- `consent_defaults` of a configuration that arrives after `setConsent` replace the page's choice
  (`pytagmanager.js:772`), unless the page passed the `consent` option (`overridden` in
  `WebSdk!ExplicitRefusalHonoured`).
- The second request for a configuration has no time-out (`pytagmanager.js:828`); while it hangs no interval timer
  runs (`WebSdk!QueueDrains`).
- Both mobile clients remove an event that a 207 calls `in_progress`
  (`PyTagManagerClient.swift:309`, `PyTagManager.kt:327`): the request that has it may still
  fail (`dropped` in `MobileSdk!QueueKept`).
- `track` stores, after a withdrawal has purged the queue, an event it made before (`late` in
  `MobileSdk!WithdrawalPurges`), and on iOS a purge that cannot save the file is over all the same
  (`try?`, `EventStore.swift:55`), so that the events are sent later (`unpurged`).
- A single event that another request is handling is answered 202 (`py/ingest/http.py:216`),
  although that request may then fail (`vouched` in `Collector!PromisedIsSettled`).
- The clock is read before the lock (`py/ingest/service.py:119`), so a bucket is refilled twice
  for one span of time (`setback` in `RateLimiter!RateBounded`); and a refused charge is stored
  without a look at the size of the table (`service.py:124`; `entered` in `TableBounded`).
- The error of a failed conversion quotes its argument (`py/control/expressions.py:152`, `178`) and
  is shown without redaction (`preview.py:275`), although the result is marked sensitive
  (`Variables!ResolutionSound`).
- An export drops the type of event a trigger is for, and the legal event name `*` becomes a pattern
  for every event (`py/control/pytagshield.py:81`): `TypeLost` and `StarBecomesPattern` in
  `ShieldExport!NeverBroadens`.
- A value that contains `*` is compared literally with a star of the pattern first
  (`py/control/conditions.py:169`), so not even `*` matches `*b` (`Glob!MatchesAsMeant` assumes
  there is none; with `Special` not empty TLC finds the case).
- Scores are rounded for each template and again for the site (`py/sitewide/aggregation.py:142`, `172`), so 100 does
  not mean that nothing is wrong (`SiteHealth!ScoresAgree`).
- An isolation experiment blocks scripts that another script loads as well
  (`py/perf/dependency_graph.py:46`), although its docstring says it blocks what "would stop loading"
  (`ScriptIsolation!BlocksWhatDepends`).

Smaller deviations, modelled as the code has them: `latest.json`, which both mobile READMEs
configure as the address of the configuration, is a pointer that both clients refuse; journeys on a page that was not crawled
count in the denominator of a site's score only; findings on duplicate vendors never get an
edge in the tag graph, and a node is looked up on the first page that has it;
an isolation experiment also blocks what its target loads, first-party and
unclassified scripts included, which a docstring says are "never auto-blocked"; the last row of a design reference decides `require_network`; equal types
rename a field below the threshold its comment gives; and overlapping jobs lose entries of
the history file, which a stop leaves unreadable for later jobs.

## 7. Not modelled

- The Rust crawler: its workers wait on and stop the frontier of an external crate, so a
  model would be one of that crate.
- DOM extraction, discovery, intent and recommendations: string processing and heuristics
  over one page, and calls to a language model.
- The event contract (`py/events/contract.py`): the fields of one event; the models use its
  verdict.
- Version control of snapshots, exports, GTM and vendor APIs: conversions of one document.
- Rendering, Lighthouse and other audits, reports, the command line but for `diagnose` and
  `perf` around the history file: browser and subprocess I/O and presentation.
- Of components that are modelled in part, what `PROJECT.json` names in their note, such as
  a second browser tab over one storage, the patterns that recognise a vendor, and the
  validation of single fields.
- Queue files of the mobile clients that cannot be read: they count as empty and are then
  overwritten. Where a rename fails, Android writes the queue file in place.
- What depends on the machine rather than on the program: loss of power under SQLite,
  jumps of the wall clock.
