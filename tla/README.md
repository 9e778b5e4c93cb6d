# tt-metrics-exporter in TLA+

tt-metrics-exporter is a Prometheus exporter for Tenstorrent devices.  It polls
sysfs and a state directory on the node, keeps the newest complete result in
memory and serves it over HTTP; a small library inside TTNN workloads writes
profiler counts into the state directory.

These modules model the parts of the program where the order of events matters:
threads that share a snapshot and a status under two locks, signals, the event
loop of the server, files that others replace and devices that go away while they
are read, and the merge of records that do not know of each other.  They also
follow a value from the file it is read from to the pages that show it.  Paths below are relative to `src/`
of the repository: `app/` and `collection/` stand for
`src/tt_metrics_exporter/app/` and `src/tt_metrics_exporter/collection/`.

## 1. The system

| Component | State | Operations | Module |
|---|---|---|---|
| Refresh, snapshot, readiness (`app/cli.py`, `app/snapshot.py`, `app/runtime.py`) | `SnapshotStore._snapshot`, the fields of `RuntimeStatus`, `previous_readiness` | `refresh`, `publish`, `record_collection`, `readiness`, `render_prometheus`, `begin_shutdown` | `SnapshotService`, `SnapshotPromise` |
| Start, signals, shutdown (`app/cli.py`, `app/http.py`) | `running`, `_shutdown_requested`, `HttpServer._server` | `run`, `shutdown`, `request_shutdown`, `serve`, `stop` | `Lifecycle` |
| HTTP connections (`app/http.py`, `app/runtime.py`) | uvicorn's set of connections, deadlines, HTTP counters | `connection_made`, `data_received`, `_request_timed_out`, `connection_lost`, the middleware | `HttpConnections` |
| Profiler state ingestion (`collection/state.py`) | the list of records, `v2_identities`, `device.tensix` | `_read_workloads`, `_read_v2_workloads`, `_apply_workloads` | `WorkloadIngest` |
| Allocation and janitor readers (`collection/state.py`) | the record under construction | `_first_device_directory`, `_read_allocation`, `_read_janitor` | `StateRecord` |
| Bounded file readers (`collection/sysfs_io.py`, `collection/secure_io.py`) | a descriptor, the diagnostics | `SysfsReader._read_text`, `SecureDirectory.read_text` | `FileRead` |
| Device collection (`collection/collector.py`, `collection/device_resources.py`, `collection/sysfs_io.py`) | the list of devices, the record under construction, the issues | `collect`, `_populate_device` and all it calls | `DeviceCollection` |
| Parsers (`collection/parsers.py`) | none | `parse_memory_usage`, `parse_byte_value`, `parse_uint64`, `parse_pci_resources` | `Parsers` |
| Data model (`models.py`), renderers (`renderers/prometheus.py`, `renderers/json.py`) | none | `render_prometheus`, `render_devices_json` | `DeviceModel`, `DevicePage` |
| Profiler publisher (`integrations/ttnn/metalium_profiler_publisher.py`) | `_closed`, `_disabled`, `_warned`, `_published_device_keys`, files on the node | `sample`, `publish_profiler_data`, `close` | `ProfilerPublisher` |
| Logger (`app/logging.py`) | table of the rate limiter | `log`, `log_rate_limited` | - |
| Options, one-shot mode (`app/cli.py`) | none | `parse_args`, `main` | `critical` in `DeviceCollection` (the exit status of `--once`), `PromptSpec` in `SnapshotService` |
| Deployment | none | configuration | - |

`WorkloadFreshness` composes publisher, collection, rendering and the service.

How they interact.  The main thread runs the first `refresh()`, starts the
poller and the coordinator and then serves.  The poller calls `refresh()` at
every poll interval: it collects (through the file readers, parsers and
`StateIngestor`), renders, publishes to the `SnapshotStore` under one lock, and
records the outcome in the `RuntimeStatus` under another.  The request handlers
run on uvicorn's event loop in the main thread and read both.  A signal handler
interrupts the main thread between two bytecodes; it sets an event that wakes
the poller and the coordinator, and the coordinator calls `shutdown()`, as main
does itself after the server has ended.  The publisher is in other processes:
the state directory is all it shares with the exporter.

What is hard in it, and the properties that answer it:

- *Two locks, one truth.*  A handler may run between `publish` and
  `record_collection`, or between the two reads of one page.  The store and the
  status must agree up to the publication in progress, and "ready" must never
  be answered without a generation behind it.
- *Failures on the way.*  Collection, rendering, the listener, a write or a
  rename may fail.  Each failure must be counted once, keep the old payload, and
  leave no lock, thread or temporary file behind.
- *Shutdown from three sides.*  Main, the coordinator and signal handlers run
  the same few statements.  Whoever returns early must be able to rely on the
  other, and the process must end.
- *The event loop's callbacks.*  Deadline, parser, request task, disconnect and
  `connection_lost` of one connection come in any order.
- *A directory that moves.*  Others replace, rewrite and remove files between
  any two system calls of a reader.
- *A device that goes away.*  Every file of a device is read on its own, with up
  to six names to fall back on and rules between the fields.  A device that stays
  must be shown completely, one that vanishes must leave gaps and not wrong values.
- *Judged once, shown for long.*  Whether a workload is fresh is decided when its
  file is read, by the wall clock; the page is then served by the monotonic clock
  for as long as refreshes fail.  The two limits and both clocks must add up.
- *Merging.*  Duplicates, stale records, two schemas and a limit: sort, reduction
  and cap must be applied in the right order and losses be counted.
- *A publisher in somebody else's process.*  Threads that sample while another
  closes, and a node that may lose power between write and rename.

`PROJECT.json` lists each such hazard at its line, with the properties that
cover it.

## 2. The modules and the code

Every definition that models code is listed with its lines under `map` in
`PROJECT.json`.  Definitions whose comment starts with *Faulty variant* are not
part of the model: each is a plausible mistake in the definition that follows
it, and exists to show that a property notices it.

**`SnapshotService`** - `ExporterService.refresh` step by step, the store, the
status, the handlers' provider calls, on a discrete clock.  One step is one
critical section or one reading of the clock: `record_collection` and
`readiness` read the clock *before* they take the lock, so `ReadRefresherClock`
and `ReadHandlerClock` are steps of their own.  `Recorded` and `Readiness` are
the two bodies under the lock.  `CollectRaises` is an exception that leaves
`refresh()` because `collect()` is outside its `try`.  A collection is reduced
to its success and its number of devices.  `BeginShutdown` and `RequestShutdown`
may happen at any time after the points where they are possible; their order is
the subject of `Lifecycle`.

**`SnapshotPromise`** - the abstract specification: generations are published
one at a time, each is confirmed before the next, a reader gets the newest one,
"ready" needs a confirmed generation and no shutdown.  `SnapshotService`
implements it under the mapping at the end of that module.

**`Lifecycle`** - `run`, `serve`, `stop`, `shutdown` and the coordinator on three
threads.  `shutdown()` is one set of actions with the calling thread as the
parameter.  A signal is an action that runs in main: `SignalCaptured` while
uvicorn has its own handlers installed, `SignalRequests` otherwise, and
`SignalBlocks` when main holds the event's lock.  The counter `timeouts` is the
number of grace periods that main has waited out.

**`HttpConnections`** - one callback of the event loop is one step.  A request's
coroutine never waits, so it is one step too, at some later time.  Routing,
header checks and the body appear as the class of the answer.  uvicorn's parser may
answer 400 and close by itself, before there is a request (`HeadInvalid`) and, when a
malformed chunk follows a valid head, before the task of the request has run
(`ChunkInvalid`); the task then records a 4xx that it cannot write any more.

**`WorkloadIngest`** - scan of the v2 directory, scan of the v1 directory, and
`Finish`: sort, reduction, cap, the counts of the device.  The clock may move
between two files, since the code reads it for every file.  A file is the record
that the parsers make of it, or nothing; `Samples` is what it may say besides its
identity.  `accepted` holds the records behind `records_accepted`, also the v1 records
that the filter drops, and `cut` the number of scans that ended with entries unread:
the two say what the diagnostics have to account for.  The stable sort on
`(stale, -timestamp, workload_id)` is written with ranks: a record stands behind as
many others as come before it in that order, and the position in the list breaks
ties (`Before`, `Rank`, `Sorted`).

**`StateRecord`** - the reader of one record against a node service that
publishes complete directories by renaming them, and removes records file by
file.  This is an assumption on the service, which is not in the repository;
`docs/` describes the layout of the directories, not how they are written.

**`FileRead`** - both readers call by call (`stat`/`open`/`read`, and
`open`/`fstat`/`read`) against renames and rewrites.

**`DeviceModel`** - the fields of `DeviceTelemetry`.  A value is represented by
where it came from: the first or a later alternative, the firmware, a usage file,
the profiler.  This is what lets one model ask of every field at once whether it
has the right value.

**`Parsers`** - the loops of `parse_memory_usage` and `parse_pci_resources` as
functions of the number of turns, `parse_byte_value`, and the wrapping and saturating
`parse_uint64`.  A token is what the parser can tell of it; a usage file is one
sequence of them, with `LineEnd` between two lines, which is neither a value nor a
unit and so keeps a key from taking what is on the next line.  `Uint64Max` is
`_UINT64_MAX`, and `DecimalMax` the largest product that Python's decimal context holds:
beyond it `parse_byte_value` does not return (`Overflows`, `UsageRaises`), since its
multiplication is outside its `try`.

**`DeviceCollection`** - `SysfsCollector.collect`.  `Plan` is `_populate_device`
written out as a sequence: for each field the readers of its alternatives in their
order, and between them the rules (`NameBoard`, `InferArchitecture`, `ParseUsage`,
`ParseMesh`, `NameSource`) and lists.  One step reads one file or applies one rule,
and a device may be unplugged (`Vanish`) between any two.  What each read of a file
comes to is fixed by the device (`tree`), among the outcomes that its reader has
(`Outcomes`); a file that the device does not have is passed over (`StepAfter`).
`Place` is the number of a field's step, and `Ascending` the order in which the
devices, whose names are distinct, are returned.  `CollectionRaises` is an exception
that leaves `collect()`: `decimal.Overflow`, or the `ValueError` of `int()` for a text of
more than 4300 digits, at every place where such a text can be read.
The last rule is `StateIngestor.populate`, as `StateRecord` and `WorkloadIngest`
show it.

**`DevicePage`** - both pages as functions of a record: a family of samples shows a
field, under the conditions of `render_prometheus`; `render_devices_json` shows
every field.

**`WorkloadFreshness`** - extends `SnapshotService`: the publisher writes its sample
with the wall clock and may be killed, the clock may be set back, a collection reads
the file and looks at the clock after it, and the page shows what that collection
made of the file.  The refresher is on schedule, as in `PromptSpec`; a shutdown,
after which nothing is ready, is left out.

**`ProfilerPublisher`** - `sample`, `publish_profiler_data` and `close` in several
threads, `_publish` inside the lock in its five steps, failures at each of them,
and a crash.  `volatile` holds the files that a loss of power would tear.

The `MC...` modules give TLC the values of constants that a configuration cannot
write down, and the fairness and liveness formulas that only TLC uses; the
`...Proofs` modules hold the theorems.

## 3. The runs

Runs that pass, with all their properties; the number of distinct states is in
parentheses.

| Run | Bounds | What it shows |
|---|---|---|
| `service_safety` (5.0 million) | age limit 2, poll interval 1, `--require-device`, the refresher moves until second 3, the clock until 6 | Store and status agree (`StatusFollowsStore`), each refresh is counted once (`EveryRefreshCounted`), pages and readiness answers are consistent (`PagePartsAgree`, `ReadyAnswerIsBacked`), the service implements `SnapshotPromise`, and a refresher that stops for good makes the exporter not ready for good (`StuckRefresherNoticed`) |
| `workload_freshness` (1.9 million) | age limit 3, poll interval 2, freshness window 1, the wall clock set back by 1, until second 7 | A refresher on schedule never lets readiness go stale (`NeverStaleWhenPrompt`): the relation that `parse_args` asks for is exactly strong enough.  A ready exporter shows the activity of a killed workload for at most `Longest` seconds (`ActiveIsRecent`); TLC finds states that reach the bound |
| `lifecycle_safety` | 3 signals | Withdrawn readiness before cleared `running`, no join of a thread that was not told to stop, exit status 0 only when no thread is left, `run()` returns, the process ends |
| `ingest_safety` (3.5 million, symmetry on the names of files) | 3 v2 and 3 v1 entries of which 2 each are looked at, 3 identities, room for 2, 2 seconds, two timestamps at the two edges of the freshness window, no counts from sysfs | Freshest record per identity, the limit keeps the best, counts agree; and the number of issues is exactly that of the duplicates, of the cut of the export and of the scans that left entries unread (`LossIsCounted`).  The one loss without an issue is an accepted v1 record whose identity a v2 file names |
| `http_safety` (850 000) | 4 connections, room for 2 | Exact gauge; one answer, which is recorded unless the parser gave it; one count per request, of the class that was sent; silent clients lose their place |
| `publisher_safety` (1.6 million) | 2 sampling threads and a closing one, 2 devices of which one is configured | No torn file, no orphaned temporary file, nothing active after close, close returns |
| `device_safety` (220 000) | 9 nodes, most with one device and up to 6 files for one part of the record, each with every outcome; one with 4 entries of which 3 are directories; usage files of up to 2 lines; PCI files of up to 2 lines; integers up to 3, decimals up to 7 | A scan exports the directories that stayed (`ScanAccounting`); a device that stays is shown completely (`RecordIsComplete`), one that goes leaves only gaps (`VanishedLeavesGaps`); a field without a value has no file that failed or was refused without an issue, only files whose text is ignored (`GapsAreExplained`); counts of the profiler are not passed off as those of sysfs (`SourceOfCounts`); usage files and PCI ranges are read exactly (`UsageIsExact`, `RangesAreExact`); both pages say the same but for the source of the tensix counts (`PagesDifferInSourceOnly`) |
| `record_safety` (1.1 million, symmetry on directories and records) | 2 names, 3 directories, 2 records, a label and a number | Fields of one record only, gaps are explained, the first name wins |
| `fileread_safety` (270 000) | 2 inodes of all kinds, 3 sizes, 3 texts | What is returned was inspected and is bounded, each failure is one issue, nothing keeps the secure reader waiting |

Why the bounds are enough.  In `service_safety` three refreshes begin: the first
by main, one that races with the handlers, and one after it; a success, a
failure and a success are the shortest history in which a counter, a streak or a
generation can be wrong, and the clock goes far enough for any of them to become
stale.  The refresher stands still after `Horizon` at whichever point it has
reached, so every point is also one where it is stuck.  In `lifecycle_safety`
the third signal meets a process that has already been sent one before uvicorn
runs and one during it.  In `http_safety` two clients fill the limit and two are
over it, so that a place is freed and taken again while a rejected connection is
still closing.  In `ingest_safety` four records are enough for a duplicate and
an identity over the limit at the same time, and both directories are cut; sysfs gives
no count there, since that is what `ProfilerCountsAgree` is about, and the two runs on
counts from sysfs are those of `SourceOfCounts` and `WorkloadIngest_source.cfg`.  In
`publisher_safety` each of two samplers may be inside and outside the lock while
`close()` runs.  In `device_safety` the files of one node are those whose reads or rules touch
each other: alternatives of one field, a file and the rule that may replace its
value, the fields of one family on a page.  A file of another part of the record
adds outcomes but no new meeting.  A greatest integer of 3 is enough for a product, a
negative number and a number that is too large to leave the range, and of the two products
beyond it, 6 and 8, a greatest decimal of 7 lets one be dropped and the other raise.  In `workload_freshness`
seven seconds hold two successes at the greatest distance that keeps the exporter
ready, with the activity written as early as the first may have read it.
In `record_safety` the third directory lets the service replace
a record twice while the reader holds the first one.

Runs that end in a violation, each of which is a disagreement between the code
and a document; `findings` in `PROJECT.json` quotes the lines:

- `service_recorded`: `docs/guides.md:91` says that runtime failure counters and
  readiness go on after a failed refresh.  `collect()` is called outside the
  `try` of `refresh()`, and an exception there ends the poller thread; for
  instance the `ValueError` of `int()` for a text of more than 4300 digits, which
  fits into a state file, or the `decimal.Overflow` of `1e1000000` in a memory file
  (`CollectionRaises` in `DeviceCollection`).  The exporter then turns stale
  (`StuckRefresherNoticed`), but the failure is never counted.
- `lifecycle_lost_stop`: a signal during the initial refresh lets the
  coordinator run all of `shutdown()` between `serve()`'s only test of `running`
  and its assignment of `_server`.  `stop()` finds no server, and the server then
  starts and serves with readiness withdrawn and the poller stopped until another
  signal comes.
- `ingest_v1_replaces`: `docs/info.md` says that a v1 record cannot replace a v2
  record of the same workload.  The filter compares the names *in* the v2 files,
  while the exported identity of a v2 record is its *directory*: a v2 file that
  names another workload lets a v1 record through, and the fresher one wins.

Further configurations are kept beside the runs and are not part of them.  Each
also ends in a violation when TLC checks it against the module named:

| Configuration | Module | What it shows |
|---|---|---|
| `Lifecycle_grace.cfg` | `MCLifecycle` | The drain and each join wait a grace period of their own, so the "hard upper bound" of `--shutdown-grace-period` is not one for their sum |
| `Lifecycle_thread_left.cfg` | `MCLifecycle` | A poller blocked in a read outlives `run()`, and being no daemon keeps the interpreter from ending |
| `Lifecycle_second_signal.cfg` | `MCLifecycle` | A second signal while main is inside `Event.set()` waits for a lock that main itself holds |
| `WorkloadIngest_source.cfg` | `MCWorkloadIngest` | One `source` label stands for three counts, of which some may be from sysfs |
| `ProfilerPublisher_disabled.cfg` | `ProfilerPublisher` | A publisher disabled by an error leaves its active samples behind on a normal exit |
| `ProfilerPublisher_interval.cfg` | `ProfilerPublisher` | Two threads may read the profiler in one interval |
| `ProfilerPublisher_warn_once.cfg` | `ProfilerPublisher` | Two threads may warn |
| `DevicePage_raises.cfg` | `MCDevicePage` | "Invalid numeric values are ignored" (`docs/guides.md:235`), but a number of too many digits ends the collection |
| `DevicePage_total_alone.cfg` | `MCDevicePage` | What a source does not report is to be absent (`docs/guides.md:28-29`, `docs/info.md:28`), but the value of one key fills in for the other: `total: 100` alone gives 100 bytes used |
| `DevicePage_source_label.cfg` | `MCDevicePage` | `docs/info.md:135-136` has `tt_tensix_info` carry the source of the tensix counts, but only `/v1/devices` shows it |
| `DevicePage_series.cfg` | `MCDevicePage` | Two hwmon directories, or two directories of links, with entries of one name give two samples with the same labels |

Deadlock is checked in `device_safety`, where the end of a collection is a step of
its own (`Terminated`).  It is not in the others: each of these systems may come to
rest (the process ends, the reader returns, the clock has reached its bound).

## 4. Fairness

- `service_safety` assumes that time goes on, and *nothing* of the threads:
  staleness must be noticed however they behave.
- `workload_freshness` restricts time instead (`OnSchedule`): a tick is allowed only
  while the refresher is within its schedule.  It states what happens *if* the
  poller wakes on time and a collection takes less than the age limit minus the
  poll interval.  Handlers are left out of this run: they write nothing that it
  is about.
- `MCLifecycle` assumes weak fairness of main, the coordinator and the waking of
  the poller: the scheduler runs threads that can run, `Event.wait` and `join`
  time out, and uvicorn cuts the drain off after its own timeout.  That a
  collection ends is *not* assumed for `RunReturns`; `ProcessEnds` names it as its
  premise, since the poller thread is not a daemon.  Both properties except a main thread
  that waits for its own lock (`stuck`), which only a second signal can cause.
- `HttpConnections` assumes that timers fire and that a connection on which the
  server has closed is lost, but the latter only for clients that sent no
  request: their answer is a few bytes which the socket's buffer takes.  Nothing
  is assumed of clients.
- `ProfilerPublisher` assumes that threads go on once they are inside a call
  (no file operation blocks for ever) and that `close()` is called.
- `FileRead` assumes that the reader is scheduled.  That a call fails is never
  assumed, so the reader must return without the help of an error; a `SysfsOpen`
  of a pipe is not enabled, and so may wait for ever.

## 5. The theorems

The proofs hold for all values of the constants that satisfy the assumption of
the module, and TLC evaluates every assumption with the constants of the runs.  Eight
modules hold them.  Each property of a run that passes is stated by a theorem, except
the six that need fairness.

**`ServiceProofs`**, about `SnapshotService` from `ServiceAssumption`.  None of the properties is
inductive alone: that the status is one generation behind the store after a
publication depends on what the refresh in progress published, and that the next
`record_collection` will repair it on where the refresher is.  `IInv` therefore
adds `RefreshInProgress`, which says what one step of a refresh leaves for the
next, and is the conjunction of all.  `InitEstablishes`, `RefreshPreserves` (one
case per step of a refresh), `HandlerPreserves` and `Invariance` give
`Spec => []IInv`; `TypeCorrect`, `StatusAgreement`, `RefreshAccounting`,
`PageAgreement` and `ReadyBacked` follow.  `Refinement` proves that the service
implements `SnapshotPromise`: each of publish, record, load, answer and
`begin_shutdown` is one abstract step, and everything else stutters.  It needs
`IInv` twice: the store and the status agree when `Publish` begins, and differ by
one when a success is recorded.  `ReadinessFacts` says what a readiness of
"ready" implies about the status.

`PromptNeverStale` is about `PromptSpec`, a refresher on schedule.  `Schedule` is its
inductive strengthening: at each step of a refresh it bounds the time since the
refresh began and, as long as no refresh has failed since, the time from the latest
success to that beginning by the poll interval.  The two bounds add up to the age
limit, which is where the relation that `parse_args` checks is needed.
`RefreshKeepsSchedule` has one case per step of a refresh; since every step of
`PromptSpec` is one of `Spec` (`PromptIsService`), `IInv` may be used as well.

The same module, about `WorkloadFreshness` from `ServiceAssumption` and
`FreshnessAssumption`.  `FreshIsPrompt` shows that the composition adds nothing to the service, so `IInv`
and `Schedule` hold in it.  `FreshSoFar` follows the age of an activity through the
collection that sees it, the payload that shows it and the success that confirms it,
each measured from the start of that refresh; `NotStaleMeansRecent` relates the wall
clock's window to the monotonic clock.  `RecentActivity` adds the age that readiness
allows and concludes `ActiveIsRecent`.

**`LifecycleProofs`**, from `SignalsAssumption`.  `IInv` adds `ShutdownProgress`:
how far each of two concurrent calls of `shutdown()` has got shows in the events.
This is what makes the early return of the second caller safe, and it is where
the order of the three statements matters.  There is one lemma for the statements
run by main, one for those run by the coordinator, and one for the rest of main.
The results are `ReadinessWithdrawnFirst`, `JoinsAreSignalled`, `CleanExit`.

**`HttpConnectionsProofs`**, from `HttpAssumption` (finitely many clients, a limit
of at least one).  `IInv` is the type invariant, the properties and what they
need about transports: who is in uvicorn's set, who has been answered, and by whom.  The
lemmas on cardinality rest on the library's theorems about finite sets.  The
results are `GaugeIsExact`, `AtMostOneAnswer`, `RequestsCountedAsAnswered`.

**`ProfilerPublisherProofs`**, from `PublisherAssumption`, for any number of sampling
threads and devices.  That no file is torn depends on the file having been
synchronized before it is moved, and that nothing active comes after `close()` on who
may still hold the lock: `WritingInProgress` says what the one thread inside
`_publish` has reached.  `ClosingInProgress` says that whatever is active is among
the devices that `close()` has still to write.  There is one lemma for the steps
outside `_publish`, one for those inside, and one each for `close()`, the crash and
the passing of time.  The results are `FilesAreWhole`, `NothingLeftBehind`,
`ClosedIsInactive` and, for the steps, `NothingActiveAfterClose`.

**`StateRecordProofs`**, from `RecordAssumption`, for any number of names, fields,
directories and records.  `ReadInProgress` says that the directory behind the
descriptor, and what was read from it, belong to one record, and that the service
only takes files away from it; `SearchInProgress` says that a name that was passed
over has not led somewhere all the time; `GapsCounted` says that the fields that were
read without a value, and were not missing, have been counted.  For the number of
issues, `IssuesInProgress` sets aside one for every label that is unfit and will be
dropped at the end: with those, each issue has a name or a field of its own.  The
results are `OneRecordShown`, `FirstNameFound`, `NoSilentGaps` and `TypeCorrect`, which
also bounds the issues and says that no unfit value is returned.

**`FileReadProofs`**, from `FileAssumption`, for any number of inodes and any limit.
`ReadInProgress` says what the call has counted and holds so far.  `OthersPreserve`
is where it matters that the kind of an inode never changes, while its size, its
text and the name do.  The results are `EveryOutcomeAccounted`, `InspectedIsRead`.

**`WorkloadIngestProofs`**, from `IngestAssumption`, for any numbers of entries,
identities and records, any limits and any clock.  The first part is about the merge, for
any list of records.  `BeforeIsTotalOrder` says that the sort key and the position
order the list; `RankFollowsOrder` and `RankIsOnto` make the ranks of n positions the
numbers from 0 to n - 1, so that `SortedList` holds each of them once and in order;
`FirstOfEveryIdentity` and `CapKeepsTheFirst` are the reduction and the cap.  The
second part is about the counts of the device: a sum over the records exists for any
finite set of them (`SumExists`, by the least number for which it would not), and the
counts are that sum or what the files say (`UsedIsCount`, `TotalIsCount`).  The third
is the scan: `ScanInProgress` says that more entries than the scan may still look at
have been counted as an issue, that the list is what was accepted less the v1 records
whose identity a v2 file names, and that what is exported at the end is the merge of the
list.  The results are `OneFreshRecordEach`, `CutIsTheWorst`, `NoSilentLoss` and
`CountsAgree`.

**`DeviceProofs`**, about `DeviceCollection`, `DevicePage` and `Parsers`, from
`NodesAssumption` and `Uint64MaxAssumption`: for any root, any files, whatever each of
them comes to, and a device that may go away between any two reads.  `PlanAssumption`
states what the proofs need of `Plan` - which step comes before which - and speaks of
no constant, so that TLC's evaluation of it settles it.  Each action is first reduced
to what it may write (`ReadingStep`, `StepWrites`); then there is one invariant for
each question:

- `ScanInProgress`: the entries of the root are looked at once each.  `ScanAccounts`.
- `CountsInProgress`: counts of sysfs keep their source until the state directories are
  read, which is the last step.  `SourceTellsCounts`.
- `RecordShape`: which fields may be empty texts.  `PagesDiffer`, by comparing
  the two pages field by field.
- `RecordInProgress`: a value is the one that the files give or that a rule has made of
  them (`ValuesSoFar`); as long as the device is there, what its files give has been
  found (`FoundSoFar`); a later value tells that the device was there when an earlier
  one was read (`RulesSoFar`, which is what the order of the plan is for); and a file
  that could not be used was not needed, or counted (`DamageSoFar`).  Texts that a reader
  ignores are outside of it: that no issue is counted does not tell that none was ignored.
  `RecordsAreComplete`, `VanishingLeavesGaps`, `NoSilentDamage`.
- `TextListed`: what is parsed is one of the texts.  The rest is about the parsers, for
  texts of any length.  A loop is a recursive function; that it exists
  (`LoopExists`), and that what one turn keeps holds after any number of turns
  (`LoopKeeps`), follow from the principle of the least number.  `KeyedSoFar` and
  `BareSoFar` say what the loop over the tokens has taken up to a turn, and
  `ResourcesListed` which ranges.  `UsageMeans` is the value of a key in closed form, for
  every text; `UsageIsExact` demands less where the value of one key fills in for the other.
  `UsageIsMeant`, `RangesAreMeant`.

`Invariance` is the conjunction of them all.

What is only model-checked: the six properties that need fairness or `ENABLED`
(`StuckRefresherNoticed`, `RunReturns`, `ProcessEnds`, `SilentConnectionLeaves`,
`CloseReturns`, `SecureReaderReturns`), and of course what the runs that end in a
violation show.  The library's induction theorems take an operator as a parameter and
cannot be used here, so the modules declare no recursive operator and use no folds;
loops are recursive functions and the proofs take the least number instead.
The prover cannot expand the library's sorting operators either: `SetToSortSeq` is left
in the lists of sensors and of links of `DeviceCollection`, whose order no property is
about.  The invariants
that the proofs add (`RefreshInProgress`, `Schedule`, `ShutdownProgress`, `FreshSoFar`,
`WritingInProgress`, `ClosingInProgress`, the `ReadInProgress` of two modules,
`SearchInProgress`, `GapsCounted`, `IssuesInProgress`, the `ScanInProgress` of two
modules, `CountsInProgress`, `RecordShape`, `RecordInProgress`, `TextListed`) and the
type invariants are not properties of a run: they are proved.

## 6. What is not modelled

- *The wording of the pages*: names of metrics, help texts, escaping, units, and the
  samples of a workload other than its activity.  A failure of rendering or a payload
  over the limit is an input of `SnapshotService`.
- *Smaller parsers*: `parse_int64`, `parse_boolish_int` and `parse_mesh_dimensions`
  appear as the outcome of the read that uses them.  In a list of sensors or links,
  one entry counts at most one issue, whichever of its files is damaged.
- *Exceptions in the state directories*: that a number of too many digits leaves
  `collect()` is in `DeviceCollection`, for the step that reads these directories, and
  not once more in `StateRecord` and `WorkloadIngest`.
- *Logger*: the rate limiter has a cap of 64 keys and the program uses 39, each
  from one thread, so neither its cap nor its unlocked clock can be observed.
- *Options*: their ranges are assumptions of the modules.  Help, version and the
  configuration error are exits before anything happens.
- *uvicorn, asyncio, the interpreter, the operating system, the node service*:
  external, modelled as far as the program depends on them.
- In `SnapshotService`, the totals of issues and the HTTP counters that a page
  also prints; in `HttpConnections`, the routes; in `WorkloadIngest`, the errors
  of single files, which `FileRead` counts; in `ProfilerPublisher`, what a file
  says beyond being active.

## 7. Plan

Done, in the order of their importance: `SnapshotService` with its abstract
specification and proofs; `Lifecycle` and proofs; `WorkloadIngest`
and proofs; `HttpConnections` and proofs; `ProfilerPublisher`, `FileRead` and
`StateRecord`, each with proofs; `DeviceModel`, `Parsers`, `DeviceCollection` and
`DevicePage`, with proofs; `WorkloadFreshness` and proofs.

Next, model:

1. The totals of issues in `RuntimeStatus`, from the diagnostics of one collection to
   the counters of a page, as part of `SnapshotService`.
2. The workload samples of `render_prometheus`: which of them a stale record keeps.
3. `SecureDirectory.open_root` and `entries`, call by call as in `FileRead`.

Next, prove: that the scan of `WorkloadIngest` implements an abstract specification in
which the merge is one step over the records that were there to be read, so that what
`StateIngestor.populate` adds to a record is stated apart from how it is read.
