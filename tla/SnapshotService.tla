--------------------------- MODULE SnapshotService ---------------------------
(***************************************************************************)
(* The core of the exporter: ExporterService.refresh (app/cli.py) run by   *)
(* the main thread once and then by the poller thread, the SnapshotStore   *)
(* (app/snapshot.py) and the RuntimeStatus (app/runtime.py) it updates     *)
(* under two separate locks, and the request handlers (app/http.py) that   *)
(* read both from the event loop.  One step is one critical section or one *)
(* clock reading: between two steps any other thread may run.              *)
(*                                                                         *)
(* Time is discrete.  No refresh makes progress after Horizon, so that     *)
(* every run also contains the refresher standing still at each of its     *)
(* points; the clock goes on to MaxTime, past the age limit.               *)
(***************************************************************************)
EXTENDS Integers

CONSTANTS
  PollInterval,     \* --poll-interval
  MaxSnapshotAge,   \* --max-snapshot-age
  RequireDevice,    \* --require-device
  MaxDevices,       \* bound: devices a collection may find
  Horizon           \* bound: the last instant at which the refresher moves

\* click.IntRange(min=1) on both options, and the check of parse_args.
ASSUME ServiceAssumption ==
  /\ PollInterval \in Nat \ {0}
  /\ MaxSnapshotAge \in Nat \ {0}
  /\ MaxSnapshotAge > PollInterval
  /\ RequireDevice \in BOOLEAN
  /\ MaxDevices \in Nat
  /\ Horizon \in Nat

MaxTime == Horizon + MaxSnapshotAge + 1

VARIABLES
  now,               \* time.monotonic()
  store,             \* SnapshotStore._snapshot: generation (0 is None) and devices
  status,            \* the fields of RuntimeStatus that refresh() and /readyz use
  requested,         \* ExporterService._shutdown_requested
  serving,           \* the event loop accepts requests
  rpc,               \* where the thread running refresh() is
  since,             \* when the current collection or poll wait began
  attempts,          \* refreshes begun
  result,            \* the CollectionResult of the refresh in progress
  published,         \* generation it published, 0 if it did not
  stamp,             \* its latest clock reading, taken before the status lock
  previousReadiness, \* ExporterService.previous_readiness
  hpc,               \* where the event loop is in its current handler
  hstamp,            \* the handler's clock reading
  loaded,            \* generation the handler loaded from the store
  page,              \* the latest /metrics answer: snapshot part and status part
  probe              \* the latest /readyz answer

refresherVars == <<rpc, since, attempts, result, published, stamp, previousReadiness>>
handlerVars == <<hpc, hstamp, loaded, page, probe>>
vars == <<now, store, status, requested, serving, refresherVars, handlerVars>>

Never == -1   \* _last_success is None

\* SysfsCollector.collect sets critical_sources_ok and the accessibility of the
\* sysfs root together, and finds no device without them.
Collections ==
  {[ok |-> FALSE, devices |-> 0]} \cup [ok : {TRUE}, devices : 0..MaxDevices]

Reasons == {"ready", "initial_collection", "critical_source", "snapshot_stale",
            "device_required", "shutting_down"}

RefreshPoints == {"idle", "collect", "render", "record_clock", "record",
                  "observe_clock", "observe", "dead"}

StatusRecord ==
  [accessible : BOOLEAN, successes : Nat, failures : Nat, consecutive : Nat,
   lastSuccess : Int, generation : Nat, devices : 0..MaxDevices, shuttingDown : BOOLEAN]

TypeOK ==
  /\ now \in 0..MaxTime
  /\ store \in [generation : Nat, devices : 0..MaxDevices]
  /\ status \in StatusRecord
  /\ requested \in BOOLEAN
  /\ serving \in BOOLEAN
  /\ rpc \in RefreshPoints
  /\ since \in 0..MaxTime
  /\ attempts \in Nat
  /\ result \in Collections
  /\ published \in Nat
  /\ stamp \in 0..MaxTime
  /\ previousReadiness \in Reasons
  /\ hpc \in {"idle", "metrics_clock", "metrics", "ready_clock", "ready"}
  /\ hstamp \in 0..MaxTime
  /\ loaded \in Nat
  /\ page \in [snapshot : Nat, confirmed : Nat, ready : BOOLEAN]
  /\ probe \in [reason : Reasons \cup {"none"}, confirmed : Nat]

Init ==
  /\ now = 0
  /\ store = [generation |-> 0, devices |-> 0]
  /\ status = [accessible |-> FALSE, successes |-> 0, failures |-> 0,
               consecutive |-> 0, lastSuccess |-> Never, generation |-> 0,
               devices |-> 0, shuttingDown |-> FALSE]
  /\ requested = FALSE
  /\ serving = FALSE
  /\ rpc = "idle"
  /\ since = 0
  /\ attempts = 0
  /\ result = [ok |-> FALSE, devices |-> 0]
  /\ published = 0
  /\ stamp = 0
  /\ previousReadiness = "initial_collection"
  /\ hpc = "idle"
  /\ hstamp = 0
  /\ loaded = 0
  /\ page = [snapshot |-> 0, confirmed |-> 0, ready |-> FALSE]
  /\ probe = [reason |-> "none", confirmed |-> 0]
-----------------------------------------------------------------------------
(* RuntimeStatus._readiness, its conditions in the order the code tests them. *)
\* Faulty variant: the age test is missing.
ReadinessWithoutStaleness(at) ==
  IF status.shuttingDown THEN "shutting_down"
  ELSE IF status.lastSuccess = Never \/ status.generation = 0 THEN "initial_collection"
  ELSE IF ~status.accessible THEN "critical_source"
  ELSE IF RequireDevice /\ status.devices = 0 THEN "device_required"
  ELSE "ready"

\* Faulty variant: the shutdown test is missing.
ReadinessIgnoringShutdown(at) ==
  IF status.lastSuccess = Never \/ status.generation = 0 THEN "initial_collection"
  ELSE IF ~status.accessible THEN "critical_source"
  ELSE IF at - status.lastSuccess > MaxSnapshotAge THEN "snapshot_stale"
  ELSE IF RequireDevice /\ status.devices = 0 THEN "device_required"
  ELSE "ready"

Readiness(at) ==
  IF status.shuttingDown THEN "shutting_down"
  ELSE IF status.lastSuccess = Never \/ status.generation = 0 THEN "initial_collection"
  ELSE IF ~status.accessible THEN "critical_source"
  ELSE IF at - status.lastSuccess > MaxSnapshotAge THEN "snapshot_stale"
  ELSE IF RequireDevice /\ status.devices = 0 THEN "device_required"
  ELSE "ready"

\* The body of RuntimeStatus.record_collection, with the clock reading `at`.
\* Faulty variant: the success is stamped with the start of the refresh.
RecordedAtStart(at) ==
  IF result.ok /\ published # 0
  THEN [status EXCEPT !.accessible = TRUE, !.successes = @ + 1, !.consecutive = 0,
                      !.lastSuccess = since, !.generation = published,
                      !.devices = result.devices]
  ELSE [status EXCEPT !.accessible = result.ok, !.failures = @ + 1,
                      !.consecutive = @ + 1]

Recorded(at) ==
  IF result.ok /\ published # 0
  THEN [status EXCEPT !.accessible = result.ok, !.successes = @ + 1, !.consecutive = 0,
                      !.lastSuccess = at, !.generation = published,
                      !.devices = result.devices]
  ELSE [status EXCEPT !.accessible = result.ok, !.failures = @ + 1,
                      !.consecutive = @ + 1]

-----------------------------------------------------------------------------
(* One refresh.  The first is run by the main thread before any thread is   *)
(* started; later ones by the poller, each after a wait of PollInterval     *)
(* that no shutdown request cut short.                                      *)
InitialRefreshDone == attempts > 1 \/ (attempts = 1 /\ rpc = "idle")

StartRefresh ==
  /\ rpc = "idle"
  /\ now < Horizon
  /\ attempts = 0 \/ (~requested /\ now - since >= PollInterval)
  /\ rpc' = "collect"
  /\ since' = now
  /\ attempts' = attempts + 1
  /\ published' = 0
  /\ UNCHANGED <<now, store, status, requested, serving, result, stamp,
                 previousReadiness, handlerVars>>

Collect(collection) ==
  /\ rpc = "collect"
  /\ now <= Horizon
  /\ result' = collection
  /\ rpc' = IF collection.ok THEN "render" ELSE "record_clock"
  /\ UNCHANGED <<now, store, status, requested, serving, since, attempts, published,
                 stamp, previousReadiness, handlerVars>>

\* refresh() calls collect() outside its try block: an exception leaves the
\* function, and with it ends the poller thread (or, the first time, main).
CollectRaises ==
  /\ rpc = "collect"
  /\ now <= Horizon
  /\ rpc' = "dead"
  /\ UNCHANGED <<now, store, status, requested, serving, since, attempts, result,
                 published, stamp, previousReadiness, handlerVars>>

\* Faulty variant: the generation never advances past 1.
PublishReusesGeneration ==
  /\ rpc = "render"
  /\ now <= Horizon
  /\ published' = IF store.generation = 0 THEN 1 ELSE store.generation
  /\ store' = [generation |-> published', devices |-> result.devices]
  /\ rpc' = "record_clock"
  /\ UNCHANGED <<now, status, requested, serving, since, attempts, result, stamp,
                 previousReadiness, handlerVars>>

\* Both representations rendered and within the limit: SnapshotStore.publish.
Publish ==
  /\ rpc = "render"
  /\ now <= Horizon
  /\ published' = store.generation + 1
  /\ store' = [generation |-> published', devices |-> result.devices]
  /\ rpc' = "record_clock"
  /\ UNCHANGED <<now, status, requested, serving, since, attempts, result, stamp,
                 previousReadiness, handlerVars>>

\* Faulty variant: the failure path returns early.
RenderFailsUnrecorded ==
  /\ rpc = "render"
  /\ now <= Horizon
  /\ rpc' = "observe_clock"
  /\ UNCHANGED <<now, store, status, requested, serving, since, attempts, result,
                 published, stamp, previousReadiness, handlerVars>>

\* Faulty variant: a failure clears the store.
RenderFailsDropsPayload ==
  /\ rpc = "render"
  /\ now <= Horizon
  /\ store' = [generation |-> 0, devices |-> 0]
  /\ rpc' = "record_clock"
  /\ UNCHANGED <<now, status, requested, serving, since, attempts, result, published,
                 stamp, previousReadiness, handlerVars>>

\* A payload over the limit, or MemoryError, ValueError or OverflowError.
RenderFails ==
  /\ rpc = "render"
  /\ now <= Horizon
  /\ rpc' = "record_clock"
  /\ UNCHANGED <<now, store, status, requested, serving, since, attempts, result,
                 published, stamp, previousReadiness, handlerVars>>

\* record_collection and readiness read the clock before they take the lock.
ReadRefresherClock ==
  /\ \/ rpc = "record_clock" /\ rpc' = "record"
     \/ rpc = "observe_clock" /\ rpc' = "observe"
  /\ now <= Horizon
  /\ stamp' = now
  /\ UNCHANGED <<now, store, status, requested, serving, since, attempts, result,
                 published, previousReadiness, handlerVars>>

RecordCollection ==
  /\ rpc = "record"
  /\ now <= Horizon
  /\ status' = Recorded(stamp)
  /\ rpc' = "observe_clock"
  /\ UNCHANGED <<now, store, requested, serving, since, attempts, result, published,
                 stamp, previousReadiness, handlerVars>>

\* The end of refresh(): the readiness transition is logged, the wait begins.
ObserveReadiness ==
  /\ rpc = "observe"
  /\ now <= Horizon
  /\ previousReadiness' = Readiness(stamp)
  /\ rpc' = "idle"
  /\ since' = now
  /\ stamp' = 0
  /\ UNCHANGED <<now, store, status, requested, serving, attempts, result, published,
                 handlerVars>>

RefreshStep ==
  \/ StartRefresh
  \/ \E collection \in Collections : Collect(collection)
  \/ CollectRaises
  \/ Publish
  \/ RenderFails
  \/ ReadRefresherClock
  \/ RecordCollection
  \/ ObserveReadiness
-----------------------------------------------------------------------------
(* The event loop: one handler at a time, each provider called in full.     *)
(* hstamp, like stamp, is a local variable: 0 when it is out of scope.      *)
StartServing ==
  /\ ~serving
  /\ InitialRefreshDone
  /\ serving' = TRUE
  /\ UNCHANGED <<now, store, status, requested, refresherVars, handlerVars>>

\* ExporterService.metrics: the snapshot first, then the runtime status.
MetricsLoad ==
  /\ serving /\ hpc = "idle"
  /\ loaded' = store.generation
  /\ hpc' = "metrics_clock"
  /\ UNCHANGED <<now, store, status, requested, serving, refresherVars, hstamp, page,
                 probe>>

\* Faulty variant: the status is read before the snapshot.
MetricsAnswerSnapshotLast ==
  /\ hpc = "metrics"
  /\ page' = [snapshot |-> store.generation, confirmed |-> loaded,
              ready |-> Readiness(hstamp) = "ready"]
  /\ hpc' = "idle"
  /\ hstamp' = 0
  /\ UNCHANGED <<now, store, status, requested, serving, refresherVars, loaded, probe>>

MetricsAnswer ==
  /\ hpc = "metrics"
  /\ page' = [snapshot |-> loaded, confirmed |-> status.generation,
              ready |-> Readiness(hstamp) = "ready"]
  /\ hpc' = "idle"
  /\ hstamp' = 0
  /\ UNCHANGED <<now, store, status, requested, serving, refresherVars, loaded, probe>>

\* ExporterService.devices: a single load.
DevicesAnswer ==
  /\ serving /\ hpc = "idle"
  /\ loaded' = store.generation
  /\ UNCHANGED <<now, store, status, requested, serving, refresherVars, hpc, hstamp,
                 page, probe>>

\* A /readyz request arrives: the client has no answer to it yet.
ReadyRequest ==
  /\ serving /\ hpc = "idle"
  /\ probe' = [probe EXCEPT !.reason = "none"]
  /\ hpc' = "ready_clock"
  /\ UNCHANGED <<now, store, status, requested, serving, refresherVars, hstamp, loaded,
                 page>>

ReadHandlerClock ==
  /\ \/ hpc = "metrics_clock" /\ hpc' = "metrics"
     \/ hpc = "ready_clock" /\ hpc' = "ready"
  /\ hstamp' = now
  /\ UNCHANGED <<now, store, status, requested, serving, refresherVars, loaded, page,
                 probe>>

ReadyAnswer ==
  /\ hpc = "ready"
  /\ probe' = [reason |-> Readiness(hstamp), confirmed |-> status.generation]
  /\ hpc' = "idle"
  /\ hstamp' = 0
  /\ UNCHANGED <<now, store, status, requested, serving, refresherVars, loaded, page>>

HandlerStep ==
  \/ MetricsLoad
  \/ MetricsAnswer
  \/ DevicesAnswer
  \/ ReadyRequest
  \/ ReadHandlerClock
  \/ ReadyAnswer
-----------------------------------------------------------------------------
\* request_shutdown (a signal), or the last line of shutdown() before stop().
RequestShutdown ==
  /\ requested' = TRUE
  /\ UNCHANGED <<now, store, status, serving, refresherVars, handlerVars>>

\* RuntimeStatus.begin_shutdown, called by the coordinator or by main after serve().
BeginShutdown ==
  /\ InitialRefreshDone
  /\ status' = [status EXCEPT !.shuttingDown = TRUE]
  /\ UNCHANGED <<now, store, requested, serving, refresherVars, handlerVars>>

Tick ==
  /\ now < MaxTime
  /\ now' = now + 1
  /\ UNCHANGED <<store, status, requested, serving, refresherVars, handlerVars>>

Next ==
  \/ RefreshStep
  \/ StartServing
  \/ HandlerStep
  \/ RequestShutdown
  \/ BeginShutdown
  \/ Tick

Spec == Init /\ [][Next]_vars

\* A prompt refresher leaves its poll wait when the wait expires, collects within
\* MaxSnapshotAge - PollInterval, and takes no time for the rest.  The handlers write
\* nothing that it reads and are left out.
OnSchedule ==
  \/ rpc = "idle" /\ (attempts = 0 \/ requested \/ now - since < PollInterval)
  \/ rpc = "collect" /\ now - since < MaxSnapshotAge - PollInterval
  \/ rpc = "dead"

PromptNext ==
  \/ RefreshStep
  \/ RequestShutdown
  \/ BeginShutdown
  \/ OnSchedule /\ Tick

PromptSpec == Init /\ [][PromptNext]_vars
-----------------------------------------------------------------------------
(* Properties. *)

\* The status confirms the generation in the store, and its device count, except
\* between SnapshotStore.publish and record_collection, where it is one behind;
\* it counts one success per generation.
StatusFollowsStore ==
  LET unconfirmed == rpc \in {"record_clock", "record"} /\ published # 0
  IN  /\ status.successes = status.generation
      /\ unconfirmed => store.generation = status.generation + 1
      /\ ~unconfirmed => /\ store.generation = status.generation
                         /\ store.devices = status.devices

\* Every refresh that has returned from collect() is counted exactly once, as a
\* success or as a failure; only one under way, or killed by an exception, is not.
EveryRefreshCounted ==
  LET uncounted == IF rpc \in {"collect", "render", "record_clock", "record", "dead"}
                   THEN 1 ELSE 0
  IN  /\ status.successes + status.failures + uncounted = attempts
      /\ status.consecutive <= status.failures

\* The two parts of a /metrics page are read under different locks, so a refresh may
\* run between them; the status part is never older than the snapshot part by more
\* than the publication in progress, and never claims readiness without a generation.
PagePartsAgree ==
  /\ page.snapshot <= page.confirmed + 1
  /\ page.ready => page.confirmed > 0

\* Whoever was told "ready" finds that generation or a newer one behind /metrics
\* and /v1/devices, whatever the poller did meanwhile.
ReadyAnswerIsBacked ==
  /\ probe.reason = "ready" => probe.confirmed > 0
  /\ probe.confirmed <= store.generation

\* What the steps of one refresh leave for the next: nothing is published before the
\* render, and what it published is its own complete result, still the newest one.
RefreshInProgress ==
  /\ rpc \in {"collect", "render"} => published = 0
  /\ rpc = "render" => result.ok
  /\ rpc \in {"record_clock", "record"} /\ published # 0 =>
       result.ok /\ published = store.generation /\ result.devices = store.devices
  /\ loaded <= store.generation

\* The inductive invariant of the proofs in ServiceProofs.
IInv ==
  /\ TypeOK
  /\ StatusFollowsStore
  /\ EveryRefreshCounted
  /\ PagePartsAgree
  /\ ReadyAnswerIsBacked
  /\ RefreshInProgress

\* The service implements SnapshotPromise.
Promise == INSTANCE SnapshotPromise WITH
  published <- store.generation,
  confirmed <- status.generation,
  served <- loaded,
  ready <- probe.reason = "ready",
  closed <- status.shuttingDown

ImplementsPromise == Promise!Promise

\* A prompt refresher: how old its latest success is at each of its points, as long as
\* every refresh since the first success has been one.
Current == status.consecutive = 0 /\ status.successes > 0 /\ ~requested

Schedule ==
  /\ since <= now /\ status.lastSuccess <= now
  /\ rpc \notin {"idle", "dead"} => now - since <= MaxSnapshotAge - PollInterval
  /\ rpc = "record" => stamp = now
  /\ rpc \in {"collect", "render", "record_clock", "record"} =>
       /\ status.lastSuccess <= since
       /\ Current => since - status.lastSuccess <= PollInterval
  /\ Current /\ rpc \in {"observe_clock", "observe"} => status.lastSuccess = now
  /\ Current /\ rpc = "idle" => status.lastSuccess = since /\ now - since <= PollInterval

\* parse_args only asks that MaxSnapshotAge exceed PollInterval.  That is enough: as
\* long as collections succeed within the difference, readiness never goes stale.
NeverStaleWhenPrompt ==
  (Current /\ rpc # "dead") => Readiness(now) # "snapshot_stale"
=============================================================================
