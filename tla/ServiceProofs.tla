---------------------------- MODULE ServiceProofs ----------------------------
(***************************************************************************)
(* Proofs about SnapshotService, for every poll interval, age limit,       *)
(* device bound and horizon, and about WorkloadFreshness, which extends    *)
(* it.  The inductive invariant of the service is IInv; its safety         *)
(* properties are the conjuncts, and the refinement of SnapshotPromise     *)
(* follows from it step by step.  That a ready exporter shows only recent  *)
(* activity rests on that invariant and on the schedule of a prompt        *)
(* refresher.                                                              *)
(***************************************************************************)
EXTENDS WorkloadFreshness, TLAPS

\* Readiness classifies every state, and "ready" needs a confirmed generation, no
\* shutdown and a readable sysfs root.
LEMMA ReadinessFacts ==
  ASSUME NEW at
  PROVE  /\ Readiness(at) \in Reasons
         /\ Readiness(at) = "ready" => status.generation # 0 /\ ~status.shuttingDown
BY DEF Readiness, Reasons

\* A collection result has a verdict and a bounded number of devices.
LEMMA CollectionFields ==
  \A c \in Collections : c.ok \in BOOLEAN /\ c.devices \in 0..MaxDevices
<1> SUFFICES ASSUME NEW c \in Collections
             PROVE  c.ok \in BOOLEAN /\ c.devices \in 0..MaxDevices
  OBVIOUS
<1>1. CASE c = [ok |-> FALSE, devices |-> 0]
  <2>1. c.ok \in BOOLEAN
    BY <1>1, Zenon
  <2>2. c.devices \in 0..MaxDevices
    BY <1>1, ServiceAssumption DEF ServiceAssumption
  <2> QED
    BY <2>1, <2>2
<1>2. CASE c \in [ok : {TRUE}, devices : 0..MaxDevices]
  BY <1>2
<1> QED
  BY <1>1, <1>2 DEF Collections

\* Updating the fields of a status with values of their types gives a status.
LEMMA FailureUpdate ==
  ASSUME NEW s \in StatusRecord, NEW ok \in BOOLEAN, NEW f \in Nat, NEW n \in Nat
  PROVE  [s EXCEPT !.accessible = ok, !.failures = f, !.consecutive = n] \in StatusRecord
BY DEF StatusRecord

\* What recording a success makes of the status.
LEMMA SuccessUpdate ==
  ASSUME NEW s \in StatusRecord, NEW ok \in BOOLEAN, NEW n \in Nat, NEW at \in Int,
         NEW g \in Nat, NEW d \in 0..MaxDevices
  PROVE  [s EXCEPT !.accessible = ok, !.successes = n, !.consecutive = 0,
                   !.lastSuccess = at, !.generation = g, !.devices = d] \in StatusRecord
BY DEF StatusRecord

\* record_collection maps a status to a status.
LEMMA RecordedType ==
  ASSUME status \in StatusRecord, result \in Collections, published \in Nat,
         NEW at \in Int
  PROVE  Recorded(at) \in StatusRecord
<1>1. result.ok \in BOOLEAN /\ result.devices \in 0..MaxDevices
  BY CollectionFields
<1>2. /\ status.failures + 1 \in Nat
      /\ status.consecutive + 1 \in Nat
      /\ status.successes + 1 \in Nat
  BY DEF StatusRecord
<1>3. [status EXCEPT !.accessible = result.ok, !.failures = @ + 1, !.consecutive = @ + 1]
        \in StatusRecord
  BY <1>1, <1>2, FailureUpdate, Zenon
<1>4. [status EXCEPT !.accessible = result.ok, !.successes = @ + 1, !.consecutive = 0,
                     !.lastSuccess = at, !.generation = published, !.devices = result.devices]
        \in StatusRecord
  BY <1>1, <1>2, SuccessUpdate, Zenon
<1> QED
  BY <1>3, <1>4 DEF Recorded

\* The initial state satisfies the inductive invariant.
LEMMA InitEstablishes == Init => IInv
<1> SUFFICES ASSUME Init PROVE IInv
  OBVIOUS
<1> USE ServiceAssumption DEF ServiceAssumption, Init
<1>1. TypeOK
  <2>1. now \in 0..MaxTime /\ since \in 0..MaxTime /\ stamp \in 0..MaxTime /\ hstamp \in 0..MaxTime
    BY DEF MaxTime
  <2>2. store \in [generation : Nat, devices : 0..MaxDevices] /\ result \in Collections
    BY DEF Collections
  <2>3. status \in StatusRecord
    BY DEF StatusRecord, Never
  <2> QED
    BY <2>1, <2>2, <2>3 DEF TypeOK, Reasons, RefreshPoints
<1>2. StatusFollowsStore /\ EveryRefreshCounted
  BY DEF StatusFollowsStore, EveryRefreshCounted
<1>3. PagePartsAgree /\ ReadyAnswerIsBacked /\ RefreshInProgress
  BY DEF PagePartsAgree, ReadyAnswerIsBacked, RefreshInProgress
<1> QED
  BY <1>1, <1>2, <1>3 DEF IInv

\* Each step of the refresher preserves the inductive invariant.
LEMMA RefreshPreserves == IInv /\ RefreshStep => IInv'
<1> SUFFICES ASSUME IInv, RefreshStep PROVE IInv'
  OBVIOUS
<1> USE ServiceAssumption DEF ServiceAssumption
<1> USE DEF IInv, TypeOK, StatusFollowsStore, EveryRefreshCounted, PagePartsAgree,
            ReadyAnswerIsBacked, RefreshInProgress, RefreshPoints, handlerVars
<1>1. CASE StartRefresh
  BY <1>1 DEF StartRefresh, StatusRecord
<1>2. ASSUME NEW c \in Collections, Collect(c) PROVE IInv'
  BY <1>2 DEF Collect, Collections
<1>3. CASE CollectRaises
  BY <1>3 DEF CollectRaises
<1>4. CASE Publish
  <2>1. store' \in [generation : Nat, devices : 0..MaxDevices] /\ published' = store'.generation
    BY <1>4, CollectionFields DEF Publish
  <2>2. StatusFollowsStore' /\ RefreshInProgress'
    BY <1>4, CollectionFields DEF Publish
  <2> QED
    BY <1>4, <2>1, <2>2 DEF Publish
<1>5. CASE RenderFails
  BY <1>5 DEF RenderFails
<1>6. CASE ReadRefresherClock
  BY <1>6 DEF ReadRefresherClock
<1>7. CASE RecordCollection
  <2>0. TypeOK'
    <3>1. stamp \in Int
      BY DEF MaxTime
    <3>2. status' \in StatusRecord
      BY <1>7, <3>1, RecordedType DEF RecordCollection
    <3> QED
      BY <1>7, <3>2 DEF RecordCollection
  <2>1. CASE result.ok /\ published # 0
    <3>1. status' = [status EXCEPT !.accessible = result.ok, !.successes = @ + 1,
                       !.consecutive = 0, !.lastSuccess = stamp,
                       !.generation = published, !.devices = result.devices]
      BY <1>7, <2>1 DEF RecordCollection, Recorded
    <3>2. StatusFollowsStore' /\ EveryRefreshCounted'
      BY <1>7, <2>1, <3>1 DEF RecordCollection, StatusRecord
    <3> QED
      BY <1>7, <2>0, <3>1, <3>2 DEF RecordCollection, StatusRecord
  <2>2. CASE ~(result.ok /\ published # 0)
    <3>1. status' = [status EXCEPT !.accessible = result.ok, !.failures = @ + 1,
                                   !.consecutive = @ + 1]
      BY <1>7, <2>2 DEF RecordCollection, Recorded
    <3>2. StatusFollowsStore' /\ EveryRefreshCounted'
      BY <1>7, <2>2, <3>1 DEF RecordCollection, StatusRecord
    <3> QED
      BY <1>7, <2>0, <3>1, <3>2 DEF RecordCollection, StatusRecord
  <2> QED
    BY <2>1, <2>2
<1>8. CASE ObserveReadiness
  <2>1. previousReadiness' \in Reasons
    BY <1>8, ReadinessFacts DEF ObserveReadiness
  <2> QED
    BY <1>8, <2>1 DEF ObserveReadiness, MaxTime
<1> QED
  BY <1>1, <1>2, <1>3, <1>4, <1>5, <1>6, <1>7, <1>8 DEF RefreshStep

\* Each step of the event loop preserves the inductive invariant.
LEMMA HandlerPreserves == IInv /\ HandlerStep => IInv'
<1> SUFFICES ASSUME IInv, HandlerStep PROVE IInv'
  OBVIOUS
<1> USE ServiceAssumption DEF ServiceAssumption
<1> USE DEF IInv, TypeOK, StatusFollowsStore, EveryRefreshCounted, PagePartsAgree,
            ReadyAnswerIsBacked, RefreshInProgress, refresherVars
<1>1. CASE MetricsLoad
  BY <1>1 DEF MetricsLoad
<1>2. CASE MetricsAnswer
  <2>1. page' = [snapshot |-> loaded, confirmed |-> status.generation,
                 ready |-> (Readiness(hstamp) = "ready")]
    BY <1>2 DEF MetricsAnswer
  <2>2. page' \in [snapshot : Nat, confirmed : Nat, ready : BOOLEAN]
    <3>1. (Readiness(hstamp) = "ready") \in BOOLEAN
      OBVIOUS
    <3>2. loaded \in Nat /\ status.generation \in Nat
      BY DEF StatusRecord
    <3> QED
      BY <2>1, <3>1, <3>2, Zenon
  <2>3. page'.snapshot = loaded /\ page'.confirmed = status.generation
    BY <2>1
  <2>4. page'.ready => status.generation # 0
    BY <2>1, ReadinessFacts, Zenon
  <2>5. loaded \in Nat /\ store.generation \in Nat /\ status.generation \in Nat
    BY DEF StatusRecord
  <2>6. PagePartsAgree'
    BY <2>3, <2>4, <2>5
  <2> QED
    BY <1>2, <2>2, <2>6 DEF MetricsAnswer, MaxTime
<1>3. CASE DevicesAnswer
  BY <1>3 DEF DevicesAnswer
<1>4. CASE ReadyRequest
  BY <1>4 DEF ReadyRequest
<1>5. CASE ReadHandlerClock
  BY <1>5 DEF ReadHandlerClock
<1>6. CASE ReadyAnswer
  <2>1. probe' \in [reason : Reasons \cup {"none"}, confirmed : Nat]
    BY <1>6, ReadinessFacts DEF ReadyAnswer, StatusRecord
  <2>2. ReadyAnswerIsBacked'
    BY <1>6, ReadinessFacts DEF ReadyAnswer, StatusRecord
  <2> QED
    BY <1>6, <2>1, <2>2 DEF ReadyAnswer, MaxTime
<1> QED
  BY <1>1, <1>2, <1>3, <1>4, <1>5, <1>6 DEF HandlerStep

\* The inductive invariant holds throughout.
THEOREM Invariance == Spec => []IInv
<1>1. IInv /\ [Next]_vars => IInv'
  <2> SUFFICES ASSUME IInv, [Next]_vars PROVE IInv'
    OBVIOUS
  <2> USE ServiceAssumption DEF ServiceAssumption
  <2>1. CASE RefreshStep
    BY <2>1, RefreshPreserves
  <2>2. CASE HandlerStep
    BY <2>2, HandlerPreserves
  <2> USE DEF IInv, TypeOK, StatusFollowsStore, EveryRefreshCounted, PagePartsAgree,
              ReadyAnswerIsBacked, RefreshInProgress, refresherVars, handlerVars
  <2>3. CASE StartServing
    BY <2>3 DEF StartServing
  <2>4. CASE RequestShutdown
    BY <2>4 DEF RequestShutdown
  <2>5. CASE BeginShutdown
    <3>1. status' \in StatusRecord
      BY <2>5 DEF BeginShutdown, StatusRecord
    <3>2. /\ status'.successes = status.successes
          /\ status'.failures = status.failures
          /\ status'.consecutive = status.consecutive
          /\ status'.generation = status.generation
          /\ status'.devices = status.devices
      BY <2>5 DEF BeginShutdown, StatusRecord
    <3> QED
      BY <2>5, <3>1, <3>2 DEF BeginShutdown
  <2>6. CASE Tick
    BY <2>6 DEF Tick, MaxTime
  <2>7. CASE UNCHANGED vars
    BY <2>7 DEF vars
  <2> QED
    BY <2>1, <2>2, <2>3, <2>4, <2>5, <2>6, <2>7 DEF Next
<1> QED
  BY <1>1, InitEstablishes, PTL DEF Spec

\* Every variable keeps its type.
THEOREM TypeCorrect == Spec => []TypeOK
<1>1. IInv => TypeOK
  BY DEF IInv
<1> QED
  BY <1>1, Invariance, PTL

\* Publication and confirmation stay one step apart: no interleaving of refresher,
\* handlers and shutdown makes the status disagree with the store otherwise.
THEOREM StatusAgreement == Spec => []StatusFollowsStore
<1>1. IInv => StatusFollowsStore
  BY DEF IInv
<1> QED
  BY <1>1, Invariance, PTL

\* No refresh that returns from collect() is lost or counted twice.
THEOREM RefreshAccounting == Spec => []EveryRefreshCounted
<1>1. IInv => EveryRefreshCounted
  BY DEF IInv
<1> QED
  BY <1>1, Invariance, PTL

\* A /metrics page assembled while the poller runs is never torn by more than the
\* publication in progress.
THEOREM PageAgreement == Spec => []PagePartsAgree
<1>1. IInv => PagePartsAgree
  BY DEF IInv
<1> QED
  BY <1>1, Invariance, PTL

\* "ready" is never answered without a generation that clients can already read.
THEOREM ReadyBacked == Spec => []ReadyAnswerIsBacked
<1>1. IInv => ReadyAnswerIsBacked
  BY DEF IInv
<1> QED
  BY <1>1, Invariance, PTL
-----------------------------------------------------------------------------
\* The service, its threads, locks and clock included, implements SnapshotPromise:
\* publication, confirmation, load, answer and shutdown are its steps, all else stutters.
THEOREM Refinement == Spec => ImplementsPromise
<1> USE DEF Promise!promiseVars
<1>1. Init => Promise!PromiseInit
  BY DEF Init, Promise!PromiseInit
<1>2. IInv /\ [Next]_vars => [Promise!PromiseNext]_(Promise!promiseVars)
  <2> SUFFICES ASSUME IInv, [Next]_vars
               PROVE  Promise!PromiseNext \/ UNCHANGED Promise!promiseVars
    OBVIOUS
  <2> USE DEF IInv, TypeOK
  <2>1. CASE Publish
    <3>1. store.generation = status.generation
      BY <2>1 DEF Publish, StatusFollowsStore
    <3>2. Promise!PublishGeneration
      BY <2>1, <3>1 DEF Publish, handlerVars, Promise!PublishGeneration
    <3> QED
      BY <3>2 DEF Promise!PromiseNext
  <2>2. CASE RecordCollection
    <3>1. CASE result.ok /\ published # 0
      <4>1. Promise!ConfirmGeneration
        BY <2>2, <3>1 DEF RecordCollection, Recorded, handlerVars, StatusFollowsStore,
                          RefreshInProgress, Promise!ConfirmGeneration
      <4> QED
        BY <4>1 DEF Promise!PromiseNext
    <3>2. CASE ~(result.ok /\ published # 0)
      BY <2>2, <3>2 DEF RecordCollection, Recorded, handlerVars
    <3> QED
      BY <3>1, <3>2
  <2>3. CASE MetricsLoad \/ DevicesAnswer
    <3>1. Promise!ServeGeneration
      BY <2>3 DEF MetricsLoad, DevicesAnswer, refresherVars, Promise!ServeGeneration
    <3> QED
      BY <3>1 DEF Promise!PromiseNext
  <2>4. CASE ReadyRequest
    <3>1. Promise!AnswerNotReady
      BY <2>4 DEF ReadyRequest, refresherVars, Promise!AnswerNotReady
    <3> QED
      BY <3>1 DEF Promise!PromiseNext
  <2>5. CASE ReadyAnswer
    <3>1. CASE Readiness(hstamp) = "ready"
      <4>1. Promise!AnswerReady
        BY <2>5, <3>1, ReadinessFacts
        DEF ReadyAnswer, refresherVars, StatusRecord, Promise!AnswerReady
      <4> QED
        BY <4>1 DEF Promise!PromiseNext
    <3>2. CASE Readiness(hstamp) # "ready"
      <4>1. Promise!AnswerNotReady
        BY <2>5, <3>2 DEF ReadyAnswer, refresherVars, Promise!AnswerNotReady
      <4> QED
        BY <4>1 DEF Promise!PromiseNext
    <3> QED
      BY <3>1, <3>2
  <2>6. CASE BeginShutdown
    <3>1. Promise!Close
      BY <2>6 DEF BeginShutdown, refresherVars, handlerVars, Promise!Close
    <3> QED
      BY <3>1 DEF Promise!PromiseNext
  <2>7. CASE \/ StartRefresh \/ CollectRaises \/ RenderFails \/ ReadRefresherClock
             \/ ObserveReadiness \/ \E c \in Collections : Collect(c)
    BY <2>7 DEF StartRefresh, CollectRaises, RenderFails, ReadRefresherClock,
                ObserveReadiness, Collect, handlerVars
  <2>8. CASE \/ MetricsAnswer \/ ReadHandlerClock \/ StartServing \/ RequestShutdown
             \/ Tick \/ UNCHANGED vars
    BY <2>8 DEF MetricsAnswer, ReadHandlerClock, StartServing, RequestShutdown, Tick,
                vars, refresherVars, handlerVars
  <2> QED
    BY <2>1, <2>2, <2>3, <2>4, <2>5, <2>6, <2>7, <2>8
    DEF Next, RefreshStep, HandlerStep
<1> QED
  BY <1>1, <1>2, Invariance, PTL DEF Spec, ImplementsPromise, Promise!Promise
-----------------------------------------------------------------------------
\* The numbers of the schedule are integers.
LEMMA ScheduleTypes ==
  ASSUME TypeOK
  PROVE  /\ now \in Int /\ since \in Int /\ stamp \in Int
         /\ status.lastSuccess \in Int /\ status.successes \in Nat /\ status.consecutive \in Nat
BY ServiceAssumption DEF ServiceAssumption, TypeOK, StatusRecord, MaxTime

\* Each step of the refresher keeps the schedule.
LEMMA RefreshKeepsSchedule == TypeOK /\ Schedule /\ RefreshStep => Schedule'
<1> SUFFICES ASSUME TypeOK, Schedule, RefreshStep PROVE Schedule'
  OBVIOUS
<1> USE ServiceAssumption, ScheduleTypes DEF ServiceAssumption, Schedule, Current
<1>1. CASE StartRefresh
  BY <1>1 DEF StartRefresh
<1>2. ASSUME NEW c \in Collections, Collect(c) PROVE Schedule'
  BY <1>2 DEF Collect
<1>3. CASE CollectRaises
  BY <1>3 DEF CollectRaises
<1>4. CASE Publish
  BY <1>4 DEF Publish
<1>5. CASE RenderFails
  BY <1>5 DEF RenderFails
<1>6. CASE ReadRefresherClock
  BY <1>6 DEF ReadRefresherClock
<1>7. CASE RecordCollection
  <2>1. CASE result.ok /\ published # 0
    <3>1. status'.lastSuccess = now
      BY <1>7, <2>1 DEF RecordCollection, Recorded, TypeOK, StatusRecord
    <3> QED
      BY <1>7, <3>1 DEF RecordCollection
  <2>2. CASE ~(result.ok /\ published # 0)
    <3>1. /\ status'.lastSuccess = status.lastSuccess
          /\ status'.consecutive = status.consecutive + 1
      BY <1>7, <2>2 DEF RecordCollection, Recorded, TypeOK, StatusRecord
    <3> QED
      BY <1>7, <3>1 DEF RecordCollection
  <2> QED
    BY <2>1, <2>2
<1>8. CASE ObserveReadiness
  BY <1>8 DEF ObserveReadiness
<1> QED
  BY <1>1, <1>2, <1>3, <1>4, <1>5, <1>6, <1>7, <1>8 DEF RefreshStep

\* Every behaviour of a prompt refresher is one of the service.
LEMMA PromptIsService == PromptSpec => Spec
<1>1. [PromptNext]_vars => [Next]_vars
  BY DEF PromptNext, Next
<1> QED
  BY <1>1, PTL DEF PromptSpec, Spec

\* A prompt refresher keeps its schedule.
THEOREM PromptKeepsSchedule == PromptSpec => []Schedule
<1>1. Init => Schedule
  BY ServiceAssumption DEF ServiceAssumption, Init, Schedule, Current, Never
<1>2. IInv /\ Schedule /\ [PromptNext]_vars => Schedule'
  <2> SUFFICES ASSUME IInv, Schedule, [PromptNext]_vars PROVE Schedule'
    OBVIOUS
  <2>0. TypeOK
    BY DEF IInv
  <2> USE <2>0, ServiceAssumption, ScheduleTypes DEF ServiceAssumption
  <2>1. CASE RefreshStep
    BY <2>1, RefreshKeepsSchedule
  <2>2. CASE RequestShutdown
    BY <2>2 DEF RequestShutdown, Schedule, Current, refresherVars
  <2>3. CASE BeginShutdown
    <3>1. /\ status'.lastSuccess = status.lastSuccess
          /\ status'.consecutive = status.consecutive
          /\ status'.successes = status.successes
      BY <2>3 DEF BeginShutdown, TypeOK, StatusRecord
    <3> QED
      BY <2>3, <3>1 DEF BeginShutdown, Schedule, Current, refresherVars
  <2>4. CASE OnSchedule /\ Tick
    <3>1. CASE rpc = "idle" /\ attempts = 0
      <4>1. ~Current
        BY <3>1 DEF IInv, EveryRefreshCounted, Current, TypeOK, StatusRecord
      <4> QED
        BY <2>4, <3>1, <4>1 DEF Tick, Schedule, Current, refresherVars
    <3>2. CASE ~(rpc = "idle" /\ attempts = 0)
      BY <2>4, <3>2 DEF OnSchedule, Tick, Schedule, Current, refresherVars
    <3> QED
      BY <3>1, <3>2
  <2>5. CASE UNCHANGED vars
    BY <2>5 DEF vars, refresherVars, Schedule, Current
  <2> QED
    BY <2>1, <2>2, <2>3, <2>4, <2>5 DEF PromptNext
<1> QED
  BY <1>1, <1>2, PromptIsService, Invariance, PTL DEF PromptSpec

\* The check of parse_args is enough for every pair of options: readiness does not go
\* stale between two successes of a prompt refresher.
THEOREM PromptNeverStale == PromptSpec => []NeverStaleWhenPrompt
<1>1. TypeOK /\ Schedule => NeverStaleWhenPrompt
  <2> SUFFICES ASSUME TypeOK, Schedule, Current, rpc # "dead"
               PROVE  Readiness(now) # "snapshot_stale"
    BY DEF NeverStaleWhenPrompt
  <2>1. now - status.lastSuccess <= MaxSnapshotAge
    BY ServiceAssumption, ScheduleTypes
    DEF ServiceAssumption, Schedule, TypeOK, RefreshPoints
  <2> QED
    BY <2>1, ServiceAssumption, ScheduleTypes DEF ServiceAssumption, Readiness
<1> QED
  BY <1>1, PromptKeepsSchedule, PromptIsService, TypeCorrect, PTL
-----------------------------------------------------------------------------
(* Workload freshness.                                                     *)

\* The service does not notice the workload: every behaviour of the composition is one
\* of a prompt refresher.
LEMMA FreshIsPrompt == FreshSpec => PromptSpec
<1>1. FreshInit => Init
  BY DEF FreshInit
<1>2. [FreshNext]_allVars => [PromptNext]_vars
  BY DEF FreshNext, PublishSample, CloseWorkload, KillWorkload, SetWallClock, ReadSample,
         JudgeSample, StartWithWorkload, CollectWithWorkload, PublishWithWorkload,
         OtherStep, PromptNext, RefreshStep, allVars
<1> QED
  BY <1>1, <1>2, PTL DEF FreshSpec, PromptSpec

\* The workload's variables keep their types.
LEMMA FreshTypes == TypeOK /\ FreshTypeOK /\ [FreshNext]_allVars => FreshTypeOK'
<1> SUFFICES ASSUME TypeOK, FreshTypeOK, [FreshNext]_allVars PROVE FreshTypeOK'
  OBVIOUS
<1> USE ServiceAssumption, FreshnessAssumption, ScheduleTypes
    DEF ServiceAssumption, FreshnessAssumption, FreshTypeOK, Samples
<1>0. Inactive \in Samples /\ Active(now, WallClock) \in Samples /\ Never \in Int
  BY DEF Inactive, Active, Never, WallClock
<1>1. CASE PublishSample \/ CloseWorkload \/ KillWorkload
  BY <1>0, <1>1 DEF PublishSample, CloseWorkload, KillWorkload
<1>5. CASE SetWallClock
  <2>1. offset' \in 0..MaxStep
    BY <1>5 DEF SetWallClock
  <2> QED
    BY <1>5, <2>1 DEF SetWallClock
<1>2. CASE ReadSample \/ JudgeSample
  BY <1>0, <1>2 DEF ReadSample, JudgeSample
<1>3. CASE StartWithWorkload \/ CollectWithWorkload \/ PublishWithWorkload
  BY <1>0, <1>3 DEF StartWithWorkload, CollectWithWorkload, PublishWithWorkload,
                    freshnessVars
<1>4. CASE OtherStep \/ UNCHANGED allVars
  BY <1>4 DEF OtherStep, freshnessVars, allVars
<1> QED
  BY <1>1, <1>2, <1>3, <1>4, <1>5 DEF FreshNext

\* A sample that is not stale was written within the window before the clock was read.
LEMMA NotStaleMeansRecent ==
  ASSUME TypeOK, FreshTypeOK, NEW s \in Samples, s.timestamp <= s.at + MaxStep,
         ~IsStale(s.timestamp)
  PROVE  now - s.at <= Window
BY ServiceAssumption, FreshnessAssumption, ScheduleTypes
DEF ServiceAssumption, FreshnessAssumption, FreshTypeOK, Samples, IsStale, WallClock, Window

\* Each step keeps the ages that FreshSoFar states.
LEMMA FreshStep ==
  ASSUME IInv, Schedule, FreshTypeOK, FreshSoFar, [FreshNext]_allVars
  PROVE  FreshSoFar'
<1>0. TypeOK /\ RefreshInProgress
  BY DEF IInv
<1> USE <1>0, ServiceAssumption, FreshnessAssumption, ScheduleTypes
    DEF ServiceAssumption, FreshnessAssumption, FreshTypeOK, Samples, FreshSoFar, Window
<1>1. CASE PublishSample
  BY <1>1 DEF PublishSample, Active, Inactive, WallClock, vars, refresherVars
<1>2. CASE CloseWorkload \/ KillWorkload \/ SetWallClock
  BY <1>2 DEF CloseWorkload, KillWorkload, SetWallClock, Active, Inactive, vars, refresherVars
<1>3. CASE ReadSample
  BY <1>3 DEF ReadSample, vars, refresherVars
<1>4. CASE JudgeSample
  <2>1. CASE IsStale(seen.sample.timestamp)
    BY <1>4, <2>1 DEF JudgeSample, Active, Inactive, vars, refresherVars
  <2>2. CASE ~IsStale(seen.sample.timestamp)
    <3>1. seen.sample.at # Never => since - seen.sample.at <= Window
      BY <2>2, NotStaleMeansRecent DEF Schedule
    <3> QED
      BY <1>4, <2>2, <3>1 DEF JudgeSample, vars, refresherVars
  <2> QED
    BY <2>1, <2>2
<1>5. CASE StartWithWorkload
  BY <1>5 DEF StartWithWorkload, StartRefresh, Active, Inactive
<1>6. CASE CollectWithWorkload
  BY <1>6 DEF CollectWithWorkload, Collect, freshnessVars, RefreshInProgress
<1>7. CASE PublishWithWorkload
  <2>1. status.lastSuccess <= since
    BY <1>7 DEF PublishWithWorkload, Publish, Schedule
  <2>2. held' # Never => since - held' <= Window
    BY <1>7, CollectionFields DEF PublishWithWorkload, Publish, TypeOK
  <2>3. held' \in Int
    BY <1>7 DEF PublishWithWorkload, Never
  <2> QED
    BY <1>7, <2>1, <2>2, <2>3 DEF PublishWithWorkload, Publish
<1>8. CASE RecordCollection /\ UNCHANGED freshnessVars
  <2>1. CASE result.ok /\ published # 0
    <3>1. status'.lastSuccess = now /\ now - since <= MaxSnapshotAge - PollInterval
      BY <1>8, <2>1 DEF RecordCollection, Recorded, TypeOK, StatusRecord, Schedule
    <3> QED
      BY <1>8, <2>1, <3>1 DEF RecordCollection, freshnessVars
  <2>2. CASE ~(result.ok /\ published # 0)
    <3>1. status'.lastSuccess = status.lastSuccess
      BY <1>8, <2>2 DEF RecordCollection, Recorded, TypeOK, StatusRecord
    <3> QED
      BY <1>8, <3>1 DEF RecordCollection, freshnessVars
  <2> QED
    BY <2>1, <2>2
<1>9. CASE /\ CollectRaises \/ RenderFails \/ ReadRefresherClock \/ ObserveReadiness
           /\ UNCHANGED freshnessVars
  BY <1>9 DEF CollectRaises, RenderFails, ReadRefresherClock, ObserveReadiness,
              freshnessVars, RefreshInProgress
<1>10. CASE Tick /\ UNCHANGED freshnessVars
  BY <1>10 DEF Tick, freshnessVars, refresherVars
<1>11. CASE UNCHANGED allVars
  BY <1>11 DEF allVars, freshnessVars, vars, refresherVars
<1> QED
  BY <1>1, <1>2, <1>3, <1>4, <1>5, <1>6, <1>7, <1>8, <1>9, <1>10, <1>11
  DEF FreshNext, OtherStep

\* The activity behind a ready answer is recent, whatever the workload, the wall clock
\* and failing refreshes do.
THEOREM RecentActivity == FreshSpec => []ActiveIsRecent
<1>1. FreshInit => FreshTypeOK /\ FreshSoFar
  BY ServiceAssumption, FreshnessAssumption
  DEF ServiceAssumption, FreshnessAssumption, FreshInit, Init, FreshTypeOK, FreshSoFar,
      Samples, Active, Inactive, Never
<1>2. IInv /\ Schedule /\ FreshTypeOK /\ FreshSoFar /\ [FreshNext]_allVars
        => FreshTypeOK' /\ FreshSoFar'
  BY FreshTypes, FreshStep DEF IInv
<1>3. IInv /\ Schedule /\ FreshTypeOK /\ FreshSoFar => ActiveIsRecent
  <2> SUFFICES ASSUME IInv, FreshTypeOK, FreshSoFar, Readiness(now) = "ready", held # Never
               PROVE  now - held <= Longest
    BY DEF ActiveIsRecent
  <2>1. TypeOK
    BY DEF IInv
  <2>2. now - status.lastSuccess <= MaxSnapshotAge
    BY <2>1, ServiceAssumption, ScheduleTypes DEF ServiceAssumption, Readiness
  <2> QED
    BY <2>1, <2>2, ServiceAssumption, FreshnessAssumption, ScheduleTypes
    DEF ServiceAssumption, FreshnessAssumption, FreshTypeOK, FreshSoFar, Window, Longest
<1> QED
  BY <1>1, <1>2, <1>3, FreshIsPrompt, PromptIsService, Invariance, PromptKeepsSchedule, PTL
  DEF FreshSpec
=============================================================================
