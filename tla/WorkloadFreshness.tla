-------------------------- MODULE WorkloadFreshness --------------------------
(***************************************************************************)
(* A workload's sample on its way to a scrape: the publisher writes it     *)
(* with the wall clock (metalium_profiler_publisher.py), a collection      *)
(* reads it and compares it with the wall clock once (collection/state.py),*)
(* and the page made of it is served until a refresh replaces it           *)
(* (SnapshotService, with a prompt refresher; a shutdown only ends         *)
(* readiness and is left out).  The workload may be killed, and the wall   *)
(* clock be set, at any point.                                             *)
(***************************************************************************)
EXTENDS SnapshotService

CONSTANTS
  StaleAfter,   \* --metalium-profiler-stale-after
  MaxStep       \* bound: how far the wall clock may be set back

ASSUME FreshnessAssumption == StaleAfter \in Nat \ {0} /\ MaxStep \in Nat

VARIABLES
  offset,    \* the wall clock, less the monotonic one
  alive,     \* the workload's process runs
  sample,    \* the state file
  seen,      \* what the collection in progress made of the file
  held       \* when the activity that the stored payload shows was written, or Never

freshnessVars == <<offset, alive, sample, seen, held>>
allVars == <<vars, freshnessVars>>

WallClock == now + offset

\* A sample that reports activity: when it was written, and its timestamp.
Active(at, timestamp) == [at |-> at, timestamp |-> timestamp]
Inactive == Active(Never, 0)

FreshInit ==
  /\ Init
  /\ offset = MaxStep
  /\ alive = TRUE
  /\ sample = Inactive
  /\ seen = [step |-> "unread", sample |-> Inactive]
  /\ held = Never
-----------------------------------------------------------------------------
(* The workload and the wall clock. *)

\* MetaliumProfilerPublisher._publish: the file is replaced in one step.
PublishSample ==
  /\ alive /\ now < Horizon
  /\ sample' \in {Active(now, WallClock), Inactive}
  /\ UNCHANGED <<vars, offset, alive, seen, held>>

\* A normal exit: close() publishes that the workload is inactive.
CloseWorkload ==
  /\ alive
  /\ sample' = Inactive
  /\ alive' = FALSE
  /\ UNCHANGED <<vars, offset, seen, held>>

\* A kill leaves the latest sample behind.
KillWorkload ==
  /\ alive
  /\ alive' = FALSE
  /\ UNCHANGED <<vars, offset, sample, seen, held>>

\* The wall clock is set back.
SetWallClock ==
  /\ now < Horizon
  /\ offset' \in 0 .. offset - 1
  /\ UNCHANGED <<vars, alive, sample, seen, held>>
-----------------------------------------------------------------------------
(* A collection reads the file, and the clock after it. *)
ReadSample ==
  /\ rpc = "collect" /\ seen.step = "unread"
  /\ seen' = [step |-> "read", sample |-> sample]
  /\ UNCHANGED <<vars, offset, alive, sample, held>>

\* Faulty variant: only a timestamp ahead of the clock is stale.
IsStaleAhead(timestamp) ==
  StaleAfter > 0 /\ timestamp > WallClock + StaleAfter

IsStale(timestamp) ==
  StaleAfter > 0 /\ (timestamp < WallClock - StaleAfter \/ timestamp > WallClock + StaleAfter)

\* tt_metalium_workload_active will show activity unless the sample is stale.
JudgeSample ==
  /\ rpc = "collect" /\ seen.step = "read"
  /\ seen' = [step |-> "judged",
              sample |-> IF IsStale(seen.sample.timestamp) THEN Inactive ELSE seen.sample]
  /\ UNCHANGED <<vars, offset, alive, sample, held>>

\* The collection returns: with devices, it has judged their workloads.
CollectWithWorkload ==
  /\ \E collection \in Collections :
        /\ collection.devices > 0 => seen.step = "judged"
        /\ Collect(collection)
  /\ UNCHANGED freshnessVars

\* The payload is made of what was read, or shows no device.
PublishWithWorkload ==
  /\ Publish
  /\ held' = IF result.devices > 0 THEN seen.sample.at ELSE Never
  /\ UNCHANGED <<offset, alive, sample, seen>>

StartWithWorkload ==
  /\ StartRefresh
  /\ seen' = [step |-> "unread", sample |-> Inactive]
  /\ UNCHANGED <<offset, alive, sample, held>>

OtherStep ==
  /\ \/ CollectRaises
     \/ RenderFails
     \/ ReadRefresherClock
     \/ RecordCollection
     \/ ObserveReadiness
     \/ OnSchedule /\ Tick
  /\ UNCHANGED freshnessVars

FreshNext ==
  \/ PublishSample
  \/ CloseWorkload
  \/ KillWorkload
  \/ SetWallClock
  \/ ReadSample
  \/ JudgeSample
  \/ StartWithWorkload
  \/ CollectWithWorkload
  \/ PublishWithWorkload
  \/ OtherStep

FreshSpec == FreshInit /\ [][FreshNext]_allVars
-----------------------------------------------------------------------------
(* Properties. *)

Samples == [at : Int, timestamp : Int]

FreshTypeOK ==
  /\ offset \in 0..MaxStep
  /\ alive \in BOOLEAN
  /\ sample \in Samples
  /\ seen \in [step : {"unread", "read", "judged"}, sample : Samples]
  /\ held \in Int

\* What the window and the wall clock allow between a sample and the collection that
\* takes it for fresh.
Window == StaleAfter + MaxStep

\* The age of the activity that is seen, published and confirmed, from the start of the
\* refresh that did so.
FreshSoFar ==
  /\ sample.at # Never => sample.timestamp <= sample.at + MaxStep
  /\ seen.sample.at # Never => seen.sample.timestamp <= seen.sample.at + MaxStep
  /\ rpc \in {"collect", "render"} /\ seen.step = "judged" /\ seen.sample.at # Never =>
       since - seen.sample.at <= Window
  /\ rpc = "render" /\ result.devices > 0 => seen.step = "judged"
  /\ rpc \in {"record_clock", "record"} /\ published # 0 /\ held # Never =>
       since - held <= Window
  /\ held # Never =>
       status.lastSuccess - held <= Window + (MaxSnapshotAge - PollInterval)

\* How long ago a sample may have been written that a ready exporter still shows as
\* activity: the freshness window, by the wall clock; then the rest of the collection;
\* then the age that readiness allows the payload.
Longest ==
  Window + (MaxSnapshotAge - PollInterval) + MaxSnapshotAge

\* A workload that was killed while active is not shown as active for ever: although
\* staleness is judged once, when the file is read, and the page is served from the
\* store for as long as refreshes fail, a ready exporter shows only recent activity.
ActiveIsRecent ==
  (Readiness(now) = "ready" /\ held # Never) => now - held <= Longest
=============================================================================
