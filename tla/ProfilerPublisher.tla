------------------------- MODULE ProfilerPublisher -------------------------
(***************************************************************************)
(* The publisher inside a TTNN workload                                    *)
(* (integrations/ttnn/metalium_profiler_publisher.py): threads that        *)
(* sample, one that closes, and the state files they leave on the node.    *)
(*                                                                         *)
(* The lock is held for the whole of _publish and for the first half of    *)
(* close; everything else - the tests of _disabled, of the interval and of *)
(* _warned - runs without it.  A read of the profiler, a write and a       *)
(* publication may each fail, and the process may be killed, or the node   *)
(* lose power, between any two steps.  What a file says is reduced to      *)
(* whether it is active.                                                   *)
(***************************************************************************)
EXTENDS Naturals, FiniteSets

CONSTANTS
  Samplers,    \* threads that call sample() or publish_profiler_data()
  Closer,      \* the thread that calls close()
  Devices,     \* keys of the devices the profiler may report
  Configured,  \* device_keys
  Strict,      \* strict=True
  Nobody       \* the lock is free

Threads == Samplers \cup {Closer}

ASSUME PublisherAssumption ==
  /\ IsFiniteSet(Threads) /\ Closer \notin Samplers /\ Nobody \notin Threads
  /\ Configured \subseteq Devices /\ Strict \in BOOLEAN

VARIABLES
  pc,          \* where a thread is
  todo,        \* devices its publication has still to write
  lock,        \* _lock
  closed, disabled, warned,
  published,   \* _published_device_keys
  recent,      \* the last sample is younger than the minimum interval
  temporary,   \* temporary file of a device: "none", "partial", "written", "synced"
  target,      \* state file of a device: "absent", "active", "inactive", "torn"
  volatile,    \* devices whose state file would not survive a loss of power
  alive,
  reads, warnings,   \* reads of the profiler in this interval; calls of the callback
  closeFailed  \* close() could not write a device

vars == <<pc, todo, lock, closed, disabled, warned, published, recent, temporary,
          target, volatile, alive, reads, warnings, closeFailed>>
flags == <<closed, disabled, warned, published>>
files == <<temporary, target, volatile>>
counts == <<recent, reads, warnings, closeFailed>>

\* Inside the lock, in the order of _publish.
Writing == {"write", "sync", "replace", "leave"}

\* The lock belongs to the one thread that is inside _publish.
TypeOK ==
  /\ pc \in [Threads -> {"idle", "checked", "read", "publish", "failed", "warn", "done"} \cup Writing]
  /\ todo \in [Threads -> SUBSET Devices]
  /\ lock \in Threads \cup {Nobody}
  /\ \A t \in Threads : pc[t] \in Writing <=> lock = t
  /\ closed \in BOOLEAN /\ disabled \in BOOLEAN /\ warned \in BOOLEAN
  /\ published \subseteq Devices
  /\ recent \in BOOLEAN
  /\ temporary \in [Devices -> {"none", "partial", "written", "synced"}]
  /\ target \in [Devices -> {"absent", "active", "inactive", "torn"}]
  /\ volatile \subseteq Devices
  /\ alive \in BOOLEAN /\ closeFailed \in BOOLEAN
  /\ reads \in Nat /\ warnings \in Nat

Init ==
  /\ pc = [t \in Threads |-> "idle"]
  /\ todo = [t \in Threads |-> {}]
  /\ lock = Nobody
  /\ closed = FALSE /\ disabled = FALSE /\ warned = FALSE
  /\ published = {}
  /\ recent = FALSE
  /\ temporary = [d \in Devices |-> "none"]
  /\ target = [d \in Devices |-> "absent"]
  /\ volatile = {}
  /\ alive = TRUE
  /\ reads = 0 /\ warnings = 0 /\ closeFailed = FALSE

GoTo(t, label) == pc' = [pc EXCEPT ![t] = label]

\* Where a thread goes when its publication has failed and been handled.
Recovered(t) == IF t \in Samplers THEN "idle" ELSE IF Strict THEN "done" ELSE "publish"
-----------------------------------------------------------------------------
(* Sampling.                                                               *)

\* sample(), up to the test of the interval.
CheckSample(t) ==
  /\ pc[t] = "idle" /\ t \in Samplers
  /\ ~disabled /\ ~recent
  /\ GoTo(t, "checked")
  /\ UNCHANGED <<todo, lock, flags, counts, files, alive>>

\* ... and the assignment of _last_sample_monotonic.
NoteSample(t) ==
  /\ pc[t] = "checked"
  /\ recent' = TRUE
  /\ reads' = reads + 1
  /\ GoTo(t, "read")
  /\ UNCHANGED <<todo, lock, flags, warnings, closeFailed, files, alive>>

\* The data names any devices; configured ones it does not name are written as well.
Publication(t) ==
  /\ \E seen \in SUBSET Devices : todo' = [todo EXCEPT ![t] = seen \cup Configured]
  /\ GoTo(t, "publish")
  /\ UNCHANGED <<lock, flags, counts, files, alive>>

ReadProfiler(t) == pc[t] = "read" /\ Publication(t)

\* publish_profiler_data() has neither environment nor interval.
PublishData(t) == pc[t] = "idle" /\ t \in Samplers /\ ~disabled /\ Publication(t)

\* _handle_failure: a RuntimeError that sample() catches disables the publisher.
Fail(t, disable) ==
  /\ GoTo(t, "failed")
  /\ disabled' = (disabled \/ disable)
  /\ closeFailed' = (closeFailed \/ t = Closer)

\* The environment is wrong, the profiler raises, or the records are impossible.
SampleFails(t) ==
  /\ pc[t] = "read" \/ (pc[t] = "publish" /\ todo[t] # {} /\ t \in Samplers)
  /\ \E disable \in BOOLEAN : (disable => pc[t] = "read") /\ Fail(t, disable)
  /\ UNCHANGED <<todo, lock, closed, warned, published, recent, reads, warnings, files, alive>>

\* The test of _warned and the call of the callback are two steps.
TestWarned(t) ==
  /\ pc[t] = "failed"
  /\ GoTo(t, IF warned THEN Recovered(t) ELSE "warn")
  /\ UNCHANGED <<todo, lock, flags, counts, files, alive>>

Warn(t) ==
  /\ pc[t] = "warn"
  /\ warned' = TRUE
  /\ warnings' = warnings + 1
  /\ GoTo(t, Recovered(t))
  /\ UNCHANGED <<todo, lock, closed, disabled, published, recent, reads, closeFailed, files, alive>>

Elapse ==
  /\ alive /\ recent
  /\ recent' = FALSE
  /\ reads' = 0
  /\ UNCHANGED <<pc, todo, lock, flags, warnings, closeFailed, files, alive>>
-----------------------------------------------------------------------------
(* _publish, for the device of todo that is written now.                   *)

Current(t) == CHOOSE d \in todo[t] : TRUE

\* Another thread has closed the publisher: RuntimeError.
RefuseClosed(t) ==
  /\ pc[t] = "publish" /\ todo[t] # {} /\ lock = Nobody
  /\ closed /\ t # Closer
  /\ \E disable \in BOOLEAN : Fail(t, disable)
  /\ UNCHANGED <<todo, lock, closed, warned, published, recent, reads, warnings, files, alive>>

\* Faulty variant: the lock is taken without looking at _closed.
EnterIgnoringClosed(t) ==
  /\ pc[t] = "publish" /\ todo[t] # {} /\ lock = Nobody
  /\ lock' = t
  /\ published' = published \cup {Current(t)}
  /\ temporary' = [temporary EXCEPT ![Current(t)] = "partial"]
  /\ GoTo(t, "write")
  /\ UNCHANGED <<todo, closed, disabled, warned, counts, target, volatile, alive>>

Enter(t) ==
  /\ pc[t] = "publish" /\ todo[t] # {} /\ lock = Nobody
  /\ closed => t = Closer
  /\ lock' = t
  /\ published' = published \cup {Current(t)}
  /\ temporary' = [temporary EXCEPT ![Current(t)] = "partial"]
  /\ GoTo(t, "write")
  /\ UNCHANGED <<todo, closed, disabled, warned, counts, target, volatile, alive>>

WriteAll(t) ==
  /\ pc[t] = "write"
  /\ temporary' = [temporary EXCEPT ![Current(t)] = "written"]
  /\ GoTo(t, "sync")
  /\ UNCHANGED <<todo, lock, flags, counts, target, volatile, alive>>

\* Faulty variant: the file is not synchronized.
SyncNothing(t) ==
  /\ pc[t] = "sync"
  /\ GoTo(t, "replace")
  /\ UNCHANGED <<todo, lock, flags, counts, files, alive>>

Sync(t) ==
  /\ pc[t] = "sync"
  /\ temporary' = [temporary EXCEPT ![Current(t)] = "synced"]
  /\ GoTo(t, "replace")
  /\ UNCHANGED <<todo, lock, flags, counts, target, volatile, alive>>

Replace(t) ==
  /\ pc[t] = "replace"
  /\ LET d == Current(t)
     IN /\ \E state \in IF t = Closer THEN {"inactive"} ELSE {"active", "inactive"} :
              target' = [target EXCEPT ![d] = state]
        /\ volatile' = IF temporary[d] = "synced" THEN volatile \ {d} ELSE volatile \cup {d}
        /\ temporary' = [temporary EXCEPT ![d] = "none"]
  /\ GoTo(t, "leave")
  /\ UNCHANGED <<todo, lock, flags, counts, alive>>

\* The directory has been synchronized: next device.
Leave(t) ==
  /\ pc[t] = "leave"
  /\ lock' = Nobody
  /\ todo' = [todo EXCEPT ![t] = @ \ {Current(t)}]
  /\ GoTo(t, "publish")
  /\ UNCHANGED <<flags, counts, files, alive>>

\* Faulty variant: a failure leaves the temporary file.
WriteFailsKeepingFile(t) ==
  /\ pc[t] \in Writing
  /\ lock' = Nobody
  /\ todo' = [todo EXCEPT ![t] = @ \ {Current(t)}]
  /\ Fail(t, FALSE)
  /\ UNCHANGED <<closed, warned, published, recent, reads, warnings, files, alive>>

\* Faulty variant: a failure leaves the lock taken.
WriteFailsKeepingLock(t) ==
  /\ pc[t] \in Writing
  /\ temporary' = [temporary EXCEPT ![Current(t)] = "none"]
  /\ todo' = [todo EXCEPT ![t] = @ \ {Current(t)}]
  /\ Fail(t, FALSE)
  /\ UNCHANGED <<lock, closed, warned, published, recent, reads, warnings, target, volatile, alive>>

\* An OSError anywhere in _publish: the temporary file is removed, the lock released.
WriteFails(t) ==
  /\ pc[t] \in Writing
  /\ lock' = Nobody
  /\ temporary' = [temporary EXCEPT ![Current(t)] = "none"]
  /\ todo' = [todo EXCEPT ![t] = @ \ {Current(t)}]
  /\ Fail(t, FALSE)
  /\ UNCHANGED <<closed, warned, published, recent, reads, warnings, target, volatile, alive>>

Published(t) ==
  /\ pc[t] = "publish" /\ todo[t] = {}
  /\ GoTo(t, IF t = Closer THEN "done" ELSE "idle")
  /\ UNCHANGED <<todo, lock, flags, counts, files, alive>>
-----------------------------------------------------------------------------
(* Closing, and the end of the process.                                    *)

\* Faulty variant: the configured devices are closed, not the published ones.
CloseConfigured(t) ==
  /\ t = Closer /\ pc[t] = "idle" /\ lock = Nobody
  /\ closed' = TRUE
  /\ IF disabled THEN GoTo(t, "done") /\ todo' = todo
     ELSE GoTo(t, "publish") /\ todo' = [todo EXCEPT ![t] = Configured]
  /\ UNCHANGED <<lock, disabled, warned, published, counts, files, alive>>

\* The locked part of close().
Close(t) ==
  /\ t = Closer /\ pc[t] = "idle" /\ lock = Nobody
  /\ closed' = TRUE
  /\ IF disabled
     THEN GoTo(t, "done") /\ todo' = todo
     ELSE /\ GoTo(t, "publish")
          /\ todo' = [todo EXCEPT ![t] = IF published # {} THEN published ELSE Configured]
  /\ UNCHANGED <<lock, disabled, warned, published, counts, files, alive>>

\* The process is killed, or the node loses power.
Crash ==
  /\ alive
  /\ alive' = FALSE
  /\ \E lost \in SUBSET volatile :
        target' = [d \in Devices |-> IF d \in lost THEN "torn" ELSE target[d]]
  /\ UNCHANGED <<pc, todo, lock, flags, counts, temporary, volatile>>

Step(t) ==
  /\ alive
  /\ \/ CheckSample(t) \/ NoteSample(t) \/ ReadProfiler(t) \/ PublishData(t)
     \/ SampleFails(t) \/ TestWarned(t) \/ Warn(t)
     \/ RefuseClosed(t) \/ Enter(t) \/ WriteAll(t) \/ Sync(t) \/ Replace(t)
     \/ Leave(t) \/ WriteFails(t) \/ Published(t) \/ Close(t)

Next == (\E t \in Threads : Step(t)) \/ Elapse \/ Crash

Spec == Init /\ [][Next]_vars

\* A thread that is scheduled goes on: no read and no write blocks for ever.
FairSpec == Spec /\ WF_vars(Step(Closer))
                 /\ \A t \in Samplers : WF_vars(pc[t] # "idle" /\ Step(t))
-----------------------------------------------------------------------------
\* Whenever the process or the node stops, no state file is torn ("temporary file,
\* flush, fsync, atomic rename", docs/guides.md).
NeverTorn == \A d \in Devices : target[d] # "torn"

\* As long as the process runs, a temporary file exists only while the thread that
\* holds the lock is writing it, however writing ends.
TemporaryIsOwned ==
  alive => \A d \in Devices : temporary[d] # "none" =>
             lock \in Threads /\ pc[lock] \in Writing /\ d = Current(lock)

\* Nothing active is published once close() has begun, although samples may be under
\* way in other threads.
NoActiveAfterClose ==
  [][closed => \A d \in Devices : target'[d] = "active" => target[d] = "active"]_vars

\* A close that was not skipped and did not fail leaves no device active, those that
\* only the profiler knew included.
CloseLeavesInactive ==
  (pc[Closer] = "done" /\ ~disabled /\ ~closeFailed) => \A d \in Devices : target[d] # "active"

\* close() returns, whatever fails in it and whatever the other threads do.
CloseReturns == closed ~> (pc[Closer] = "done" \/ ~alive)

\* docs/guides.md: "On a normal process exit, `close()` writes a final inactive sample".
ExitLeavesInactive ==
  (pc[Closer] = "done" /\ ~closeFailed) => \A d \in Devices : target[d] # "active"

\* docs/info.md: "A minimum sample interval defaults to one second."
OneReadPerInterval == reads <= 1

\* docs/info.md: failures "warn once".
WarnsOnce == warnings <= 1

\* What the thread inside _publish has reached, which the proofs need: its device is
\* noted as published before any file is, the file is synchronized before it is moved,
\* and after close() only the closing thread gets inside.
WritingInProgress ==
  /\ \A t \in Threads : pc[t] \in Writing => todo[t] # {} /\ Current(t) \in published
  /\ \A t \in Threads : pc[t] = "replace" => temporary[Current(t)] = "synced"
  /\ \A t \in Threads : pc[t] = "leave" => temporary[Current(t)] = "none"
  /\ volatile = {}
  /\ closed => lock \in {Closer, Nobody}

\* How far close() has got: what is active is among the devices it has still to write.
ClosingInProgress ==
  /\ pc[Closer] \notin {"checked", "read"}
  /\ closed <=> pc[Closer] # "idle"
  /\ pc[Closer] \in {"failed", "warn"} => closeFailed
  /\ pc[Closer] = "leave" => target[Current(Closer)] # "active"
  /\ \A d \in Devices : target[d] = "active" => d \in published
  /\ (closed /\ ~disabled /\ ~closeFailed) =>
       \A d \in Devices : target[d] = "active" => d \in todo[Closer]

IInv == TypeOK /\ WritingInProgress /\ ClosingInProgress /\ NeverTorn /\ TemporaryIsOwned
          /\ CloseLeavesInactive
=============================================================================
