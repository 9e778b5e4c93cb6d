---------------------- MODULE ProfilerPublisherProofs ----------------------
(***************************************************************************)
(* Proofs about ProfilerPublisher for any number of threads and devices.   *)
(* The inductive invariant IInv adds to the properties how far the thread  *)
(* inside _publish has got, and how far close() has.                       *)
(***************************************************************************)
EXTENDS ProfilerPublisher, TLAPS

\* The device that is written now is one that was left to write.
LEMMA CurrentIsLeft ==
  ASSUME NEW t \in Threads, todo[t] # {}
  PROVE  Current(t) \in todo[t]
  BY DEF Current

\* It stays the same as long as nothing is taken from the list.
LEMMA CurrentStays ==
  ASSUME NEW t \in Threads, todo'[t] = todo[t]
  PROVE  Current(t)' = Current(t)
  BY DEF Current

\* The invariant holds before the first step.
LEMMA InitEstablishes == Init => IInv
<1> SUFFICES ASSUME Init PROVE IInv
  OBVIOUS
<1> USE PublisherAssumption DEF PublisherAssumption, Init, Threads, Writing
<1>1. TypeOK
  BY DEF TypeOK
<1>2. WritingInProgress /\ ClosingInProgress
  BY DEF WritingInProgress, ClosingInProgress
<1>3. NeverTorn /\ TemporaryIsOwned /\ CloseLeavesInactive
  BY DEF NeverTorn, TemporaryIsOwned, CloseLeavesInactive
<1> QED
  BY <1>1, <1>2, <1>3 DEF IInv

\* A step outside the lock leaves the files alone and moves one thread, which was not
\* inside _publish and does not get there; and it never lets the closing thread go on
\* as if it had not failed.
LEMMA OutsidePreserves ==
  ASSUME IInv, NEW t \in Threads, alive,
         \/ CheckSample(t) \/ NoteSample(t) \/ ReadProfiler(t) \/ PublishData(t)
         \/ SampleFails(t) \/ TestWarned(t) \/ Warn(t) \/ RefuseClosed(t) \/ Published(t)
  PROVE  IInv'
<1> USE PublisherAssumption DEF PublisherAssumption
<1> DEFINE Outside == {"idle", "checked", "read", "publish", "failed", "warn", "done"}
<1>0. TypeOK /\ ClosingInProgress
  BY DEF IInv
<1>1. /\ pc[t] \in Outside /\ pc'[t] \in Outside
      /\ pc' = [pc EXCEPT ![t] = pc'[t]]
      /\ todo' \in [Threads -> SUBSET Devices]
      /\ todo' = [todo EXCEPT ![t] = todo'[t]]
      /\ UNCHANGED <<lock, closed, published, files, alive>>
      /\ disabled' \in BOOLEAN /\ warned' \in BOOLEAN /\ recent' \in BOOLEAN
      /\ closeFailed' \in BOOLEAN
      /\ disabled => disabled'
      /\ closeFailed => closeFailed'
      /\ t = Closer =>
           /\ pc[Closer] # "idle" /\ pc'[Closer] \in {"publish", "failed", "warn", "done"}
           /\ \/ closeFailed'
              \/ pc'[Closer] = "done" /\ todo[Closer] = {}
           /\ todo' = todo
  <2> USE <1>0 DEF TypeOK, ClosingInProgress, Threads, GoTo, Fail, Recovered, flags, counts, files,
                   Writing
  <2>1. CASE CheckSample(t)
    BY <2>1 DEF CheckSample
  <2>2. CASE NoteSample(t)
    BY <2>2 DEF NoteSample
  <2>3. CASE ReadProfiler(t)
    BY <2>3 DEF ReadProfiler, Publication
  <2>4. CASE PublishData(t)
    BY <2>4 DEF PublishData, Publication
  <2>5. CASE SampleFails(t)
    BY <2>5 DEF SampleFails
  <2>6. CASE TestWarned(t)
    BY <2>6 DEF TestWarned
  <2>7. CASE Warn(t)
    BY <2>7 DEF Warn
  <2>8. CASE RefuseClosed(t)
    BY <2>8 DEF RefuseClosed
  <2>9. CASE Published(t)
    BY <2>9 DEF Published
  <2> QED
    BY <2>1, <2>2, <2>3, <2>4, <2>5, <2>6, <2>7, <2>8, <2>9
<1>2. reads' \in Nat /\ warnings' \in Nat
  <2> USE <1>0 DEF TypeOK, flags, counts, Fail
  <2>1. CASE NoteSample(t)
    BY <2>1 DEF NoteSample
  <2>2. CASE Warn(t)
    BY <2>2 DEF Warn
  <2>3. CASE UNCHANGED <<reads, warnings>>
    BY <2>3
  <2> QED
    BY <2>1, <2>2, <2>3 DEF CheckSample, ReadProfiler, PublishData, Publication, SampleFails,
       TestWarned, RefuseClosed, Published
<1>3. \A u \in Threads : pc[u] \in Writing \/ pc'[u] \in Writing =>
        u # t /\ pc'[u] = pc[u] /\ todo'[u] = todo[u] /\ Current(u)' = Current(u)
  BY <1>0, <1>1, CurrentStays DEF TypeOK, Writing
<1>4. TypeOK'
  BY <1>0, <1>1, <1>3, <1>2 DEF TypeOK, files
<1>5. WritingInProgress'
  BY <1>1, <1>3 DEF IInv, WritingInProgress, Writing, files
<1>6. ClosingInProgress'
  BY <1>0, <1>1, <1>3 DEF TypeOK, ClosingInProgress, Threads, Writing, files
<1>7. NeverTorn' /\ TemporaryIsOwned'
  BY <1>0, <1>1, <1>3 DEF IInv, TypeOK, NeverTorn, TemporaryIsOwned, files
<1>8. CloseLeavesInactive'
  BY <1>0, <1>1 DEF IInv, TypeOK, ClosingInProgress, CloseLeavesInactive, Threads, files
<1> QED
  BY <1>4, <1>5, <1>6, <1>7, <1>8 DEF IInv

\* A step inside _publish, or into it, is made by the one thread that holds the lock.
LEMMA WritingPreserves ==
  ASSUME IInv, NEW t \in Threads, alive,
         Enter(t) \/ WriteAll(t) \/ Sync(t) \/ Replace(t) \/ Leave(t) \/ WriteFails(t)
  PROVE  IInv'
<1> USE PublisherAssumption DEF PublisherAssumption
<1>0. TypeOK /\ WritingInProgress /\ ClosingInProgress /\ NeverTorn /\ TemporaryIsOwned
      /\ CloseLeavesInactive
  BY DEF IInv
<1> DEFINE d == Current(t)
<1>1. d \in Devices /\ d \in todo[t]
  BY <1>0, CurrentIsLeft
     DEF TypeOK, WritingInProgress, Enter, WriteAll, Sync, Replace, Leave, WriteFails, Writing
<1>2. ASSUME NEW u \in Threads, u # t
      PROVE  pc[u] \notin Writing /\ pc'[u] = pc[u] /\ todo'[u] = todo[u]
  <2>1. pc[u] \notin Writing
    BY <1>0, <1>2 DEF TypeOK, Enter, WriteAll, Sync, Replace, Leave, WriteFails, Writing
  <2>2. pc'[u] = pc[u] /\ todo'[u] = todo[u]
    BY <1>0, <1>2 DEF TypeOK, Enter, WriteAll, Sync, Replace, Leave, WriteFails, GoTo, Fail
  <2> QED
    BY <2>1, <2>2
<1>3. CASE Enter(t)
  <2> USE <1>0, <1>1, <1>2, <1>3
          DEF Enter, GoTo, Fail, Writing, flags, counts
  <2>1. d' = d
    BY CurrentStays
  <2>2. TypeOK'
    BY DEF TypeOK
  <2>3. WritingInProgress'
    BY <2>1 DEF TypeOK, WritingInProgress
  <2>4. ClosingInProgress'
    BY <2>1 DEF TypeOK, ClosingInProgress, Threads, WritingInProgress
  <2>5. NeverTorn'
    BY DEF TypeOK, NeverTorn, WritingInProgress
  <2>6. TemporaryIsOwned'
    BY <2>1 DEF TypeOK, TemporaryIsOwned
  <2>7. CloseLeavesInactive'
    BY DEF TypeOK, CloseLeavesInactive, ClosingInProgress, WritingInProgress, Threads
  <2> QED
    BY <2>2, <2>3, <2>4, <2>5, <2>6, <2>7 DEF IInv
<1>4. CASE WriteAll(t)
  <2> USE <1>0, <1>1, <1>2, <1>4
          DEF WriteAll, GoTo, Fail, Writing, flags, counts
  <2>1. d' = d
    BY CurrentStays
  <2>2. TypeOK'
    BY DEF TypeOK
  <2>3. WritingInProgress'
    BY <2>1 DEF TypeOK, WritingInProgress
  <2>4. ClosingInProgress'
    BY <2>1 DEF TypeOK, ClosingInProgress, Threads, WritingInProgress
  <2>5. NeverTorn'
    BY DEF TypeOK, NeverTorn, WritingInProgress
  <2>6. TemporaryIsOwned'
    BY <2>1 DEF TypeOK, TemporaryIsOwned
  <2>7. CloseLeavesInactive'
    BY DEF TypeOK, CloseLeavesInactive, ClosingInProgress, WritingInProgress, Threads
  <2> QED
    BY <2>2, <2>3, <2>4, <2>5, <2>6, <2>7 DEF IInv
<1>5. CASE Sync(t)
  <2> USE <1>0, <1>1, <1>2, <1>5
          DEF Sync, GoTo, Fail, Writing, flags, counts
  <2>1. d' = d
    BY CurrentStays
  <2>2. TypeOK'
    BY DEF TypeOK
  <2>3. WritingInProgress'
    BY <2>1 DEF TypeOK, WritingInProgress
  <2>4. ClosingInProgress'
    BY <2>1 DEF TypeOK, ClosingInProgress, Threads, WritingInProgress
  <2>5. NeverTorn'
    BY DEF TypeOK, NeverTorn, WritingInProgress
  <2>6. TemporaryIsOwned'
    BY <2>1 DEF TypeOK, TemporaryIsOwned
  <2>7. CloseLeavesInactive'
    BY DEF TypeOK, CloseLeavesInactive, ClosingInProgress, WritingInProgress, Threads
  <2> QED
    BY <2>2, <2>3, <2>4, <2>5, <2>6, <2>7 DEF IInv
<1>6. CASE Replace(t)
  <2> USE <1>0, <1>1, <1>2, <1>6
          DEF Replace, GoTo, Fail, Writing, flags, counts
  <2>1. d' = d
    BY CurrentStays
  <2>2. TypeOK'
    BY DEF TypeOK
  <2>3. WritingInProgress'
    BY <2>1 DEF TypeOK, WritingInProgress
  <2>4. ClosingInProgress'
    BY <2>1 DEF TypeOK, ClosingInProgress, Threads, WritingInProgress
  <2>5. NeverTorn'
    BY DEF TypeOK, NeverTorn, WritingInProgress
  <2>6. TemporaryIsOwned'
    BY <2>1 DEF TypeOK, TemporaryIsOwned
  <2>7. CloseLeavesInactive'
    BY DEF TypeOK, CloseLeavesInactive, ClosingInProgress, WritingInProgress, Threads
  <2> QED
    BY <2>2, <2>3, <2>4, <2>5, <2>6, <2>7 DEF IInv
<1>7. CASE Leave(t)
  <2> USE <1>0, <1>1, <1>2, <1>7
          DEF Leave, GoTo, Fail, Writing, flags, counts, files
  <2>1. TypeOK'
    BY DEF TypeOK
  <2>2. WritingInProgress'
    BY DEF TypeOK, WritingInProgress
  <2>3. ClosingInProgress'
    BY DEF TypeOK, ClosingInProgress, Threads, WritingInProgress
  <2>4. NeverTorn'
    BY DEF TypeOK, NeverTorn, WritingInProgress
  <2>5. TemporaryIsOwned'
    BY DEF TypeOK, TemporaryIsOwned, WritingInProgress
  <2>6. CloseLeavesInactive'
    BY DEF TypeOK, CloseLeavesInactive, ClosingInProgress, WritingInProgress, Threads
  <2> QED
    BY <2>1, <2>2, <2>3, <2>4, <2>5, <2>6 DEF IInv
<1>8. CASE WriteFails(t)
  <2> USE <1>0, <1>1, <1>2, <1>8
          DEF WriteFails, GoTo, Fail, Writing, flags, counts, files
  <2>1. TypeOK'
    BY DEF TypeOK
  <2>2. WritingInProgress'
    BY DEF TypeOK, WritingInProgress
  <2>3. ClosingInProgress'
    BY DEF TypeOK, ClosingInProgress, Threads, WritingInProgress
  <2>4. NeverTorn'
    BY DEF TypeOK, NeverTorn, WritingInProgress
  <2>5. TemporaryIsOwned'
    BY DEF TypeOK, TemporaryIsOwned, WritingInProgress
  <2>6. CloseLeavesInactive'
    BY DEF TypeOK, CloseLeavesInactive, ClosingInProgress, WritingInProgress, Threads
  <2> QED
    BY <2>1, <2>2, <2>3, <2>4, <2>5, <2>6 DEF IInv
<1> QED
  BY <1>3, <1>4, <1>5, <1>6, <1>7, <1>8

\* close() begins when nobody is inside _publish: what is active then is published, and
\* is what it will write.
LEMMA ClosePreserves ==
  ASSUME IInv, alive, Close(Closer)
  PROVE  IInv'
<1> USE PublisherAssumption DEF PublisherAssumption, Close, GoTo, Writing, counts, files, Threads
<1>0. TypeOK /\ WritingInProgress /\ ClosingInProgress /\ NeverTorn /\ TemporaryIsOwned
      /\ CloseLeavesInactive
  BY DEF IInv
<1>1. \A u \in Threads : u # Closer => pc'[u] = pc[u] /\ todo'[u] = todo[u] /\ pc[u] \notin Writing
  BY <1>0 DEF TypeOK
<1>2. pc'[Closer] \in {"publish", "done"}
  BY <1>0 DEF TypeOK
<1>3. TypeOK'
  BY <1>0, <1>1, <1>2 DEF TypeOK
<1>4. WritingInProgress' /\ NeverTorn' /\ TemporaryIsOwned'
  BY <1>0, <1>1, <1>2 DEF WritingInProgress, NeverTorn, TemporaryIsOwned, TypeOK
<1>5. ClosingInProgress' /\ CloseLeavesInactive'
  BY <1>0, <1>2 DEF ClosingInProgress, CloseLeavesInactive, TypeOK
<1> QED
  BY <1>3, <1>4, <1>5 DEF IInv

\* Every state file has been synchronized, so a crash tears none.
LEMMA CrashPreserves ==
  ASSUME IInv, Crash
  PROVE  IInv' /\ target' = target
<1> USE PublisherAssumption DEF PublisherAssumption, counts, flags
<1>1. target' = target
  BY DEF IInv, TypeOK, WritingInProgress, Crash
<1>2. \A t \in Threads : Current(t)' = Current(t)
  BY CurrentStays DEF Crash
<1>3. TypeOK'
  BY <1>1 DEF IInv, TypeOK, Crash, Writing
<1>4. WritingInProgress'
  BY <1>1, <1>2 DEF IInv, TypeOK, WritingInProgress, Crash
<1>5. ClosingInProgress' /\ CloseLeavesInactive'
  BY <1>1, <1>2 DEF IInv, ClosingInProgress, CloseLeavesInactive, Crash, Threads
<1>6. NeverTorn' /\ TemporaryIsOwned'
  BY <1>1 DEF IInv, NeverTorn, TemporaryIsOwned, Crash
<1> QED
  BY <1>1, <1>3, <1>4, <1>5, <1>6 DEF IInv

\* Time only runs out between samples: no file and no call is touched by it.
LEMMA ElapsePreserves ==
  ASSUME IInv, Elapse \/ UNCHANGED vars
  PROVE  IInv'
<1> USE PublisherAssumption DEF PublisherAssumption, counts, flags, files, vars
<1>1. \A t \in Threads : Current(t)' = Current(t)
  BY CurrentStays DEF Elapse
<1>2. TypeOK'
  <2>1. reads' \in Nat /\ warnings' \in Nat
    <3>1. (reads' = 0 \/ reads' = reads) /\ warnings' = warnings
      BY DEF Elapse
    <3> QED
      BY <3>1 DEF IInv, TypeOK
  <2>2. recent' \in BOOLEAN
    BY DEF IInv, TypeOK, Elapse
  <2>3. UNCHANGED <<pc, todo, lock, flags, files, alive, closeFailed>>
    BY DEF Elapse
  <2> QED
    BY <2>1, <2>2, <2>3 DEF IInv, TypeOK
<1>3. WritingInProgress'
  BY <1>1 DEF IInv, TypeOK, WritingInProgress, Elapse
<1>4. ClosingInProgress' /\ CloseLeavesInactive'
  BY <1>1 DEF IInv, ClosingInProgress, CloseLeavesInactive, Elapse, Threads
<1>5. NeverTorn'
  BY DEF IInv, NeverTorn, Elapse
<1>6. TemporaryIsOwned'
  BY <1>1 DEF IInv, TypeOK, TemporaryIsOwned, Elapse
<1> QED
  BY <1>2, <1>3, <1>4, <1>5, <1>6 DEF IInv

\* Every reachable state satisfies the inductive invariant.
THEOREM Invariance == Spec => []IInv
<1>1. Init => IInv
  BY InitEstablishes
<1>2. IInv /\ [Next]_vars => IInv'
  <2> SUFFICES ASSUME IInv, [Next]_vars PROVE IInv'
    OBVIOUS
  <2>1. ASSUME NEW t \in Threads, Step(t) PROVE IInv'
    <3>1. CASE Close(t)
      BY <2>1, <3>1, ClosePreserves DEF Step, Close
    <3> QED
      BY <2>1, <3>1, OutsidePreserves, WritingPreserves DEF Step
  <2> QED
    BY <2>1, CrashPreserves, ElapsePreserves DEF Next
<1> QED
  BY <1>1, <1>2, PTL DEF Spec

\* Each state is a thread's own, and the lock belongs to the one thread in _publish.
THEOREM TypeCorrect == Spec => []TypeOK
<1>1. IInv => TypeOK
  BY DEF IInv
<1> QED
  BY <1>1, Invariance, PTL

\* No state file is torn, whenever the process or the node stops (_publish: write, fsync,
\* rename).
THEOREM FilesAreWhole == Spec => []NeverTorn
<1>1. IInv => NeverTorn
  BY DEF IInv
<1> QED
  BY <1>1, Invariance, PTL

\* However writing ends, it leaves no temporary file without an owner.
THEOREM NothingLeftBehind == Spec => []TemporaryIsOwned
<1>1. IInv => TemporaryIsOwned
  BY DEF IInv
<1> QED
  BY <1>1, Invariance, PTL

\* close() leaves no device active unless it was disabled or failed.
THEOREM ClosedIsInactive == Spec => []CloseLeavesInactive
<1>1. IInv => CloseLeavesInactive
  BY DEF IInv
<1> QED
  BY <1>1, Invariance, PTL

\* No step publishes activity once close() has begun, whatever other threads were about
\* to publish.
THEOREM NothingActiveAfterClose == Spec => NoActiveAfterClose
<1>1. IInv /\ [Next]_vars =>
        [closed => \A d \in Devices : target'[d] = "active" => target[d] = "active"]_vars
  <2> SUFFICES ASSUME IInv, [Next]_vars, closed, NEW d \in Devices, target'[d] = "active"
               PROVE  target[d] = "active"
    OBVIOUS
  <2> USE PublisherAssumption DEF PublisherAssumption
  <2>1. CASE UNCHANGED target
    BY <2>1
  <2>2. CASE Crash
    BY <2>2, CrashPreserves
  <2>3. ASSUME NEW t \in Threads, Replace(t) PROVE target[d] = "active"
    <3>1. t = Closer
      BY <2>3 DEF IInv, TypeOK, WritingInProgress, Replace, Writing
    <3>2. target' = [target EXCEPT ![Current(t)] = "inactive"]
      BY <2>3, <3>1 DEF Replace
    <3> QED
      BY <3>2 DEF IInv, TypeOK
  <2> QED
    BY <2>1, <2>2, <2>3
    DEF Next, Step, vars, files, Elapse, CheckSample, NoteSample, ReadProfiler, PublishData,
        Publication, SampleFails, TestWarned, Warn, RefuseClosed, Enter, WriteAll, Sync, Leave,
        WriteFails, Published, Close
<1> QED
  BY <1>1, Invariance, PTL DEF Spec, NoActiveAfterClose
=============================================================================
