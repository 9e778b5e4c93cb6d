--------------------------- MODULE LifecycleProofs ---------------------------
(***************************************************************************)
(* Proofs about Lifecycle for any number of signals.  The inductive        *)
(* invariant IInv adds to the properties how far shutdown() has got on     *)
(* each of the two threads that may be in it at once.                      *)
(***************************************************************************)
EXTENDS Lifecycle, TLAPS

\* The statements of shutdown() preserve the invariant when main runs them, wherever
\* the coordinator is.
LEMMA MainShutdownPreserves == IInv /\ Shutdown("main") => IInv'
<1> SUFFICES ASSUME IInv, Shutdown("main") PROVE IInv'
  OBVIOUS
<1> USE SignalsAssumption
    DEF SignalsAssumption, IInv, TypeOK, ClearedMeansNotReady, JoinedThreadsToldToStop,
        ExitZeroMeansClean, ShutdownProgress, ShutdownPoints, StartPoints, JoinPoints,
        events, server, At, Continue, AfterShutdown
<1>1. CASE ShutdownCheck("main")
  BY <1>1 DEF ShutdownCheck
<1>2. CASE ShutdownBegin("main")
  BY <1>2 DEF ShutdownBegin
<1>3. CASE ShutdownClear("main")
  BY <1>3 DEF ShutdownClear
<1>4. CASE ShutdownEnterSet("main")
  BY <1>4 DEF ShutdownEnterSet
<1>5. CASE ShutdownSet("main")
  BY <1>5 DEF ShutdownSet
<1>6. CASE ShutdownStop("main")
  BY <1>6 DEF ShutdownStop
<1> QED
  BY <1>1, <1>2, <1>3, <1>4, <1>5, <1>6 DEF Shutdown

\* ... and when the coordinator runs them, wherever main is.
LEMMA CoordinatorShutdownPreserves == IInv /\ Shutdown("coordinator") => IInv'
<1> SUFFICES ASSUME IInv, Shutdown("coordinator") PROVE IInv'
  OBVIOUS
<1> USE SignalsAssumption
    DEF SignalsAssumption, IInv, TypeOK, ClearedMeansNotReady, JoinedThreadsToldToStop,
        ExitZeroMeansClean, ShutdownProgress, ShutdownPoints, StartPoints, JoinPoints,
        events, server, At, Continue, AfterShutdown
<1>1. CASE ShutdownCheck("coordinator")
  BY <1>1 DEF ShutdownCheck
<1>2. CASE ShutdownBegin("coordinator")
  BY <1>2 DEF ShutdownBegin
<1>3. CASE ShutdownClear("coordinator")
  BY <1>3 DEF ShutdownClear
<1>4. CASE ShutdownEnterSet("coordinator")
  BY <1>4 DEF ShutdownEnterSet
<1>5. CASE ShutdownSet("coordinator")
  BY <1>5 DEF ShutdownSet
<1>6. CASE ShutdownStop("coordinator")
  BY <1>6 DEF ShutdownStop
<1> QED
  BY <1>1, <1>2, <1>3, <1>4, <1>5, <1>6 DEF Shutdown

\* The other steps of main preserve the invariant.
LEMMA MainPreserves == IInv /\ MainStep => IInv'
<1> SUFFICES ASSUME IInv, MainStep PROVE IInv'
  OBVIOUS
<1>0. CASE Shutdown("main")
  BY <1>0, MainShutdownPreserves
<1> USE SignalsAssumption
    DEF SignalsAssumption, IInv, TypeOK, ClearedMeansNotReady, JoinedThreadsToldToStop,
        ExitZeroMeansClean, ShutdownProgress, ShutdownPoints, StartPoints, JoinPoints,
        events, server, MainGoes
<1>1. CASE InitialRefresh \/ InitialRefreshRaises \/ StartPoller \/ StartCoordinator
  BY <1>1 DEF InitialRefresh, InitialRefreshRaises, StartPoller, StartCoordinator
<1>2. CASE CheckRunning
  BY <1>2 DEF CheckRunning
<1>3. CASE ListenerStarts \/ LoopEnds
  BY <1>3 DEF ListenerStarts, LoopEnds
<1>10. CASE BuildServer
  BY <1>10 DEF BuildServer
<1>7. CASE ListenerFails
  BY <1>7 DEF ListenerFails
<1>8. CASE Drain
  BY <1>8 DEF Drain
<1>9. CASE Reraise
  BY <1>9 DEF Reraise
<1>4. CASE JoinPoller
  BY <1>4 DEF JoinPoller
<1>5. CASE JoinCoordinator
  BY <1>5 DEF JoinCoordinator
<1>6. CASE Finish \/ InterpreterExits
  BY <1>6 DEF Finish, InterpreterExits
<1> QED
  BY <1>0, <1>1, <1>2, <1>3, <1>4, <1>5, <1>6, <1>7, <1>8, <1>9, <1>10 DEF MainStep

\* The inductive invariant holds throughout.
THEOREM Invariance == Spec => []IInv
<1> USE SignalsAssumption
    DEF SignalsAssumption, TypeOK, ClearedMeansNotReady, JoinedThreadsToldToStop,
        ExitZeroMeansClean, ShutdownProgress, ShutdownPoints, StartPoints, JoinPoints
<1>1. Init => IInv
  <2> SUFFICES ASSUME Init PROVE IInv
    OBVIOUS
  <2>1. signals \in 0..MaxSignals /\ timeouts \in Nat /\ result \in {0, 1}
    BY DEF Init
  <2>2. TypeOK
    BY <2>1, Zenon DEF Init
  <2>3. JoinedThreadsToldToStop /\ ExitZeroMeansClean /\ ShutdownProgress
    BY DEF Init
  <2> QED
    BY <2>2, <2>3 DEF Init, IInv
<1>2. IInv /\ [Next]_vars => IInv'
  <2> SUFFICES ASSUME IInv, [Next]_vars PROVE IInv'
    OBVIOUS
  <2>1. CASE MainStep
    BY <2>1, MainPreserves
  <2>2. CASE Shutdown("coordinator")
    BY <2>2, CoordinatorShutdownPreserves
  <2> USE DEF IInv, events, server
  <2>3. CASE CoordinatorWakes
    BY <2>3 DEF CoordinatorWakes
  <2>4. CASE PollerWakes \/ RefreshEnds
    BY <2>4 DEF PollerWakes, RefreshEnds
  <2>5. CASE Signal
    <3>1. CASE SignalCaptured
      BY <2>5, <3>1 DEF Signal, SignalCaptured
    <3>2. CASE SignalRequests
      BY <2>5, <3>2 DEF Signal, SignalRequests
    <3>3. CASE SignalBlocks
      BY <2>5, <3>3 DEF Signal, SignalBlocks
    <3> QED
      BY <2>5, <3>1, <3>2, <3>3 DEF Signal
  <2>6. CASE UNCHANGED vars
    BY <2>6 DEF vars
  <2> QED
    BY <2>1, <2>2, <2>3, <2>4, <2>5, <2>6 DEF Next, CoordinatorStep
<1> QED
  BY <1>1, <1>2, PTL DEF Spec

\* Whoever finds running cleared may rely on readiness being withdrawn.
THEOREM ReadinessWithdrawnFirst == Spec => []ClearedMeansNotReady
<1>1. IInv => ClearedMeansNotReady
  BY DEF IInv
<1> QED
  BY <1>1, Invariance, PTL

\* No join waits for a thread that has not been told to stop.
THEOREM JoinsAreSignalled == Spec => []JoinedThreadsToldToStop
<1>1. IInv => JoinedThreadsToldToStop
  BY DEF IInv
<1> QED
  BY <1>1, Invariance, PTL

\* Exit status 0 means that no thread was left behind.
THEOREM CleanExit == Spec => []ExitZeroMeansClean
<1>1. IInv => ExitZeroMeansClean
  BY DEF IInv
<1> QED
  BY <1>1, Invariance, PTL
=============================================================================
