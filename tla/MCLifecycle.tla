----------------------------- MODULE MCLifecycle -----------------------------
(***************************************************************************)
(* Lifecycle under fairness, for TLC.  Threads that can run do run, and    *)
(* the timed waits of uvicorn and of join end.  A collection may be        *)
(* blocked in a read for ever, unless the specification says otherwise.    *)
(***************************************************************************)
EXTENDS Lifecycle

ThreadsRun == WF_vars(MainStep) /\ WF_vars(CoordinatorStep) /\ WF_vars(PollerWakes)

FairSpec == Spec /\ ThreadsRun

\* Every collection ends.
FairCollectionSpec == FairSpec /\ WF_vars(RefreshEnds)

\* A signal that arrives while uvicorn serves ends the process...
CapturedSignalEndsProcess == captured ~> mpc = "exited"

\* ... if every collection ends, and no other signal meets main inside Event.set, where
\* it would wait for its own lock.
ProcessEnds == WF_vars(RefreshEnds) => (captured ~> mpc \in {"exited", "stuck"})

\* run() returns even if the poller never comes back from a collection, with the same
\* exception.
RunReturns == captured ~> mpc \in {"returned", "exited", "stuck"}

\* docs/guides.md:127 "Shutdown marks readiness false, closes the listener": once the
\* readiness is withdrawn, the server does not go on serving for ever.
ShutdownEndsServing == shuttingDown ~> mpc \notin {"check", "build", "enter", "loop"}

\* docs/guides.md:121 "`--shutdown-grace-period`: hard upper bound for graceful
\* termination": when run() has returned, the process ends.
ReturnedProcessExits == mpc = "returned" ~> mpc = "exited"
=============================================================================
