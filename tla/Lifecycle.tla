------------------------------ MODULE Lifecycle ------------------------------
(***************************************************************************)
(* Start and shutdown of the exporter: ExporterService.run, shutdown and   *)
(* request_shutdown (app/cli.py), HttpServer.serve and stop (app/http.py)  *)
(* on three threads: main, which serves; the poller; the coordinator,      *)
(* which turns a shutdown request into shutdown().  Between two steps of   *)
(* one thread any other may run, and a signal handler may run in main.     *)
(*                                                                         *)
(* uvicorn is external.  From its use in serve() the model keeps: run()    *)
(* takes over the signal handlers, serves until should_exit is set, drains *)
(* connections for at most timeout_graceful_shutdown, restores the         *)
(* handlers and raises the captured signal again; a listener that cannot   *)
(* be activated ends run() with SystemExit.                                *)
(***************************************************************************)
EXTENDS Naturals

CONSTANT MaxSignals   \* bound: signals the process receives

ASSUME SignalsAssumption == MaxSignals \in Nat

VARIABLES
  mpc,          \* where the main thread is
  ppc,          \* where the poller is
  cpc,          \* where the coordinator is
  running,      \* ExporterService.running
  requested,    \* ExporterService._shutdown_requested
  shuttingDown, \* RuntimeStatus._shutting_down
  built,        \* HttpServer._server is not None
  shouldExit,   \* uvicorn: should_exit
  captured,     \* uvicorn: a signal captured while it ran, to be raised again
  signals,      \* signals delivered
  timeouts,     \* grace periods main has waited out in full
  result        \* the value run() returns

vars == <<mpc, ppc, cpc, running, requested, shuttingDown, built, shouldExit,
          captured, signals, timeouts, result>>

events == <<running, requested, shuttingDown>>
server == <<built, shouldExit, captured>>

\* The statements of shutdown(), the same for the two threads that call it.
ShutdownPoints ==
  {"shutdown_check", "shutdown_begin", "shutdown_clear", "shutdown_set",
   "shutdown_setting", "shutdown_stop"}
StartPoints == {"initial_refresh", "start_poller", "start_coordinator", "check", "build",
                "enter"}
JoinPoints == {"join_poller", "join_coordinator", "finish"}

TypeOK ==
  /\ mpc \in StartPoints \cup ShutdownPoints \cup JoinPoints \cup
             {"loop", "drain", "reraise", "returned", "exited", "stuck"}
  /\ ppc \in {"unstarted", "wait", "refresh", "done"}
  /\ cpc \in {"unstarted", "wait", "done"} \cup ShutdownPoints
  /\ running \in BOOLEAN /\ requested \in BOOLEAN /\ shuttingDown \in BOOLEAN
  /\ built \in BOOLEAN /\ shouldExit \in BOOLEAN /\ captured \in BOOLEAN
  /\ signals \in 0..MaxSignals
  /\ timeouts \in Nat
  /\ result \in {0, 1}

\* run() has installed its handlers (lines 199 and 200).
Init ==
  /\ mpc = "initial_refresh" /\ ppc = "unstarted" /\ cpc = "unstarted"
  /\ running = TRUE /\ requested = FALSE /\ shuttingDown = FALSE
  /\ built = FALSE /\ shouldExit = FALSE /\ captured = FALSE
  /\ signals = 0 /\ timeouts = 0 /\ result = 0
-----------------------------------------------------------------------------
(* Main: run() up to the server.                                           *)
MainGoes(from, to) == mpc = from /\ mpc' = to

InitialRefresh ==
  /\ MainGoes("initial_refresh", "start_poller")
  /\ UNCHANGED <<ppc, cpc, events, server, signals, timeouts, result>>

\* An exception of collect() leaves run(): the process ends with a traceback.
InitialRefreshRaises ==
  /\ MainGoes("initial_refresh", "exited")
  /\ ppc' = "done" /\ cpc' = "done" /\ result' = 1
  /\ UNCHANGED <<events, server, signals, timeouts>>

StartPoller ==
  /\ MainGoes("start_poller", "start_coordinator")
  /\ ppc' = "wait"
  /\ UNCHANGED <<cpc, events, server, signals, timeouts, result>>

StartCoordinator ==
  /\ MainGoes("start_coordinator", "check")
  /\ cpc' = "wait"
  /\ UNCHANGED <<ppc, events, server, signals, timeouts, result>>

\* serve(): `if not running.is_set(): return 0`, tested only here.
CheckRunning ==
  /\ \/ running /\ MainGoes("check", "build")
     \/ ~running /\ MainGoes("check", "shutdown_check")
  /\ UNCHANGED <<ppc, cpc, events, server, signals, timeouts, result>>

\* serve() has built the configuration and assigns self._server.
BuildServer ==
  /\ MainGoes("build", "enter")
  /\ built' = TRUE
  /\ UNCHANGED <<ppc, cpc, events, shouldExit, captured, signals, timeouts, result>>

\* uvicorn captures the signals and activates the listener, or fails to.
ListenerStarts ==
  /\ MainGoes("enter", "loop")
  /\ UNCHANGED <<ppc, cpc, events, server, signals, timeouts, result>>

ListenerFails ==
  /\ MainGoes("enter", "shutdown_check")
  /\ result' = 1
  /\ UNCHANGED <<ppc, cpc, events, server, signals, timeouts>>

LoopEnds ==
  /\ shouldExit
  /\ MainGoes("loop", "drain")
  /\ UNCHANGED <<ppc, cpc, events, server, signals, timeouts, result>>

\* Open connections finish, or the graceful timeout cuts them off.
Drain ==
  /\ MainGoes("drain", "reraise")
  /\ timeouts' \in {timeouts, timeouts + 1}
  /\ UNCHANGED <<ppc, cpc, events, server, signals, result>>

\* The captured signal reaches request_shutdown after all; serve() returns 0.
Reraise ==
  /\ MainGoes("reraise", "shutdown_check")
  /\ requested' = (requested \/ captured)
  /\ UNCHANGED <<ppc, cpc, running, shuttingDown, server, signals, timeouts, result>>
-----------------------------------------------------------------------------
(* shutdown(), by main (who = "main") or by the coordinator.                *)
At(who, point) == IF who = "main" THEN mpc = point ELSE cpc = point

Continue(who, point) ==
  IF who = "main" THEN mpc' = point /\ cpc' = cpc ELSE cpc' = point /\ mpc' = mpc

AfterShutdown(who) == IF who = "main" THEN "join_poller" ELSE "done"

\* Faulty variant: readiness is not withdrawn.
ShutdownCheckSkipsBegin(who) ==
  /\ At(who, "shutdown_check")
  /\ Continue(who, IF running THEN "shutdown_clear" ELSE AfterShutdown(who))
  /\ UNCHANGED <<ppc, events, server, signals, timeouts, result>>

ShutdownCheck(who) ==
  /\ At(who, "shutdown_check")
  /\ Continue(who, IF running THEN "shutdown_begin" ELSE AfterShutdown(who))
  /\ UNCHANGED <<ppc, events, server, signals, timeouts, result>>

ShutdownBegin(who) ==
  /\ At(who, "shutdown_begin")
  /\ shuttingDown' = TRUE
  /\ Continue(who, "shutdown_clear")
  /\ UNCHANGED <<ppc, running, requested, server, signals, timeouts, result>>

\* Faulty variant: the poller is not told.
ShutdownClearSkipsSet(who) ==
  /\ At(who, "shutdown_clear")
  /\ running' = FALSE
  /\ Continue(who, "shutdown_stop")
  /\ UNCHANGED <<ppc, requested, shuttingDown, server, signals, timeouts, result>>

ShutdownClear(who) ==
  /\ At(who, "shutdown_clear")
  /\ running' = FALSE
  /\ Continue(who, "shutdown_set")
  /\ UNCHANGED <<ppc, requested, shuttingDown, server, signals, timeouts, result>>

\* threading.Event.set holds the event's plain lock between these two steps.
ShutdownEnterSet(who) ==
  /\ At(who, "shutdown_set")
  /\ Continue(who, "shutdown_setting")
  /\ UNCHANGED <<ppc, events, server, signals, timeouts, result>>

ShutdownSet(who) ==
  /\ At(who, "shutdown_setting")
  /\ requested' = TRUE
  /\ Continue(who, "shutdown_stop")
  /\ UNCHANGED <<ppc, running, shuttingDown, server, signals, timeouts, result>>

\* HttpServer.stop: nothing happens while there is no server.
ShutdownStop(who) ==
  /\ At(who, "shutdown_stop")
  /\ shouldExit' = (shouldExit \/ built)
  /\ Continue(who, AfterShutdown(who))
  /\ UNCHANGED <<ppc, events, built, captured, signals, timeouts, result>>

Shutdown(who) ==
  \/ ShutdownCheck(who) \/ ShutdownBegin(who) \/ ShutdownClear(who)
  \/ ShutdownEnterSet(who) \/ ShutdownSet(who) \/ ShutdownStop(who)
-----------------------------------------------------------------------------
(* Main: the end of run().                                                 *)
\* A join ends with its thread or after the grace period.  Only a thread blocked in
\* input or output outlasts it: the poller in a collection, the coordinator in the
\* log line that comes before begin_shutdown.
\* Faulty variant: no timeout on the join.
JoinPollerUnbounded ==
  /\ ppc = "done"
  /\ MainGoes("join_poller", "join_coordinator")
  /\ UNCHANGED <<ppc, cpc, events, server, signals, timeouts, result>>

JoinPoller ==
  /\ MainGoes("join_poller", "join_coordinator")
  /\ \/ ppc = "done" /\ timeouts' = timeouts
     \/ ppc = "refresh" /\ timeouts' = timeouts + 1
  /\ UNCHANGED <<ppc, cpc, events, server, signals, result>>

JoinCoordinator ==
  /\ MainGoes("join_coordinator", "finish")
  /\ \/ cpc = "done" /\ timeouts' = timeouts
     \/ cpc = "shutdown_begin" /\ timeouts' = timeouts + 1
  /\ UNCHANGED <<ppc, cpc, events, server, signals, result>>

\* Faulty variant: only the coordinator is looked at.
FinishIgnoringPoller ==
  /\ MainGoes("finish", "returned")
  /\ result' = IF cpc # "done" THEN 1 ELSE result
  /\ UNCHANGED <<ppc, cpc, events, server, signals, timeouts>>

Finish ==
  /\ MainGoes("finish", "returned")
  /\ result' = IF ppc # "done" \/ cpc # "done" THEN 1 ELSE result
  /\ UNCHANGED <<ppc, cpc, events, server, signals, timeouts>>

\* The interpreter waits for every thread that is not a daemon; none is.
InterpreterExits ==
  /\ ppc = "done" /\ cpc = "done"
  /\ MainGoes("returned", "exited")
  /\ UNCHANGED <<ppc, cpc, events, server, signals, timeouts, result>>

MainStep ==
  \/ InitialRefresh \/ InitialRefreshRaises \/ StartPoller \/ StartCoordinator
  \/ CheckRunning \/ BuildServer \/ ListenerStarts \/ ListenerFails \/ LoopEnds
  \/ Drain \/ Reraise \/ Shutdown("main")
  \/ JoinPoller \/ JoinCoordinator \/ Finish \/ InterpreterExits
-----------------------------------------------------------------------------
\* Faulty variant: the poll loop ignores the request.
PollerWakesIgnoringRequest ==
  /\ ppc = "wait"
  /\ ppc' = "refresh"
  /\ UNCHANGED <<mpc, cpc, events, server, signals, timeouts, result>>

\* `while not requested.wait(poll_interval)`: set, or the interval has passed.
PollerWakes ==
  /\ ppc = "wait"
  /\ ppc' = IF requested THEN "done" ELSE "refresh"
  /\ UNCHANGED <<mpc, cpc, events, server, signals, timeouts, result>>

\* refresh() returns, or raises, which ends the thread.
RefreshEnds ==
  /\ ppc = "refresh"
  /\ ppc' \in {"wait", "done"}
  /\ UNCHANGED <<mpc, cpc, events, server, signals, timeouts, result>>

\* coordinate_shutdown: its own test of running is repeated by shutdown().
CoordinatorWakes ==
  /\ cpc = "wait"
  /\ requested
  /\ cpc' = "shutdown_check"
  /\ UNCHANGED <<mpc, ppc, events, server, signals, timeouts, result>>

CoordinatorStep == CoordinatorWakes \/ Shutdown("coordinator")

\* The handler runs in main: uvicorn's while it runs, request_shutdown otherwise.
SignalCaptured ==
  /\ mpc \in {"loop", "drain"}
  /\ captured' = TRUE
  /\ shouldExit' = TRUE
  /\ UNCHANGED <<mpc, requested>>

SignalRequests ==
  /\ mpc \notin {"loop", "drain", "shutdown_setting", "exited", "stuck"}
  /\ requested' = TRUE
  /\ UNCHANGED <<mpc, captured, shouldExit>>

\* Main already holds the lock of the event that the handler sets.
SignalBlocks ==
  /\ mpc = "shutdown_setting"
  /\ mpc' = "stuck"
  /\ UNCHANGED <<requested, captured, shouldExit>>

Signal ==
  /\ signals < MaxSignals
  /\ signals' = signals + 1
  /\ SignalCaptured \/ SignalRequests \/ SignalBlocks
  /\ UNCHANGED <<ppc, cpc, running, shuttingDown, built, timeouts, result>>

Next == MainStep \/ PollerWakes \/ RefreshEnds \/ CoordinatorStep \/ Signal

Spec == Init /\ [][Next]_vars
-----------------------------------------------------------------------------
(* Properties. *)

\* shutdown() withdraws readiness before it clears running, so whoever finds running
\* cleared and returns early leaves an exporter that no longer answers "ready".
ClearedMeansNotReady == ~running => shuttingDown

\* Main joins the poller and the coordinator only when both have been told to stop,
\* even when its own shutdown() returned early because the coordinator is in the
\* middle of the other one.
JoinedThreadsToldToStop ==
  mpc \in JoinPoints \cup {"returned"} => requested /\ shuttingDown /\ ~running

\* Exit status 0 is given only when every thread has ended and readiness was withdrawn.
ExitZeroMeansClean ==
  mpc \in {"returned", "exited"} /\ result = 0 =>
    ppc = "done" /\ cpc = "done" /\ shuttingDown

\* How far shutdown() has got on a thread shows in the events: what the proofs of
\* LifecycleProofs need besides the properties.
ShutdownProgress ==
  /\ mpc \in {"shutdown_clear", "shutdown_set", "shutdown_setting", "shutdown_stop"} \/
     cpc \in {"shutdown_clear", "shutdown_set", "shutdown_setting", "shutdown_stop"}
       => shuttingDown
  /\ mpc \in {"shutdown_set", "shutdown_setting", "shutdown_stop"} => ~running
  /\ mpc = "shutdown_stop" => requested
  /\ cpc \in ShutdownPoints => requested
  /\ ~running => requested \/ mpc \in {"shutdown_set", "shutdown_setting", "stuck"}

\* The inductive invariant.
IInv ==
  /\ TypeOK
  /\ ClearedMeansNotReady
  /\ JoinedThreadsToldToStop
  /\ ExitZeroMeansClean
  /\ ShutdownProgress

\* docs/guides.md:121 "`--shutdown-grace-period`: hard upper bound for graceful
\* termination": main waits for at most one grace period in all.
OneGracePeriod == timeouts <= 1
=============================================================================
