------------------------- MODULE MCSnapshotService -------------------------
(***************************************************************************)
(* SnapshotService under fairness, for TLC only.                           *)
(***************************************************************************)
EXTENDS SnapshotService

\* Time never stops; nothing at all is assumed of the threads.
FairTimeSpec == Spec /\ WF_now(Tick)

\* A thread that can run does run, and the refresher keeps its schedule, so that
\* the bound Horizon never cuts a refresh short.
FairPromptSpec == PromptSpec /\ WF_vars(RefreshStep)

\* A refresher that stays at one point for ever, killed by an exception of collect()
\* or blocked in a read, is noticed: the exporter ends up not ready for good.
StuckRefresherNoticed ==
  <>[][FALSE]_rpc => <>[](Readiness(now) # "ready")

\* docs/guides.md:91 "A failed refresh retains the previous complete payload while
\* runtime failure counters and readiness continue to update": every refresh begun is
\* recorded.
RefreshAlwaysRecorded == rpc = "collect" ~> rpc = "observe_clock"
=============================================================================
