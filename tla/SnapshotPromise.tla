--------------------------- MODULE SnapshotPromise ---------------------------
(***************************************************************************)
(* What the exporter promises to a client, with no threads, locks or clock *)
(* in it: complete generations are published one at a time, each one is    *)
(* confirmed by the runtime status before the next one appears, a reader   *)
(* gets the newest published generation, and "ready" is answered only      *)
(* while there is a confirmed generation and no shutdown has begun.        *)
(* SnapshotService is shown to implement this specification.               *)
(***************************************************************************)
EXTENDS Naturals

VARIABLES
  published,   \* generation in the snapshot store, 0 when there is none
  confirmed,   \* generation the runtime status reports
  served,      \* generation of the latest snapshot a request handler loaded
  ready,       \* whether the latest /readyz answer was 200
  closed       \* shutdown has begun

promiseVars == <<published, confirmed, served, ready, closed>>

PromiseInit ==
  /\ published = 0
  /\ confirmed = 0
  /\ served = 0
  /\ ready = FALSE
  /\ closed = FALSE

\* A complete new generation replaces the whole previous one.
PublishGeneration ==
  /\ published = confirmed
  /\ published' = published + 1
  /\ UNCHANGED <<confirmed, served, ready, closed>>

ConfirmGeneration ==
  /\ published = confirmed + 1
  /\ confirmed' = published
  /\ UNCHANGED <<published, served, ready, closed>>

ServeGeneration ==
  /\ served' = published
  /\ UNCHANGED <<published, confirmed, ready, closed>>

AnswerReady ==
  /\ confirmed > 0
  /\ ~closed
  /\ ready' = TRUE
  /\ UNCHANGED <<published, confirmed, served, closed>>

AnswerNotReady ==
  /\ ready' = FALSE
  /\ UNCHANGED <<published, confirmed, served, closed>>

Close ==
  /\ closed' = TRUE
  /\ UNCHANGED <<published, confirmed, served, ready>>

PromiseNext ==
  \/ PublishGeneration
  \/ ConfirmGeneration
  \/ ServeGeneration
  \/ AnswerReady
  \/ AnswerNotReady
  \/ Close

Promise == PromiseInit /\ [][PromiseNext]_promiseVars
=============================================================================
