-------------------------- MODULE HttpConnections --------------------------
(***************************************************************************)
(* The connections of the HTTP server (BoundedH11Protocol and              *)
(* _ContractMiddleware, app/http.py): the limit on their number, the       *)
(* deadline for the first request, and what RuntimeStatus counts.          *)
(*                                                                         *)
(* Everything here runs on one event loop, so a callback is one step; the  *)
(* coroutine of a request never waits, so it is one step as well, taken at *)
(* some time after the callback that created it.  The loop delivers the    *)
(* callbacks of different connections, and a timer and data of the same    *)
(* connection, in any order.  A member of Conns is one TCP connection.     *)
(***************************************************************************)
EXTENDS Naturals, Sequences, FiniteSets

CONSTANTS
  Conns,     \* connections that clients open
  Maximum    \* maximum_connections = workers + queue_depth

ASSUME HttpAssumption == IsFiniteSet(Conns) /\ Maximum \in Nat \ {0}

VARIABLES
  conn,         \* transport of a connection: "none", "open", "closing" or "lost"
  connections,  \* uvicorn's set of connections
  scope,        \* connections whose request head has been parsed
  chunked,      \* those of them whose body is sent in chunks
  timer,        \* connections whose request deadline is armed
  answers,      \* classes of the answers written to the client
  recorded,     \* classes record_http_request was called with
  active,       \* _active_connections
  rejected      \* _rejected_connections

vars == <<conn, connections, scope, chunked, timer, answers, recorded, active, rejected>>

Classes == {"2xx", "4xx", "5xx"}

TypeOK ==
  /\ conn \in [Conns -> {"none", "open", "closing", "lost"}]
  /\ connections \subseteq Conns
  /\ scope \subseteq Conns /\ chunked \subseteq scope
  /\ timer \subseteq connections
  /\ answers \in [Conns -> Seq(Classes)]
  /\ recorded \in [Conns -> Seq(Classes)]
  /\ active \in Nat /\ rejected \in Nat

Init ==
  /\ conn = [c \in Conns |-> "none"]
  /\ connections = {} /\ scope = {} /\ chunked = {} /\ timer = {}
  /\ answers = [c \in Conns |-> <<>>]
  /\ recorded = [c \in Conns |-> <<>>]
  /\ active = 0 /\ rejected = 0

Write(c, class) == answers' = [answers EXCEPT ![c] = Append(@, class)]

\* uvicorn's send_400_response.
ParserAnswers(c) ==
  /\ Write(c, "4xx")
  /\ conn' = [conn EXCEPT ![c] = "closing"]
  /\ UNCHANGED <<connections, scope, chunked, timer, recorded, active, rejected>>
-----------------------------------------------------------------------------
\* Over the limit: a 503, and nothing but the rejection is counted.
Reject(c) ==
  /\ conn[c] = "none"
  /\ Cardinality(connections) >= Maximum
  /\ rejected' = rejected + 1
  /\ Write(c, "5xx")
  /\ conn' = [conn EXCEPT ![c] = "closing"]
  /\ UNCHANGED <<connections, scope, chunked, timer, recorded, active>>

\* Faulty variant: the deadline is not armed.
AdmitWithoutDeadline(c) ==
  /\ conn[c] = "none"
  /\ Cardinality(connections) < Maximum
  /\ conn' = [conn EXCEPT ![c] = "open"]
  /\ connections' = connections \cup {c}
  /\ active' = active + 1
  /\ UNCHANGED <<scope, chunked, timer, answers, recorded, rejected>>

Admit(c) ==
  /\ conn[c] = "none"
  /\ Cardinality(connections) < Maximum
  /\ conn' = [conn EXCEPT ![c] = "open"]
  /\ connections' = connections \cup {c}
  /\ timer' = timer \cup {c}
  /\ active' = active + 1
  /\ UNCHANGED <<scope, chunked, answers, recorded, rejected>>

\* data_received completes a request head: uvicorn sets the scope and creates the
\* task of the request, and the deadline is cancelled.  Only a chunked body has a
\* syntax of its own.
HeadArrives(c) ==
  /\ conn[c] = "open" /\ c \notin scope
  /\ scope' = scope \cup {c}
  /\ chunked' \in {chunked, chunked \cup {c}}
  /\ timer' = timer \ {c}
  /\ UNCHANGED <<conn, connections, answers, recorded, active, rejected>>

\* data_received finds no HTTP: uvicorn answers and closes; the deadline stays armed.
HeadInvalid(c) ==
  /\ conn[c] = "open" /\ c \notin scope
  /\ ParserAnswers(c)

\* uvicorn goes on parsing what follows the head.  A malformed chunk, in the same data
\* or in data read before the task of the request has run, is answered by the parser
\* too; the deadline was cancelled with the head.
ChunkInvalid(c) ==
  /\ conn[c] = "open" /\ c \in chunked /\ recorded[c] = <<>>
  /\ ParserAnswers(c)

\* Faulty variant: a transport that is closing already is written to.
DeadlineWritesWhileClosing(c) ==
  /\ c \in timer
  /\ timer' = timer \ {c}
  /\ IF c \notin scope
     THEN Write(c, "4xx") /\ conn' = [conn EXCEPT ![c] = "closing"]
     ELSE UNCHANGED <<answers, conn>>
  /\ UNCHANGED <<connections, scope, chunked, recorded, active, rejected>>

\* _request_timed_out.
Deadline(c) ==
  /\ c \in timer
  /\ timer' = timer \ {c}
  /\ IF c \notin scope /\ conn[c] # "closing"
     THEN Write(c, "4xx") /\ conn' = [conn EXCEPT ![c] = "closing"]
     ELSE UNCHANGED <<answers, conn>>
  /\ UNCHANGED <<connections, scope, chunked, recorded, active, rejected>>

Answered(c) ==
  /\ c \in scope
  /\ recorded[c] = <<>>
  /\ conn' = [conn EXCEPT ![c] = IF @ = "open" THEN "closing" ELSE @]
  /\ UNCHANGED <<connections, scope, chunked, timer, active, rejected>>

\* Faulty variant: the status of the response is not noted.
ServeRecordingDefault(c) ==
  /\ Answered(c)
  /\ recorded' = [recorded EXCEPT ![c] = Append(@, "5xx")]
  /\ \E class \in Classes : IF conn[c] = "open" THEN Write(c, class) ELSE UNCHANGED answers

\* The middleware answers or has the application answer, and records the request; one
\* with a Transfer-Encoding gets a 400 or 431.  uvicorn closes the connection, as the
\* headers say.  The client may have gone, or the parser have answered: then nothing is
\* written, and the request is recorded all the same.
Serve(c) ==
  /\ Answered(c)
  /\ \E class \in Classes :
        /\ c \in chunked => class = "4xx"
        /\ recorded' = [recorded EXCEPT ![c] = Append(@, class)]
        /\ IF conn[c] = "open" THEN Write(c, class) ELSE UNCHANGED answers

\* End of file or a reset: the transport closes.
ClientLeaves(c) ==
  /\ conn[c] = "open"
  /\ conn' = [conn EXCEPT ![c] = "closing"]
  /\ UNCHANGED <<connections, scope, chunked, timer, answers, recorded, active, rejected>>

\* Faulty variant: the loss of a rejected connection is counted too.
LostCountingRejected(c) ==
  /\ conn[c] = "closing"
  /\ conn' = [conn EXCEPT ![c] = "lost"]
  /\ timer' = timer \ {c}
  /\ active' = IF active > 0 THEN active - 1 ELSE 0
  /\ connections' = connections \ {c}
  /\ UNCHANGED <<scope, chunked, answers, recorded, rejected>>

\* connection_lost, once what was written has been sent or the client has gone.
Lost(c) ==
  /\ conn[c] = "closing"
  /\ conn' = [conn EXCEPT ![c] = "lost"]
  /\ timer' = timer \ {c}
  /\ active' = IF c \in connections /\ active > 0 THEN active - 1 ELSE active
  /\ connections' = connections \ {c}
  /\ UNCHANGED <<scope, chunked, answers, recorded, rejected>>

Next == \E c \in Conns :
  \/ Reject(c) \/ Admit(c) \/ HeadArrives(c) \/ HeadInvalid(c) \/ ChunkInvalid(c)
  \/ Deadline(c) \/ Serve(c) \/ ClientLeaves(c) \/ Lost(c)

Spec == Init /\ [][Next]_vars

\* call_later fires; the few bytes of an answer to a client that sent no request fit
\* the socket's buffer.  Nothing is assumed of clients, nor that they read a page.
FairSpec ==
  /\ Spec
  /\ \A c \in Conns : WF_vars(Deadline(c)) /\ WF_vars(c \notin scope /\ Lost(c))
-----------------------------------------------------------------------------
\* The gauge of active connections is the number of connections uvicorn holds, which
\* never exceeds the limit; a rejected connection counts once, as rejected.
ConnectionAccounting ==
  /\ active = Cardinality(connections)
  /\ Cardinality(connections) <= Maximum
  /\ connections \cap {c \in Conns : conn[c] \in {"none", "lost"}} = {}

\* A client gets at most one answer, whichever of the parser, the deadline, the limit
\* and the application comes first.  The answer to a request comes from the middleware
\* or the application, which record it; only a chunked request may be answered by the
\* parser instead, and that answer is a 4xx.
OneAnswer ==
  \A c \in Conns :
     /\ Len(answers[c]) <= 1
     /\ c \in scope /\ answers[c] # <<>> /\ recorded[c] = <<>> =>
          c \in chunked /\ answers[c] = <<"4xx">>

\* A request is recorded once, under the class the client was answered with, even when
\* it was the parser that answered; a connection without a request is never recorded.
RecordedAsAnswered ==
  \A c \in Conns :
     /\ Len(recorded[c]) <= IF c \in scope THEN 1 ELSE 0
     /\ recorded[c] # <<>> /\ answers[c] # <<>> => recorded[c] = answers[c]

\* A client that sends no request does not keep its place.
SilentConnectionLeaves ==
  \A c \in Conns : (c \in connections /\ c \notin scope) ~> (c \in scope \/ c \notin connections)
=============================================================================
