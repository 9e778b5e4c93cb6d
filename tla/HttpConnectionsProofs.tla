----------------------- MODULE HttpConnectionsProofs -----------------------
(* What HttpConnections promises for any set of clients and any limit.       *)
EXTENDS HttpConnections, FiniteSetTheorems, TLAPS

\* Where a connection stands in the transport, in uvicorn's set and in its answers.
Position ==
  \A c \in Conns :
     /\ conn[c] = "none" => c \notin connections \cup scope
     /\ conn[c] = "open" => c \in connections
     /\ c \in connections => conn[c] \in {"open", "closing"}
     /\ conn[c] \in {"none", "open"} => answers[c] = <<>> /\ recorded[c] = <<>>

IInv == TypeOK /\ Position /\ ConnectionAccounting /\ OneAnswer /\ RecordedAsAnswered

\* Appending to an empty sequence, the only case the program ever meets.
LEMMA FirstAppend ==
  ASSUME NEW e
  PROVE  /\ Append(<<>>, e) # <<>> /\ Len(Append(<<>>, e)) = 1
         /\ Append(<<>>, e) = <<e>>
  OBVIOUS

\* The size of uvicorn's set follows what is added to it and taken from it.
LEMMA SetSize ==
  ASSUME connections \subseteq Conns, NEW c \in Conns
  PROVE  /\ IsFiniteSet(connections) /\ Cardinality(connections) \in Nat
         /\ c \notin connections => Cardinality(connections \cup {c}) = Cardinality(connections) + 1
         /\ c \in connections => /\ Cardinality(connections \ {c}) = Cardinality(connections) - 1
                                 /\ Cardinality(connections) > 0
         /\ c \notin connections => connections \ {c} = connections
<1>1. IsFiniteSet(connections)
  BY HttpAssumption, FS_Subset DEF HttpAssumption
<1>2. Cardinality(connections) \in Nat
  BY <1>1, FS_CardinalityType
<1>3. c \notin connections => Cardinality(connections \cup {c}) = Cardinality(connections) + 1
  BY <1>1, FS_AddElement
<1>4. c \in connections => /\ Cardinality(connections \ {c}) = Cardinality(connections) - 1
                           /\ Cardinality(connections) > 0
  BY <1>1, <1>2, FS_RemoveElement, FS_EmptySet
<1>5. c \notin connections => connections \ {c} = connections
  OBVIOUS
<1> QED
  BY <1>1, <1>2, <1>3, <1>4, <1>5

\* The invariant holds before the first connection.
LEMMA InitHolds == Init => IInv
<1> SUFFICES ASSUME Init PROVE IInv
  OBVIOUS
<1>1. TypeOK
  BY DEF Init, TypeOK, Classes
<1>2. Position /\ OneAnswer /\ RecordedAsAnswered
  BY DEF Init, Position, OneAnswer, RecordedAsAnswered
<1>3. ConnectionAccounting
  BY FS_EmptySet, HttpAssumption DEF Init, ConnectionAccounting, HttpAssumption
<1> QED
  BY <1>1, <1>2, <1>3 DEF IInv

\* One step preserves the type, the positions and the answers.
LEMMA StepKeepsAnswers ==
  ASSUME IInv, NEW c \in Conns,
         Reject(c) \/ Admit(c) \/ HeadArrives(c) \/ HeadInvalid(c) \/ ChunkInvalid(c)
           \/ Deadline(c) \/ Serve(c) \/ ClientLeaves(c) \/ Lost(c)
  PROVE  TypeOK' /\ Position' /\ OneAnswer' /\ RecordedAsAnswered'
<1> USE DEF IInv, TypeOK, Classes, Position, OneAnswer, RecordedAsAnswered, Write
<1>1. CASE Reject(c)
  BY <1>1, FirstAppend DEF Reject
<1>2. CASE Admit(c)
  BY <1>2 DEF Admit
<1>3. CASE HeadArrives(c)
  BY <1>3 DEF HeadArrives
<1>4. CASE HeadInvalid(c) \/ ChunkInvalid(c)
  <2>1. /\ conn[c] = "open" /\ answers[c] = <<>> /\ (c \in scope => c \in chunked)
        /\ recorded[c] = <<>> /\ c \in connections
        /\ conn' = [conn EXCEPT ![c] = "closing"]
        /\ answers' = [answers EXCEPT ![c] = Append(<<>>, "4xx")]
        /\ UNCHANGED <<connections, scope, chunked, timer, recorded, active, rejected>>
    BY <1>4 DEF HeadInvalid, ChunkInvalid, ParserAnswers
  <2> QED
    BY <2>1, FirstAppend
<1>5. CASE Deadline(c)
  <2>1. CASE c \notin scope /\ conn[c] # "closing"
    <3>1. /\ c \in connections /\ conn[c] = "open" /\ answers[c] = <<>>
          /\ conn' = [conn EXCEPT ![c] = "closing"]
          /\ answers' = [answers EXCEPT ![c] = Append(<<>>, "4xx")]
          /\ timer' = timer \ {c} /\ UNCHANGED <<connections, scope, chunked, recorded, active, rejected>>
      BY <1>5, <2>1 DEF Deadline
    <3> QED
      BY <2>1, <3>1, FirstAppend
  <2>2. CASE ~(c \notin scope /\ conn[c] # "closing")
    BY <1>5, <2>2 DEF Deadline
  <2> QED
    BY <2>1, <2>2
<1>6. CASE Serve(c)
  <2>1. PICK class \in Classes :
           /\ c \in chunked => class = "4xx"
           /\ recorded' = [recorded EXCEPT ![c] = Append(@, class)]
           /\ IF conn[c] = "open" THEN Write(c, class) ELSE UNCHANGED answers
    BY <1>6 DEF Serve
  <2>2. CASE conn[c] = "open"
    <3>1. /\ c \in connections /\ c \in scope
          /\ conn' = [conn EXCEPT ![c] = "closing"]
          /\ answers' = [answers EXCEPT ![c] = Append(<<>>, class)]
          /\ recorded' = [recorded EXCEPT ![c] = Append(<<>>, class)]
          /\ UNCHANGED <<connections, scope, chunked, timer, active, rejected>>
      BY <1>6, <2>1, <2>2 DEF Serve, Answered
    <3> QED
      BY <3>1, FirstAppend
  <2>3. CASE conn[c] # "open"
    <3>1. /\ c \in scope /\ recorded[c] = <<>> /\ conn' = conn
          /\ recorded' = [recorded EXCEPT ![c] = Append(<<>>, class)]
          /\ UNCHANGED <<connections, scope, chunked, timer, answers, active, rejected>>
      BY <1>6, <2>1, <2>3 DEF Serve, Answered
    <3>2. answers[c] # <<>> => answers[c] = Append(<<>>, class)
      BY <2>1, <3>1, FirstAppend
    <3>3. conn[c] \notin {"none", "open"}
      BY <2>3, <3>1
    <3> QED
      BY <3>1, <3>2, <3>3, FirstAppend
  <2> QED
    BY <2>2, <2>3
<1>7. CASE ClientLeaves(c)
  BY <1>7 DEF ClientLeaves
<1>8. CASE Lost(c)
  BY <1>8 DEF Lost
<1> QED
  BY <1>1, <1>2, <1>3, <1>4, <1>5, <1>6, <1>7, <1>8

\* One step preserves the accounts.
LEMMA StepKeepsAccounts ==
  ASSUME IInv, NEW c \in Conns,
         Reject(c) \/ Admit(c) \/ HeadArrives(c) \/ HeadInvalid(c) \/ ChunkInvalid(c)
           \/ Deadline(c) \/ Serve(c) \/ ClientLeaves(c) \/ Lost(c)
  PROVE  ConnectionAccounting'
<1> USE DEF IInv, TypeOK, ConnectionAccounting
<1>1. Position'
  BY StepKeepsAnswers
<1>2. connections' \cap {d \in Conns : conn'[d] \in {"none", "lost"}} = {}
  BY <1>1 DEF Position
<1>3. CASE Admit(c)
  <2>1. c \notin connections
    BY <1>3 DEF Admit, Position
  <2>2. Cardinality(connections') = Cardinality(connections) + 1
    BY <1>3, <2>1, SetSize DEF Admit
  <2>3. Cardinality(connections) < Maximum /\ active' = active + 1
    BY <1>3 DEF Admit
  <2>4. Cardinality(connections) \in Nat
    BY SetSize
  <2> QED
    BY <1>2, <2>2, <2>3, <2>4, HttpAssumption DEF HttpAssumption
<1>4. CASE Lost(c)
  <2>1. CASE c \in connections
    <3>1. /\ Cardinality(connections') = Cardinality(connections) - 1
          /\ Cardinality(connections) \in Nat /\ Cardinality(connections) > 0
      BY <1>4, <2>1, SetSize DEF Lost
    <3>2. active' = active - 1
      BY <1>4, <2>1, <3>1 DEF Lost
    <3> QED
      BY <1>2, <3>1, <3>2, HttpAssumption DEF HttpAssumption
  <2>2. CASE c \notin connections
    BY <1>2, <1>4, <2>2, SetSize DEF Lost
  <2> QED
    BY <2>1, <2>2
<1>5. CASE UNCHANGED <<connections, active>>
  BY <1>2, <1>5
<1> QED
  BY <1>3, <1>4, <1>5 DEF Reject, HeadArrives, HeadInvalid, ChunkInvalid, ParserAnswers,
                            Deadline, Serve, Answered, ClientLeaves

\* The inductive invariant of the server: nothing of it depends on the number of
\* clients or on the limit.
THEOREM Invariance == Spec => []IInv
<1>1. Init => IInv
  BY InitHolds
<1>2. IInv /\ [Next]_vars => IInv'
  <2> SUFFICES ASSUME IInv, [Next]_vars PROVE IInv'
    OBVIOUS
  <2>1. CASE Next
    BY <2>1, StepKeepsAnswers, StepKeepsAccounts DEF Next, IInv
  <2>2. CASE UNCHANGED vars
    BY <2>2 DEF vars, IInv, TypeOK, Position, ConnectionAccounting, OneAnswer, RecordedAsAnswered
  <2> QED
    BY <2>1, <2>2
<1> QED
  BY <1>1, <1>2, PTL DEF Spec

\* The gauge of active connections is exact and the limit holds, for any limit.
THEOREM GaugeIsExact == Spec => []ConnectionAccounting
<1>1. IInv => ConnectionAccounting
  BY DEF IInv
<1> QED
  BY <1>1, Invariance, PTL

\* No client gets two answers, and no request one that is not recorded, but for the
\* parser's 4xx to a malformed chunk.
THEOREM AtMostOneAnswer == Spec => []OneAnswer
<1>1. IInv => OneAnswer
  BY DEF IInv
<1> QED
  BY <1>1, Invariance, PTL

\* Request counters count each request once, under the class that was sent.
THEOREM RequestsCountedAsAnswered == Spec => []RecordedAsAnswered
<1>1. IInv => RecordedAsAnswered
  BY DEF IInv
<1> QED
  BY <1>1, Invariance, PTL
=============================================================================
