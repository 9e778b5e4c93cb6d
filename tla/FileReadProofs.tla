--------------------------- MODULE FileReadProofs ---------------------------
(***************************************************************************)
(* Proofs about FileRead for any number of inodes and any maximum size.    *)
(* The inductive invariant IInv adds ReadInProgress to the properties.     *)
(***************************************************************************)
EXTENDS FileRead, TLAPS

\* The invariant holds before the first step.
LEMMA InitEstablishes == Init => IInv
<1> SUFFICES ASSUME Init PROVE IInv
  OBVIOUS
<1> USE FileAssumption DEF FileAssumption
<1>1. TypeOK
  BY DEF Init, TypeOK, Sizes
<1>2. ReadInProgress /\ OutcomeIsAccounted /\ SecureReadsWhatItInspected
  BY DEF Init, ReadInProgress, OutcomeIsAccounted, SecureReadsWhatItInspected
<1> QED
  BY <1>1, <1>2 DEF IInv

\* Whatever others do to the name and to the inodes, the invariant stays: only the kind
\* of an inode is relied on after it was inspected, and that never changes.
LEMMA OthersPreserve == IInv /\ (Rename \/ Rewrite) => IInv'
<1> SUFFICES ASSUME IInv, Rename \/ Rewrite PROVE IInv'
  OBVIOUS
<1> USE FileAssumption
    DEF FileAssumption, IInv, TypeOK, Sizes, ReadInProgress, OutcomeIsAccounted,
        SecureReadsWhatItInspected, inodes, diagnostics
<1>1. CASE Rename
  BY <1>1 DEF Rename
<1>2. CASE Rewrite
  BY <1>2 DEF Rewrite
<1> QED
  BY <1>1, <1>2

\* A call that returns here counts what it has to count.
LEMMA ReaderPreserves == IInv /\ (ReaderStep \/ Fails) => IInv'
<1> SUFFICES ASSUME IInv, ReaderStep \/ Fails PROVE IInv'
  OBVIOUS
<1> USE FileAssumption
    DEF FileAssumption, IInv, TypeOK, Sizes, ReadInProgress, OutcomeIsAccounted,
        SecureReadsWhatItInspected, inodes, diagnostics, Reading, Reject, Return
<1>1. CASE SysfsLook
  BY <1>1 DEF SysfsLook
<1>2. CASE SysfsOpen
  BY <1>2 DEF SysfsOpen
<1>3. CASE SecureOpen
  BY <1>3 DEF SecureOpen
<1>4. CASE SecureLook
  BY <1>4 DEF SecureLook
<1>5. CASE Read
  <2>1. CASE size[opened] > Maximum
    BY <1>5, <2>1 DEF Read
  <2>2. CASE size[opened] <= Maximum /\ (text[opened] # "good" \/ size[opened] = 0)
    BY <1>5, <2>2 DEF Read
  <2>3. CASE size[opened] <= Maximum /\ text[opened] = "good" /\ size[opened] # 0
    BY <1>5, <2>3 DEF Read
  <2> QED
    BY <1>5, <2>1, <2>2, <2>3 DEF Read
<1>6. CASE Fails
  BY <1>6 DEF Fails
<1> QED
  BY <1>1, <1>2, <1>3, <1>4, <1>5, <1>6 DEF ReaderStep

\* Every reachable state satisfies the inductive invariant.
THEOREM Invariance == Spec => []IInv
<1>1. Init => IInv
  BY InitEstablishes
<1>2. IInv /\ [Next]_vars => IInv'
  <2> SUFFICES ASSUME IInv, [Next]_vars PROVE IInv'
    OBVIOUS
  <2>1. CASE Next
    BY <2>1, OthersPreserve, ReaderPreserves DEF Next
  <2>2. CASE UNCHANGED vars
    BY <2>2 DEF vars, IInv, TypeOK, ReadInProgress, OutcomeIsAccounted,
                SecureReadsWhatItInspected
  <2> QED
    BY <2>1, <2>2
<1> QED
  BY <1>1, <1>2, PTL DEF Spec

\* A call that returns nothing has counted one issue unless the file was missing, and one
\* that returns a value has read no more than the maximum, for both readers.
THEOREM EveryOutcomeAccounted == Spec => []OutcomeIsAccounted
<1>1. IInv => OutcomeIsAccounted
  BY DEF IInv
<1> QED
  BY <1>1, Invariance, PTL

\* What SecureDirectory.read_text returns comes from the inode that it has inspected.
THEOREM InspectedIsRead == Spec => []SecureReadsWhatItInspected
<1>1. IInv => SecureReadsWhatItInspected
  BY DEF IInv
<1> QED
  BY <1>1, Invariance, PTL
=============================================================================
