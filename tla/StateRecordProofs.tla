------------------------- MODULE StateRecordProofs -------------------------
(***************************************************************************)
(* Proofs about StateRecord for any number of names, fields, directories   *)
(* and records.  The inductive invariant has four parts: ReadInProgress    *)
(* for what the fields hold, SearchInProgress for where they are looked    *)
(* for, GapsCounted for what was counted of the fields that are not there, *)
(* and TypesSafe for how much can be counted in all.                       *)
(***************************************************************************)
EXTENDS StateRecord, FiniteSetTheorems, TLAPS

FieldsSafe == ReadInProgress /\ FieldsOfOneRecord

\* A directory that the service has filled holds files of one record.
LEMMA FilledWithOne ==
  ASSUME NEW r \in Records, NEW files \in FilesOf(r)
  PROVE  files \in Files /\ SameRecord(files, files)
<1>1. files \in Files
  BY DEF FilesOf, Files
<1>2. \A f \in FieldSet : files[f] \in Records => files[f] = r
  BY RecordAssumption DEF RecordAssumption, FilesOf
<1> QED
  BY <1>1, <1>2 DEF SameRecord

\* Before the first step nothing was read and no name was tried.
LEMMA InitEstablishes == Init => FieldsSafe /\ SearchInProgress
<1> SUFFICES ASSUME Init PROVE FieldsSafe /\ SearchInProgress
  OBVIOUS
<1> USE RecordAssumption DEF RecordAssumption, Init
<1>1. content \in [Directories -> Files] /\ \A d \in Directories : SameRecord(content[d], content[d])
  <2> SUFFICES ASSUME NEW d \in Directories
               PROVE content[d] \in Files /\ SameRecord(content[d], content[d])
    BY DEF Files
  <2>1. PICK r \in Records : content[d] \in FilesOf(r)
    OBVIOUS
  <2> QED
    BY <2>1, FilledWithOne
<1>2. \A n \in Names : at[n] # Nowhere => RecordsIn(at[n]) \subseteq published
  OBVIOUS
<1>3. record \in Files /\ \A f \in FieldSet : record[f] \notin Records
  BY DEF Files
<1>4. ReadInProgress
  BY <1>1, <1>2, <1>3 DEF ReadInProgress, SameRecord
<1>5. FieldsOfOneRecord
  BY DEF FieldsOfOneRecord
<1>6. SearchInProgress
  BY DEF SearchInProgress
<1> QED
  BY <1>4, <1>5, <1>6 DEF FieldsSafe

-----------------------------------------------------------------------------
(* The fields.                                                             *)

\* A new record comes in a directory that nobody reads.
LEMMA PublishKeepsFields == FieldsSafe /\ Publish => FieldsSafe'
<1> SUFFICES ASSUME FieldsSafe, Publish PROVE FieldsSafe'
  OBVIOUS
<1> USE RecordAssumption DEF RecordAssumption, FieldsSafe, ReadInProgress
<1>1. PICK n \in Names, d \in Directories \ Range(at), r \in Records :
        /\ d # directory
        /\ at' = [at EXCEPT ![n] = d]
        /\ \E files \in FilesOf(r) :
              /\ content' = [content EXCEPT ![d] = files]
              /\ published' = published \cup ({files[f] : f \in FieldSet} \cap Records)
  BY DEF Publish
<1>2. PICK files \in FilesOf(r) :
              /\ content' = [content EXCEPT ![d] = files]
              /\ published' = published \cup ({files[f] : f \in FieldSet} \cap Records)
  BY <1>1
<1>3. files \in Files /\ SameRecord(files, files)
  BY FilledWithOne
<1>4. UNCHANGED <<directory, left, record, phase>> /\ phase # "done"
  BY DEF Publish, Reader
<1>5. \A o \in Directories : o # d => content'[o] = content[o]
  BY <1>2
<1>6. content'[d] = files
  BY <1>2
<1>7. at' \in [Names -> Directories \cup {Nowhere}] /\ content' \in [Directories -> Files]
  BY <1>1, <1>2, <1>3
<1>8. \A o \in Directories : SameRecord(content'[o], content'[o])
  BY <1>3, <1>5, <1>6
<1>9. \A m \in Names : at'[m] # Nowhere => RecordsIn(at[m])' \subseteq published'
  <2> SUFFICES ASSUME NEW m \in Names, at'[m] # Nowhere
               PROVE {content'[at'[m]][f] : f \in FieldSet} \cap Records \subseteq published'
    BY DEF RecordsIn
  <2>1. CASE m = n
    BY <1>1, <1>2, <1>6, <2>1
  <2>2. CASE m # n
    <3>1. at'[m] = at[m] /\ at[m] \in Directories /\ at[m] # d
      BY <1>1, <2>2 DEF Range
    <3> QED
      BY <1>2, <1>5, <3>1 DEF RecordsIn
  <2> QED
    BY <2>1, <2>2
<1>10. phase' = "read" =>
         SameRecord(record', content'[directory']) /\ RecordsIn(directory)' \subseteq published'
  <2> SUFFICES ASSUME phase = "read"
               PROVE SameRecord(record, content'[directory])
                     /\ {content'[directory][f] : f \in FieldSet} \cap Records \subseteq published'
    BY <1>4 DEF RecordsIn
  <2>1. content'[directory] = content[directory]
    BY <1>1, <1>5
  <2> QED
    BY <1>2, <2>1 DEF RecordsIn
<1>11. /\ record' \in Files /\ left' \in Seq(FieldSet)
       /\ directory' \in Directories \cup {Nowhere}
       /\ phase' = "open" => directory' = Nowhere /\ record' = [f \in FieldSet |-> Absent]
       /\ phase' = "read" => directory' # Nowhere
       /\ SameRecord(record', record')
       /\ \A f \in FieldSet : record'[f] \in Records => record'[f] \in published'
  BY <1>2, <1>4
<1>12. ReadInProgress'
  BY <1>7, <1>8, <1>9, <1>10, <1>11 DEF ReadInProgress, SameRecord
<1> QED
  BY <1>4, <1>12 DEF FieldsOfOneRecord

\* Withdrawing files and directories only takes records away.
LEMMA WithdrawalKeepsFields == FieldsSafe /\ (Unlink \/ RemoveDirectory) => FieldsSafe'
<1> SUFFICES ASSUME FieldsSafe, Unlink \/ RemoveDirectory PROVE FieldsSafe'
  OBVIOUS
<1> USE RecordAssumption DEF RecordAssumption, FieldsSafe, ReadInProgress
<1>1. UNCHANGED <<directory, left, record, phase, published>> /\ phase # "done"
  BY DEF Unlink, RemoveDirectory, Reader
<1>2. /\ content' \in [Directories -> Files]
      /\ \A d \in Directories, f \in FieldSet : content'[d][f] \in {content[d][f], Absent}
  <2>1. CASE Unlink
    <3>1. PICK d \in Directories, f \in FieldSet : content' = [content EXCEPT ![d][f] = Absent]
      BY <2>1 DEF Unlink
    <3> QED
      BY <3>1 DEF Files
  <2>2. CASE RemoveDirectory
    BY <2>2 DEF RemoveDirectory
  <2> QED
    BY <2>1, <2>2
<1>3. /\ at' \in [Names -> Directories \cup {Nowhere}]
      /\ \A n \in Names : at'[n] \in {at[n], Nowhere}
  <2>1. CASE Unlink
    BY <2>1 DEF Unlink
  <2>2. CASE RemoveDirectory
    BY <2>2 DEF RemoveDirectory
  <2> QED
    BY <2>1, <2>2
<1>4. \A d \in Directories : RecordsIn(d)' \subseteq RecordsIn(d)
  BY <1>2 DEF RecordsIn
<1>5. \A d \in Directories : SameRecord(content'[d], content'[d])
  BY <1>2 DEF SameRecord
<1>6. \A n \in Names : at'[n] # Nowhere => RecordsIn(at[n])' \subseteq published'
  <2> SUFFICES ASSUME NEW n \in Names, at'[n] # Nowhere
               PROVE {content'[at'[n]][f] : f \in FieldSet} \cap Records \subseteq published'
    BY DEF RecordsIn
  <2>1. at'[n] = at[n] /\ at[n] \in Directories
    BY <1>3
  <2> QED
    BY <1>1, <1>4, <2>1 DEF RecordsIn
<1>7. phase' = "read" =>
        SameRecord(record', content'[directory']) /\ RecordsIn(directory)' \subseteq published'
  <2> SUFFICES ASSUME phase = "read"
               PROVE SameRecord(record, content'[directory])
                     /\ RecordsIn(directory)' \subseteq published
    BY <1>1
  <2>1. directory \in Directories
    OBVIOUS
  <2>2. RecordsIn(directory)' \subseteq published
    BY <1>1, <1>4, <2>1 DEF RecordsIn
  <2>3. SameRecord(record, content'[directory])
    BY <1>2, <2>1 DEF SameRecord
  <2> QED
    BY <2>2, <2>3
<1>8. ReadInProgress'
  BY <1>1, <1>2, <1>3, <1>5, <1>6, <1>7 DEF ReadInProgress, SameRecord
<1> QED
  BY <1>1, <1>8 DEF FieldsOfOneRecord

\* The reader changes neither the names nor what they lead to, and takes every field from
\* the directory it has opened.
LEMMA ReaderKeepsFields ==
  FieldsSafe /\ SearchInProgress /\ (Open \/ NotFound \/ ReadField \/ ReadFails \/ Accept)
    => FieldsSafe'
<1> SUFFICES ASSUME FieldsSafe, SearchInProgress,
                    Open \/ NotFound \/ ReadField \/ ReadFails \/ Accept
             PROVE FieldsSafe'
  OBVIOUS
<1> USE RecordAssumption DEF RecordAssumption, FieldsSafe, ReadInProgress
<1>1. UNCHANGED <<at, content, published>>
  BY DEF Open, NotFound, ReadField, ReadFails, Accept, Reading, service
<1>2. \A n \in Names : at'[n] # Nowhere => RecordsIn(at[n])' \subseteq published'
  BY <1>1 DEF RecordsIn
<1>3. CASE Open
  <2>1. record' = record /\ left' = left /\ phase = "open"
    BY <1>3 DEF Open
  <2>2. PICK name \in Names : \/ directory' = at[name] /\ at[name] # Nowhere /\ phase' = "read"
                              \/ directory' = directory /\ phase' = phase
    <3>1. Head(untried) \in Names
      BY <1>3 DEF Open, SearchInProgress
    <3> QED
      BY <1>3, <3>1 DEF Open
  <2>3. CASE directory' = at[name] /\ at[name] # Nowhere /\ phase' = "read"
    <3>1. directory' \in Directories /\ RecordsIn(directory)' \subseteq published'
      BY <1>1, <2>3 DEF RecordsIn
    <3>2. SameRecord(record', content'[directory'])
      BY <2>1 DEF SameRecord
    <3> QED
      BY <1>1, <1>2, <2>1, <2>3, <3>1, <3>2 DEF FieldsOfOneRecord, SameRecord
  <2>4. CASE directory' = directory /\ phase' = phase
    BY <1>1, <1>2, <2>1, <2>4 DEF FieldsOfOneRecord, SameRecord
  <2> QED
    BY <2>2, <2>3, <2>4
<1>4. CASE NotFound
  <2>1. record' = record /\ left' = left /\ directory' = directory /\ phase = "open" /\ phase' = "done"
    BY <1>4 DEF NotFound
  <2>2. ReadInProgress'
    BY <1>1, <1>2, <2>1 DEF SameRecord
  <2> QED
    BY <2>1, <2>2 DEF FieldsOfOneRecord, Present
<1>5. CASE ReadField \/ ReadFails
  <2>1. /\ phase = "read" /\ left # <<>> /\ left' = Tail(left)
        /\ directory' = directory /\ phase' = phase
    BY <1>5 DEF ReadField, ReadFails, Reading
  <2>2. Field \in FieldSet /\ left' \in Seq(FieldSet) /\ directory \in Directories
    BY <2>1 DEF Field
  <2>3. content[directory] \in Files
    BY <2>2
  <2>4. /\ record' \in Files
        /\ \A f \in FieldSet : record'[f] \in {record[f], content[directory][f], Absent}
    <3>1. CASE ReadFails
      BY <3>1 DEF ReadFails
    <3>2. CASE ReadField
      <4>1. \/ record' = [record EXCEPT ![Field] = Absent]
            \/ record' = [record EXCEPT ![Field] = content[directory][Field]]
        BY <3>2 DEF ReadField
      <4> QED
        BY <2>2, <2>3, <4>1 DEF Files
    <3> QED
      BY <1>5, <3>1, <3>2
  <2>5. SameRecord(content[directory], content[directory]) /\ SameRecord(record, content[directory])
    BY <2>1, <2>2
  <2>6. SameRecord(record', record') /\ SameRecord(record', content[directory])
    BY <2>4, <2>5 DEF SameRecord
  <2>7. \A f \in FieldSet : record'[f] \in Records => record'[f] \in published
    BY <2>1, <2>4 DEF RecordsIn
  <2>8. RecordsIn(directory)' \subseteq published'
    BY <1>1, <2>1 DEF RecordsIn
  <2> QED
    BY <1>1, <1>2, <2>1, <2>2, <2>4, <2>6, <2>7, <2>8 DEF FieldsOfOneRecord, SameRecord
<1>6. CASE Accept
  <2>1. left' = left /\ directory' = directory /\ phase = "read" /\ phase' = "done"
    BY <1>6 DEF Accept
  <2>2. record' = [f \in FieldSet |-> IF f \in UnfitLabels THEN Absent ELSE record[f]]
    BY <1>6 DEF Accept
  <2>3. \A f \in FieldSet : record'[f] = Absent \/ (record'[f] \in Records /\ record'[f] = record[f])
    BY <2>2 DEF UnfitLabels, Files
  <2>4. record' \in Files
    BY <2>2 DEF Files
  <2>5. ReadInProgress'
    BY <1>1, <1>2, <2>1, <2>3, <2>4 DEF SameRecord
  <2>6. FieldsOfOneRecord'
    BY <1>1, <2>3 DEF FieldsOfOneRecord, Present, SameRecord
  <2> QED
    BY <2>5, <2>6
<1> QED
  BY <1>3, <1>4, <1>5, <1>6

-----------------------------------------------------------------------------
(* The names.                                                              *)

\* The service takes the standing of a name away with the directory, and never gives it.
LEMMA ServiceKeepsSearch ==
  SearchInProgress /\ (Publish \/ Unlink \/ RemoveDirectory) => SearchInProgress'
<1> SUFFICES ASSUME SearchInProgress, Publish \/ Unlink \/ RemoveDirectory
             PROVE SearchInProgress'
  OBVIOUS
<1> USE RecordAssumption DEF RecordAssumption, SearchInProgress
<1>1. UNCHANGED <<untried, directory, phase, accepted>>
  BY DEF Publish, Unlink, RemoveDirectory, Reader
<1>2. /\ at' \in [Names -> Directories \cup {Nowhere}]
      /\ reachable' \subseteq reachable
      /\ \A n \in reachable' : at'[n] # Nowhere
  <2>1. CASE Publish
    BY <2>1 DEF Publish
  <2>2. CASE Unlink
    BY <2>2 DEF Unlink
  <2>3. CASE RemoveDirectory
    BY <2>3 DEF RemoveDirectory
  <2> QED
    BY <2>1, <2>2, <2>3
<1> QED
  BY <1>1, <1>2

\* A name is passed over only if it leads nowhere, or its open failed.
LEMMA OpenKeepsSearch == SearchInProgress /\ Open => SearchInProgress'
<1> SUFFICES ASSUME SearchInProgress, Open PROVE SearchInProgress'
  OBVIOUS
<1> USE RecordAssumption DEF RecordAssumption
<1> DEFINE passed == Len(Candidates) - Len(untried)
           name == Head(untried)
<1>1. /\ untried # <<>> /\ untried' = Tail(untried) /\ phase = "open"
      /\ at' = at /\ accepted' = accepted
  BY DEF Open, service
<1>2. untried \in Seq(Names) /\ passed \in Nat /\ accepted = 0
  BY <1>1 DEF SearchInProgress
<1>3. /\ untried' \in Seq(Names)
      /\ Len(untried') = Len(untried) - 1 /\ Len(untried) \in Nat /\ Len(untried) >= 1
      /\ \A j \in 1..Len(untried') : untried'[j] = untried[j + 1]
  BY <1>1, <1>2
<1>4. Len(Candidates) \in Nat /\ Len(Candidates) - Len(untried') = passed + 1
  BY <1>3
<1>5. name = Candidates[passed + 1]
  <2>1. name = untried[1] /\ 1 \in 1..Len(untried)
    BY <1>1, <1>2, <1>3
  <2> QED
    BY <2>1 DEF SearchInProgress
<1>6. \A j \in 1..Len(untried') : untried'[j] = Candidates[(passed + 1) + j]
  <2> SUFFICES ASSUME NEW j \in 1..Len(untried') PROVE untried'[j] = Candidates[(passed + 1) + j]
    OBVIOUS
  <2>1. j + 1 \in 1..Len(untried)
    BY <1>3
  <2>2. untried[j + 1] = Candidates[passed + (j + 1)]
    BY <2>1 DEF SearchInProgress
  <2>3. passed + (j + 1) = (passed + 1) + j
    BY <1>2
  <2> QED
    BY <1>3, <2>2, <2>3
<1>7. at \in [Names -> Directories \cup {Nowhere}] /\ \A n \in reachable : at[n] # Nowhere
  BY DEF SearchInProgress
<1>8. \A i \in DOMAIN Candidates : Candidates[i] \in reachable => i \in Nat /\ i >= passed + 1
  BY <1>1, <1>2, <1>4 DEF SearchInProgress
<1>9. directory = Nowhere
  BY <1>1 DEF SearchInProgress
<1>10. /\ reachable' \subseteq reachable
       /\ \/ phase' = "read"
          \/ phase' = "open" /\ directory' = directory /\ name \notin reachable'
  BY <1>7 DEF Open
<1>11. CASE phase' = "read"
  BY <1>1, <1>2, <1>3, <1>4, <1>6, <1>7, <1>8, <1>10, <1>11 DEF SearchInProgress
<1>12. CASE phase' = "open" /\ directory' = directory /\ name \notin reachable'
  <2>1. \A i \in DOMAIN Candidates : Candidates[i] \in reachable' => i > passed + 1
    BY <1>2, <1>5, <1>8, <1>10, <1>12
  <2> QED
    BY <1>1, <1>2, <1>3, <1>4, <1>6, <1>7, <1>9, <1>10, <1>12, <2>1 DEF SearchInProgress
<1> QED
  BY <1>10, <1>11, <1>12

\* The search ends with an accepted record, or with every name passed over.
LEMMA ReadingKeepsSearch ==
  SearchInProgress /\ (NotFound \/ ReadField \/ ReadFails \/ Accept) => SearchInProgress'
<1> SUFFICES ASSUME SearchInProgress, NotFound \/ ReadField \/ ReadFails \/ Accept
             PROVE SearchInProgress'
  OBVIOUS
<1> USE RecordAssumption DEF RecordAssumption, SearchInProgress
<1>1. UNCHANGED <<at, untried, directory, reachable>>
  BY DEF NotFound, ReadField, ReadFails, Accept, Reading, service
<1>2. CASE NotFound
  <2>1. /\ phase = "open" /\ Len(untried) = 0 /\ phase' = "done" /\ accepted' = accepted
    BY <1>2 DEF NotFound
  <2>2. Len(Candidates) \in Nat /\ \A i \in DOMAIN Candidates : i \in Nat /\ i <= Len(Candidates)
    OBVIOUS
  <2>3. \A i \in DOMAIN Candidates : Candidates[i] \notin reachable
    BY <2>1, <2>2
  <2> QED
    BY <1>1, <2>1, <2>3
<1>3. CASE ReadField \/ ReadFails
  <2>1. phase = "read" /\ phase' = phase /\ accepted' = accepted
    BY <1>3 DEF ReadField, ReadFails, Reading
  <2> QED
    BY <1>1, <2>1
<1>4. CASE Accept
  <2>1. phase = "read" /\ phase' = "done" /\ accepted' = 1
    BY <1>4 DEF Accept
  <2> QED
    BY <1>1, <2>1
<1> QED
  BY <1>2, <1>3, <1>4

-----------------------------------------------------------------------------
(* The gaps.                                                               *)

\* There are finitely many fields.
LEMMA FieldsAreFinite == IsFiniteSet(FieldSet)
<1>1. IsFiniteSet(DOMAIN Fields)
  <2>1. DOMAIN Fields = 1..Len(Fields) /\ Len(Fields) \in Nat
    BY RecordAssumption DEF RecordAssumption
  <2> QED
    BY <2>1, FS_Interval
<1>2. Fields \in Surjection(DOMAIN Fields, FieldSet)
  BY RecordAssumption DEF RecordAssumption, FieldSet, Range, Surjection
<1> QED
  BY <1>1, <1>2, FS_Surjection

\* A set of fields that grows by one field at most has one more at most.
LEMMA OneGapMore ==
  ASSUME NEW gaps \in SUBSET FieldSet, NEW others \in SUBSET FieldSet, NEW f,
         others \subseteq gaps \cup {f}
  PROVE  /\ Cardinality(gaps) \in Nat /\ Cardinality(others) \in Nat
         /\ Cardinality(others) <= Cardinality(gaps) + 1
         /\ f \notin others => Cardinality(others) <= Cardinality(gaps)
<1>1. /\ IsFiniteSet(gaps) /\ Cardinality(gaps) \in Nat
      /\ IsFiniteSet(others) /\ Cardinality(others) \in Nat
  BY FieldsAreFinite, FS_Subset, FS_CardinalityType
<1>2. /\ IsFiniteSet(gaps \cup {f}) /\ Cardinality(gaps \cup {f}) \in Nat
      /\ Cardinality(gaps \cup {f}) <= Cardinality(gaps) + 1
  <2>1. CASE f \in gaps
    <3>1. gaps \cup {f} = gaps
      BY <2>1
    <3> QED
      BY <1>1, <3>1
  <2>2. CASE f \notin gaps
    <3>1. IsFiniteSet(gaps \cup {f}) /\ Cardinality(gaps \cup {f}) = Cardinality(gaps) + 1
      BY <1>1, <2>2, FS_AddElement
    <3> QED
      BY <1>1, <3>1
  <2> QED
    BY <2>1, <2>2
<1>3. Cardinality(others) <= Cardinality(gaps \cup {f})
  BY <1>2, FS_Subset
<1>4. ASSUME f \notin others PROVE Cardinality(others) <= Cardinality(gaps)
  <2>1. others \subseteq gaps
    BY <1>4
  <2> QED
    BY <1>1, <2>1, FS_Subset
<1>5. Cardinality(others) <= Cardinality(gaps) + 1
  BY <1>1, <1>2, <1>3
<1> QED
  BY <1>1, <1>4, <1>5

\* Reading the first of some fields leaves the others.
LEMMA OneFieldLess ==
  ASSUME NEW s \in Seq(FieldSet), s # <<>>
  PROVE  Range(s) = {Head(s)} \cup Range(Tail(s))
<1>1. /\ DOMAIN s = 1..Len(s) /\ Len(s) \in Nat /\ Len(s) >= 1 /\ Head(s) = s[1]
      /\ DOMAIN Tail(s) = 1..(Len(s) - 1)
      /\ \A i \in 1..(Len(s) - 1) : Tail(s)[i] = s[i + 1]
  OBVIOUS
<1>2. ASSUME NEW i \in DOMAIN s PROVE s[i] \in {Head(s)} \cup Range(Tail(s))
  <2>1. CASE i = 1
    BY <1>1, <2>1
  <2>2. CASE i # 1
    <3>1. i - 1 \in 1..(Len(s) - 1) /\ (i - 1) + 1 = i
      BY <1>1, <2>2
    <3> QED
      BY <1>1, <3>1 DEF Range
  <2> QED
    BY <2>1, <2>2
<1>3. ASSUME NEW i \in DOMAIN Tail(s) PROVE Tail(s)[i] \in Range(s)
  <2>1. i + 1 \in DOMAIN s /\ Tail(s)[i] = s[i + 1]
    BY <1>1
  <2> QED
    BY <2>1 DEF Range
<1>4. Head(s) \in Range(s)
  BY <1>1 DEF Range
<1> QED
  BY <1>2, <1>3, <1>4 DEF Range

\* Nothing is counted before the first file is read, and no gap is there.
LEMMA InitCountsGaps == Init => GapsCounted
<1> SUFFICES ASSUME Init PROVE GapsCounted
  OBVIOUS
<1>1. left = Fields /\ phase = "open" /\ issues = 0
  BY DEF Init
<1>2. (FieldSet \ Range(left)) \ (Present \cup missing) = {}
  BY <1>1 DEF FieldSet
<1> QED
  BY <1>1, <1>2, FS_EmptySet DEF GapsCounted, GapsAreExplained

\* Neither the service nor the search for the directory makes a gap.
LEMMA SearchCountsGaps ==
  /\ GapsCounted /\ SearchInProgress
  /\ Publish \/ Unlink \/ RemoveDirectory \/ Open \/ NotFound \/ UNCHANGED vars
  => GapsCounted'
<1> SUFFICES ASSUME GapsCounted, SearchInProgress,
                    Publish \/ Unlink \/ RemoveDirectory \/ Open \/ NotFound \/ UNCHANGED vars
             PROVE  GapsCounted'
  OBVIOUS
<1>1. /\ UNCHANGED <<left, record, missing, accepted>>
      /\ issues' \in {issues, issues + 1}
      /\ \/ phase' = phase
         \/ phase = "open" /\ phase' \in {"read", "done"}
  BY DEF Publish, Unlink, RemoveDirectory, Open, NotFound, Reader, vars
<1>2. issues \in Nat /\ issues' \in Nat /\ issues' >= issues
  BY <1>1 DEF GapsCounted
<1>3. UNCHANGED <<Present, (FieldSet \ Range(left)) \ (Present \cup missing),
                  FieldSet \ (Present \cup missing)>>
  BY <1>1 DEF Present
<1>4. /\ Cardinality((FieldSet \ Range(left)) \ (Present \cup missing)) \in Nat
      /\ Cardinality(FieldSet \ (Present \cup missing)) \in Nat
  BY FieldsAreFinite, FS_Subset, FS_CardinalityType
<1>5. phase' # "done" => issues' >= Cardinality((FieldSet \ Range(left)) \ (Present \cup missing))'
  BY <1>1, <1>2, <1>3, <1>4 DEF GapsCounted
<1>6. phase' = "done" /\ accepted' = 1 => phase = "done" /\ accepted = 1
  BY <1>1 DEF SearchInProgress
<1>7. GapsAreExplained'
  BY <1>1, <1>2, <1>3, <1>4, <1>6 DEF GapsCounted, GapsAreExplained
<1> QED
  BY <1>2, <1>5, <1>7 DEF GapsCounted

\* A field that is read has a value, or its file was missing, or an issue is counted.
LEMMA ReadingCountsGaps ==
  FieldsSafe /\ GapsCounted /\ (ReadField \/ ReadFails) => GapsCounted'
<1> SUFFICES ASSUME FieldsSafe, GapsCounted, ReadField \/ ReadFails PROVE GapsCounted'
  OBVIOUS
<1> DEFINE gaps == (FieldSet \ Range(left)) \ (Present \cup missing)
           later == (FieldSet \ Range(left')) \ (Present' \cup missing')
<1>1. left \in Seq(FieldSet) /\ left # <<>> /\ left' = Tail(left) /\ phase = "read" /\ phase' = "read"
  BY DEF ReadField, ReadFails, Reading, FieldsSafe, ReadInProgress
<1>2. Range(left) = {Field} \cup Range(left')
  BY <1>1, OneFieldLess DEF Field
<1>3. /\ record \in Files /\ Field \in FieldSet /\ issues \in Nat /\ issues >= Cardinality(gaps)
  BY <1>1 DEF FieldsSafe, ReadInProgress, GapsCounted, Field
<1>4. /\ missing \subseteq missing'
      /\ \A f \in FieldSet \ {Field} : record'[f] = record[f]
      /\ \/ issues' = issues + 1
         \/ issues' = issues /\ (record'[Field] # Absent \/ Field \in missing')
  <2>1. CASE ReadFails
    BY <2>1 DEF ReadFails
  <2>2. CASE ReadField
    <3> DEFINE value == content[directory][Field]
               unfit == value = Unfit /\ Field \in Range(Numbers)
    <3>1. /\ record' = [record EXCEPT ![Field] = IF unfit THEN Absent ELSE value]
          /\ issues' = issues + IF unfit THEN 1 ELSE 0
          /\ missing' = IF value = Absent THEN missing \cup {Field} ELSE missing
      BY <2>2 DEF ReadField
    <3>2. CASE unfit
      BY <1>3, <3>1, <3>2 DEF Files
    <3>3. CASE ~unfit
      <4>1. record'[Field] = value /\ issues' = issues
        BY <1>3, <3>1, <3>3 DEF Files
      <4> QED
        BY <1>3, <3>1, <4>1 DEF Files
    <3> QED
      BY <3>2, <3>3
  <2> QED
    BY <2>1, <2>2
<1>5. later \subseteq gaps \cup {Field}
  BY <1>2, <1>4 DEF Present
<1>6. \/ issues' = issues + 1
      \/ issues' = issues /\ Field \notin later
  BY <1>3, <1>4 DEF Present
<1>7. gaps \in SUBSET FieldSet /\ later \in SUBSET FieldSet
  OBVIOUS
<1> HIDE DEF gaps, later
<1>8. /\ Cardinality(gaps) \in Nat /\ Cardinality(later) \in Nat
      /\ Cardinality(later) <= Cardinality(gaps) + 1
      /\ Field \notin later => Cardinality(later) <= Cardinality(gaps)
  BY <1>5, <1>7, OneGapMore
<1>9. issues' \in Nat /\ issues' >= Cardinality(later)
  BY <1>3, <1>6, <1>8
<1>10. GapsAreExplained'
  BY <1>1 DEF GapsAreExplained
<1> QED
  BY <1>9, <1>10 DEF GapsCounted, later

\* Every label that is dropped at the end is an issue of its own.
LEMMA AcceptCountsGaps == FieldsSafe /\ GapsCounted /\ Accept => GapsCounted'
<1> SUFFICES ASSUME FieldsSafe, GapsCounted, Accept PROVE GapsCounted'
  OBVIOUS
<1> DEFINE gaps == FieldSet \ (Present \cup missing)
           later == FieldSet \ (Present' \cup missing')
<1>1. /\ left = <<>> /\ phase = "read" /\ phase' = "done" /\ missing' = missing
      /\ record' = [f \in FieldSet |-> IF f \in UnfitLabels THEN Absent ELSE record[f]]
      /\ issues' = issues + Cardinality(UnfitLabels)
  BY DEF Accept
<1>2. Range(left) = {}
  BY <1>1 DEF Range
<1>3. issues \in Nat /\ issues >= Cardinality(gaps)
  <2>1. (FieldSet \ Range(left)) \ (Present \cup missing) = gaps
    BY <1>2
  <2> QED
    BY <1>1, <2>1 DEF GapsCounted
<1>4. later \subseteq gaps \cup UnfitLabels
  BY <1>1 DEF Present
<1>5. gaps \in SUBSET FieldSet /\ later \in SUBSET FieldSet /\ UnfitLabels \in SUBSET FieldSet
  BY DEF UnfitLabels
<1> HIDE DEF gaps, later
<1>6. /\ IsFiniteSet(gaps) /\ Cardinality(gaps) \in Nat
      /\ IsFiniteSet(UnfitLabels) /\ Cardinality(UnfitLabels) \in Nat
      /\ IsFiniteSet(later) /\ Cardinality(later) \in Nat
  BY <1>5, FieldsAreFinite, FS_Subset, FS_CardinalityType
<1>7. /\ IsFiniteSet(gaps \cup UnfitLabels)
      /\ Cardinality(gaps \cup UnfitLabels)
           = Cardinality(gaps) + Cardinality(UnfitLabels) - Cardinality(gaps \cap UnfitLabels)
  BY <1>6, FS_Union
<1>8. Cardinality(gaps \cap UnfitLabels) \in Nat
  BY <1>6, FS_Intersection, FS_CardinalityType
<1>9. Cardinality(later) <= Cardinality(gaps \cup UnfitLabels)
  BY <1>4, <1>7, FS_Subset
<1>10. issues' \in Nat /\ issues' >= Cardinality(later)
  BY <1>1, <1>3, <1>6, <1>7, <1>8, <1>9
<1> QED
  BY <1>1, <1>10 DEF GapsCounted, GapsAreExplained, later

-----------------------------------------------------------------------------
(* Types, and how many issues there can be.                                *)

TypesSafe == TypeOK /\ IssuesInProgress

\* Before anything is taken, everything is left.
LEMMA WholeIsRest ==
  ASSUME NEW S, NEW s \in Seq(S)
  PROVE  s \in Rests(s)
<1>1. s = SubSeq(s, 1, Len(s)) /\ 1 \in 1..(Len(s) + 1)
  OBVIOUS
<1> QED
  BY <1>1 DEF Rests

\* What is left of a sequence after its first elements is a sequence, and so is its tail.
LEMMA TailIsRest ==
  ASSUME NEW S, NEW s \in Seq(S), NEW rest \in Rests(s)
  PROVE  /\ rest \in Seq(S) /\ Len(rest) \in 0..Len(s)
         /\ rest # <<>> => /\ Tail(rest) \in Rests(s) /\ Len(Tail(rest)) = Len(rest) - 1
                           /\ Len(rest) >= 1 /\ Head(rest) \in S
<1>1. PICK n \in 1..(Len(s) + 1) : rest = SubSeq(s, n, Len(s))
  BY DEF Rests
<1>2. Len(s) \in Nat /\ n \in Nat /\ n >= 1 /\ n <= Len(s) + 1
  OBVIOUS
<1>3. rest \in Seq(S)
  BY <1>1, <1>2
<1>4. Len(rest) = Len(s) - n + 1
  BY <1>1, <1>2
<1>5. \A i \in 1..Len(rest) : rest[i] = s[n + i - 1]
  BY <1>1, <1>2, <1>4
<1>6. ASSUME rest # <<>>
      PROVE  /\ Tail(rest) \in Rests(s) /\ Len(Tail(rest)) = Len(rest) - 1
             /\ Len(rest) >= 1 /\ Head(rest) \in S
  <2>1. Len(rest) >= 1 /\ Len(rest) \in Nat
    BY <1>3, <1>6
  <2>2. Head(rest) \in S /\ Tail(rest) \in Seq(S) /\ Len(Tail(rest)) = Len(rest) - 1
    BY <1>3, <1>6, <2>1
  <2>3. n + 1 \in 1..(Len(s) + 1)
    BY <1>2, <1>4, <2>1
  <2> DEFINE next == SubSeq(s, n + 1, Len(s))
  <2>4. next \in Seq(S) /\ Len(next) = Len(s) - n
    BY <1>2, <2>3
  <2>5. \A i \in 1..Len(next) : next[i] = s[n + 1 + i - 1]
    BY <1>2, <2>3, <2>4
  <2>6. \A i \in 1..Len(next) : Tail(rest)[i] = next[i]
    <3> SUFFICES ASSUME NEW i \in 1..Len(next) PROVE Tail(rest)[i] = next[i]
      OBVIOUS
    <3>1. i + 1 \in 1..Len(rest) /\ i \in 1..Len(Tail(rest)) /\ i \in Nat
      BY <1>2, <1>4, <2>2, <2>4
    <3>2. Tail(rest)[i] = rest[i + 1]
      BY <1>3, <1>6, <3>1
    <3>3. rest[i + 1] = s[n + (i + 1) - 1] /\ n + (i + 1) - 1 = n + 1 + i - 1
      BY <1>2, <1>5, <3>1
    <3> QED
      BY <2>5, <3>2, <3>3
  <2>7. Tail(rest) = next
    <3> HIDE DEF next
    <3>1. Len(Tail(rest)) = Len(next)
      BY <1>2, <1>4, <2>2, <2>4
    <3> QED
      BY <2>2, <2>4, <2>6, <3>1
  <2>8. Tail(rest) \in Rests(s)
    BY <2>3, <2>7 DEF Rests
  <2> QED
    BY <2>1, <2>2, <2>8
<1> QED
  BY <1>2, <1>3, <1>4, <1>6

\* What TypesSafe says of the two sequences.
LEMMA RestsInHand ==
  TypesSafe => /\ untried \in Seq(Names) /\ left \in Seq(FieldSet)
               /\ Len(untried) \in 0..Len(Candidates) /\ Len(left) \in 0..Len(Fields)
               /\ Len(Candidates) \in Nat /\ Len(Fields) \in Nat
<1> SUFFICES ASSUME TypesSafe
             PROVE  /\ untried \in Seq(Names) /\ left \in Seq(FieldSet)
                    /\ Len(untried) \in 0..Len(Candidates) /\ Len(left) \in 0..Len(Fields)
                    /\ Len(Candidates) \in Nat /\ Len(Fields) \in Nat
  OBVIOUS
<1>1. untried \in Rests(Candidates) /\ left \in Rests(Fields)
  BY DEF TypesSafe, TypeOK
<1>2. Candidates \in Seq(Names) /\ Fields \in Seq(FieldSet)
  BY RecordAssumption DEF RecordAssumption
<1> QED
  BY <1>1, <1>2, TailIsRest

\* No name was tried and no file read.
LEMMA InitHasTypes == Init => TypesSafe
<1> SUFFICES ASSUME Init PROVE TypesSafe
  OBVIOUS
<1> USE RecordAssumption DEF RecordAssumption, Init
<1>1. FieldsSafe
  BY InitEstablishes
<1>2. untried \in Rests(Candidates) /\ left \in Rests(Fields)
  BY WholeIsRest
<1>3. UnfitLabels = {} /\ issues = 0
  BY DEF UnfitLabels
<1>4. IssuesInProgress
  BY <1>3, FS_EmptySet DEF IssuesInProgress
<1>5. published \subseteq Records /\ missing = {} /\ reachable \subseteq Names
  BY DEF RecordsIn
<1> QED
  BY <1>1, <1>2, <1>4, <1>5 DEF TypesSafe, TypeOK, FieldsSafe, ReadInProgress

\* The service has no part in the call.
LEMMA ServiceKeepsTypes ==
  TypesSafe /\ FieldsSafe' /\ (Publish \/ Unlink \/ RemoveDirectory \/ UNCHANGED vars) => TypesSafe'
<1> SUFFICES ASSUME TypesSafe, FieldsSafe',
                    Publish \/ Unlink \/ RemoveDirectory \/ UNCHANGED vars
             PROVE  TypesSafe'
  OBVIOUS
<1>1. UNCHANGED <<untried, directory, left, record, phase, issues, accepted, missing>>
  BY DEF Publish, Unlink, RemoveDirectory, Reader, vars
<1>2. published' \subseteq Records /\ reachable' \subseteq Names
  BY DEF Publish, Unlink, RemoveDirectory, vars, TypesSafe, TypeOK
<1>3. /\ at' \in [Names -> Directories \cup {Nowhere}] /\ content' \in [Directories -> Files]
  BY DEF FieldsSafe, ReadInProgress
<1>4. TypeOK'
  BY <1>1, <1>2, <1>3 DEF TypesSafe, TypeOK
<1> QED
  BY <1>1, <1>4 DEF TypesSafe, IssuesInProgress, UnfitLabels

\* Every issue has a name or a field of its own, so there are no more than those.
LEMMA IssuesAreBounded ==
  ASSUME NEW n \in Nat, NEW U \in SUBSET FieldSet,
         NEW names \in 0..Len(Candidates), NEW fields \in 0..Len(Fields),
         n + Cardinality(U) <= (Len(Candidates) - names) + (Len(Fields) - fields)
  PROVE  n \in 0..(Len(Candidates) + Len(Fields))
<1>1. Cardinality(U) \in Nat
  BY FieldsAreFinite, FS_Subset, FS_CardinalityType
<1>2. Len(Candidates) \in Nat /\ Len(Fields) \in Nat
  BY RecordAssumption DEF RecordAssumption
<1> QED
  BY <1>1, <1>2

\* A name is tried, with one issue at most.
LEMMA SearchKeepsTypes ==
  TypesSafe /\ FieldsSafe /\ FieldsSafe' /\ (Open \/ NotFound) => TypesSafe'
<1> SUFFICES ASSUME TypesSafe, FieldsSafe, FieldsSafe', Open \/ NotFound PROVE TypesSafe'
  OBVIOUS
<1>1. /\ UNCHANGED <<at, content, left, record, accepted, missing, published>>
      /\ reachable' \subseteq reachable /\ phase = "open"
      /\ phase' \in {"open", "read", "done"}
  BY DEF Open, NotFound, service
<1>2. /\ untried \in Rests(Candidates) /\ issues \in Nat
      /\ Candidates \in Seq(Names)
  BY RecordAssumption DEF TypesSafe, TypeOK, RecordAssumption
<1>3. /\ untried' \in Rests(Candidates) /\ Len(untried') \in 0..Len(Candidates)
      /\ issues' + Len(untried') <= issues + Len(untried) /\ issues' \in Nat
  <2>1. CASE Open
    <3>1. untried # <<>> /\ untried' = Tail(untried) /\ issues' \in {issues, issues + 1}
      BY <2>1 DEF Open
    <3>2. /\ Tail(untried) \in Rests(Candidates) /\ Len(Tail(untried)) = Len(untried) - 1
      BY <1>2, <3>1, TailIsRest
    <3>3. Len(Tail(untried)) \in 0..Len(Candidates)
      BY <1>2, <3>2, TailIsRest
    <3> QED
      BY <1>2, <3>1, <3>2, <3>3, RestsInHand
  <2>2. CASE NotFound
    BY <1>2, <2>2, RestsInHand DEF NotFound
  <2> QED
    BY <2>1, <2>2
<1>4. UnfitLabels' = UnfitLabels /\ UnfitLabels \in SUBSET FieldSet /\ Cardinality(UnfitLabels) \in Nat
  BY <1>1, FieldsAreFinite, FS_Subset, FS_CardinalityType DEF UnfitLabels
<1>5. issues' + Cardinality(UnfitLabels)
        <= (Len(Candidates) - Len(untried')) + (Len(Fields) - Len(left))
  BY <1>2, <1>3, <1>4, RestsInHand DEF TypesSafe, IssuesInProgress
<1>6. issues' \in 0..(Len(Candidates) + Len(Fields))
  BY <1>3, <1>4, <1>5, RestsInHand, IssuesAreBounded
<1>7. phase' = "done" => Unfit \notin Range(record')
  <2>1. record = [f \in FieldSet |-> Absent]
    BY <1>1 DEF FieldsSafe, ReadInProgress
  <2> QED
    BY <1>1, <2>1, RecordAssumption DEF RecordAssumption, Range
<1>8. TypeOK'
  BY <1>1, <1>3, <1>6, <1>7 DEF TypesSafe, TypeOK, FieldsSafe, ReadInProgress
<1> QED
  BY <1>1, <1>4, <1>5, <1>8 DEF TypesSafe, IssuesInProgress

\* A file is read: an issue is counted for it, or a label is taken that may be dropped.
LEMMA ReadingKeepsTypes ==
  TypesSafe /\ FieldsSafe /\ FieldsSafe' /\ (ReadField \/ ReadFails) => TypesSafe'
<1> SUFFICES ASSUME TypesSafe, FieldsSafe, FieldsSafe', ReadField \/ ReadFails PROVE TypesSafe'
  OBVIOUS
<1>1. /\ UNCHANGED <<at, content, untried, directory, phase, accepted, reachable, published>>
      /\ phase = "read" /\ left # <<>> /\ left' = Tail(left)
  BY DEF ReadField, ReadFails, Reading, service
<1>2. left \in Rests(Fields) /\ issues \in Nat /\ Fields \in Seq(FieldSet) /\ missing \subseteq FieldSet
  BY RecordAssumption DEF TypesSafe, TypeOK, RecordAssumption
<1>3. /\ left' \in Rests(Fields) /\ Len(left') = Len(left) - 1 /\ Field \in FieldSet
  BY <1>1, <1>2, TailIsRest DEF Field
<1>4. Len(left') \in 0..Len(Fields)
  BY <1>2, <1>3, TailIsRest
<1>5. /\ missing' \subseteq FieldSet
      /\ \/ issues' = issues + 1 /\ UnfitLabels' \subseteq UnfitLabels
         \/ issues' = issues /\ UnfitLabels' \subseteq UnfitLabels \cup {Field}
  <2>1. CASE ReadFails
    BY <1>2, <2>1 DEF ReadFails, UnfitLabels
  <2>2. CASE ReadField
    <3> DEFINE value == content[directory][Field]
               unfit == value = Unfit /\ Field \in Range(Numbers)
    <3>1. /\ record' = [record EXCEPT ![Field] = IF unfit THEN Absent ELSE value]
          /\ issues' = issues + IF unfit THEN 1 ELSE 0
          /\ missing' = IF value = Absent THEN missing \cup {Field} ELSE missing
      BY <2>2 DEF ReadField
    <3>2. record \in Files
      BY DEF FieldsSafe, ReadInProgress
    <3>3. \A f \in FieldSet \ {Field} : record'[f] = record[f]
      BY <3>1, <3>2 DEF Files
    <3>4. UnfitLabels' \subseteq UnfitLabels \cup {Field}
      BY <3>3 DEF UnfitLabels
    <3>5. CASE unfit
      <4>1. record'[Field] # Unfit /\ issues' = issues + 1
        BY <1>3, <3>1, <3>2, <3>5, RecordAssumption DEF Files, RecordAssumption
      <4> QED
        BY <1>2, <1>3, <3>1, <3>4, <4>1 DEF UnfitLabels
    <3>6. CASE ~unfit
      <4>1. issues' = issues
        BY <1>2, <3>1, <3>6
      <4> QED
        BY <1>2, <1>3, <3>1, <3>4, <4>1
    <3> QED
      BY <3>5, <3>6
  <2> QED
    BY <2>1, <2>2
<1>6. UnfitLabels \in SUBSET FieldSet /\ UnfitLabels' \in SUBSET FieldSet
  BY DEF UnfitLabels
<1>7. /\ Cardinality(UnfitLabels) \in Nat /\ Cardinality(UnfitLabels') \in Nat
      /\ issues' \in Nat
      /\ issues' + Cardinality(UnfitLabels') <= issues + Cardinality(UnfitLabels) + 1
  <2>1. Cardinality(UnfitLabels) \in Nat /\ Cardinality(UnfitLabels') \in Nat
    BY <1>6, FieldsAreFinite, FS_Subset, FS_CardinalityType
  <2>2. Cardinality(UnfitLabels') <= Cardinality(UnfitLabels) + 1
    BY <1>5, <1>6, OneGapMore
  <2>3. issues' = issues + 1 => Cardinality(UnfitLabels') <= Cardinality(UnfitLabels)
    <3>1. ASSUME UnfitLabels' \subseteq UnfitLabels
          PROVE  Cardinality(UnfitLabels') <= Cardinality(UnfitLabels)
      BY <1>6, <3>1, FieldsAreFinite, FS_Subset
    <3> QED
      BY <1>2, <1>5, <3>1
  <2> QED
    BY <1>2, <1>5, <2>1, <2>2, <2>3
<1>8. issues' + Cardinality(UnfitLabels')
        <= (Len(Candidates) - Len(untried)) + (Len(Fields) - Len(left'))
  BY <1>2, <1>3, <1>7, RestsInHand DEF TypesSafe, IssuesInProgress
<1>9. issues' \in 0..(Len(Candidates) + Len(Fields))
  BY <1>4, <1>6, <1>7, <1>8, RestsInHand, IssuesAreBounded
<1>10. TypeOK'
  BY <1>1, <1>3, <1>5, <1>9 DEF TypesSafe, TypeOK, FieldsSafe, ReadInProgress
<1> QED
  BY <1>1, <1>8, <1>10 DEF TypesSafe, IssuesInProgress

\* The labels that are dropped were room for as many issues.
LEMMA AcceptKeepsTypes ==
  TypesSafe /\ FieldsSafe' /\ SearchInProgress /\ Accept => TypesSafe'
<1> SUFFICES ASSUME TypesSafe, FieldsSafe', SearchInProgress, Accept PROVE TypesSafe'
  OBVIOUS
<1>1. /\ UNCHANGED <<at, content, untried, directory, left, missing, reachable, published>>
      /\ record' = [f \in FieldSet |-> IF f \in UnfitLabels THEN Absent ELSE record[f]]
      /\ issues' = issues + Cardinality(UnfitLabels)
      /\ phase = "read" /\ phase' = "done" /\ accepted' = accepted + 1
  BY DEF Accept, service
<1>2. accepted' = 1
  BY <1>1 DEF SearchInProgress
<1>3. \A f \in FieldSet : record'[f] # Unfit
  BY <1>1, RecordAssumption DEF UnfitLabels, RecordAssumption
<1>4. UnfitLabels' = {} /\ Unfit \notin Range(record')
  BY <1>1, <1>3 DEF UnfitLabels, Range
<1>5. UnfitLabels \in SUBSET FieldSet /\ Cardinality(UnfitLabels) \in Nat /\ issues \in Nat
  BY FieldsAreFinite, FS_Subset, FS_CardinalityType DEF UnfitLabels, TypesSafe, TypeOK
<1>6. Cardinality({}) = 0 /\ {} \in SUBSET FieldSet
  BY FS_EmptySet
<1>7. issues' + Cardinality({}) <= (Len(Candidates) - Len(untried)) + (Len(Fields) - Len(left))
  BY <1>1, <1>5, <1>6 DEF TypesSafe, IssuesInProgress
<1>8. issues' \in 0..(Len(Candidates) + Len(Fields))
  BY <1>1, <1>5, <1>6, <1>7, RestsInHand, IssuesAreBounded
<1>9. TypeOK'
  BY <1>1, <1>2, <1>4, <1>8 DEF TypesSafe, TypeOK, FieldsSafe, ReadInProgress
<1> QED
  BY <1>1, <1>4, <1>7, <1>9 DEF TypesSafe, IssuesInProgress

-----------------------------------------------------------------------------
(* The theorems.                                                           *)

\* Every reachable state satisfies the inductive invariant.
THEOREM Invariance == Spec => []IInv
<1>1. Init => IInv
  BY InitEstablishes, InitCountsGaps, InitHasTypes DEF IInv, FieldsSafe, TypesSafe
<1>2. IInv /\ [Next]_vars => IInv'
  <2> SUFFICES ASSUME IInv, [Next]_vars PROVE IInv'
    OBVIOUS
  <2>1. FieldsSafe /\ SearchInProgress /\ GapsCounted /\ TypesSafe
    BY DEF IInv, FieldsSafe, TypesSafe
  <2>2. GapsCounted'
    BY <2>1, SearchCountsGaps, ReadingCountsGaps, AcceptCountsGaps DEF Next
  <2>3. CASE Next
    <3>1. FieldsSafe' /\ SearchInProgress'
      BY <2>1, <2>3, PublishKeepsFields, WithdrawalKeepsFields, ReaderKeepsFields,
         ServiceKeepsSearch, OpenKeepsSearch, ReadingKeepsSearch DEF Next
    <3>2. TypesSafe'
      BY <2>1, <2>3, <3>1, ServiceKeepsTypes, SearchKeepsTypes, ReadingKeepsTypes,
         AcceptKeepsTypes DEF Next
    <3> QED
      BY <2>2, <3>1, <3>2 DEF IInv, FieldsSafe, TypesSafe
  <2>4. CASE UNCHANGED vars
    <3>1. ReadInProgress' /\ SearchInProgress' /\ FieldsOfOneRecord'
      BY <2>1, <2>4 DEF vars, FieldsSafe, ReadInProgress, FieldsOfOneRecord, SearchInProgress,
                        RecordsIn, Present
    <3>2. TypesSafe'
      BY <2>1, <2>4, <3>1, ServiceKeepsTypes DEF FieldsSafe
    <3> QED
      BY <2>2, <3>1, <3>2 DEF IInv, TypesSafe
  <2> QED
    BY <2>3, <2>4
<1> QED
  BY <1>1, <1>2, PTL DEF Spec

\* The call adds at most one issue for every name and every field, counts at most one record,
\* and returns no value that the checks of its field reject.
THEOREM TypeCorrect == Spec => []TypeOK
<1>1. IInv => TypeOK
  BY DEF IInv
<1> QED
  BY <1>1, Invariance, PTL

\* A record that the reader of a device returns is one that was published during the
\* collection, and all of it: for any number of fields and whatever the service does.
THEOREM OneRecordShown == Spec => []FieldsOfOneRecord
<1>1. IInv => FieldsOfOneRecord
  BY DEF IInv
<1> QED
  BY <1>1, Invariance, PTL

\* An accepted record lacks nothing but what was missing and what an issue was counted for:
\* for any number of fields, each of which may be damaged in its own way.
THEOREM NoSilentGaps == Spec => []GapsAreExplained
<1>1. IInv => GapsAreExplained
  BY DEF IInv, GapsCounted
<1> QED
  BY <1>1, Invariance, PTL

\* A name that led somewhere all the time, and could be opened, is not passed over for a
\* later one: for any number of names.
THEOREM FirstNameFound == Spec => []FirstNameWins
<1>1. SearchInProgress => FirstNameWins
  <2> SUFFICES ASSUME SearchInProgress, NEW i \in DOMAIN Candidates, Candidates[i] \in reachable
               PROVE /\ phase = "done" => accepted = 1
                     /\ directory # Nowhere => Len(untried) >= Len(Candidates) - i
    BY DEF FirstNameWins
  <2>1. phase = "done" => accepted = 1
    BY DEF SearchInProgress
  <2>2. directory # Nowhere => i >= Len(Candidates) - Len(untried)
    BY DEF SearchInProgress
  <2>3. i \in Nat /\ Len(Candidates) \in Nat /\ Len(untried) \in Nat
    BY RecordAssumption DEF RecordAssumption, SearchInProgress
  <2> QED
    BY <2>1, <2>2, <2>3
<1>2. IInv => SearchInProgress
  BY DEF IInv
<1> QED
  BY <1>1, <1>2, Invariance, PTL
=============================================================================
