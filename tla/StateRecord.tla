---------------------------- MODULE StateRecord ----------------------------
(***************************************************************************)
(* How the allocation and the janitor record of one device are read        *)
(* (StateIngestor._read_allocation and _read_janitor, collection/state.py):*)
(* the first name of the device that leads to a directory is opened, and   *)
(* the fields are read from it, a file each, while a node service works on *)
(* the same directories.                                                   *)
(*                                                                         *)
(* The service publishes a record by moving a complete directory to its    *)
(* name, and withdraws it file by file.  What a file holds is the record   *)
(* it belongs to, or Unfit: a text that the checks of its field reject.    *)
(* (A number of more digits than int() converts ends the collection, as    *)
(* module DeviceCollection shows.)                                         *)
(***************************************************************************)
EXTENDS Naturals, FiniteSets, SequencesExt

CONSTANTS
  Candidates,    \* _device_keys: the names of the device, in order
  Directories,   \* inodes
  Nowhere,       \* a name leads to none of them
  Labels, Numbers,   \* the fields, each in the order they are read
  Records,       \* records that the service publishes
  Absent, Unfit

Fields == Labels \o Numbers
Names == Range(Candidates)
FieldSet == Range(Fields)

ASSUME RecordAssumption ==
  /\ Nowhere \notin Directories
  /\ Absent \notin Records /\ Unfit \notin Records /\ Absent # Unfit
  /\ Fields \in Seq(FieldSet) /\ IsInjective(Fields)
  /\ Candidates \in Seq(Names) /\ IsInjective(Candidates)

VARIABLES
  at,         \* where each name leads
  content,    \* the files of each directory
  untried,    \* names not tried yet
  directory,  \* the directory behind the descriptor
  left,       \* fields not read yet
  record,     \* what was read
  phase,      \* "open", "read" or "done"
  issues, accepted,   \* what the call added to the diagnostics
  missing,    \* fields whose file was not there
  reachable,  \* names that led somewhere all the time, and whose open did not fail
  published   \* records behind a name at some time during the call

service == <<at, content>>
vars == <<at, content, untried, directory, left, record, phase, issues, accepted,
          missing, reachable, published>>

Files == [FieldSet -> Records \cup {Absent, Unfit}]

Rests(s) == {SubSeq(s, n, Len(s)) : n \in 1..(Len(s) + 1)}

\* A name is tried once and a field read once, so the issues are bounded; and nothing
\* unfit is in a record that is done.
TypeOK ==
  /\ at \in [Names -> Directories \cup {Nowhere}]
  /\ content \in [Directories -> Files]
  /\ untried \in Rests(Candidates)
  /\ directory \in Directories \cup {Nowhere}
  /\ left \in Rests(Fields)
  /\ record \in Files
  /\ phase = "done" => Unfit \notin Range(record)
  /\ phase \in {"open", "read", "done"}
  /\ issues \in 0..(Len(Candidates) + Len(Fields))
  /\ accepted \in 0..1
  /\ missing \subseteq FieldSet /\ reachable \subseteq Names /\ published \subseteq Records

\* The files of one record, some of which may be absent or unfit.
FilesOf(r) == [FieldSet -> {r, Absent, Unfit}]

RecordsIn(d) == {content[d][f] : f \in FieldSet} \cap Records

Init ==
  /\ at \in [Names -> Directories \cup {Nowhere}]
  /\ IsInjective(Restrict(at, {n \in Names : at[n] # Nowhere}))
  /\ content \in [Directories -> UNION {FilesOf(r) : r \in Records}]
  /\ untried = Candidates
  /\ directory = Nowhere
  /\ left = Fields
  /\ record = [f \in FieldSet |-> Absent]
  /\ phase = "open"
  /\ issues = 0 /\ accepted = 0
  /\ missing = {}
  /\ reachable = {n \in Names : at[n] # Nowhere}
  /\ published = UNION {RecordsIn(at[n]) : n \in reachable}
-----------------------------------------------------------------------------
(* The service.                                                            *)

Reader == <<untried, directory, left, record, phase, issues, accepted, missing>>

\* A complete directory takes the place of what the name led to.
Publish ==
  /\ phase # "done"
  /\ \E n \in Names, d \in Directories \ Range(at), r \in Records :
        /\ d # directory
        /\ at' = [at EXCEPT ![n] = d]
        /\ \E files \in FilesOf(r) :
              /\ content' = [content EXCEPT ![d] = files]
              /\ published' = published \cup ({files[f] : f \in FieldSet} \cap Records)
  /\ UNCHANGED <<Reader, reachable>>

Unlink ==
  /\ phase # "done"
  /\ \E d \in Directories, f \in FieldSet :
        content[d][f] # Absent /\ content' = [content EXCEPT ![d][f] = Absent]
  /\ UNCHANGED <<at, Reader, reachable, published>>

RemoveDirectory ==
  /\ phase # "done"
  /\ \E n \in Names :
        /\ at[n] # Nowhere
        /\ content[at[n]] = [f \in FieldSet |-> Absent]
        /\ at' = [at EXCEPT ![n] = Nowhere]
        /\ reachable' = reachable \ {n}
  /\ UNCHANGED <<content, Reader, published>>
-----------------------------------------------------------------------------
(* The reader.                                                             *)

\* Faulty variant: the last name comes first.
OpenLastFirst ==
  /\ phase = "open" /\ untried # <<>>
  /\ untried' = Tail(untried)
  /\ LET name == Candidates[Len(untried)]
     IN \/ /\ at[name] # Nowhere
           /\ directory' = at[name] /\ phase' = "read"
           /\ UNCHANGED <<issues, reachable>>
        \/ at[name] = Nowhere /\ UNCHANGED <<directory, phase, issues, reachable>>
        \/ /\ UNCHANGED <<directory, phase>> /\ issues' = issues + 1
           /\ reachable' = reachable \ {name}
  /\ UNCHANGED <<service, left, record, accepted, missing, published>>

\* _first_device_directory: a name that leads nowhere is passed over in silence, one
\* that cannot be opened with an issue.
Open ==
  /\ phase = "open" /\ untried # <<>>
  /\ untried' = Tail(untried)
  /\ LET name == Head(untried)
     IN \/ /\ at[name] # Nowhere
           /\ directory' = at[name] /\ phase' = "read"
           /\ UNCHANGED <<issues, reachable>>
        \/ at[name] = Nowhere /\ UNCHANGED <<directory, phase, issues, reachable>>
        \/ /\ UNCHANGED <<directory, phase>> /\ issues' = issues + 1
           /\ reachable' = reachable \ {name}
  /\ UNCHANGED <<service, left, record, accepted, missing, published>>

\* No directory: an empty record that does not count as accepted.
NotFound ==
  /\ phase = "open" /\ untried = <<>>
  /\ phase' = "done"
  /\ UNCHANGED <<service, untried, directory, left, record, issues, accepted, missing,
                 reachable, published>>

Field == Head(left)

Reading ==
  /\ phase = "read" /\ left # <<>>
  /\ left' = Tail(left)
  /\ UNCHANGED <<service, untried, directory, phase, accepted, reachable, published>>

\* Faulty variant: every file is opened by its path.
ReadFieldByPath ==
  /\ Reading
  /\ \E n \in Names :
        /\ at[n] # Nowhere
        /\ LET value == content[at[n]][Field]
               unfit == value = Unfit /\ Field \in Range(Numbers)
           IN /\ record' = [record EXCEPT ![Field] = IF unfit THEN Absent ELSE value]
              /\ issues' = issues + IF unfit THEN 1 ELSE 0
              /\ missing' = IF value = Absent THEN missing \cup {Field} ELSE missing

\* Faulty variant: what is not a number is dropped without an issue.
ReadFieldSilently ==
  /\ Reading
  /\ LET value == content[directory][Field]
     IN /\ record' = [record EXCEPT ![Field] =
                        IF value = Unfit /\ Field \in Range(Numbers) THEN Absent ELSE value]
        /\ missing' = IF value = Absent THEN missing \cup {Field} ELSE missing
  /\ UNCHANGED issues

\* read_text, and for a number _read_state_int, which parses it at once.
ReadField ==
  /\ Reading
  /\ LET value == content[directory][Field]
         unfit == value = Unfit /\ Field \in Range(Numbers)
     IN /\ record' = [record EXCEPT ![Field] = IF unfit THEN Absent ELSE value]
        /\ issues' = issues + IF unfit THEN 1 ELSE 0
        /\ missing' = IF value = Absent THEN missing \cup {Field} ELSE missing

\* The file is there and cannot be read: one issue (see FileRead).
ReadFails ==
  /\ Reading
  /\ content[directory][Field] # Absent
  /\ issues' = issues + 1
  /\ UNCHANGED <<record, missing>>

UnfitLabels == {f \in FieldSet : record[f] = Unfit}

\* _validate_label for every label, once all the fields are read.
Accept ==
  /\ phase = "read" /\ left = <<>>
  /\ record' = [f \in FieldSet |-> IF f \in UnfitLabels THEN Absent ELSE record[f]]
  /\ issues' = issues + Cardinality(UnfitLabels)
  /\ accepted' = accepted + 1
  /\ phase' = "done"
  /\ UNCHANGED <<service, untried, directory, left, missing, reachable, published>>

Next ==
  \/ Publish \/ Unlink \/ RemoveDirectory
  \/ Open \/ NotFound \/ ReadField \/ ReadFails \/ Accept

Spec == Init /\ [][Next]_vars
-----------------------------------------------------------------------------
Present == {f \in FieldSet : record[f] # Absent}

\* However the service replaces and withdraws records meanwhile, a device is never shown
\* with the claim of one record beside the pod of another, nor with one that was not
\* published during the collection.
FieldsOfOneRecord ==
  phase = "done" =>
    /\ \A f, g \in Present : record[f] = record[g]
    /\ \A f \in Present : record[f] \in published

\* What a record lacks was not there, or one issue was counted for it: an accepted
\* record has no other gaps.
GapsAreExplained ==
  (phase = "done" /\ accepted = 1) =>
    issues >= Cardinality(FieldSet \ (Present \cup missing))

\* A record under a name that is there all the time is found, and so is not replaced by
\* one that was left under a later name.
FirstNameWins ==
  \A i \in DOMAIN Candidates :
    Candidates[i] \in reachable =>
      /\ phase = "done" => accepted = 1
      /\ directory # Nowhere => Len(untried) >= Len(Candidates) - i

\* The records in two sets of files are one.
SameRecord(files, others) ==
  \A f, g \in FieldSet : files[f] \in Records /\ others[g] \in Records => files[f] = others[g]

\* What the proofs need of the fields: the directory behind the descriptor holds files of
\* one record, of which some have been read, and only ever loses files.
ReadInProgress ==
  /\ at \in [Names -> Directories \cup {Nowhere}]
  /\ content \in [Directories -> Files]
  /\ record \in Files
  /\ left \in Seq(FieldSet)
  /\ directory \in Directories \cup {Nowhere}
  /\ phase = "open" => directory = Nowhere /\ record = [f \in FieldSet |-> Absent]
  /\ phase = "read" => directory # Nowhere
  /\ \A d \in Directories : SameRecord(content[d], content[d])
  /\ \A n \in Names : at[n] # Nowhere => RecordsIn(at[n]) \subseteq published
  /\ SameRecord(record, record)
  /\ \A f \in FieldSet : record[f] \in Records => record[f] \in published
  /\ phase = "read" =>
       SameRecord(record, content[directory]) /\ RecordsIn(directory) \subseteq published

\* ... and of the names: those that were passed over have not led somewhere all the time.
SearchInProgress ==
  LET passed == Len(Candidates) - Len(untried)
  IN /\ at \in [Names -> Directories \cup {Nowhere}]
     /\ phase \in {"open", "read", "done"}
     /\ untried \in Seq(Names) /\ passed >= 0
     /\ \A j \in 1..Len(untried) : untried[j] = Candidates[passed + j]
     /\ \A n \in reachable : at[n] # Nowhere
     /\ phase = "open" => directory = Nowhere /\ accepted = 0
     /\ phase = "read" => accepted = 0
     /\ phase = "open" => \A i \in DOMAIN Candidates : Candidates[i] \in reachable => i > passed
     /\ phase # "open" => \A i \in DOMAIN Candidates : Candidates[i] \in reachable => i >= passed
     /\ phase = "done" /\ accepted # 1 => \A i \in DOMAIN Candidates : Candidates[i] \notin reachable

\* ... and of the gaps: the fields that have been read without a value and were not missing
\* have been counted; those that are not read yet cannot have been.
GapsCounted ==
  /\ issues \in Nat
  /\ phase # "done" => issues >= Cardinality((FieldSet \ Range(left)) \ (Present \cup missing))
  /\ GapsAreExplained

\* ... and of the issues: one for a name, one for a file, and one for a label that will be
\* dropped at the end.
IssuesInProgress ==
  issues + Cardinality(UnfitLabels)
    <= (Len(Candidates) - Len(untried)) + (Len(Fields) - Len(left))

IInv == TypeOK /\ IssuesInProgress /\ ReadInProgress /\ SearchInProgress /\ GapsCounted /\ FieldsOfOneRecord
=============================================================================
