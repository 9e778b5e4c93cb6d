------------------------------ MODULE FileRead ------------------------------
(***************************************************************************)
(* Reading one file that others may replace, rewrite or remove meanwhile:  *)
(* SysfsReader._read_text (collection/sysfs_io.py), which looks at the     *)
(* path and then opens it, and SecureDirectory.read_text                   *)
(* (collection/secure_io.py), which opens it and looks at the descriptor.  *)
(*                                                                         *)
(* A path leads to an inode or nowhere.  An inode has a kind, a number of  *)
(* names, a size and a text, of which only the first never changes.        *)
(***************************************************************************)
EXTENDS Naturals

CONSTANTS
  Inodes,    \* inodes the path may lead to
  Nowhere,   \* it leads to none of them
  Maximum    \* the maximum size of a file

ASSUME FileAssumption == Nowhere \notin Inodes /\ Maximum \in Nat \ {0}

VARIABLES
  kind, names, size, text,   \* the inodes
  path,      \* the inode the name leads to
  reader,    \* "sysfs" or "secure"
  phase,     \* "begin", "open", "look", "read" or "done"
  opened,    \* the inode behind the descriptor
  value,     \* the inode whose text was returned
  length,    \* how much of it was read
  issues, filesRead,   \* what the call added to the diagnostics
  missing,   \* the name led nowhere at some time during the call
  looked     \* inodes that passed the inspection

vars == <<kind, names, size, text, path, reader, phase, opened, value, length,
          issues, filesRead, missing, looked>>
inodes == <<kind, names, size, text>>
diagnostics == <<issues, filesRead>>

Kinds == {"regular", "symlink", "pipe"}
Texts == {"good", "blank", "undecodable"}
Sizes == 0..(Maximum + 1)

TypeOK ==
  /\ kind \in [Inodes -> Kinds] /\ names \in [Inodes -> {1, 2}]
  /\ size \in [Inodes -> Sizes] /\ text \in [Inodes -> Texts]
  /\ path \in Inodes \cup {Nowhere}
  /\ reader \in {"sysfs", "secure"}
  /\ phase \in {"begin", "open", "look", "read", "done"}
  /\ opened \in Inodes \cup {Nowhere} /\ value \in Inodes \cup {Nowhere}
  /\ length \in Sizes
  /\ issues \in 0..1 /\ filesRead \in 0..1
  /\ missing \in BOOLEAN /\ looked \subseteq Inodes

Init ==
  /\ kind \in [Inodes -> Kinds] /\ names \in [Inodes -> {1, 2}]
  /\ size \in [Inodes -> Sizes] /\ text \in [Inodes -> Texts]
  /\ path \in Inodes \cup {Nowhere}
  /\ reader \in {"sysfs", "secure"}
  /\ phase = "begin"
  /\ opened = Nowhere /\ value = Nowhere
  /\ length = 0 /\ issues = 0 /\ filesRead = 0
  /\ missing = (path = Nowhere)
  /\ looked = {}
-----------------------------------------------------------------------------
(* Others.                                                                 *)

Rename ==
  /\ phase # "done"
  /\ path' \in (Inodes \cup {Nowhere}) \ {path}
  /\ missing' = (missing \/ path' = Nowhere)
  /\ UNCHANGED <<inodes, reader, phase, opened, value, length, diagnostics, looked>>

Rewrite ==
  /\ phase # "done"
  /\ \E i \in Inodes, s \in Sizes, t \in Texts, n \in {1, 2} :
        /\ size' = [size EXCEPT ![i] = s]
        /\ text' = [text EXCEPT ![i] = t]
        /\ names' = [names EXCEPT ![i] = n]
  /\ UNCHANGED <<kind, path, reader, phase, opened, value, length, diagnostics, missing, looked>>
-----------------------------------------------------------------------------
(* The reader.                                                             *)

Return == phase' = "done" /\ value' = Nowhere

\* One issue and no value.
Reject == Return /\ issues' = issues + 1

Reading == UNCHANGED <<inodes, path, reader, missing>>

\* A directory without permission, an I/O error, ...
Fails ==
  /\ phase \in {"begin", "open", "look", "read"}
  /\ phase = "open" => reader = "sysfs"
  /\ Reject
  /\ Reading /\ UNCHANGED <<opened, length, filesRead, looked>>

\* path.stat(), which follows links, so that no symbolic link is ever seen.
SysfsLook ==
  /\ phase = "begin" /\ reader = "sysfs"
  /\ \/ path = Nowhere /\ Return /\ UNCHANGED <<issues, looked>>
     \/ /\ path # Nowhere
        /\ kind[path] = "pipe" \/ size[path] > Maximum
        /\ Reject /\ UNCHANGED looked
     \/ /\ path # Nowhere
        /\ kind[path] # "pipe" /\ size[path] <= Maximum
        /\ phase' = "open"
        /\ looked' = looked \cup {path}
        /\ UNCHANGED <<value, issues>>
  /\ Reading /\ UNCHANGED <<opened, length, filesRead>>

\* path.open(): whatever the name leads to now; a pipe blocks until it has a writer.
SysfsOpen ==
  /\ phase = "open"
  /\ \/ path = Nowhere /\ Return /\ UNCHANGED opened
     \/ /\ path # Nowhere /\ kind[path] # "pipe"
        /\ opened' = path /\ phase' = "read" /\ UNCHANGED value
  /\ Reading /\ UNCHANGED <<length, diagnostics, looked>>

\* Faulty variant: without O_NONBLOCK a pipe blocks.
SecureOpenBlocking ==
  /\ phase = "begin" /\ reader = "secure"
  /\ \/ path = Nowhere /\ Return /\ UNCHANGED <<opened, issues>>
     \/ path # Nowhere /\ kind[path] = "symlink" /\ Reject /\ UNCHANGED opened
     \/ /\ path # Nowhere /\ kind[path] = "regular"
        /\ opened' = path /\ phase' = "look" /\ UNCHANGED <<value, issues>>
  /\ Reading /\ UNCHANGED <<length, filesRead, looked>>

\* os.open() with O_NOFOLLOW and O_NONBLOCK.
SecureOpen ==
  /\ phase = "begin" /\ reader = "secure"
  /\ \/ path = Nowhere /\ Return /\ UNCHANGED <<opened, issues>>
     \/ path # Nowhere /\ kind[path] = "symlink" /\ Reject /\ UNCHANGED opened
     \/ /\ path # Nowhere /\ kind[path] # "symlink"
        /\ opened' = path /\ phase' = "look" /\ UNCHANGED <<value, issues>>
  /\ Reading /\ UNCHANGED <<length, filesRead, looked>>

\* Faulty variant: the path is inspected, not the descriptor.
SecureLookAtPath ==
  /\ phase = "look"
  /\ \/ /\ path # Nowhere
        /\ kind[path] # "regular" \/ names[path] # 1 \/ size[path] > Maximum
        /\ Reject /\ UNCHANGED looked
     \/ path = Nowhere /\ Return /\ UNCHANGED <<issues, looked>>
     \/ /\ path # Nowhere /\ kind[path] = "regular" /\ names[path] = 1 /\ size[path] <= Maximum
        /\ phase' = "read" /\ looked' = looked \cup {path} /\ UNCHANGED <<value, issues>>
  /\ Reading /\ UNCHANGED <<opened, length, filesRead>>

\* os.fstat(): a regular file with one name, not over the limit.
SecureLook ==
  /\ phase = "look"
  /\ \/ /\ kind[opened] # "regular" \/ names[opened] # 1 \/ size[opened] > Maximum
        /\ Reject /\ UNCHANGED looked
     \/ /\ kind[opened] = "regular" /\ names[opened] = 1 /\ size[opened] <= Maximum
        /\ phase' = "read" /\ looked' = looked \cup {opened} /\ UNCHANGED <<value, issues>>
  /\ Reading /\ UNCHANGED <<opened, length, filesRead>>

\* Faulty variant: the size that was inspected is trusted.
ReadTrustingSize ==
  /\ phase = "read"
  /\ length' = size[opened]
  /\ IF text[opened] # "good" \/ size[opened] = 0
     THEN filesRead' = 1 /\ Reject
     ELSE filesRead' = 1 /\ phase' = "done" /\ value' = opened /\ issues' = issues
  /\ Reading /\ UNCHANGED <<opened, looked>>

\* Faulty variant: a text that cannot be decoded is dropped without an issue.
ReadSilently ==
  /\ phase = "read"
  /\ length' = size[opened]
  /\ CASE size[opened] > Maximum -> filesRead' = filesRead /\ Reject
       [] size[opened] <= Maximum /\ (text[opened] # "good" \/ size[opened] = 0) ->
            filesRead' = 1 /\ Return /\ issues' = issues
       [] OTHER -> filesRead' = 1 /\ phase' = "done" /\ value' = opened /\ issues' = issues
  /\ Reading /\ UNCHANGED <<opened, looked>>

\* One byte more than the limit is asked for, so growth is noticed.
Read ==
  /\ phase = "read"
  /\ length' = size[opened]
  /\ CASE size[opened] > Maximum -> filesRead' = filesRead /\ Reject
       [] size[opened] <= Maximum /\ (text[opened] # "good" \/ size[opened] = 0) ->
            filesRead' = 1 /\ Reject
       [] OTHER -> filesRead' = 1 /\ phase' = "done" /\ value' = opened /\ issues' = issues
  /\ Reading /\ UNCHANGED <<opened, looked>>

ReaderStep == SysfsLook \/ SysfsOpen \/ SecureOpen \/ SecureLook \/ Read

Next == ReaderStep \/ Fails \/ Rename \/ Rewrite

Spec == Init /\ [][Next]_vars

\* The reader is scheduled; that a call fails is never certain.
FairSpec == Spec /\ WF_vars(ReaderStep)
-----------------------------------------------------------------------------
\* However a file is changed while it is read: a call that returns nothing has counted
\* exactly one issue, unless the file was not there; one that returns a value has read
\* no more than the maximum, and counted one file and no issue.
OutcomeIsAccounted ==
  phase = "done" =>
    IF value # Nowhere THEN length <= Maximum /\ issues = 0 /\ filesRead = 1
    ELSE issues = 1 \/ (missing /\ filesRead = 0)

\* What the secure reader returns comes from the very inode that it has inspected, a
\* regular file that no symbolic link led to, although the name may have moved on.
SecureReadsWhatItInspected ==
  (reader = "secure" /\ value # Nowhere) => value \in looked /\ kind[value] = "regular"

\* No file keeps the secure reader waiting, a pipe without a writer neither, and nobody
\* who renames and rewrites files for ever.
SecureReaderReturns == reader = "secure" ~> phase = "done"

\* How far a call has got, which the proofs need: nothing is counted or returned before
\* it is done, and the secure reader holds what it has inspected.
ReadInProgress ==
  /\ phase # "done" => value = Nowhere /\ issues = 0 /\ filesRead = 0
  /\ path = Nowhere => missing
  /\ phase = "open" => reader = "sysfs"
  /\ phase = "look" => reader = "secure"
  /\ phase \in {"look", "read"} => opened \in Inodes
  /\ phase = "read" /\ reader = "secure" => opened \in looked /\ kind[opened] = "regular"

IInv == TypeOK /\ ReadInProgress /\ OutcomeIsAccounted /\ SecureReadsWhatItInspected
=============================================================================
