--------------------------- MODULE WorkloadIngest ---------------------------
(***************************************************************************)
(* What one collection makes of the profiler state of one device           *)
(* (StateIngestor, collection/state.py): the v2 directory is scanned, then *)
(* the legacy v1 files; the records are sorted, reduced to one per         *)
(* identity and capped, and the generic tensix counts that sysfs did not   *)
(* give are filled in from them.                                           *)
(*                                                                         *)
(* Publishers write while the scan runs and the clock is read for every    *)
(* file, so a file is whatever it is when it is read, judged by the time   *)
(* of that moment.  An identity is a number, in the order of the names; a  *)
(* state file is the record that _parse_key_values and the numeric parsers *)
(* make of it, or nothing.  (A number of more digits than int() converts   *)
(* ends the collection here too, as module DeviceCollection shows.)        *)
(***************************************************************************)
EXTENDS Integers, SequencesExt

CONSTANTS
  Ids,           \* workload identities a file may hold
  Pods,          \* pod-uid directories under v2/workloads
  Legacy,        \* entries of the v1 device directory
  Start, Horizon,                   \* the seconds the collection may run in
  StaleAfter,    \* --metalium-profiler-stale-after
  Samples,       \* what a state file may say besides its identity
  SysfsCounts,   \* values sysfs may have given for used, total and available
  MaxEntries,    \* _MAXIMUM_STATE_FILES
  MaxWorkloads   \* _MAXIMUM_WORKLOADS

None == -1       \* an optional number that is absent

ASSUME IngestAssumption ==
  /\ Ids \subseteq Nat /\ Pods \subseteq Ids
  /\ IsFiniteSet(Pods) /\ IsFiniteSet(Legacy)
  /\ Start \in Nat /\ Horizon \in Nat /\ Start <= Horizon /\ StaleAfter \in Nat
  /\ Samples \subseteq [ts : Nat, active : BOOLEAN, used : Nat, total : Nat \cup {None}]
  /\ SysfsCounts \subseteq Nat \cup {None}
  /\ MaxEntries \in Nat /\ MaxWorkloads \in Nat

VARIABLES
  phase,       \* "v2", "v1" or "done"
  now,         \* _now_seconds()
  unread,      \* directory entries the current scan has not looked at
  budget,      \* how many of them it may still look at
  workloads,   \* the list of accepted records, in the order they were read
  identities,  \* v2_identities
  accepted,    \* the records behind records_accepted, under the names in their files
  cut,         \* how many scans ended with entries they had not looked at
  exported,    \* device.metalium_workloads
  tensix,      \* device.tensix
  sysfs,       \* device.tensix as _populate_tensix left it
  issues       \* issues counted for cut directories and for accepted records
               \* that are not exported; those of unusable files are left out

vars == <<phase, now, unread, budget, workloads, identities, accepted, cut, exported, tensix,
          sysfs, issues>>

Count == Nat \cup {None}
Tensix == [used : Count, total : Count, available : Count,
           source : {"none", "sysfs", "metalium_profiler"}]
Records == [id : Ids, ts : Nat, stale : BOOLEAN, active : BOOLEAN,
            used : Nat, total : Count, schema : {1, 2}]

\* State of the right kind; in particular no count below zero is filled in.
TypeOK ==
  /\ phase \in {"v2", "v1", "done"}
  /\ now \in Start..Horizon
  /\ unread \subseteq Pods \cup Legacy
  /\ budget \in 0..MaxEntries
  /\ workloads \in Seq(Records)
  /\ identities \subseteq Ids
  /\ accepted \in Seq(Records)
  /\ cut \in Nat
  /\ exported \in Seq(Records)
  /\ tensix \in Tensix /\ sysfs \in Tensix
  /\ issues \in Nat
-----------------------------------------------------------------------------
(* Reading.                                                                *)

IsStale(ts) ==
  /\ StaleAfter > 0
  /\ ts < now - StaleAfter \/ ts > now + StaleAfter

\* _parse_workload: the records it may return for a file read now.
Accepted(schema) ==
  LET valid == {s \in Samples : s.total # None => s.total > 0 /\ s.used <= s.total}
  IN {[id |-> id, ts |-> s.ts, stale |-> IsStale(s.ts), active |-> s.active,
       used |-> s.used, total |-> s.total, schema |-> schema] : id \in Ids, s \in valid}

\* SecureDirectory.entries: a directory over the limit is cut and counted.
Cut(names) == IF Cardinality(names) > MaxEntries THEN 1 ELSE 0

\* The v2 directory may be missing or unreadable.
Init ==
  /\ phase = "v2"
  /\ now = Start
  /\ unread \in {{}, Pods}
  /\ budget = MaxEntries
  /\ workloads = <<>>
  /\ identities = {}
  /\ accepted = <<>> /\ cut = 0
  /\ exported = <<>>
  /\ sysfs \in [used : SysfsCounts, total : SysfsCounts, available : SysfsCounts,
                source : {"none", "sysfs"}]
  /\ \A f \in {"used", "total", "available"} : sysfs[f] # None => sysfs.source = "sysfs"
  /\ tensix = sysfs
  /\ issues = Cut(unread)

Take(name) ==
  /\ budget > 0
  /\ name \in unread
  /\ unread' = unread \ {name}
  /\ budget' = budget - 1
  /\ UNCHANGED <<phase, now, cut, exported, tensix, sysfs, issues>>

\* An unsafe name, no file, a file that cannot be used, or not a state file.
PassOver ==
  /\ phase # "done"
  /\ \E name \in unread : Take(name)
  /\ UNCHANGED <<workloads, identities, accepted>>

\* _read_v2_workloads: the directory, not the file, gives the identity.
ReadV2 ==
  /\ phase = "v2"
  /\ \E pod \in unread, r \in Accepted(2) :
        /\ Take(pod)
        /\ accepted' = Append(accepted, r)
        /\ identities' = identities \cup {r.id}
        /\ workloads' = Append(workloads, [r EXCEPT !.id = pod])

\* A scan has ended.
Scanned == unread = {} \/ budget = 0
LeftUnread == IF unread = {} THEN 0 ELSE 1

\* The v1 device directory is opened when the v2 scan has ended, if there is one.
OpenV1 ==
  /\ phase = "v2" /\ Scanned
  /\ phase' = "v1"
  /\ unread' \in {{}, Legacy}
  /\ budget' = MaxEntries
  /\ cut' = cut + LeftUnread
  /\ issues' = issues + Cut(unread')
  /\ UNCHANGED <<now, workloads, identities, accepted, exported, tensix, sysfs>>

\* A v1 record is kept unless a v2 file has named its identity.
ReadV1 ==
  /\ phase = "v1"
  /\ \E name \in unread, r \in Accepted(1) :
        /\ Take(name)
        /\ accepted' = Append(accepted, r)
        /\ workloads' = IF r.id \in identities THEN workloads ELSE Append(workloads, r)
  /\ UNCHANGED identities

\* The wall clock moves while the scan runs.
Tick ==
  /\ phase # "done"
  /\ now < Horizon
  /\ now' = now + 1
  /\ UNCHANGED <<phase, unread, budget, workloads, identities, accepted, cut, exported, tensix,
                 sysfs, issues>>
-----------------------------------------------------------------------------
(* Merging: sort, keep the first record of an identity, cap.  The records  *)
(* are referred to by their positions in workloads.                        *)

\* Faulty variant: neither staleness nor time is part of the key.
BeforeByIdentity(i, j) ==
  \/ workloads[i].id < workloads[j].id
  \/ workloads[i].id = workloads[j].id /\ i < j

\* The order of the stable sort on (stale, -timestamp, workload_id).
Before(i, j) ==
  LET r == workloads[i]  s == workloads[j]
  IN \/ ~r.stale /\ s.stale
     \/ /\ r.stale = s.stale
        /\ \/ r.ts > s.ts
           \/ r.ts = s.ts /\ (r.id < s.id \/ (r.id = s.id /\ i < j))

\* How many of the positions come before i, and the position before which n come.
Rank(i, positions) == Cardinality({j \in positions : Before(j, i)})
Ranked(n, positions) == CHOOSE i \in positions : Rank(i, positions) = n

\* The records at some positions, sorted.
Sorted(positions) ==
  [k \in 1..Cardinality(positions) |-> workloads[Ranked(k - 1, positions)]]

\* The position of the first record of every identity.
Unique ==
  {i \in DOMAIN workloads :
     \A j \in DOMAIN workloads \ {i} : workloads[j].id = workloads[i].id => Before(i, j)}

Capped(positions) == {i \in positions : Rank(i, positions) < MaxWorkloads}

\* Faulty variant: the cap is applied before the reduction.
ExportCappingFirst == Sorted(Unique \cap Capped(DOMAIN workloads))

Export == Sorted(Capped(Unique))

\* Faulty variant: only the cap is counted.
LossWithoutDuplicates == IF Cardinality(Unique) > MaxWorkloads THEN 1 ELSE 0

\* One issue for every duplicate and one for the cap.
Loss == (Len(workloads) - Cardinality(Unique))
          + IF Cardinality(Unique) > MaxWorkloads THEN 1 ELSE 0

\* What the fresh and active records of a list use.
UsedOf(s) ==
  LET sum[n \in 0..Len(s)] ==
        IF n = 0 THEN 0
        ELSE sum[n - 1] + IF s[n].active /\ ~s[n].stale THEN s[n].used ELSE 0
  IN sum[Len(s)]

FirstOf(a, b) == IF a # None THEN a ELSE b

Fresh(s) == {r \in Range(s) : ~r.stale}
TotalOf(s) == Max({r.total : r \in Fresh(s)} \cup {None})

\* Faulty variant: the sum is not capped at the total.
FilledUncapped(s) ==
  LET total == TotalOf(s)
      used  == UsedOf(s)
      free  == IF total = None THEN None ELSE total - used
  IN IF Fresh(s) = {} THEN tensix
     ELSE [used |-> FirstOf(tensix.used, used), total |-> FirstOf(tensix.total, total),
           available |-> FirstOf(tensix.available, free), source |-> "metalium_profiler"]

\* _apply_workloads.
Filled(s) ==
  LET total == TotalOf(s)
      used  == IF total = None THEN UsedOf(s) ELSE Min({UsedOf(s), total})
      free  == IF total = None THEN None ELSE total - used
      fills == \/ tensix.used = None
               \/ total # None /\ (tensix.total = None \/ tensix.available = None)
  IN IF Fresh(s) = {} THEN tensix
     ELSE [used      |-> FirstOf(tensix.used, used),
           total     |-> FirstOf(tensix.total, total),
           available |-> FirstOf(tensix.available, free),
           source    |-> IF fills THEN "metalium_profiler" ELSE tensix.source]

Finish ==
  /\ phase = "v1" /\ Scanned
  /\ phase' = "done"
  /\ exported' = Export
  /\ cut' = cut + LeftUnread
  /\ issues' = issues + Loss
  /\ tensix' = Filled(exported')
  /\ UNCHANGED <<now, unread, budget, workloads, identities, accepted, sysfs>>

Next == PassOver \/ ReadV2 \/ OpenV1 \/ ReadV1 \/ Tick \/ Finish

Spec == Init /\ [][Next]_vars
-----------------------------------------------------------------------------
(* Properties.                                                             *)

Better(r, s) == \/ ~r.stale /\ s.stale
                \/ r.stale = s.stale /\ r.ts > s.ts

\* A scrape has one series per workload identity, and it is the freshest record that
\* was read for it (the reduction in _read_workloads).
ExportIsFreshest ==
  /\ \A i, j \in DOMAIN exported : exported[i].id = exported[j].id => i = j
  /\ \A e \in Range(exported), r \in Range(workloads) : r.id = e.id => ~Better(r, e)

\* An identity is left out only when the export is full of records at least as good:
\* duplicates take no room, and a stale record never displaces a fresh one.
LimitKeepsTheBest ==
  phase = "done" =>
    \A r \in Range(workloads) :
       \/ \E e \in Range(exported) : e.id = r.id
       \/ /\ Len(exported) = MaxWorkloads
          /\ \A e \in Range(exported) : ~Better(r, e)

\* The accepted v1 records whose identity some v2 file names.
NamedByV2 == {accepted[i].id : i \in {j \in DOMAIN accepted : accepted[j].schema = 2}}
Superseded == {i \in DOMAIN accepted : accepted[i].schema = 1 /\ accepted[i].id \in NamedByV2}

\* The diagnostics account for every accepted record that is not exported, and for every
\* directory whose scan the limit ended: an issue for each duplicate, one for the records
\* over the limit together, one for each of the two directories left unfinished, and none
\* besides.  The one loss without an issue is the documented one: a v1 record gives way to
\* the v2 file that names its identity.
LossIsCounted ==
  phase = "done" =>
    LET readIds == {r.id : r \in Range(workloads)}
        kept    == Len(accepted) - Cardinality(Superseded)
        over    == IF Cardinality(readIds) > Len(exported) THEN 1 ELSE 0
    IN issues = (kept - Cardinality(readIds)) + over + cut

\* When sysfs gives no count, those of the profiler agree with each other although
\* they are summed over workloads that do not know of each other.
ProfilerCountsAgree ==
  (sysfs.used = None /\ sysfs.total = None /\ sysfs.available = None) =>
    /\ tensix.total # None => tensix.used # None /\ tensix.used <= tensix.total
    /\ tensix.available # None => tensix.used + tensix.available = tensix.total

\* docs/info.md: "A v1 record cannot replace a v2 record with the same workload ID."
\* The filter compares the names in the files, the reduction the directories.
V1NeverReplacesV2 ==
  phase = "done" =>
    \A e \in Range(exported), r \in Range(workloads) :
       (e.schema = 1 /\ r.schema = 2) => e.id # r.id

\* docs/info.md: consumers can distinguish direct sysfs values from profiler-derived
\* ones by the source of the tensix metrics; one label stands for three counts.
SourceTellsOrigin ==
  tensix.source = "metalium_profiler" =>
    \A f \in {"used", "total", "available"} : sysfs[f] = None

\* What the proofs need of a scan: where its entries and identities come from, that it has
\* been counted if it cannot be finished, and what the merge has made of the list.
ScanInProgress ==
  /\ phase = "v2" => unread \subseteq Pods /\ \A i \in DOMAIN accepted : accepted[i].schema = 2
  /\ identities = NamedByV2
  /\ Len(workloads) = Len(accepted) - Cardinality(Superseded)
  /\ phase # "done" =>
       /\ tensix = sysfs /\ exported = <<>>
       /\ issues = cut + IF Cardinality(unread) > budget THEN 1 ELSE 0
  /\ phase = "done" => exported = Export /\ issues = Loss + cut

IInv == TypeOK /\ ScanInProgress /\ ProfilerCountsAgree
=============================================================================
