-------------------------- MODULE DeviceCollection --------------------------
(***************************************************************************)
(* SysfsCollector.collect (collection/collector.py, device_resources.py,   *)
(* sysfs_io.py): the root is scanned once, then every directory found is   *)
(* read file by file, by path, while its device may go away.               *)
(*                                                                         *)
(* A device has some of the files that the collector knows of; what each   *)
(* read of one comes to is fixed by the device.  A file is known by the    *)
(* field it is for and its place among the alternatives for that field.    *)
(***************************************************************************)
EXTENDS Parsers, DeviceModel

CONSTANTS
  Nodes,            \* nodes that are tried: their entries, directories and files
  UsageTexts,       \* texts a memory usage file may have
  ResourceTexts,    \* texts of a PCI resource file, as lines of columns
  Sensors, Links,   \* entries that the hwmon and link directories may have
  CollectHwmon, CollectPcieCounters   \* --collect-hwmon, --collect-pcie-counters

\* What reading one file may come to, by the reader that is used: _read_text, _read_int
\* and _read_boolish; parse_int64, whose refusal is not counted by its caller; the pair of
\* parse_uint64, likewise; _read_byte, which does not count a text without tokens;
\* _read_uevent_field; and _read_symlink_basename.  What raises is a text of more digits
\* than int() converts, or a number too large for a decimal: nothing catches that.
Outcomes ==
  [text   |-> {"missing", "failed", "value"},
   number |-> {"missing", "failed", "refused", "raises", "value"},
   quiet  |-> {"missing", "failed", "ignored", "raises", "value"},
   pair   |-> {"missing", "failed", "ignored", "value"},
   bytes  |-> {"missing", "failed", "refused", "ignored", "raises", "value"},
   uevent |-> {"missing", "failed", "ignored", "empty", "value"},
   link   |-> {"missing", "value"}]

Gives(outcome) == outcome \in {"empty", "value"}

\* Faulty variant: _parse does not count a text that it cannot parse.
CountedUnread(outcome) == outcome = "failed"

Counted(outcome) == outcome \in {"failed", "refused"}
-----------------------------------------------------------------------------
(* What is read, in order.  A step without readers is a rule.              *)
Chain(field, readers) == [field |-> field, readers |-> readers]
Alternatives(reader, field, n) == Chain(field, [i \in 1..n |-> reader])
Text(field, n) == Alternatives("text", field, n)
Number(field, n) == Alternatives("number", field, n)
Bytes(field, n) == Alternatives("bytes", field, n)
Quiet(field) == Alternatives("quiet", field, 1)
Rule(name) == Chain(name, <<>>)

ClassSteps == <<Text("architecture", 6), Text("board_type", 5), Text("health", 3)>>

CharacterDeviceSteps == <<Chain("dev_number", <<"pair">>), Chain("dev_name", <<"uevent">>)>>

PciSteps ==
  <<Chain("bdf", <<"uevent", "link">>), Chain("driver", <<"uevent", "link", "text">>),
    Chain("iommu_group", <<"link", "quiet">>),
    Text("vendor_id", 1), Text("device_id", 1), Text("class_id", 1), Text("revision", 1),
    Text("subsystem_vendor_id", 1), Text("subsystem_device_id", 1), Quiet("numa_node"),
    Text("current_link_speed", 1), Number("current_link_width", 1),
    Text("max_link_speed", 1), Number("max_link_width", 1), Text("reset_method", 1)>>

FirmwareSteps ==
  <<Number("ai_clock_mhz", 1), Number("axi_clock_mhz", 1), Number("arc_clock_mhz", 1),
    Number("heartbeat", 1), Number("thermal_trip_count", 1), Text("serial", 1),
    Text("card_type", 1), Text("asic_id", 1), Text("fw_bundle_version", 1),
    Text("m3_app_fw_version", 1), Text("m3_bl_fw_version", 1), Text("arc_fw_version", 1),
    Text("eth_fw_version", 1), Text("ttflash_version", 1)>>

PowerSteps ==
  <<Text("runtime_status", 1), Text("control", 1), Text("runtime_enabled", 1),
    Quiet("runtime_active_time_ms"), Quiet("runtime_suspended_time_ms"),
    Quiet("runtime_usage"), Quiet("runtime_active_kids"), Quiet("autosuspend_delay_ms")>>

MemorySteps ==
  <<Text("usage_text", 4), Rule("usage"), Bytes("used_bytes", 4), Bytes("total_bytes", 6),
    Bytes("free_bytes", 3), Bytes("available_bytes", 3),
    Bytes("bandwidth_bytes_per_second", 3), Text("memory_type", 3),
    Text("controller_layout", 3), Number("controller_count", 3),
    Number("controllers_per_asic", 3), Number("channel_count", 3)>>

TensixSteps ==
  <<Number("used", 4), Number("available", 3), Number("total", 4), Number("mesh_rows", 4),
    Number("mesh_cols", 4), Text("mesh_text", 4), Rule("mesh"), Text("topology", 2),
    Text("active_regions", 3), Rule("source")>>

HealthSteps ==
  <<Text("fault_code", 3), Text("fault_reason", 4), Number("reset_required", 3),
    Number("oom_fault_count", 3), Number("hang_fault_count", 3)>>

Identification == <<Rule("board"), Rule("architecture_of_id")>>

Listings == <<Rule("sensors")>> \o PowerSteps \o
            <<Text("resource_text", 1), Rule("resources"), Rule("counters")>>

\* _populate_device, and state.populate behind it.
Plan ==
  ClassSteps \o CharacterDeviceSteps \o PciSteps \o FirmwareSteps \o Identification
    \o Listings \o MemorySteps \o TensixSteps \o HealthSteps \o <<Rule("links"), Rule("state")>>

Texts == {"usage_text", "mesh_text", "resource_text"}   \* local variables of the code
-----------------------------------------------------------------------------
VARIABLES
  phase,     \* "scan", "entries", "device", "done" or "raised"
  node,      \* the node that is tried
  present,   \* directories of the root that are there
  unseen,    \* scanned entries that have not been looked at
  device,    \* the entry that is being read
  tree,      \* what reading each of its files comes to
  at, name,  \* the step of the plan and the alternative that is next
  record,    \* the DeviceTelemetry, and the texts
  listed,    \* the text parsed or the list made by the latest step
  issues,    \* issues counted for the device, or for the root
  critical,  \* critical_sources_ok
  devices    \* result.devices, by name

deviceVars == <<device, tree, at, name, record, listed>>
vars == <<phase, node, present, unseen, deviceVars, issues, critical, devices>>

Blank == [f \in Fields \cup Texts |-> None]
NoList == [kind |-> "nothing", items |-> <<>>]

\* Where a field is in the plan, its readers, and the files that a node's devices have.
Place == [field \in {step.field : step \in Range(Plan)} |->
            CHOOSE i \in DOMAIN Plan : Plan[i].field = field]
Readers(field) == Plan[Place[field]].readers
ReadFields == {step.field : step \in {s \in Range(Plan) : s.readers # <<>>}}

Trees(files) ==
  LET possible == UNION {{f} \X (Outcomes[Readers(f[1])[f[2]]] \ {"missing"}) : f \in files}
  IN {t \in [files -> UNION Range(Outcomes)] : \A f \in files : <<f, t[f]>> \in possible}

\* What the proofs use of the plan, which no constant changes: a field has one step, the
\* state directories come last, and what a rule needs has been read before it.
FromState == Allocation \cup JanitorLabels \cup JanitorNumbers
Before(f, g) == Place[f] < Place[g]

ASSUME PlanAssumption ==
  /\ Plan \in Seq([field : STRING, readers : Seq(DOMAIN Outcomes)])
  /\ \A i, j \in DOMAIN Plan : Plan[i].field = Plan[j].field => i = j
  /\ \A i \in DOMAIN Plan : Len(Plan[i].readers) <= 6
  /\ \A i \in DOMAIN Plan : \A k \in DOMAIN Plan[i].readers :
       Plan[i].readers[k] = "uevent" => Plan[i].field \in {"dev_name", "bdf", "driver"}
  /\ Plan # <<>> /\ Plan[Len(Plan)] = Rule("state")
  /\ ReadFields = (Fields \ ({"source"} \cup FromState)) \cup Texts
  /\ {step.field : step \in {s \in Range(Plan) : s.readers = <<>>}} =
       {"board", "architecture_of_id", "sensors", "resources", "counters", "usage", "mesh",
        "source", "links", "state"}
  /\ Before("architecture", "device_id") /\ Before("device_id", "architecture_of_id")
  /\ Before("card_type", "board") /\ Before("board_type", "board")
  /\ Before("dev_number", "dev_name")
  /\ Before("usage_text", "usage")
  /\ Before("usage", "used_bytes") /\ Before("usage", "total_bytes")
  /\ Before("mesh_rows", "mesh_text") /\ Before("mesh_cols", "mesh_text")
  /\ Before("mesh_text", "mesh")
  /\ \A f \in TensixNumbers \cup TensixLabels : Before(f, "source")

\* Names are numbers, in their order; what a device may have are files of the plan, and a
\* state directory fills in the allocation and the janitor.
ASSUME NodesAssumption ==
  /\ \A n \in Nodes :
       /\ n.directories \subseteq n.entries /\ n.entries \subseteq Nat
       /\ n.files \subseteq UNION {{<<step.field, i>> : i \in DOMAIN step.readers} : step \in Range(Plan)}
       /\ n.state \subseteq FromState
  /\ IsFiniteSet(Sensors) /\ IsFiniteSet(Links)
  /\ UsageTexts \subseteq Seq(Token)
  /\ ResourceTexts \subseteq Seq(Seq(Seq(Int)))
  /\ \A text \in ResourceTexts : \A i \in DOMAIN text : \A k \in DOMAIN text[i] : Len(text[i][k]) <= 1

\* The next step of the plan.  Reading a field for which the device has no file gives
\* nothing and leaves no trace, and is passed over.
StepAfter(i) ==
  Min({j \in i + 1 .. Len(Plan) : \/ Plan[j].readers = <<>>
                                  \/ \E f \in node.files : f[1] = Plan[j].field})

TypeOK ==
  /\ phase \in {"scan", "entries", "device", "done", "raised"}
  /\ node \in Nodes
  /\ present \subseteq node.directories /\ unseen \subseteq node.entries
  /\ phase = "device" =>
       /\ device \in node.directories
       /\ at \in DOMAIN Plan
       /\ name \in 1..Max({1, Len(Plan[at].readers)})
       /\ DOMAIN record = DOMAIN Blank
  /\ issues \in Nat
  /\ critical \in BOOLEAN
  /\ devices \in Seq(node.directories)

Init ==
  /\ phase = "scan"
  /\ node \in Nodes
  /\ present = node.directories
  /\ unseen = {}
  /\ device = 0 /\ tree = <<>> /\ at = 1 /\ name = 1 /\ record = Blank
  /\ listed = NoList
  /\ issues = 0
  /\ critical = FALSE
  /\ devices = <<>>
-----------------------------------------------------------------------------
(* The scan of the root. *)

\* The root is missing, no directory, not readable, or cannot be listed.
ScanFails ==
  /\ phase = "scan"
  /\ issues' = 1
  /\ phase' = "done"
  /\ UNCHANGED <<node, present, unseen, deviceVars, critical, devices>>

Scan ==
  /\ phase = "scan"
  /\ unseen' = (node.entries \ node.directories) \cup present
  /\ critical' = TRUE
  /\ phase' = "entries"
  /\ UNCHANGED <<node, present, deviceVars, issues, devices>>

\* Not a directory, or no longer: is_dir follows the link of the entry again.
SkipEntry ==
  /\ phase = "entries"
  /\ \E e \in unseen \ present : unseen' = unseen \ {e}
  /\ UNCHANGED <<phase, node, present, deviceVars, issues, critical, devices>>

BeginDevice ==
  /\ phase = "entries"
  /\ \E e \in unseen \cap present :
        /\ unseen' = unseen \ {e}
        /\ device' = e
  /\ tree' \in Trees(node.files)
  /\ at' = StepAfter(0) /\ name' = 1 /\ record' = Blank /\ listed' = NoList /\ issues' = 0
  /\ phase' = "device"
  /\ UNCHANGED <<node, present, critical, devices>>

\* A device is unplugged: its directory and all files in it are gone.
Vanish ==
  /\ phase \in {"scan", "entries", "device"}
  /\ \E e \in present : present' = present \ {e}
  /\ UNCHANGED <<phase, node, unseen, deviceVars, issues, critical, devices>>

\* Faulty variant: the devices are left in the order of the scan.
FinishUnsorted ==
  /\ phase = "entries" /\ unseen = {}
  /\ phase' = "done"
  /\ UNCHANGED <<node, present, unseen, deviceVars, issues, critical, devices>>

\* The end of the loop: the devices are sorted by name; no two have the same.
Ascending(names) ==
  LET smaller(x) == {y \in Range(names) : y < x}
  IN [k \in DOMAIN names |-> CHOOSE x \in Range(names) : Cardinality(smaller(x)) = k - 1]

Finish ==
  /\ phase = "entries" /\ unseen = {}
  /\ devices' = Ascending(devices)
  /\ phase' = "done"
  /\ UNCHANGED <<node, present, unseen, deviceVars, issues, critical>>
-----------------------------------------------------------------------------
(* Reading one device. *)
Step == Plan[at]
InDevice(field) == phase = "device" /\ Step.field = field
Here == device \in present
frame == <<phase, node, present, unseen, device, tree, critical, devices>>

Advance == at' = StepAfter(at) /\ name' = 1

\* A fallback that is not needed: the field has a value, or what would need it has.
Unneeded(field) ==
  \/ record[field] # None
  \/ field = "dev_name" /\ record.dev_number = None
  \/ field = "mesh_text" /\ record.mesh_rows # None /\ record.mesh_cols # None

PassAttribute ==
  /\ phase = "device" /\ Step.readers # <<>> /\ Unneeded(Step.field)
  /\ Advance
  /\ listed' = NoList
  /\ UNCHANGED <<frame, record, issues>>

Read(file) == IF Here /\ file \in DOMAIN tree THEN tree[file] ELSE "missing"

Alternative == <<"first", "second", "third", "fourth", "fifth", "sixth">>
Origin(outcome, i) == IF outcome = "empty" THEN Empty ELSE Alternative[i]

\* _read_first: the first alternative that gives a value ends the search.
ReadName ==
  /\ phase = "device" /\ Step.readers # <<>> /\ ~Unneeded(Step.field)
  /\ LET outcome == Read(<<Step.field, name>>)
     IN /\ outcome # "raises"
        /\ record' = IF Gives(outcome)
                     THEN [record EXCEPT ![Step.field] = Origin(outcome, name)]
                     ELSE record
        /\ issues' = issues + IF Counted(outcome) THEN 1 ELSE 0
        /\ IF Gives(outcome) \/ name = Len(Step.readers) THEN Advance
           ELSE name' = name + 1 /\ UNCHANGED at
  /\ listed' = NoList
  /\ UNCHANGED frame
-----------------------------------------------------------------------------
(* The rules between the files, and the lists.                             *)
Apply(rule) == InDevice(rule) /\ Advance /\ UNCHANGED frame

\* Faulty variant: the card type is only used when the class directory gives no board.
NameBoardIfUnknown ==
  /\ Apply("board")
  /\ record' = IF record.card_type # None /\ record.board_type = None
               THEN [record EXCEPT !.board_type = "firmware"] ELSE record
  /\ UNCHANGED <<listed, issues>>

\* The card type of the firmware names the board, whatever the class directory says.
NameBoard ==
  /\ Apply("board")
  /\ record' = IF record.card_type # None
               THEN [record EXCEPT !.board_type = "firmware"] ELSE record
  /\ UNCHANGED <<listed, issues>>

\* Faulty variant: the id decides, also when the class directory tells the architecture.
InferArchitectureAlways ==
  /\ Apply("architecture_of_id")
  /\ record' \in {record} \cup
       IF record.device_id # None THEN {[record EXCEPT !.architecture = "pci_id"]} ELSE {}
  /\ UNCHANGED <<listed, issues>>

\* Two PCI device ids tell the architecture, when no file of the class directory does.
InferArchitecture ==
  /\ Apply("architecture_of_id")
  /\ record' \in {record} \cup
       IF record.architecture = None /\ record.device_id # None
       THEN {[record EXCEPT !.architecture = "pci_id"]} ELSE {}
  /\ UNCHANGED <<listed, issues>>

\* The usage file is parsed; what it does not give is left to files of its own.
ParseUsage ==
  /\ Apply("usage")
  /\ \/ /\ record.usage_text = None
        /\ UNCHANGED <<record, listed>>
     \/ /\ record.usage_text # None
        /\ \E text \in {t \in UsageTexts : ~UsageRaises(t)} :
              LET usage == MemoryUsage(text)
                  Taken(value) == IF value # NoValue THEN "usage" ELSE None
              IN /\ record' = [record EXCEPT !.used_bytes = Taken(usage.used),
                                             !.total_bytes = Taken(usage.total)]
                 /\ listed' = [kind |-> "usage", items |-> text]
  /\ UNCHANGED issues

\* A grid text that can be parsed gives both dimensions, also the one that has a value.
ParseMesh ==
  /\ Apply("mesh")
  /\ record' \in {record} \cup
       IF record.mesh_text = None THEN {}
       ELSE {[record EXCEPT !.mesh_rows = "grid", !.mesh_cols = "grid"]}
  /\ UNCHANGED <<listed, issues>>

NameSource ==
  /\ Apply("source")
  /\ record' = IF \E f \in TensixNumbers \cup TensixLabels : record[f] # None
               THEN [record EXCEPT !.source = "sysfs"] ELSE record
  /\ UNCHANGED <<listed, issues>>

ListResources ==
  /\ Apply("resources")
  /\ \/ record.resource_text = None /\ UNCHANGED listed
     \/ /\ record.resource_text # None
        /\ \E text \in ResourceTexts : listed' = [kind |-> "resources", items |-> text]
  /\ UNCHANGED <<record, issues>>

\* The entries of some directories, sorted by name.  Some are gone or not of the kind
\* that is wanted; a damaged file may be one of an entry that is listed, or the reason
\* why an entry is left out.
Sorted(entries) ==
  SetToSortSeq(entries, LAMBDA e, f : e.name < f.name \/ (e.name = f.name /\ e.base < f.base))

Listing(rule, enabled, candidates, damage) ==
  /\ Apply(rule)
  /\ LET entries == IF enabled /\ Here /\ rule \in node.lists THEN candidates ELSE {}
     IN \E found \in SUBSET entries :
        \E damaged \in SUBSET {e \in entries : (IF e \in found THEN "listed" ELSE "left out") \in damage} :
           /\ listed' = [kind |-> rule, items |-> Sorted(found)]
           /\ issues' = issues + Cardinality(damaged)
  /\ UNCHANGED record

\* A sensor whose value is damaged is left out, one whose label is damaged is not.
ListSensors == Listing("sensors", CollectHwmon, Sensors, {"listed", "left out"})

\* A counter is a file of the one directory of counters.
ListCounters ==
  LET counters == {s \in Sensors : s.base = 1}
  IN Listing("counters", CollectPcieCounters, counters, {"left out"})

\* A link is listed whatever its files are like.
ListLinks == Listing("links", TRUE, Links, {"listed"})

\* Faulty variant: the source of the counts is not changed.
FillCountsUnnamed(given) ==
  [f \in DOMAIN record |-> IF f \in given /\ record[f] = None THEN "profiler" ELSE record[f]]

\* StateIngestor.populate, as modules StateRecord and WorkloadIngest show it: fields of
\* the allocation and the janitor, and the counts that sysfs did not give.
FillCounts(given) ==
  [f \in DOMAIN record |->
     CASE f \in given /\ record[f] = None -> "profiler"
       [] f = "source" /\ (\E c \in given : record[c] = None) -> "metalium_profiler"
       [] OTHER -> record[f]]

PopulateState ==
  /\ InDevice("state")
  /\ \E labels \in SUBSET node.state, counts \in {{}, {"used"}, TensixCounts} :
        record' = [f \in DOMAIN record |->
                     IF f \in labels THEN "state" ELSE FillCounts(counts)[f]]
  /\ devices' = Append(devices, device)
  /\ phase' = "entries"
  /\ listed' = NoList
  /\ UNCHANGED <<node, present, unseen, device, tree, at, name, issues, critical>>

RuleStep ==
  \/ NameBoard
  \/ InferArchitecture
  \/ ListSensors
  \/ ListResources
  \/ ListCounters
  \/ ParseUsage
  \/ ParseMesh
  \/ NameSource
  \/ ListLinks
  \/ PopulateState

\* collect() raises: what it has collected is lost with the exception.  Sensors and links
\* have numbers among their files, counters are read by parse_uint64, which raises nothing;
\* numbers of the state directories are read by parse_int64 again.
CollectionRaises ==
  /\ phase = "device"
  /\ \/ /\ Step.readers # <<>> /\ ~Unneeded(Step.field)
        /\ Read(<<Step.field, name>>) = "raises"
     \/ InDevice("usage") /\ record.usage_text # None /\ \E text \in UsageTexts : UsageRaises(text)
     \/ InDevice("mesh") /\ record.mesh_text # None
     \/ InDevice("sensors") /\ CollectHwmon /\ Here /\ "sensors" \in node.lists /\ Sensors # {}
     \/ InDevice("links") /\ Here /\ "links" \in node.lists /\ Links # {}
     \/ InDevice("state")
  /\ phase' = "raised"
  /\ UNCHANGED <<node, present, unseen, deviceVars, issues, critical, devices>>

Terminated == phase \in {"done", "raised"} /\ UNCHANGED vars

Next ==
  \/ ScanFails
  \/ Scan
  \/ SkipEntry
  \/ BeginDevice
  \/ PassAttribute
  \/ ReadName
  \/ RuleStep
  \/ CollectionRaises
  \/ Finish
  \/ Vanish
  \/ Terminated

Spec == Init /\ [][Next]_vars
-----------------------------------------------------------------------------
(* Properties. *)

\* A root that cannot be scanned is one issue, no device and a failed collection, and
\* a collection that succeeds exports, sorted and once each, directories that were there
\* when it looked: every one that never went away, and no entry that is a file.
ScanAccounting ==
  phase = "done" =>
    /\ critical => node.directories \cap present \subseteq Range(devices)
    /\ Range(devices) \subseteq node.directories
    /\ \A i, j \in DOMAIN devices : i < j => devices[i] < devices[j]
    /\ ~critical => devices = <<>> /\ issues = 1

\* What the files of the device give for a field: the first alternative with a value.
FirstGiven(field) ==
  LET given == {f \in DOMAIN tree : f[1] = field /\ Gives(tree[f])}
      i == Min({f[2] : f \in given})
  IN IF given = {} THEN None ELSE Origin(tree[<<field, i>>], i)

Given(field) == FirstGiven(field) # None

\* The values a field may have when all files of the device are read.
Complete(field) ==
  CASE field = "architecture" /\ ~Given(field) /\ Given("device_id") -> {None, "pci_id"}
    [] field = "board_type" /\ Given("card_type") -> {"firmware"}
    [] field \in {"used_bytes", "total_bytes"} /\ Given("usage_text") ->
         {"usage", FirstGiven(field)}
    [] field \in {"mesh_rows", "mesh_cols"} /\ Given("mesh_text")
         /\ ~(Given("mesh_rows") /\ Given("mesh_cols")) -> {"grid", FirstGiven(field)}
    [] field = "dev_name" /\ ~Given("dev_number") -> {None}
    [] OTHER -> {FirstGiven(field)}

FromFiles == ReadFields \ Texts

\* A device that stays is exported with what its files say, every fallback and rule
\* applied: a damaged or refused file never hides a good alternative (_read_first), the
\* firmware's card type wins over the class directory, and rows and columns of the grid
\* come from two files or from one text.
RecordIsComplete ==
  (InDevice("state") /\ Here) =>
    /\ \A f \in FromFiles : record[f] \in Complete(f)
    /\ record.mesh_rows = "grid" <=> record.mesh_cols = "grid"

\* A device that goes away while it is read leaves gaps, never a value that its files
\* would not have given: the order in which files are read keeps the architecture from
\* being inferred for a device whose own file says otherwise.  Three fields are only
\* replaced later, and may be left with what they had: board type and grid.
VanishedLeavesGaps ==
  phase = "device" =>
    \A f \in {g \in FromFiles : record[g] # None} :
       \/ record[f] \in Complete(f)
       \/ f \in {"board_type", "mesh_rows", "mesh_cols"} /\ record[f] = FirstGiven(f)

\* When a device that stays has been read without an issue, each of its files is one whose
\* field has its value, from this file or another, or one whose text its reader ignores:
\* no failed read and no refused number is lost on the way through the alternatives.
\* "No issue" does not promise more.  Ignored are a dev or numa_node, iommu_group or power
\* file that is no number (collector.py:125-131, 152, 162, 260-264), a uevent file without
\* the line, a byte file without tokens (sysfs_io.py:93-94); and neither a usage text nor
\* a grid text that was read need give a number.
GapsAreExplained ==
  (InDevice("state") /\ Here /\ issues = 0) =>
    \A f \in DOMAIN tree : Unneeded(f[1]) \/ tree[f] = "ignored"

\* A count of the profiler is never passed off as one of sysfs, although each count is
\* filled in on its own (_apply_workloads).
SourceOfCounts ==
  /\ record.source = "sysfs" => \A c \in TensixCounts : record[c] # "profiler"
  /\ record.source = "metalium_profiler" => \E c \in TensixCounts : record[c] = "profiler"
  /\ phase \notin {"device", "raised"} /\ record.source = None => \A c \in TensixCounts : record[c] = None

\* What parse_memory_usage makes of a text, if it returns.  A key with a value has its last
\* one, whatever other numbers the text has.  A key without one has the first (total: the
\* second) of the bare numbers, those that are no key, as long as none of these is the
\* value of a key; that is not demanded of the others, where the code takes the value of
\* one key for the other too (UsageIsReported).  And bytes are nothing but a number of the
\* text times a unit of the text, no larger than the width and no remainder of what is.
UsageIsExact ==
  listed.kind = "usage" =>
    LET text == listed.items
        usage == MemoryUsage(text)
        tokens == Range(text)
        units == {Plain} \cup {t.unit : t \in tokens} \cup {t.attached : t \in tokens}
        bare == {i \in DOMAIN text : text[i].key = "none" /\ OwnValue(text, i) # NoValue}
        behindKey == {i \in bare : \E j \in DOMAIN text : j = i - 1 /\ text[j].key # "none"}
        fallback == [used |-> bare, total |-> {i \in bare : \E j \in bare : j < i}]
    IN \A key \in {"used", "total"} :
         LET keyed == {i \in DOMAIN text : text[i].key = key /\ ValueOfKey(text, i) # NoValue}
         IN /\ usage[key] # NoValue =>
                 /\ usage[key] \in 0..Uint64Max
                 /\ \E t \in tokens, u \in units : t.number # NoValue /\ usage[key] = t.number * u
            /\ keyed # {} => usage[key] = ValueOfKey(text, Max(keyed))
            /\ keyed = {} /\ behindKey = {} /\ fallback[key] # {}
                 => usage[key] = OwnValue(text, Min(fallback[key]))
            /\ keyed = {} /\ fallback[key] = {} => usage[key] = NoValue

\* What a source does not report is absent, as docs/guides.md:28-29 says: the value of one
\* key is not taken for the other.  The loop does not consume the value of a key, so that
\* "total: 100" alone gives 100 bytes used.
UsageIsReported ==
  listed.kind = "usage" =>
    LET text == listed.items
        bare == {i \in DOMAIN text : text[i].key = "none" /\ (i > 1 => text[i - 1].key = "none")}
    IN \A key \in {"used", "total"} :
         LET value == MemoryUsage(text)[key]
         IN value # NoValue =>
              \/ \E i \in bare : value = OwnValue(text, i)
              \/ \E i \in DOMAIN text : text[i].key = key /\ value = ValueOfKey(text, i)

\* "Invalid numeric values are ignored" (docs/guides.md:235): no text of a file ends the
\* collection.  A number of more than a million digits, such as 1e1000000, does.
InvalidNumbersAreIgnored == phase # "raised"

\* The addresses of a range whose columns are not negative and that starts within the
\* width: it is listed if it has any, under the number of its line, and with those
\* that the width can express.
RangesAreExact ==
  listed.kind = "resources" =>
    \A i \in DOMAIN listed.items :
       LET line == listed.items[i]
           listedHere == {r \in Range(PciResources(listed.items)) : r.index = i - 1}
           plain == /\ Len(line) >= 3
                    /\ \A k \in 1..3 : line[k] # <<>> /\ line[k][1] >= 0
                    /\ line[1][1] <= Uint64Max
       IN plain => {[a |-> r.start .. r.end, n |-> r.size] : r \in listedHere} =
            LET addresses == (line[1][1] .. line[2][1]) \cap (0 .. Uint64Max)
            IN IF addresses = {} \/ <<line[1], line[2], line[3]>> = << <<0>>, <<0>>, <<0>> >>
               THEN {} ELSE {[a |-> addresses, n |-> Cardinality(addresses)]}
-----------------------------------------------------------------------------
(* What the proofs need of a collection in progress.                       *)

Sought(field) == Place[field] < at     \* the step for it is done

\* The entries of the root are looked at once each.
ScanInProgress ==
  /\ phase \in {"scan", "done"} /\ ~critical => devices = <<>>
  /\ phase = "scan" => ~critical /\ issues = 0
  /\ phase = "done" /\ ~critical => issues = 1
  /\ phase \in {"entries", "device"} =>
       /\ critical /\ IsInjective(devices)
       /\ Range(devices) \cap unseen = {}
  /\ phase = "entries" => present \subseteq unseen \cup Range(devices)
  /\ phase = "device" =>
       /\ device \notin unseen \cup Range(devices)
       /\ present \subseteq unseen \cup Range(devices) \cup {device}

\* A value that a rule has put in the place of what the files for the field give.
Ruled(field) ==
  \/ field = "architecture" /\ record[field] = "pci_id" /\ Given("device_id") /\ ~Given(field)
  \/ field = "board_type" /\ record[field] = "firmware" /\ Given("card_type")
  \/ field \in {"used_bytes", "total_bytes"} /\ record[field] = "usage" /\ Given("usage_text")
  \/ /\ field \in {"mesh_rows", "mesh_cols"} /\ record[field] = "grid" /\ Given("mesh_text")
     /\ ~(Given("mesh_rows") /\ Given("mesh_cols"))

\* Nothing has a value before its step, but for what the usage file has given; and a value
\* is what the files give or what a rule has made of them.
ValuesSoFar ==
  \A f \in ReadFields :
    /\ ~Sought(f) /\ record[f] # None =>
         f \in {"used_bytes", "total_bytes"} /\ record[f] = "usage" /\ Given("usage_text")
    /\ record[f] # None => record[f] = FirstGiven(f) \/ Ruled(f)

\* As long as the device is there, what its files give has been found.
FoundSoFar ==
  Here =>
    /\ \A f \in ReadFields : Sought(f) /\ Given(f) => Unneeded(f)
    /\ \A i \in 1 .. name - 1 :
         <<Step.field, i>> \in DOMAIN tree => ~Gives(tree[<<Step.field, i>>])

\* A later value tells that the device was there when an earlier field was read.
RulesSoFar ==
  /\ record.device_id # None => record.architecture # None \/ ~Given("architecture")
  /\ record.dev_name # None => Given("dev_number")
  /\ record.mesh_text # None => ~(Given("mesh_rows") /\ Given("mesh_cols"))
  /\ record.mesh_rows = "grid" <=> record.mesh_cols = "grid"
  /\ Sought("board") /\ record.card_type # None => record.board_type = "firmware"

\* The files that could not be used were not needed, or an issue is counted.
DamageSoFar ==
  (Here /\ issues = 0) =>
    \A f \in DOMAIN tree : tree[f] \in {"failed", "refused", "raises"} =>
       /\ Sought(f[1]) => Unneeded(f[1])
       /\ Place[f[1]] = at => f[2] >= name

\* Sysfs counts keep their source until the state directories are read.
CountsSoFar ==
  /\ record.source \in {None, "sysfs"}
  /\ \A c \in TensixCounts : record[c] # "profiler"
  /\ Sought("source") /\ record.source = None => \A c \in TensixCounts : record[c] = None

RecordInProgress ==
  phase = "device" => ValuesSoFar /\ FoundSoFar /\ RulesSoFar /\ DamageSoFar

CountsInProgress == phase = "device" => CountsSoFar

\* The record in every phase, and the files of the device that is read.
RecordShape ==
  /\ phase = "device" => tree \in Trees(node.files)
  /\ DOMAIN record = Fields \cup Texts
  /\ \A f \in Fields : record[f] = Empty => f \in {"dev_name", "bdf", "driver"}

\* What was parsed or listed by the latest step is one of the texts, or a list.
TextListed ==
  /\ listed.kind = "usage" => listed.items \in UsageTexts
  /\ listed.kind = "resources" => listed.items \in ResourceTexts

IInv ==
  /\ TypeOK /\ ScanInProgress /\ ScanAccounting
  /\ CountsInProgress /\ SourceOfCounts
  /\ RecordShape
  /\ RecordInProgress
  /\ TextListed
=============================================================================
