----------------------------- MODULE DevicePage -----------------------------
(***************************************************************************)
(* What the two renderers make of a device record: render_prometheus       *)
(* (renderers/prometheus.py) and render_devices_json (renderers/json.py).  *)
(* A family of samples is named for the field it shows; a label without a  *)
(* value, or with an empty one, reads "unknown".                           *)
(***************************************************************************)
EXTENDS DeviceCollection

\* Families with one sample, the number, for a device that has it.
NumberFamilies ==
  UNION {FirmwareNumbers, {"current_link_width", "max_link_width"}, PowerNumbers,
         MemoryNumbers, TensixNumbers, FaultNumbers, JanitorNumbers}

\* tt_device_info: who the device is and where it is plugged in.
InfoLabels == Identity \cup CharacterDevice \cup PciInfo

\* A label with a value: the others read "unknown".
HasLabel(field) == record[field] \notin {None, Empty}

Family(labels, needs) == [labels |-> labels, needs |-> needs]
Always == {}

\* Families whose samples are labels with the value 1: their labels, besides those of
\* the device, and the fields of which one at least must have a value.
LabelFamilies ==
  {Family(InfoLabels, Always), Family(FirmwareLabels, Always),
   Family({"current_link_speed"}, {"current_link_speed"}),
   Family({"max_link_speed"}, {"max_link_speed"}), Family(PowerLabels, Always),
   Family(MemoryLabels, MemoryLabels), Family(TensixLabels, TensixLabels),
   Family(FaultLabels, FaultLabels), Family(Allocation, Allocation),
   Family(JanitorLabels, JanitorLabels \cup JanitorNumbers)}

\* Faulty variant: one field without a value hides the others.
IsShownInFull(family) == \A f \in family.needs : record[f] # None

IsShown(family) == family.needs = Always \/ \E f \in family.needs : record[f] # None

\* What a reader of /metrics learns of the device.
PrometheusPage ==
  LET numbers == {f \in NumberFamilies : record[f] # None}
      labels == UNION {family.labels : family \in {g \in LabelFamilies : IsShown(g)}}
  IN [f \in numbers \cup {l \in labels : HasLabel(l)} |-> record[f]]

\* What a reader of /v1/devices learns of it: every field, or null.
JsonPage ==
  [f \in UNION {Identity, CharacterDevice, PciInfo, PowerLabels, PowerNumbers,
                FirmwareNumbers, FirmwareLabels, MemoryNumbers, MemoryLabels,
                TensixNumbers, TensixLabels, {"source"}, FaultLabels, FaultNumbers,
                Allocation, JanitorLabels, JanitorNumbers} |-> record[f]]

\* The labels that tell the samples of a list apart, within one device.
SeriesOf(item) ==
  CASE listed.kind = "sensors" -> {<<"sensor", item.name, item.label>>}
    [] listed.kind = "counters" -> {<<"counter", item.name>>}
    [] listed.kind = "links" -> {<<"link", item.name, item.label>>, <<"speed", item.name>>}
    [] OTHER -> {}
-----------------------------------------------------------------------------
(* Properties. *)

\* The pages of a finished record differ in one field only: every value but the source of
\* the tensix counts is in both or in none, none is made up and none is hidden by the
\* presence or absence of others.  The source is left to JSON (SourceIsOnBothPages).
PagesDifferInSourceOnly ==
  phase = "entries" =>
    LET json == JsonPage
    IN /\ DOMAIN json = Fields
       /\ PrometheusPage = [f \in {g \in Fields \ {"source"} : json[g] \notin {None, Empty}} |->
                              json[f]]

\* "Generic Tensix metrics include a source identity through tt_tensix_info"
\* (docs/info.md:135-136).  The labels of that family are topology and active_regions
\* (prometheus.py:218-221), and no other family has the source.
SourceIsOnBothPages ==
  (phase = "entries" /\ record.source # None) => "source" \in DOMAIN PrometheusPage

\* No two samples of a list have the same labels, as docs/info.md:249 says of workloads.
\* Files of one name in two hwmon directories, or links of one name in two of the three
\* directories of links, break it.
NoDuplicateSeries ==
  \A i, j \in DOMAIN listed.items :
     (listed.kind \in {"sensors", "counters", "links"} /\ i # j)
       => SeriesOf(listed.items[i]) \cap SeriesOf(listed.items[j]) = {}
=============================================================================
