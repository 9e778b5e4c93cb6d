---------------------------- MODULE MCDevicePage ----------------------------
(* Nodes whose devices have files for one part of the record each, and one    *)
(* with several entries; usage texts, ranges, sensors and links to list.      *)
EXTENDS DevicePage

One(field) == {<<field, 1>>}
Two(field) == {<<field, 1>>, <<field, 2>>}

Node(entries, directories, files, lists, state) ==
  [entries |-> entries, directories |-> directories, files |-> files,
   lists |-> lists, state |-> state]
Device(files) == Node({1}, {1}, files, {}, {})

SampleNodes ==
  {Node({1, 2, 3, 4}, {1, 2, 4}, One("serial"), {}, {}),
   Device(Two("architecture") \cup Two("board_type") \cup One("device_id") \cup One("card_type")),
   Device(One("dev_number") \cup One("dev_name") \cup Two("bdf") \cup Two("iommu_group")),
   Device({<<"driver", i>> : i \in 1..3} \cup One("numa_node") \cup One("heartbeat")),
   Device(One("usage_text") \cup One("used_bytes") \cup One("total_bytes")),
   Device(One("used") \cup Two("mesh_rows") \cup One("mesh_cols") \cup Two("mesh_text")),
   Device(One("topology") \cup One("active_regions") \cup One("total") \cup One("memory_type")),
   Node({1}, {1}, One("resource_text"), {"sensors", "counters", "links"}, {}),
   Node({1}, {1}, One("fault_reason") \cup One("max_link_speed") \cup One("max_link_width"), {},
        {"claim_uid", "pod_name", "quarantine_reason", "scrub_count"})}

Word(key, unit) == [key |-> key, number |-> NoValue, attached |-> NoValue, unit |-> unit]
Numeral(n, attached) == [key |-> "none", number |-> n, attached |-> attached, unit |-> Unknown]

SampleTokens ==
  {Word("used", Unknown), Word("total", Unknown), Word("none", 2), Numeral(1, NoValue),
   Numeral(3, 2), Numeral(2, NoValue), Numeral(1, Unknown), Numeral(4, NoValue)}

SampleUsageTexts ==
  BoundedSeq(SampleTokens, 3)
    \cup {l \o <<LineEnd>> \o m : l, m \in BoundedSeq({Word("used", Unknown), Numeral(1, NoValue),
                                           Numeral(2, NoValue)}, 2)}

Columns == {<<>>, <<-1>>, <<0>>, <<2>>, <<3>>, <<5>>}
Lines == [1..3 -> Columns] \cup {<< <<0>>, <<1>> >>}
Unused == << <<0>>, <<0>>, <<0>> >>
SampleResourceTexts == {<<l>> : l \in Lines} \cup {<<Unused, l>> : l \in Lines}

SampleSensors == {[base |-> 1, name |-> 1, label |-> 1], [base |-> 1, name |-> 2, label |-> 1],
                  [base |-> 2, name |-> 1, label |-> 1]}
SampleLinks == {[base |-> b, name |-> n, label |-> b] : b \in 1..2, n \in 1..2}
=============================================================================
