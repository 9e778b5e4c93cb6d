---------------------------- MODULE DeviceModel ----------------------------
(***************************************************************************)
(* The telemetry of one device (models.py), as far as sysfs and the state  *)
(* roots fill it in with one value per field.  A value is represented by   *)
(* where it came from: what matters to a reader of the pages is whether a  *)
(* field has a value and which source gave it.                             *)
(***************************************************************************)

None == "none"     \* no source gave a value
Empty == "empty"   \* a source gave the empty string

Identity == {"architecture", "board_type", "health"}

\* major and minor are parsed from one file and present together.
CharacterDevice == {"dev_number", "dev_name"}

PciInfo ==
  {"bdf", "driver", "vendor_id", "device_id", "class_id", "revision",
   "subsystem_vendor_id", "subsystem_device_id", "numa_node", "iommu_group",
   "current_link_speed", "current_link_width", "max_link_speed", "max_link_width",
   "reset_method"}

PowerLabels == {"runtime_status", "control", "runtime_enabled"}
PowerNumbers == {"runtime_active_time_ms", "runtime_suspended_time_ms", "runtime_usage",
                 "runtime_active_kids", "autosuspend_delay_ms"}

FirmwareNumbers == {"ai_clock_mhz", "axi_clock_mhz", "arc_clock_mhz", "heartbeat",
                    "thermal_trip_count"}
FirmwareLabels == {"serial", "card_type", "asic_id", "fw_bundle_version",
                   "m3_app_fw_version", "m3_bl_fw_version", "arc_fw_version",
                   "eth_fw_version", "ttflash_version"}

MemoryLabels == {"memory_type", "controller_layout"}
MemoryNumbers == {"used_bytes", "total_bytes", "free_bytes", "available_bytes",
                  "bandwidth_bytes_per_second", "controller_count",
                  "controllers_per_asic", "channel_count"}

TensixCounts == {"used", "available", "total"}
TensixNumbers == TensixCounts \cup {"mesh_rows", "mesh_cols"}
TensixLabels == {"topology", "active_regions"}

FaultLabels == {"fault_code", "fault_reason"}
FaultNumbers == {"reset_required", "oom_fault_count", "hang_fault_count"}

Allocation == {"claim_namespace", "claim_name", "claim_uid", "pod_namespace", "pod_name",
               "container_name"}

JanitorLabels == {"state", "quarantine_reason", "last_scrub_status", "last_reset_status"}
JanitorNumbers == {"scrub_count", "reset_count", "last_scrub_timestamp_seconds",
                   "last_reset_timestamp_seconds"}

\* DeviceTelemetry without its lists; "source" is the source of the tensix counts.
Fields ==
  UNION {Identity, CharacterDevice, PciInfo, PowerLabels, PowerNumbers, FirmwareNumbers,
         FirmwareLabels, MemoryLabels, MemoryNumbers, TensixNumbers, TensixLabels,
         {"source"}, FaultLabels, FaultNumbers, Allocation, JanitorLabels, JanitorNumbers}
=============================================================================
