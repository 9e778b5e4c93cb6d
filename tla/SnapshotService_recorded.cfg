SPECIFICATION FairPromptSpec
CONSTANTS
  PollInterval = 1
  MaxSnapshotAge = 2
  RequireDevice = FALSE
  MaxDevices = 1
  Horizon = 3
PROPERTY RefreshAlwaysRecorded
CHECK_DEADLOCK FALSE
