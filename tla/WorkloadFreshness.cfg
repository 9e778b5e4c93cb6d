SPECIFICATION FreshSpec
CONSTANTS
  PollInterval = 2
  MaxSnapshotAge = 3
  RequireDevice = FALSE
  MaxDevices = 1
  Horizon = 7
  StaleAfter = 1
  MaxStep = 1
INVARIANTS NeverStaleWhenPrompt ActiveIsRecent
CHECK_DEADLOCK FALSE
