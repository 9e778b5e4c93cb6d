SPECIFICATION Spec
CONSTANTS
  Ids = {1, 2, 3}
  Pods = {1}
  Legacy = {f1, f2}
  Start = 9
  Horizon = 10
  StaleAfter = 3
  Samples <- SomeSamples
  SysfsCounts <- SysfsOrNone
  MaxEntries = 2
  MaxWorkloads = 2
INVARIANT V1NeverReplacesV2
CHECK_DEADLOCK FALSE
