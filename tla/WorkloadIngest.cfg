SPECIFICATION Spec
CONSTANTS
  Ids = {1, 2, 3}
  Pods = {1, 2, 3}
  Legacy = {f1, f2, f3}
  Start = 9
  Horizon = 10
  StaleAfter = 3
  Samples <- SomeSamples
  SysfsCounts <- NoSysfs
  MaxEntries = 2
  MaxWorkloads = 2
SYMMETRY FileNames
INVARIANTS ExportIsFreshest LimitKeepsTheBest LossIsCounted ProfilerCountsAgree
CHECK_DEADLOCK FALSE
