SPECIFICATION Spec
CONSTANTS
  Nodes <- SampleNodes
  UsageTexts <- SampleUsageTexts
  ResourceTexts <- SampleResourceTexts
  Sensors <- SampleSensors
  Links <- SampleLinks
  CollectHwmon = TRUE
  CollectPcieCounters = TRUE
  Uint64Max = 3
  DecimalMax = 7
INVARIANT InvalidNumbersAreIgnored
