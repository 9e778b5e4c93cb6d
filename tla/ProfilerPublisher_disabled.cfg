SPECIFICATION Spec
CONSTANTS
  Samplers = {t1}
  Closer = main
  Devices = {d1, d2}
  Configured = {d1}
  Strict = FALSE
  Nobody = Nobody
INVARIANT ExitLeavesInactive
CHECK_DEADLOCK FALSE
