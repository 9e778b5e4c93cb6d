SPECIFICATION Spec
CONSTANTS
  Samplers = {t1, t2}
  Closer = main
  Devices = {d1, d2}
  Configured = {d1}
  Strict = FALSE
  Nobody = Nobody
INVARIANT WarnsOnce
CHECK_DEADLOCK FALSE
