SPECIFICATION FairSpec
CONSTANTS
  Samplers = {t1, t2}
  Closer = main
  Devices = {d1, d2}
  Configured = {d1}
  Strict = FALSE
  Nobody = Nobody
INVARIANTS NeverTorn TemporaryIsOwned CloseLeavesInactive
PROPERTIES NoActiveAfterClose CloseReturns
CHECK_DEADLOCK FALSE
