SPECIFICATION FairTimeSpec
CONSTANTS
  PollInterval = 1
  MaxSnapshotAge = 2
  RequireDevice = TRUE
  MaxDevices = 1
  Horizon = 3
INVARIANTS StatusFollowsStore EveryRefreshCounted PagePartsAgree ReadyAnswerIsBacked
PROPERTIES ImplementsPromise StuckRefresherNoticed
CHECK_DEADLOCK FALSE
