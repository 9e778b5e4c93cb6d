SPECIFICATION FairCollectionSpec
CONSTANT MaxSignals = 2
PROPERTY CapturedSignalEndsProcess
CHECK_DEADLOCK FALSE
