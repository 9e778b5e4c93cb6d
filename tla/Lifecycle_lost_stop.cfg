SPECIFICATION FairCollectionSpec
CONSTANT MaxSignals = 1
PROPERTY ShutdownEndsServing
CHECK_DEADLOCK FALSE
