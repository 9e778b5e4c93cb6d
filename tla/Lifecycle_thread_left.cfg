SPECIFICATION FairSpec
CONSTANT MaxSignals = 1
PROPERTY ReturnedProcessExits
CHECK_DEADLOCK FALSE
