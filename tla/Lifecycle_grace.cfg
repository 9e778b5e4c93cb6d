SPECIFICATION Spec
CONSTANT MaxSignals = 1
INVARIANT OneGracePeriod
CHECK_DEADLOCK FALSE
