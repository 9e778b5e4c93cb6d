SPECIFICATION FairSpec
CONSTANT MaxSignals = 3
INVARIANTS ClearedMeansNotReady JoinedThreadsToldToStop ExitZeroMeansClean
PROPERTIES ProcessEnds RunReturns
CHECK_DEADLOCK FALSE
