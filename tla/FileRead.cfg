SPECIFICATION FairSpec
CONSTANTS
  Inodes = {i1, i2}
  Nowhere = Nowhere
  Maximum = 1
INVARIANTS OutcomeIsAccounted SecureReadsWhatItInspected
CHECK_DEADLOCK FALSE
PROPERTY SecureReaderReturns
