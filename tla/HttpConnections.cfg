SPECIFICATION FairSpec
CONSTANTS
  Conns = {c1, c2, c3, c4}
  Maximum = 2
INVARIANTS ConnectionAccounting OneAnswer RecordedAsAnswered
CHECK_DEADLOCK FALSE
PROPERTY SilentConnectionLeaves
