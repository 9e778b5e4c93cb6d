SPECIFICATION Spec
CONSTANTS
  Candidates <- TwoNames
  Labels <- OneLabel
  Numbers <- OneNumber
  Directories = {d1, d2, d3}
  Records = {r1, r2}
  Nowhere = Nowhere
  Absent = Absent
  Unfit = Unfit
SYMMETRY Symmetric
INVARIANTS FieldsOfOneRecord GapsAreExplained FirstNameWins
CHECK_DEADLOCK FALSE
