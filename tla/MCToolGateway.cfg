\* Every request runs once, so runs end.
SPECIFICATION Spec
CONSTANTS
  Calls = {c1, c2, c3}
  Ids = {i1, i2, i3}
  MaxToolTries = 2
  ToolFaults = {"crash"}
INVARIANTS OneEffect AnswersAreRecorded RecordsAreTrue
PROPERTIES RecordsAreFinal
SYMMETRY RequestSymmetry
CHECK_DEADLOCK FALSE
