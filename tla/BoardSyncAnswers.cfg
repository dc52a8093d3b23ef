SPECIFICATION Spec
CONSTANTS
  Cells = {c1}
  Requests = {k1, k2}
  Polls = {}
  Others = {o1}
  Shared = TRUE
  MaxChanges = 1
  MaxGeneration = 2
  NoOne = NoOne
PROPERTIES CallersAnswered HoldsEnd
CHECK_DEADLOCK FALSE
