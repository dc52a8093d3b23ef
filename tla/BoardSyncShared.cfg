SPECIFICATION Spec
CONSTANTS
  Cells = {c1}
  Requests = {k1, k2}
  Polls = {}
  Others = {o1}
  Shared = TRUE
  MaxChanges = 1
  MaxGeneration = 1
  NoOne = NoOne
PROPERTY NeverBackwards
CHECK_DEADLOCK FALSE
