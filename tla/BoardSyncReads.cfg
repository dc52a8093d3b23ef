SPECIFICATION Spec
CONSTANTS
  Cells = {c1}
  Requests = {k1, k2, k3}
  Polls = {p1, p2}
  Others = {}
  Shared = FALSE
  MaxChanges = 2
  MaxGeneration = 3
  NoOne = NoOne
SYMMETRY Symmetry
CONSTRAINT Apart
INVARIANTS TypeOK FreshAnswers
PROPERTIES ShowsBoardView NoOvertaking FeedInOrder
CHECK_DEADLOCK FALSE
