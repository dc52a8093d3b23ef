SPECIFICATION Spec
CONSTANTS
  Cells = {c1}
  MaxEvents = 3
INVARIANTS ReplacesWhatWasOnScreen
