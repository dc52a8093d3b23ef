SPECIFICATION Spec
CONSTANTS
  Cells = {c1}
  MaxEvents = 4
INVARIANTS TypeOK CrossedByAnother
PROPERTIES NeverBack ImplementsBoardView NewerStateShown
