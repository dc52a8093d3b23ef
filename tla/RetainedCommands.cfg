SPECIFICATION Spec
CONSTANTS
  Ops = {o1, o2}
  Emails = {o2}
  Intents = {i1, i2}
  Calls = {c1, c2, c3}
  Sessions = {s1, s2}
  NoCall = NoCall
  NoSession = NoSession
  NoAnswer = NoAnswer
SYMMETRY Symmetry
INVARIANTS TypeOK ChecksSendNothing OneOpenAttempt AnswersTrue
PROPERTIES KeptAsMade KeepsPromise
CHECK_DEADLOCK FALSE
