SPECIFICATION Spec
CONSTANTS
  Ops = {o1}
  Intents = {i1, i2}
  Keys = {k1, k2}
  Sends = {n1, n2, n3}
  StickyRefusals = TRUE
  NoKey = NoKey
  NoRequest = NoRequest
  NoAnswer = NoAnswer
INVARIANTS TypeOK OneOpenSend
PROPERTIES KeepsPromise PendingEnds
CHECK_DEADLOCK FALSE
