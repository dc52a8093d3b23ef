SPECIFICATION Spec
CONSTANTS
  Boxes = {b1, b2}
  Keys = {k1, k2}
  Texts = {x1}
  StorageFails = TRUE
  NoKey = NoKey
  NoText = NoText
SYMMETRY Symmetry
INVARIANTS TypeOK AcceptedIsTrue SentIsStored AskedOnce
PROPERTY KeepsPromise
