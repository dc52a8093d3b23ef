SPECIFICATION Spec
CONSTANTS
  Boxes = {b1}
  Keys = {k1, k2}
  Texts = {x1, x2}
  StorageFails = FALSE
  NoKey = NoKey
  NoText = NoText
INVARIANT SendingIsReal
PROPERTY SavedAsksSend
