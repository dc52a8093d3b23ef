SPECIFICATION Spec
CONSTANTS
  Tabs = {t1, t2}
  Notes = {n1}
  Sizes = {1, 2}
  MaxBytes = 2
  NoTab = NoTab
  NoNote = NoNote
INVARIANTS TypeOK RunningIsActive LiveUntouched SavedMeansStored GoneIsHandedOn
PROPERTIES KeepsCustody AbandonedIsSettled
