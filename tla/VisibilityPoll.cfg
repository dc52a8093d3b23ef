SPECIFICATION Spec
CONSTANTS
  MaxAttempts = 20
  Quick = 5
  Periodic = TRUE
INVARIANTS TypeOK AwakeIsArmed WithinBudget
PROPERTY ClearedIsRead
