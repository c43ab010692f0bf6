SPECIFICATION Spec
CONSTANTS
  Tasks = {1}
  NoRow = NoRow
  Plans <- MixedPlans
  Configs = {1}
  TaskTimeout = 2
  MaxNow = 4
  MaxInst = 2
  MaxVersion = 2
  DamageAllowed = FALSE
INVARIANT
  RecoverableCanRecover
CHECK_DEADLOCK FALSE
