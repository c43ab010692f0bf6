SPECIFICATION Spec
CONSTANTS
  Fields <- MCFields
  Sensitive <- MCSensitive
  Tools <- MCTools
  NoTool = NoTool
  Drafts <- MCDrafts
  OutputValues <- MCOutputValues
  MaxSteps = 3
  CallTimeout = 5
  RepairMinBudget = 1
  SafetyMargin = 2
  MaxDeadline = 7
  NoDeadline = NoDeadline
INVARIANT LiteralStepResolves
CHECK_DEADLOCK FALSE
