SPECIFICATION Spec
CONSTANTS
  Tasks = {1}
  NoRow = NoRow
  Plans <- MixedPlans
  Configs = {1, 2}
  TaskTimeout = 2
  MaxNow = 4
  MaxInst = 4
  MaxVersion = 3
  DamageAllowed = TRUE
INVARIANTS
  TypeOK
  CrossObjectConsistent
  CheckpointUsable
  CallLearnsOfCommand
  SelfChecksFailOnlyOnConfirm
  RunsOwnConfiguration
  WriteToolRunsOnce
  StartupRefusesOnlyBoundary
  RecoveredWasRecoverable
  TerminalClosesTool
PROPERTIES
  TerminalIsFinal
  FollowsLifecycle
  ProgressOnlyByOwner
  AfterDeadlineOnlyFails
  VersionReplacesInterrupted
  ImplementsDurableJobs
\* the process may be down for good, its restarts used up
CHECK_DEADLOCK FALSE
