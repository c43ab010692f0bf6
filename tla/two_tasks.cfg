SPECIFICATION LiveSpec
CONSTANTS
  Tasks = {1, 2}
  NoRow = NoRow
  Plans <- WritePlans
  Configs = {1}
  TaskTimeout = 1
  MaxNow = 2
  MaxInst = 2
  MaxVersion = 1
  DamageAllowed = FALSE
INVARIANT
  OrphanIsExpired
PROPERTIES
  QueueDrains
  CancelReachesWorker
  EveryTaskEnds
\* the process may be down for good, its restarts used up
CHECK_DEADLOCK FALSE
