SPECIFICATION LiveSpec
CONSTANTS
  Clients = {c1, c2}
  t1 = t1
  t2 = t2
  TaskIds = {t1, t2}
  Requests <- MCRequests
  NoTask = NoTask
  None = None
INVARIANTS
  TypeOK
  ReceiptsAccountForTasks
PROPERTIES
  OncePerCommand
  CancelReachesCall
