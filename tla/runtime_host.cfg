SPECIFICATION LiveSpec
CONSTANTS
  Writers = {w}
  TryWriters = {t}
  Versions = 2
  Reads = {r}
  PoolConns = {c}
  NoConn = NoConn
  Components = 2
INVARIANTS
  TypeOK
  OneAtATime
  MigrationHistory
  ReadsEndBeforePool
  ForceSparesPool
  NothingLeftBehind
PROPERTIES
  WritesUnderLock
  NothingBegunAfterSeal
  WaiterServed
  HostExits
  LockLossStopsHost
CHECK_DEADLOCK FALSE
