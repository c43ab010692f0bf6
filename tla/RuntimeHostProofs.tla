--------------------------- MODULE RuntimeHostProofs ---------------------------
(***************************************************************************)
(* Proofs about the host and its database runtime, for every number of     *)
(* writers, reads, pool connections, migrations and components.            *)
(*                                                                         *)
(* Each property has an inductive strengthening of its own: the gate by    *)
(* itself, the lock as the session's, the history with what the migrator   *)
(* has loaded of it, the pool as sealed when closed, and the phase of the  *)
(* host against that of Close.                                             *)
(***************************************************************************)
EXTENDS RuntimeHostProperties, SequenceTheorems, TLAPS

Phases == pc \in [Callers -> WriterPC]
GateInv == Phases /\ OneAtATime

----------------------------------------------------------------------------
(* The gate *)

(* No caller is called like the other takers of the token.                 *)
LEMMA CallerNames ==
  ASSUME NEW w \in Callers
  PROVE  w \notin {"free", "migrator", "monitor", "closer"}
BY WritersAssumption DEF Callers

(* A step of a caller moves it into a phase that holds the token, or out   *)
(* of one, as it takes or returns the token.                               *)
LEMMA CallerGate ==
  ASSUME GateInv, NEW w \in Callers, NEW to \in WriterPC, Move(w, to),
         \/ gate' = gate /\ (to \in Holding <=> pc[w] \in Holding)
         \/ gate = "free" /\ gate' = w /\ to \in Holding
         \/ gate = w /\ gate' = "free" /\ to \notin Holding,
         UNCHANGED <<monitor, closing>>
  PROVE  GateInv'
<1>1. Phases' /\ \A v \in Callers : pc'[v] = IF v = w THEN to ELSE pc[v]
  BY DEF GateInv, Phases, Move
<1> QED BY <1>1, CallerNames DEF GateInv, OneAtATime, Holding

(* A caller that asks for the token, or tries it once, takes it if free.   *)
LEMMA SubmitGate ==
  ASSUME GateInv, NEW w \in Callers, Submit(w) \/ Execute(w) \/ TryExecute(w)
  PROVE  GateInv'
<1>1. CASE Submit(w) \/ Execute(w)
  <2>1. PICK to \in {"check", "wait"} : Move(w, to)
    BY <1>1 DEF Submit, Execute
  <2>2. /\ pc[w] \notin Holding /\ to \notin Holding /\ to \in WriterPC
        /\ UNCHANGED <<gate, monitor, closing>>
    BY <1>1, <2>1 DEF Submit, Execute, Holding, WriterPC
  <2> QED BY <2>1, <2>2, CallerGate
<1>2. CASE TryExecute(w)
  <2>1. CASE TryTakeGate
    <3>1. /\ Move(w, "admit") /\ gate = "free" /\ gate' = w
          /\ "admit" \in Holding /\ "admit" \in WriterPC /\ UNCHANGED <<monitor, closing>>
      BY <1>2, <2>1 DEF TryExecute, TryTakeGate, Holding, WriterPC
    <3> QED BY <3>1, CallerGate
  <2>2. CASE ~TryTakeGate
    <3>1. /\ Move(w, "idle") /\ gate' = gate /\ pc[w] \notin Holding
          /\ "idle" \notin Holding /\ "idle" \in WriterPC /\ UNCHANGED <<monitor, closing>>
      BY <1>2, <2>2 DEF TryExecute, Holding, WriterPC
    <3> QED BY <3>1, CallerGate
  <2> QED BY <2>1, <2>2
<1> QED BY <1>1, <1>2

(* One that waits takes it, or gives up without it.                        *)
LEMMA WaitGate ==
  ASSUME GateInv, NEW w \in Callers, AcquireGate(w) \/ AbandonGate(w)
  PROVE  GateInv'
<1>1. CASE AcquireGate(w)
  <2>1. /\ Move(w, "admit") /\ gate = "free" /\ gate' = w
        /\ "admit" \in Holding /\ "admit" \in WriterPC /\ UNCHANGED <<monitor, closing>>
    BY <1>1 DEF AcquireGate, TakeGate, Holding, WriterPC
  <2> QED BY <2>1, CallerGate
<1>2. CASE AbandonGate(w)
  <2>1. /\ Move(w, "idle") /\ gate' = gate /\ pc[w] \notin Holding
        /\ "idle" \notin Holding /\ "idle" \in WriterPC /\ UNCHANGED <<monitor, closing>>
    BY <1>2 DEF AbandonGate, Holding, WriterPC
  <2> QED BY <2>1, CallerGate
<1> QED BY <1>1, <1>2

(* A transaction keeps the token to its end and returns it there.          *)
LEMMA TransactionGate ==
  ASSUME GateInv, NEW w \in Callers, Transaction(w)
  PROVE  GateInv'
<1>1. pc[w] \in Holding /\ gate = w /\ UNCHANGED <<monitor, closing>>
  <2>1. pc[w] \in Holding /\ UNCHANGED <<monitor, closing>>
    BY DEF Transaction, AdmitWrite, BeginTx, Work, WorkFails, Operation, Rollback,
           CommitTakesEffect, CommitConfirmed, OperationBreaks, Admitted, Holding
  <2> QED BY <2>1 DEF GateInv, OneAtATime
<1>2. \/ Release(w)
      \/ gate' = gate /\ \E to \in Holding : Move(w, to)
  BY DEF Transaction, AdmitWrite, BeginTx, Work, WorkFails, Operation, Rollback,
         CommitTakesEffect, CommitConfirmed, OperationBreaks, Holding
<1>3. CASE Release(w)
  <2>1. /\ Move(w, "idle") /\ gate' = "free"
        /\ "idle" \in WriterPC /\ "idle" \notin Holding
    BY <1>3 DEF Release, Holding, WriterPC
  <2> QED BY <1>1, <2>1, CallerGate
<1>4. CASE gate' = gate /\ \E to \in Holding : Move(w, to)
  <2>1. PICK to \in Holding : Move(w, to)
    BY <1>4
  <2>2. to \in WriterPC
    BY DEF Holding, WriterPC
  <2> QED BY <1>1, <1>4, <2>1, <2>2, CallerGate
<1> QED BY <1>2, <1>3, <1>4

(* What is left of the token's takers: migrator, monitor and closer, and    *)
(* steps that do not touch it.                                             *)
LEMMA OtherGate ==
  ASSUME GateInv, pc' = pc,
         \/ UNCHANGED <<gate, monitor, closing>>
         \/ Migrate \/ MigrationsDone \/ MigrationFails \/ Monitored \/ Monitor
         \/ CloseBegins \/ CloseAcquires \/ ReleaseLock \/ ForceClose \/ CloseEnds(ReadsDone)
  PROVE  GateInv'
<1>1. CASE UNCHANGED <<gate, monitor, closing>>
  BY <1>1 DEF GateInv, Phases, OneAtATime
<1>2. CASE Migrate \/ MigrationsDone \/ MigrationFails \/ Monitored
  <2>1. /\ closing' = closing
        /\ \/ monitor' = monitor
           \/ gate = "free" /\ gate' = gate /\ monitor' = "sleep"
        /\ \/ gate' = gate
           \/ gate = "free" /\ gate' = "migrator"
           \/ gate = "migrator" /\ gate' = "free"
    BY <1>2 DEF Migrate, LoadHistory, ApplyMigration, MigrationsDone, MigrateCompletes,
                MigrationFails, MigrateFails, Monitored, StartMonitoring, writes
  <2> QED BY <2>1, CallerNames DEF GateInv, Phases, OneAtATime
<1>3. CASE Monitor
  <2>1. /\ closing' = closing
        /\ \/ gate' = gate /\ monitor # "check" /\ monitor' # "check"
           \/ gate = "free" /\ gate' = "monitor" /\ monitor' = "check"
           \/ monitor = "check" /\ gate' = "free" /\ monitor' # "check"
    BY <1>3 DEF Monitor, MonitorTicks, MonitorAcquires, CheckSucceeds, CheckFails,
                MonitorReports, MonitorCancelled, TakeGate, writes
  <2> QED BY <2>1, CallerNames DEF GateInv, Phases, OneAtATime
<1>4. CASE CloseBegins \/ CloseAcquires \/ ReleaseLock \/ ForceClose \/ CloseEnds(ReadsDone)
  <2>1. /\ monitor' = monitor
        /\ \/ gate' = gate /\ closing # "release" /\ closing' # "release"
           \/ gate = "free" /\ gate' = "closer" /\ closing' = "release"
           \/ closing = "release" /\ gate' = "free" /\ closing' # "release"
    BY <1>4 DEF CloseBegins, CloseAcquires, ReleaseLock, ForceClose, CloseEnds, TakeGate, writes
  <2> QED BY <2>1, CallerNames DEF GateInv, Phases, OneAtATime
<1> QED BY <1>1, <1>2, <1>3, <1>4

(* The steps that leave the gate, its queue, the monitor and Close alone.  *)
LEMMA QuietSteps ==
  ASSUME \/ OpenDatabase \/ OpenFails \/ CleanupDone \/ CleanupFails \/ StartFails
         \/ \E i \in 1..Components : StartComponent(i) \/ ComponentFails(i) \/ ShutdownComponent(i)
         \/ \E r \in Reads : HandlerReads(r) \/ ReadStep(r)
         \/ FailureSeen \/ Signalled \/ ShutdownExpires \/ DrainReads \/ Server
         \/ UNCHANGED vars
  PROVE  UNCHANGED <<gate, waiting, pc, effects, monitor, closing>>
BY DEF OpenDatabase, Open, OpenFails, CleanupDone, CleanupFails, StartFails, StartComponent,
       ComponentFails, ShutdownComponent, HandlerReads, ReadStep, FailureSeen, Signalled,
       ShutdownExpires, DrainReads, Server, SessionEnds, RivalTakesLock, RivalReleasesLock,
       RivalMigrates, SealWrites, vars, dbVars, writes

(* The steps that may take or return the token but move no writer.         *)
LEMMA TokenSteps ==
  ASSUME \/ Migrate \/ MigrationsDone \/ MigrationFails \/ Monitored \/ MonitorStep
         \/ CloseDatabase \/ CloseStep \/ Exit
  PROVE  UNCHANGED <<pc, effects>>
BY DEF Migrate, LoadHistory, ApplyMigration, MigrationsDone, MigrateCompletes,
       MigrationFails, MigrateFails, Monitored, StartMonitoring, MonitorStep, Monitor,
       MonitorTicks, MonitorAcquires, CheckSucceeds, CheckFails, MonitorReports,
       MonitorCancelled, CloseDatabase, CloseBegins, CloseStep, CloseAcquires,
       ReleaseLock, ForceClose, Exit, CloseEnds, writes

(* Every step keeps the gate's taker what its phase says.                  *)
LEMMA GateStep ==
  ASSUME GateInv, [Next]_vars
  PROVE  GateInv'
<1>1. CASE \E w \in Callers : HandlerWrites(w) \/ Write(w)
  BY <1>1, SubmitGate, WaitGate, TransactionGate DEF HandlerWrites, Write
<1>2. CASE \/ Migrate \/ MigrationsDone \/ MigrationFails \/ Monitored \/ MonitorStep
           \/ CloseDatabase \/ CloseStep \/ Exit
  <2>1. pc' = pc
    BY <1>2, TokenSteps
  <2> QED BY <1>2, <2>1, OtherGate DEF MonitorStep, CloseDatabase, CloseStep, Exit
<1>3. CASE \/ OpenDatabase \/ OpenFails \/ CleanupDone \/ CleanupFails \/ StartFails
           \/ \E i \in 1..Components : StartComponent(i) \/ ComponentFails(i) \/ ShutdownComponent(i)
           \/ \E r \in Reads : HandlerReads(r) \/ ReadStep(r)
           \/ FailureSeen \/ Signalled \/ ShutdownExpires \/ DrainReads \/ Server
           \/ UNCHANGED vars
  <2>1. UNCHANGED <<gate, pc, monitor, closing>>
    BY <1>3, QuietSteps
  <2> QED BY <2>1, OtherGate
<1> QED BY <1>1, <1>2, <1>3 DEF Next

(* Nobody holds the token at first.                                        *)
LEMMA InitGate == Init => GateInv
BY CallerNames DEF Init, DatabaseInit, GateInv, Phases, OneAtATime, WriterPC, Holding

(* So the gate is its taker's in every state.                              *)
LEMMA GateHeld == Spec => []GateInv
BY InitGate, GateStep, PTL DEF Spec

(* No two transactions, and no transaction and a lock check, a migration   *)
(* or the release of the lock, use the lock connection at the same time.   *)
THEOREM OneUseAtATime == Spec => []OneAtATime
<1>1. GateInv => OneAtATime
  BY DEF GateInv
<1> QED BY <1>1, GateHeld, PTL

----------------------------------------------------------------------------
(* Sealing, and the lock *)

(* Only AdmitWrite lets a transaction begin, and it looks at accepting.    *)
LEMMA BeginsUnsealed ==
  ASSUME GateInv, [Next]_vars, ~accepting, NEW w \in Callers, pc'[w] \in Admitted
  PROVE  pc[w] \in Admitted
<1>1. CASE \E v \in Callers : HandlerWrites(v) \/ Write(v)
  <2>1. PICK v \in Callers : HandlerWrites(v) \/ Write(v)
    BY <1>1
  <2>2. PICK to \in WriterPC : Move(v, to) /\ (to \in Admitted => pc[v] \in Admitted)
    BY <2>1 DEF HandlerWrites, Write, Submit, Execute, TryExecute, AcquireGate, AbandonGate,
                Transaction, AdmitWrite, AcceptsWrites, BeginTx, Work, WorkFails, Operation,
                Rollback, CommitTakesEffect, CommitConfirmed, OperationBreaks, Release,
                Admitted, Holding, WriterPC
  <2>3. pc' = [pc EXCEPT ![v] = to]
    BY <2>2 DEF Move
  <2> QED BY <2>2, <2>3 DEF GateInv, Phases
<1>2. CASE pc' = pc
  BY <1>2
<1>3. CASE \/ Migrate \/ MigrationsDone \/ MigrationFails \/ Monitored \/ MonitorStep
           \/ CloseDatabase \/ CloseStep \/ Exit
  BY <1>3, TokenSteps
<1> QED BY <1>1, <1>2, <1>3, QuietSteps DEF Next

(* No transaction begins once writes are sealed, whatever its caller had   *)
(* checked before it got the gate.                                         *)
THEOREM SealedMeansSealed == Spec => NothingBegunAfterSeal
<1>1. GateInv /\ [Next]_vars
        => [~accepting => \A w \in Callers : pc'[w] \in Admitted => pc[w] \in Admitted]_vars
  BY BeginsUnsealed
<1> QED BY <1>1, GateHeld, PTL DEF Spec, NothingBegunAfterSeal

LockInv == session = "live" => lock = "self"

(* The advisory lock goes with its session: a step that lets go of the one *)
(* ends the other, and a rival takes it only after that.                   *)
LEMMA LockStep ==
  ASSUME LockInv, [Next]_vars
  PROVE  LockInv'
<1>1. CASE \E w \in Callers : HandlerWrites(w) \/ Write(w)
  BY <1>1 DEF HandlerWrites, Write, Submit, Execute, TryExecute, AcquireGate, AbandonGate,
              Transaction, AdmitWrite, BeginTx, Work, WorkFails, Operation, Rollback,
              CommitTakesEffect, CommitConfirmed, OperationBreaks, ConnectionBreaks,
              connection, LockInv
<1>2. CASE \/ OpenDatabase \/ Migrate \/ MigrationsDone \/ MigrationFails \/ Monitored
           \/ MonitorStep \/ CloseDatabase \/ CloseStep \/ Exit \/ Server
  BY <1>2 DEF OpenDatabase, Open, Migrate, LoadHistory, ApplyMigration, MigrationsDone,
              MigrateCompletes, MigrationFails, MigrateFails, Monitored, StartMonitoring,
              MonitorStep, Monitor, MonitorTicks, MonitorAcquires, CheckSucceeds, CheckFails,
              MonitorReports, MonitorCancelled, CloseDatabase, CloseBegins, CloseStep,
              CloseAcquires, ReleaseLock, ForceClose, Exit, CloseEnds, ConnectionBreaks, Server,
              SessionEnds, RivalTakesLock, RivalReleasesLock, RivalMigrates, connection, LockInv
<1>3. CASE \/ OpenFails \/ CleanupDone \/ CleanupFails \/ StartFails
           \/ \E i \in 1..Components : StartComponent(i) \/ ComponentFails(i) \/ ShutdownComponent(i)
           \/ \E r \in Reads : HandlerReads(r) \/ ReadStep(r)
           \/ FailureSeen \/ Signalled \/ ShutdownExpires \/ DrainReads \/ UNCHANGED vars
  BY <1>3 DEF OpenFails, CleanupDone, CleanupFails, StartFails, StartComponent, ComponentFails,
              ShutdownComponent, HandlerReads, ReadStep, FailureSeen, Signalled, ShutdownExpires,
              DrainReads, SealWrites, connection, dbVars, vars, LockInv
<1> QED BY <1>1, <1>2, <1>3 DEF Next

(* Only the server's COMMIT takes effect, in a session that is still there. *)
LEMMA EffectNeedsSession ==
  ASSUME GateInv, [Next]_vars, NEW w \in Callers, w \in effects' \ effects
  PROVE  session = "live"
<1>1. CASE \E v \in Callers : HandlerWrites(v) \/ Write(v)
  BY <1>1 DEF HandlerWrites, Write, Submit, Execute, TryExecute, AcquireGate, AbandonGate,
              Transaction, AdmitWrite, BeginTx, Work, WorkFails, Operation, Rollback,
              CommitTakesEffect, CommitConfirmed, OperationBreaks, Release
<1> QED BY <1>1, QuietSteps, TokenSteps DEF Next

(* What takes effect does so while this process owns the advisory lock.    *)
THEOREM LockedWrites == Spec => WritesUnderLock
<1>1. Init => LockInv
  BY DEF Init, DatabaseInit, LockInv
<1>2. GateInv /\ LockInv /\ [Next]_vars
        => [\A w \in Callers : w \in effects' \ effects => lock = "self"]_vars
  BY EffectNeedsSession DEF LockInv
<1> QED BY <1>1, <1>2, LockStep, GateHeld, PTL DEF Spec, WritesUnderLock

----------------------------------------------------------------------------
(* Migrations *)

HistoryInv ==
  /\ schema \in [1..Versions -> Nat] /\ nextVersion \in Nat
  /\ MigrationHistory
  /\ \A v \in 1..Versions : v < nextVersion => schema[v] = 1

(* The statements of version v take effect where all before it have.       *)
LEMMA VersionApplied ==
  ASSUME HistoryInv, NEW v \in 1..Versions, ~VersionRecorded(v),
         \A u \in 1..(v - 1) : schema[u] = 1,
         schema' = [schema EXCEPT ![v] = @ + 1], nextVersion' \in {nextVersion, v + 1}
  PROVE  HistoryInv'
<1>1. Versions \in Nat /\ v \in Nat
  BY VersionsAssumption
<1>2. schema[v] = 0
  BY DEF VersionRecorded, HistoryInv
<1>3. \A u \in 1..Versions : schema'[u] = IF u = v THEN 1 ELSE schema[u]
  BY <1>2 DEF HistoryInv
<1>4. MigrationHistory'
  <2> SUFFICES ASSUME NEW x \in 1..Versions
      PROVE  schema'[x] <= 1 /\ (schema'[x] = 1 => \A u \in 1..x : schema'[u] = 1)
    BY DEF MigrationHistory
  <2>1. CASE x = v
    BY <1>1, <1>3, <2>1
  <2>2. CASE x # v
    BY <1>1, <1>2, <1>3, <2>2 DEF HistoryInv, MigrationHistory
  <2> QED BY <2>1, <2>2
<1>5. schema' \in [1..Versions -> Nat] /\ nextVersion' \in Nat
  BY <1>1, <1>2 DEF HistoryInv
<1>6. \A x \in 1..Versions : x < nextVersion' => schema'[x] = 1
  BY <1>1, <1>3 DEF HistoryInv
<1> QED BY <1>4, <1>5, <1>6 DEF HistoryInv

(* Whoever migrates applies the next version to a history without a gap.   *)
LEMMA HistoryStep ==
  ASSUME HistoryInv, [Next]_vars
  PROVE  HistoryInv'
<1>1. Versions \in Nat /\ \A v \in 1..Versions : schema[v] \in {0, 1}
  BY VersionsAssumption DEF HistoryInv, MigrationHistory
<1>2. CASE host = "migrate" /\ LoadHistory
  <2>1. /\ schema' = schema /\ nextVersion' \in 1..(Versions + 1)
        /\ \A v \in 1..Versions : schema[v] > 0 <=> v < nextVersion'
    BY <1>2 DEF LoadHistory
  <2> QED BY <1>1, <2>1 DEF HistoryInv, MigrationHistory
<1>3. CASE host = "migrate" /\ ApplyMigration
  <2>1. /\ nextVersion \in 1..Versions /\ ~VersionRecorded(nextVersion)
        /\ schema' = [schema EXCEPT ![nextVersion] = @ + 1] /\ nextVersion' = nextVersion + 1
    BY <1>3 DEF ApplyMigration
  <2>2. \A u \in 1..(nextVersion - 1) : schema[u] = 1
    BY <1>1, <2>1 DEF HistoryInv
  <2> QED BY <2>1, <2>2, VersionApplied
<1>4. CASE RivalMigrates
  <2>1. PICK v \in 1..Versions :
          /\ ~VersionRecorded(v) /\ \A u \in 1..(v - 1) : VersionRecorded(u)
          /\ schema' = [schema EXCEPT ![v] = @ + 1]
    BY <1>4 DEF RivalMigrates
  <2>2. nextVersion' = nextVersion
    BY <1>4 DEF RivalMigrates
  <2>3. \A u \in 1..(v - 1) : schema[u] = 1
    BY <1>1, <2>1 DEF VersionRecorded
  <2> QED BY <2>1, <2>2, <2>3, VersionApplied
<1>5. CASE UNCHANGED migration
  BY <1>5 DEF HistoryInv, MigrationHistory, migration
<1>6. \/ host = "migrate" /\ (LoadHistory \/ ApplyMigration)
      \/ RivalMigrates \/ UNCHANGED migration
  <2>1. CASE \E w \in Callers : HandlerWrites(w) \/ Write(w)
    BY <2>1 DEF HandlerWrites, Write, Submit, Execute, TryExecute, AcquireGate, AbandonGate,
                Transaction, AdmitWrite, BeginTx, Work, WorkFails, Operation, Rollback,
                CommitTakesEffect, CommitConfirmed, OperationBreaks
  <2>2. CASE \/ OpenDatabase \/ Migrate \/ MigrationsDone \/ MigrationFails \/ Monitored
             \/ MonitorStep \/ CloseDatabase \/ CloseStep \/ Exit \/ Server
    BY <2>2 DEF OpenDatabase, Open, Migrate, MigrationsDone, MigrateCompletes, MigrationFails,
                MigrateFails, Monitored, StartMonitoring, MonitorStep, Monitor, MonitorTicks,
                MonitorAcquires, CheckSucceeds, CheckFails, MonitorReports, MonitorCancelled,
                CloseDatabase, CloseBegins, CloseStep, CloseAcquires, ReleaseLock, ForceClose,
                Exit, CloseEnds, Server, SessionEnds, RivalTakesLock, RivalReleasesLock
  <2>3. CASE \/ OpenFails \/ CleanupDone \/ CleanupFails \/ StartFails
             \/ \E i \in 1..Components : StartComponent(i) \/ ComponentFails(i) \/ ShutdownComponent(i)
             \/ \E r \in Reads : HandlerReads(r) \/ ReadStep(r)
             \/ FailureSeen \/ Signalled \/ ShutdownExpires \/ DrainReads \/ UNCHANGED vars
    BY <2>3 DEF OpenFails, CleanupDone, CleanupFails, StartFails, StartComponent, ComponentFails,
                ShutdownComponent, HandlerReads, ReadStep, FailureSeen, Signalled, ShutdownExpires,
                DrainReads, SealWrites, dbVars, vars
  <2> QED BY <2>1, <2>2, <2>3 DEF Next
<1> QED BY <1>2, <1>3, <1>4, <1>5, <1>6

(* So what the migrator has loaded stays applied.                          *)
LEMMA HistoryKeeps == Spec => []HistoryInv
<1>1. Init => HistoryInv
  BY VersionsAssumption DEF Init, DatabaseInit, HistoryInv, MigrationHistory
<1> QED BY <1>1, HistoryStep, PTL DEF Spec

(* Every migration takes effect once and in order, also with two processes *)
(* migrating at the same time.                                             *)
THEOREM MigratesOnce == Spec => []MigrationHistory
<1>1. HistoryInv => MigrationHistory
  BY DEF HistoryInv
<1> QED BY <1>1, HistoryKeeps, PTL

----------------------------------------------------------------------------
(* Reads *)

ReadInv ==
  /\ rpc \in [Reads -> ReadPC] /\ connOf \in [Reads -> PoolConns \cup {NoConn}]
  /\ socket \in [PoolConns -> {"good", "cut"}]
  /\ draining # "off" => ~readAccepting
  /\ pool = "closed" => ~readAccepting
  /\ ReadsEndBeforePool /\ ForceSparesPool

(* What moves one read, and what the shutdown does to reads and pool.      *)
LEMMA ReadMoves ==
  ASSUME ReadInv, NEW r \in Reads, BeginRead(r) \/ Read(r)
  PROVE  ReadInv'
<1>1. PICK to \in ReadPC :
        /\ rpc' = [rpc EXCEPT ![r] = to] /\ (rpc[r] = "none" => readAccepting)
        /\ \/ rpc[r] = "none" /\ to = "begin" /\ UNCHANGED <<connOf, socket>>
           \/ rpc[r] = "begin" /\ to \in {"none", "open"} /\ socket' = socket
                /\ \E c \in PoolConns \cup {NoConn} : connOf' = [connOf EXCEPT ![r] = c]
           \/ rpc[r] \in {"open", "closing"} /\ to \in {"closing", "releasing"}
                /\ UNCHANGED <<connOf, socket>>
           \/ rpc[r] = "releasing" /\ to = "returned"
                /\ connOf' = connOf /\ socket' = [socket EXCEPT ![connOf[r]] = "good"]
           \/ rpc[r] = "returned" /\ to = "none" /\ socket' = socket
                /\ connOf' = [connOf EXCEPT ![r] = NoConn]
        /\ UNCHANGED <<draining, pool, readAccepting>>
  <2>1. CASE BeginRead(r)
    BY <2>1 DEF BeginRead, Step, ReadPC
  <2>2. CASE AttachTransaction(r)
    BY <2>2 DEF AttachTransaction, Step, ReadPC
  <2>3. CASE BeginTxFails(r)
    <3>1. connOf' = [connOf EXCEPT ![r] = connOf[r]] /\ connOf[r] \in PoolConns \cup {NoConn}
      BY <2>3 DEF BeginTxFails, ReadInv
    <3> QED BY <2>3, <3>1 DEF BeginTxFails, Step, ReadPC
  <2>4. CASE FinishStarts(r) \/ RowsClosed(r)
    BY <2>4 DEF FinishStarts, RowsClosed, Step, ReadPC
  <2>5. CASE ConnectionReturned(r) \/ Complete(r)
    BY <2>5 DEF ConnectionReturned, Complete, Step, ReadPC
  <2> QED BY <2>1, <2>2, <2>3, <2>4, <2>5 DEF Read
<1>2. /\ rpc' \in [Reads -> ReadPC] /\ connOf' \in [Reads -> PoolConns \cup {NoConn}]
      /\ socket' \in [PoolConns -> {"good", "cut"}]
  BY <1>1 DEF ReadInv
<1>3. ReadsEndBeforePool'
  <2>1. \A q \in Reads : pool = "closed" => rpc[q] = "none"
    BY DEF ReadInv, ReadsEndBeforePool, Active
  <2>2. pool # "closed"
    BY <1>1, <2>1 DEF ReadInv
  <2> QED BY <1>1, <2>2 DEF ReadsEndBeforePool
<1>4. ForceSparesPool'
  <2> SUFFICES ASSUME NEW c \in PoolConns, socket'[c] = "cut"
      PROVE  \E q \in Reads : connOf'[q] = c /\ rpc'[q] \in {"open", "closing", "releasing"}
    BY DEF ForceSparesPool
  <2>1. socket[c] = "cut" /\ ~(rpc[r] = "releasing" /\ connOf[r] = c /\ to = "returned")
    BY <1>1 DEF ReadInv
  <2>2. PICK q \in Reads : connOf[q] = c /\ rpc[q] \in {"open", "closing", "releasing"}
    BY <2>1 DEF ReadInv, ForceSparesPool
  <2>3. CASE q # r
    BY <1>1, <2>2, <2>3 DEF ReadInv
  <2>4. CASE q = r
    BY <1>1, <2>1, <2>2, <2>4 DEF ReadInv
  <2> QED BY <2>3, <2>4
<1> QED BY <1>1, <1>2, <1>3, <1>4 DEF ReadInv

(* ForceRead leaves the pool's reads to the pool.                          *)
LEMMA ForceKeeps ==
  ASSUME ReadInv, NEW r \in Reads, ForceRead(r)
  PROVE  ReadInv'
<1>1. UNCHANGED <<readAccepting, pool, rpc, connOf, draining>>
  BY DEF ForceRead
<1>2. /\ socket' \in [PoolConns -> {"good", "cut"}]
      /\ \A c \in PoolConns : socket'[c] = "cut" =>
           socket[c] = "cut" \/ (connOf[r] = c /\ rpc[r] \in {"open", "closing"})
  BY DEF ForceRead, ReadInv
<1>3. ForceSparesPool'
  BY <1>1, <1>2 DEF ReadInv, ForceSparesPool
<1> QED BY <1>1, <1>2, <1>3 DEF ReadInv, ReadsEndBeforePool, Active

(* Nothing else touches the reads.                                         *)
LEMMA ReadSteps ==
  ASSUME [Next]_vars
  PROVE  \/ UNCHANGED readVars \/ \E r \in Reads : HandlerReads(r) \/ ReadStep(r)
         \/ CloseDatabase \/ DrainReads
<1>1. CASE \/ OpenDatabase \/ OpenFails \/ Migrate \/ MigrationsDone \/ MigrationFails
           \/ Monitored \/ CleanupDone \/ CleanupFails \/ StartFails
           \/ \E i \in 1..Components : StartComponent(i) \/ ComponentFails(i) \/ ShutdownComponent(i)
  BY <1>1 DEF OpenDatabase, OpenFails, Migrate, MigrationsDone, MigrationFails, Monitored,
              CleanupDone, CleanupFails, StartFails, StartComponent, ComponentFails,
              ShutdownComponent, BeginStop
<1>2. CASE \/ \E w \in Callers : HandlerWrites(w) \/ Write(w)
           \/ MonitorStep \/ FailureSeen \/ Signalled \/ ShutdownExpires
           \/ CloseStep \/ Exit \/ Server \/ UNCHANGED vars
  BY <1>2 DEF HandlerWrites, Write, MonitorStep, FailureSeen, Signalled, BeginStop,
              ShutdownExpires, CloseStep, Exit, Server, vars
<1> QED BY <1>1, <1>2 DEF Next

(* A read counts from its begin to its end, a closed pool has none left.   *)
LEMMA ReadsStep ==
  ASSUME ReadInv, [Next]_vars
  PROVE  ReadInv'
<1>1. CASE UNCHANGED readVars
  BY <1>1 DEF readVars, ReadInv, ReadsEndBeforePool, ForceSparesPool, Active
<1>2. CASE \E r \in Reads : HandlerReads(r) \/ ReadStep(r)
  BY <1>2, ReadMoves DEF HandlerReads, ReadStep
<1>3. CASE CloseDatabase
  BY <1>3 DEF CloseDatabase, SealReads, ReadInv, ReadsEndBeforePool, ForceSparesPool, Active
<1>4. CASE DrainReads
  <2>1. CASE \E r \in Reads : ForceRead(r)
    BY <2>1, ForceKeeps
  <2>2. CASE DrainExpires \/ PoolCloses
    BY <2>2 DEF DrainExpires, PoolCloses, ReadInv, ReadsEndBeforePool, ForceSparesPool, Active
  <2> QED BY <1>4, <2>1, <2>2 DEF DrainReads
<1> QED BY <1>1, <1>2, <1>3, <1>4, ReadSteps

(* So the pool outlives the reads in every state.                          *)
LEMMA ReadsKeep == Spec => []ReadInv
<1>1. Init => ReadInv
  BY DEF Init, ReadInit, ReadInv, ReadPC, ReadsEndBeforePool, ForceSparesPool, Active
<1> QED BY <1>1, ReadsStep, PTL DEF Spec

(* The pool is closed when the last read has gone, forced or not.          *)
THEOREM PoolClosesLast == Spec => []ReadsEndBeforePool
<1>1. ReadInv => ReadsEndBeforePool
  BY DEF ReadInv
<1> QED BY <1>1, ReadsKeep, PTL

(* A force cuts only connections that their reads still hold, however many *)
(* reads take turns on however many connections.                           *)
THEOREM ForcedReadsOnly == Spec => []ForceSparesPool
<1>1. ReadInv => ForceSparesPool
  BY DEF ReadInv
<1> QED BY <1>1, ReadsKeep, PTL

----------------------------------------------------------------------------
(* Shutting down *)

HostInv ==
  /\ host = "new" =>
       /\ state = "none" /\ monitor = "off" /\ pc = [w \in Callers |-> "idle"]
       /\ comp = [i \in 1..Components |-> "new"]
  /\ closing # "no" => host \in {"close", "exited"} /\ Started = {}
  /\ closing \in {"drain", "done"} => conn = "closed"
  /\ host = "exited" /\ state # "none" => closing = "done" /\ pool = "closed"
  /\ gate = "migrator" => host = "migrate"
  /\ draining = "done" => pool = "closed"

(* Steps of writers and of the monitor close the connection at most, and   *)
(* there are none before the runtime is opened or after the exit.          *)
LEMMA WriterHost ==
  ASSUME HostInv, NEW w \in Callers, HandlerWrites(w) \/ Write(w)
  PROVE  HostInv'
<1>1. host # "new" /\ host # "exited" /\ UNCHANGED <<host, comp, closing, pool, draining>>
  <2>1. CASE HandlerWrites(w)
    BY <2>1, ComponentsAssumption DEF HandlerWrites, HandlersRun, Http, Submit, HostInv, readVars
  <2>2. CASE Write(w)
    BY <2>2 DEF Write, Execute, TryExecute, AcquireGate, AbandonGate, Transaction, AdmitWrite,
                BeginTx, Work, WorkFails, Operation, Rollback, CommitTakesEffect, CommitConfirmed,
                OperationBreaks, Admitted, Holding, HostInv, readVars
  <2> QED BY <2>1, <2>2
<1>2. /\ conn' \in {conn, "closed"}
      /\ gate' \in {gate, "free", w}
  BY DEF HandlerWrites, Submit, Write, Execute, TryExecute, AcquireGate, TakeGate, AbandonGate,
         Transaction, AdmitWrite, BeginTx, Work, WorkFails, Operation, Rollback, CommitTakesEffect,
         CommitConfirmed, OperationBreaks, ConnectionBreaks, Release, connection
<1> QED BY <1>1, <1>2, CallerNames DEF HostInv, Started

(* The monitor only reports, it moves neither host nor components.         *)
LEMMA MonitorHost ==
  ASSUME HostInv, MonitorStep
  PROVE  HostInv'
<1>1. host # "new" /\ host # "exited" /\ UNCHANGED <<host, comp, closing, pool, draining>>
  BY DEF MonitorStep, Monitor, MonitorTicks, MonitorAcquires, CheckSucceeds, CheckFails,
         MonitorReports, MonitorCancelled, HostInv, readVars
<1>2. conn' \in {conn, "closed"} /\ gate' \in {gate, "free", "monitor"}
  BY DEF MonitorStep, Monitor, MonitorTicks, MonitorAcquires, TakeGate, CheckSucceeds, CheckFails,
         MonitorReports, MonitorCancelled, ConnectionBreaks, connection, writes
<1> QED BY <1>1, <1>2 DEF HostInv, Started

(* Starting: what is not up yet has nothing to leave behind.               *)
LEMMA StartingHost ==
  ASSUME HostInv,
         \/ OpenDatabase \/ OpenFails \/ Migrate \/ MigrationsDone \/ MigrationFails
         \/ Monitored \/ CleanupDone \/ CleanupFails \/ StartFails \/ FailureSeen \/ Signalled
  PROVE  HostInv'
<1>1. /\ host \notin {"close", "exited"} /\ closing = "no" /\ closing' = "no"
      /\ UNCHANGED <<comp, pool, draining>>
      /\ host' # "new" /\ (host' = "exited" => state' = "none")
  BY DEF OpenDatabase, Open, OpenFails, Migrate, LoadHistory, ApplyMigration, MigrationsDone,
         MigrateCompletes, MigrationFails, MigrateFails, Monitored, StartMonitoring, CleanupDone,
         CleanupFails, StartFails, FailureSeen, Signalled, BeginStop, SealWrites, HostInv,
         readVars, dbVars, lifecycle
<1>2. gate' = "migrator" => host' = "migrate"
  BY DEF OpenDatabase, Open, OpenFails, Migrate, LoadHistory, ApplyMigration, MigrationsDone,
         MigrateCompletes, MigrationFails, MigrateFails, Monitored, StartMonitoring, CleanupDone,
         CleanupFails, StartFails, FailureSeen, Signalled, BeginStop, SealWrites, HostInv,
         dbVars, writes
<1> QED BY <1>1, <1>2 DEF HostInv

(* Components start from the first and stop from the last.                 *)
LEMMA ComponentHost ==
  ASSUME HostInv, NEW i \in 1..Components,
         StartComponent(i) \/ ComponentFails(i) \/ ShutdownComponent(i)
  PROVE  HostInv'
<1>1. host' \in {host, "start", "serve"} /\ UNCHANGED <<dbVars, readVars>>
  BY DEF StartComponent, ComponentFails, ShutdownComponent
<1>2. CASE ComponentFails(i)
  <2>1. host # "new" /\ closing = "no" /\ host' = host
    BY <1>2 DEF ComponentFails, HostInv, Started
  <2> QED BY <1>1, <2>1 DEF HostInv, dbVars, readVars, writes, lifecycle
<1>3. CASE StartComponent(i) \/ ShutdownComponent(i)
  <2>1. closing = "no" /\ host' # "new" /\ host' # "exited"
    BY <1>1, <1>3 DEF StartComponent, ShutdownComponent, HostInv
  <2>2. host # "migrate"
    BY <1>3 DEF StartComponent, ShutdownComponent
  <2> QED BY <1>1, <2>1, <2>2 DEF HostInv, dbVars, readVars, writes, lifecycle
<1> QED BY <1>1, <1>2, <1>3

(* Close is entered once the components are down, and ends in order.       *)
LEMMA ClosingHost ==
  ASSUME HostInv, CloseDatabase \/ CloseStep \/ DrainReads \/ Exit \/ ShutdownExpires
  PROVE  HostInv'
<1>1. CASE CloseDatabase
  BY <1>1 DEF CloseDatabase, CloseBegins, SealReads, HostInv, Started, connection
<1>2. CASE CloseStep
  BY <1>2 DEF CloseStep, CloseAcquires, ReleaseLock, ForceClose, ConnectionBreaks, TakeGate,
              HostInv, Started, readVars, connection, lifecycle
<1>3. CASE DrainReads
  BY <1>3 DEF DrainReads, DrainExpires, PoolCloses, ForceRead, HostInv, Started, dbVars,
              connection, lifecycle, writes
<1>4. CASE Exit
  BY <1>4 DEF Exit, CloseEnds, ReadsDone, HostInv, Started, readVars, connection, writes
<1>5. CASE ShutdownExpires
  BY <1>5 DEF ShutdownExpires, HostInv, Started, readVars, connection, lifecycle, writes
<1> QED BY <1>1, <1>2, <1>3, <1>4, <1>5

(* Writers, reads and the server move no part of the host.                 *)
LEMMA OutsideHost ==
  ASSUME HostInv,
         Server \/ (\E r \in Reads : HandlerReads(r) \/ ReadStep(r)) \/ UNCHANGED vars
  PROVE  HostInv'
<1>1. /\ UNCHANGED <<conn, state, gate, monitor, pc, closing, host, comp>>
      /\ UNCHANGED <<pool, draining>>
  <2>1. CASE Server
    BY <2>1 DEF Server, SessionEnds, RivalTakesLock, RivalReleasesLock, RivalMigrates,
                connection, lifecycle, writes, readVars
  <2>2. CASE \E r \in Reads : HandlerReads(r) \/ ReadStep(r)
    BY <2>2 DEF HandlerReads, BeginRead, ReadStep, Read, AttachTransaction, BeginTxFails,
                FinishStarts, RowsClosed, ConnectionReturned, Complete, dbVars, connection,
                lifecycle, writes
  <2>3. CASE UNCHANGED vars
    BY <2>3 DEF vars, dbVars, readVars, connection, lifecycle, writes
  <2> QED BY <2>1, <2>2, <2>3
<1> QED BY <1>1 DEF HostInv, Started

(* So the host's phase tells what is still open in every state.            *)
LEMMA HostKeeps == Spec => []HostInv
<1>1. Init => HostInv
  BY ComponentsAssumption DEF Init, DatabaseInit, ReadInit, HostInv, Started, Http
<1>2. HostInv /\ [Next]_vars => HostInv'
  BY WriterHost, MonitorHost, StartingHost, ComponentHost, ClosingHost, OutsideHost DEF Next
<1> QED BY <1>1, <1>2, PTL DEF Spec

(* The database is closed under no running component, and an exit leaves   *)
(* neither connection, pool nor token behind.                              *)
THEOREM LeavesNothing == Spec => []NothingLeftBehind
<1>1. HostInv /\ GateInv => NothingLeftBehind
  BY DEF HostInv, GateInv, OneAtATime, NothingLeftBehind
<1> QED BY <1>1, HostKeeps, GateHeld, PTL

----------------------------------------------------------------------------
(* Types *)

RuntimeTyped ==
  /\ session \in {"live", "gone"} /\ conn \in {"open", "closed"} /\ lock \in {"self", "rival", "nobody"}
  /\ state \in Lifecycle /\ accepting \in BOOLEAN /\ failure \in BOOLEAN
  /\ monitor \in {"off", "sleep", "wait", "check", "report", "ended"}
  /\ closing \in {"no", "gate", "release", "drain", "done"}
  /\ wasMonitoring \in BOOLEAN /\ deadline \in BOOLEAN
TokenTyped ==
  /\ gate \in Callers \cup {"free", "migrator", "monitor", "closer"}
  /\ effects \subseteq Callers /\ nextVersion \in 0..(Versions + 1)
Takers == Writers \cup {"monitor", "closer"}
QueueTyped == waiting \in Seq(Takers)
ReadsTyped ==
  /\ readAccepting \in BOOLEAN /\ pool \in {"open", "closed"}
  /\ forced \subseteq Reads /\ draining \in {"off", "wait", "force", "done"}

(* Whoever gives up, the queue goes on without it.                         *)
LEMMA RemoveTyped ==
  ASSUME NEW S, NEW q \in Seq(S), NEW c
  PROVE  Remove(q, c) \in Seq(S)
<1>1. CASE \E i \in 1..Len(q) : q[i] = c
  <2> DEFINE i == CHOOSE i \in 1..Len(q) : q[i] = c
  <2>1. i \in 1..Len(q)
    BY <1>1
  <2>2. Remove(q, c) = SubSeq(q, 1, i - 1) \o SubSeq(q, i + 1, Len(q))
    BY <1>1 DEF Remove
  <2> HIDE DEF i
  <2>3. /\ 1 \in Int /\ i - 1 \in Int /\ \A k \in 1..(i - 1) : q[k] \in S
        /\ i + 1 \in Int /\ Len(q) \in Int /\ \A k \in (i + 1)..Len(q) : q[k] \in S
    BY <2>1
  <2>4. SubSeq(q, 1, i - 1) \in Seq(S) /\ SubSeq(q, i + 1, Len(q)) \in Seq(S)
    BY <2>3, SubSeqProperties
  <2> QED BY <2>2, <2>4, ConcatProperties
<1>2. CASE ~\E i \in 1..Len(q) : q[i] = c
  BY <1>2 DEF Remove
<1> QED BY <1>1, <1>2

(* Connection, lock, lifecycle, monitor and Close.                         *)
LEMMA RuntimeTypedStep ==
  ASSUME RuntimeTyped, [Next]_vars
  PROVE  RuntimeTyped'
<1>1. CASE \E w \in Callers : HandlerWrites(w) \/ Write(w)
  BY <1>1 DEF HandlerWrites, Write, Submit, Execute, TryExecute, AcquireGate, AbandonGate,
              Transaction, AdmitWrite, BeginTx, Work, WorkFails, Operation, Rollback, Release,
              CommitTakesEffect, CommitConfirmed, OperationBreaks,
              MarkLost, ConnectionBreaks, connection, lifecycle, RuntimeTyped, Lifecycle
<1>2. CASE \/ OpenDatabase \/ Migrate \/ MigrationsDone \/ MigrationFails \/ Monitored
           \/ CleanupFails \/ StartFails \/ FailureSeen \/ Signalled
  BY <1>2 DEF
              OpenDatabase, Open, Migrate, LoadHistory, ApplyMigration, MigrationsDone,
              MigrateCompletes, MigrationFails, MigrateFails, Monitored, StartMonitoring,
              CleanupFails, StartFails, FailureSeen, Signalled, SealWrites,
              MarkLost, StopAcceptingWrites, connection, lifecycle, RuntimeTyped, Lifecycle
<1>3. CASE MonitorStep \/ CloseDatabase \/ CloseStep \/ Exit \/ Server
  BY <1>3 DEF MonitorStep, Monitor, MonitorTicks, MonitorAcquires, CheckSucceeds, CheckFails,
              MonitorReports, MonitorCancelled, CloseDatabase, CloseBegins, CloseStep,
              CloseAcquires, ReleaseLock, ForceClose, Exit, CloseEnds, Server, SessionEnds,
              RivalTakesLock, RivalReleasesLock, RivalMigrates,
              MarkLost, ConnectionBreaks, connection, lifecycle, RuntimeTyped, Lifecycle
<1>4. CASE \/ OpenFails \/ CleanupDone
           \/ \E i \in 1..Components : StartComponent(i) \/ ComponentFails(i) \/ ShutdownComponent(i)
           \/ \E r \in Reads : HandlerReads(r) \/ ReadStep(r)
           \/ ShutdownExpires \/ DrainReads \/ UNCHANGED vars
  BY <1>4 DEF OpenFails, CleanupDone, StartComponent, ComponentFails, ShutdownComponent,
              HandlerReads, ReadStep, ShutdownExpires, DrainReads, vars, dbVars,
              connection, lifecycle, RuntimeTyped
<1> QED BY <1>1, <1>2, <1>3, <1>4 DEF Next

(* The token's taker, the transactions' effects and the loaded history.    *)
LEMMA TokenTypedStep ==
  ASSUME TokenTyped, [Next]_vars
  PROVE  TokenTyped'
<1>1. CASE \E w \in Callers : HandlerWrites(w) \/ Write(w)
  BY <1>1 DEF HandlerWrites, Write, Submit, Execute, TryExecute, AcquireGate, AbandonGate,
              Transaction, AdmitWrite, BeginTx, Work, WorkFails, Operation, Rollback, Release,
              CommitTakesEffect, CommitConfirmed, OperationBreaks,
              TakeGate, writes, migration, TokenTyped
<1>2. CASE \/ OpenDatabase \/ Migrate \/ MigrationsDone \/ MigrationFails \/ Monitored
           \/ CleanupFails \/ StartFails \/ FailureSeen \/ Signalled
  BY <1>2, VersionsAssumption DEF
              OpenDatabase, Open, Migrate, LoadHistory, ApplyMigration, MigrationsDone,
              MigrateCompletes, MigrationFails, MigrateFails, Monitored, StartMonitoring,
              CleanupFails, StartFails, FailureSeen, Signalled, SealWrites,
              writes, migration, TokenTyped
<1>3. CASE MonitorStep \/ CloseDatabase \/ CloseStep \/ Exit \/ Server
  BY <1>3 DEF MonitorStep, Monitor, MonitorTicks, MonitorAcquires, CheckSucceeds, CheckFails,
              MonitorReports, MonitorCancelled, CloseDatabase, CloseBegins, CloseStep,
              CloseAcquires, ReleaseLock, ForceClose, Exit, CloseEnds, Server, SessionEnds,
              RivalTakesLock, RivalReleasesLock, RivalMigrates,
              TakeGate, writes, migration, TokenTyped
<1>4. CASE \/ OpenFails \/ CleanupDone
           \/ \E i \in 1..Components : StartComponent(i) \/ ComponentFails(i) \/ ShutdownComponent(i)
           \/ \E r \in Reads : HandlerReads(r) \/ ReadStep(r)
           \/ ShutdownExpires \/ DrainReads \/ UNCHANGED vars
  BY <1>4 DEF OpenFails, CleanupDone, StartComponent, ComponentFails, ShutdownComponent,
              HandlerReads, ReadStep, ShutdownExpires, DrainReads, vars, dbVars,
              writes, migration, TokenTyped
<1> QED BY <1>1, <1>2, <1>3, <1>4 DEF Next

(* The queue: who waits joins at its end and leaves from its head or, when *)
(* its context ends, from wherever it stands.                              *)
LEMMA QueueTypedStep ==
  ASSUME QueueTyped, [Next]_vars
  PROVE  QueueTyped'
<1>1. ASSUME NEW c \in Takers, Join(c)  PROVE QueueTyped'
  BY <1>1, AppendProperties DEF Join, QueueTyped, Takers
<1>2. ASSUME waiting # <<>>, waiting' = Tail(waiting)  PROVE QueueTyped'
  BY <1>2, HeadTailProperties DEF QueueTyped
<1>3. ASSUME NEW c, waiting' = Remove(waiting, c)  PROVE QueueTyped'
  BY <1>3, RemoveTyped DEF QueueTyped
<1>4. ASSUME waiting' = waiting  PROVE QueueTyped'
  BY <1>4 DEF QueueTyped
<1>5. CASE \E w \in Callers : HandlerWrites(w) \/ Write(w)
  <2>1. PICK w \in Callers : HandlerWrites(w) \/ Write(w)
    BY <1>5
  <2>2. CASE Execute(w)
    BY <2>2, <1>1 DEF Execute, Takers
  <2>3. CASE AcquireGate(w)
    BY <2>3, <1>2 DEF AcquireGate, TakeGate
  <2>4. CASE AbandonGate(w)
    BY <2>4, <1>3 DEF AbandonGate
  <2>5. CASE Submit(w) \/ TryExecute(w) \/ Transaction(w)
    <3>1. waiting' = waiting
      BY <2>5 DEF Submit, TryExecute, Transaction, AdmitWrite, BeginTx, Work, WorkFails,
                  Operation, Rollback, Release, CommitTakesEffect, CommitConfirmed,
                  OperationBreaks
    <3> QED BY <3>1, <1>4
  <2> QED BY <2>1, <2>2, <2>3, <2>4, <2>5 DEF HandlerWrites, Write
<1>6. CASE MonitorStep
  <2>1. CASE MonitorTicks
    BY <2>1, <1>1 DEF MonitorTicks, Takers
  <2>2. CASE MonitorAcquires
    BY <2>2, <1>2 DEF MonitorAcquires, TakeGate
  <2>3. CASE MonitorCancelled
    BY <2>3, <1>3 DEF MonitorCancelled
  <2>4. CASE CheckSucceeds \/ CheckFails \/ MonitorReports
    BY <2>4, <1>4 DEF CheckSucceeds, CheckFails, MonitorReports, writes
  <2> QED BY <1>6, <2>1, <2>2, <2>3, <2>4 DEF MonitorStep, Monitor
<1>7. CASE CloseDatabase \/ CloseStep \/ Exit
  <2>1. CASE CloseDatabase
    BY <2>1, <1>1 DEF CloseDatabase, CloseBegins, Takers
  <2>2. CASE CloseAcquires
    BY <2>2, <1>2 DEF CloseAcquires, TakeGate
  <2>3. CASE ForceClose
    BY <2>3, <1>3 DEF ForceClose
  <2>4. CASE ReleaseLock \/ Exit
    BY <2>4, <1>4 DEF ReleaseLock, Exit, CloseEnds, writes
  <2> QED BY <1>7, <2>1, <2>2, <2>3, <2>4 DEF CloseStep
<1>8. CASE Migrate \/ MigrationsDone \/ MigrationFails \/ Monitored
  <2>1. waiting' = waiting
    BY <1>8 DEF Migrate, LoadHistory, ApplyMigration, MigrationsDone, MigrateCompletes,
                MigrationFails, MigrateFails, Monitored, StartMonitoring, writes
  <2> QED BY <2>1, <1>4
<1>9. CASE \/ OpenDatabase \/ OpenFails \/ CleanupDone \/ CleanupFails \/ StartFails
           \/ \E i \in 1..Components : StartComponent(i) \/ ComponentFails(i) \/ ShutdownComponent(i)
           \/ \E r \in Reads : HandlerReads(r) \/ ReadStep(r)
           \/ FailureSeen \/ Signalled \/ ShutdownExpires \/ DrainReads \/ Server
           \/ UNCHANGED vars
  <2>1. waiting' = waiting
    BY <1>9, QuietSteps
  <2> QED BY <2>1, <1>4
<1> QED BY <1>5, <1>6, <1>7, <1>8, <1>9 DEF Next

(* Admission, pool, forced reads and the drain.                            *)
LEMMA ReadsTypedStep ==
  ASSUME ReadsTyped, [Next]_vars
  PROVE  ReadsTyped'
<1>1. CASE \E r \in Reads : HandlerReads(r) \/ ReadStep(r)
  BY <1>1 DEF HandlerReads, BeginRead, ReadStep, Read, AttachTransaction, BeginTxFails,
              FinishStarts, RowsClosed, ConnectionReturned, Complete, ReadsTyped
<1>2. CASE CloseDatabase \/ DrainReads
  BY <1>2 DEF CloseDatabase, SealReads, DrainReads, DrainExpires, PoolCloses, ForceRead, Active,
              ReadsTyped
<1>3. UNCHANGED readVars \/ (\E r \in Reads : HandlerReads(r) \/ ReadStep(r))
      \/ CloseDatabase \/ DrainReads
  BY ReadSteps
<1> QED BY <1>1, <1>2, <1>3 DEF readVars, ReadsTyped

(* The host's phase and what became of its components.                     *)
LEMMA HostTypedStep ==
  ASSUME HostTypeOK, [Next]_vars
  PROVE  HostTypeOK'
<1>1. CASE \/ OpenDatabase \/ OpenFails \/ Migrate \/ MigrationsDone \/ MigrationFails
           \/ Monitored \/ CleanupDone \/ CleanupFails \/ StartFails
  BY <1>1 DEF OpenDatabase, OpenFails, Migrate, MigrationsDone, MigrationFails, Monitored,
              CleanupDone, CleanupFails, StartFails, BeginStop, HostTypeOK
<1>2. CASE \E i \in 1..Components : StartComponent(i) \/ ComponentFails(i) \/ ShutdownComponent(i)
  BY <1>2 DEF StartComponent, ComponentFails, ShutdownComponent, HostTypeOK
<1>3. CASE \/ \E w \in Callers : HandlerWrites(w) \/ Write(w)
           \/ \E r \in Reads : HandlerReads(r) \/ ReadStep(r)
           \/ MonitorStep \/ FailureSeen \/ Signalled \/ ShutdownExpires
           \/ CloseDatabase \/ CloseStep \/ DrainReads \/ Exit \/ Server \/ UNCHANGED vars
  BY <1>3 DEF HandlerWrites, Write, HandlerReads, ReadStep, MonitorStep, FailureSeen, Signalled,
              BeginStop, ShutdownExpires, CloseDatabase, CloseStep, DrainReads, Exit, Server,
              vars, HostTypeOK
<1> QED BY <1>1, <1>2, <1>3 DEF Next

(* Every variable of host, database runtime and reads keeps its type: no   *)
(* caller that gives up spoils the queue of the gate, the token is only    *)
(* ever with somebody who may take it, and a read that moves or is forced  *)
(* names a connection of the pool.                                         *)
THEOREM TypeCorrect == Spec => []TypeOK
<1> DEFINE Parts == RuntimeTyped /\ TokenTyped /\ QueueTyped /\ ReadsTyped /\ HostTypeOK
<1>1. Init => Parts
  <2>1. <<>> \in Seq(Takers)
    OBVIOUS
  <2>2. Init => RuntimeTyped
    BY DEF Init, DatabaseInit, RuntimeTyped, Lifecycle
  <2>4. Init => TokenTyped
    BY VersionsAssumption DEF Init, DatabaseInit, TokenTyped
  <2>3. Init => QueueTyped /\ ReadsTyped /\ HostTypeOK
    BY <2>1 DEF Init, DatabaseInit, ReadInit, QueueTyped, ReadsTyped, HostTypeOK
  <2> QED BY <2>2, <2>3, <2>4
<1>2. Parts /\ [Next]_vars => Parts'
  BY RuntimeTypedStep, TokenTypedStep, QueueTypedStep, ReadsTypedStep, HostTypedStep
<1>3. Parts /\ GateInv /\ HistoryInv /\ ReadInv => TypeOK
  BY DEF RuntimeTyped, TokenTyped, QueueTyped, Takers, ReadsTyped, GateInv, Phases, HistoryInv, ReadInv,
         TypeOK, DatabaseTypeOK, ReadTypeOK
<1> QED BY <1>1, <1>2, <1>3, GateHeld, HistoryKeeps, ReadsKeep, PTL DEF Spec

----------------------------------------------------------------------------
(* The queue of the gate *)

Waits(q, c) == \E i \in 1..Len(q) : q[i] = c
Distinct(q) == \A i, j \in 1..Len(q) : q[i] = q[j] => i = j

QueueHoldsWaiters ==
  /\ Distinct(waiting)
  /\ \A w \in Callers : Waits(waiting, w) <=> pc[w] = "wait"
  /\ Waits(waiting, "monitor") <=> monitor = "wait"
  /\ Waits(waiting, "closer") <=> closing = "gate"

(* A caller that joins is the last, and in one place.                      *)
LEMMA JoinedQueue ==
  ASSUME QueueTyped, Distinct(waiting), NEW c \in Takers, ~Waits(waiting, c), Join(c)
  PROVE  Distinct(waiting') /\ \A d : Waits(waiting', d) <=> Waits(waiting, d) \/ d = c
<1> DEFINE q == waiting
           p == waiting'
<1>1. /\ Len(p) = Len(q) + 1 /\ p[Len(q) + 1] = c /\ \A i \in 1..Len(q) : p[i] = q[i]
      /\ Len(q) \in Nat
  BY AppendProperties DEF QueueTyped, Join
<1> HIDE DEF q, p
<1>2. Distinct(q) /\ ~Waits(q, c)
  BY DEF q
<1>3. Distinct(p)
  BY <1>1, <1>2 DEF Distinct, Waits
<1>4. ASSUME NEW d  PROVE Waits(p, d) <=> Waits(q, d) \/ d = c
  BY <1>1 DEF Waits
<1> QED BY <1>3, <1>4 DEF q, p

(* The first one is served and in no place any more.                       *)
LEMMA ServedQueue ==
  ASSUME NEW S, NEW q \in Seq(S), q # <<>>, Distinct(q), NEW p, p = Tail(q)
  PROVE  Distinct(p) /\ Waits(q, Head(q)) /\ \A d : Waits(p, d) <=> Waits(q, d) /\ d # Head(q)
<1>1. /\ Len(p) = Len(q) - 1 /\ \A i \in 1..Len(p) : p[i] = q[i + 1]
      /\ Len(q) \in Nat \ {0} /\ q[1] = Head(q)
  BY HeadTailProperties
<1>2. Distinct(p) /\ Waits(q, Head(q))
  BY <1>1 DEF Distinct, Waits
<1>3. ASSUME NEW d  PROVE Waits(p, d) <=> Waits(q, d) /\ d # Head(q)
  <2>1. ASSUME NEW i \in 1..Len(p), p[i] = d  PROVE Waits(q, d) /\ d # Head(q)
    BY <1>1, <2>1 DEF Distinct, Waits
  <2>2. ASSUME NEW i \in 1..Len(q), q[i] = d, d # Head(q)  PROVE Waits(p, d)
    <3>1. i - 1 \in 1..Len(p) /\ p[i - 1] = d
      BY <1>1, <2>2
    <3> QED BY <3>1 DEF Waits
  <2> QED BY <2>1, <2>2 DEF Waits
<1> QED BY <1>2, <1>3

(* One that gives up is in no place, and the others stay.                  *)
LEMMA LeftQueue ==
  ASSUME NEW S, NEW q \in Seq(S), NEW c, Distinct(q), NEW p, p = Remove(q, c)
  PROVE  Distinct(p) /\ \A d : Waits(p, d) <=> Waits(q, d) /\ d # c
<1>1. CASE ~Waits(q, c)
  BY <1>1 DEF Waits, Remove
<1>2. CASE Waits(q, c)
  <2> DEFINE i == CHOOSE i \in 1..Len(q) : q[i] = c
  <2>1. i \in 1..Len(q) /\ q[i] = c /\ Len(q) \in Nat
    BY <1>2 DEF Waits
  <2> DEFINE a == SubSeq(q, 1, i - 1)
             b == SubSeq(q, i + 1, Len(q))
  <2>2. p = a \o b
    BY <1>2 DEF Waits, Remove
  <2>3. /\ 1 \in Int /\ i - 1 \in Int /\ \A k \in 1..(i - 1) : q[k] \in S
        /\ i + 1 \in Int /\ Len(q) \in Int /\ \A k \in (i + 1)..Len(q) : q[k] \in S
    BY <2>1
  <2> HIDE DEF i
  <2>4. /\ a \in Seq(S) /\ Len(a) = IF 1 <= i - 1 THEN (i - 1) - 1 + 1 ELSE 0
        /\ \A k \in 1..((i - 1) - 1 + 1) : a[k] = q[1 + k - 1]
    BY <2>3, SubSeqProperties
  <2>5. /\ b \in Seq(S) /\ Len(b) = IF i + 1 <= Len(q) THEN Len(q) - (i + 1) + 1 ELSE 0
        /\ \A k \in 1..(Len(q) - (i + 1) + 1) : b[k] = q[(i + 1) + k - 1]
    BY <2>3, SubSeqProperties
  <2> HIDE DEF a, b
  <2>6. /\ Len(a \o b) = Len(a) + Len(b)
        /\ \A k \in 1..(Len(a) + Len(b)) : (a \o b)[k] = IF k <= Len(a) THEN a[k] ELSE b[k - Len(a)]
    BY <2>4, <2>5, ConcatProperties
  <2>7. Len(p) = Len(q) - 1 /\ \A k \in 1..Len(p) : p[k] = IF k < i THEN q[k] ELSE q[k + 1]
    <3>1. Len(a) = i - 1 /\ Len(b) = Len(q) - i
      BY <2>1, <2>4, <2>5
    <3>2. Len(p) = Len(q) - 1
      BY <2>1, <2>2, <2>6, <3>1
    <3>3. ASSUME NEW k \in 1..Len(p), k < i  PROVE p[k] = q[k]
      BY <2>1, <2>2, <2>4, <2>6, <3>1, <3>2, <3>3
    <3>4. ASSUME NEW k \in 1..Len(p), ~(k < i)  PROVE p[k] = q[k + 1]
      <4>1. k - Len(a) \in 1..(Len(q) - (i + 1) + 1) /\ p[k] = b[k - Len(a)]
        BY <2>1, <2>2, <2>6, <3>1, <3>2, <3>4
      <4> QED BY <2>1, <2>5, <3>1, <4>1
    <3> QED BY <3>2, <3>3, <3>4
  <2>8. Distinct(p)
    BY <2>1, <2>7 DEF Distinct
  <2>9. ASSUME NEW d, NEW k \in 1..Len(p), p[k] = d  PROVE Waits(q, d) /\ d # c
    BY <2>1, <2>7, <2>9 DEF Distinct, Waits
  <2>10. ASSUME NEW d, NEW k \in 1..Len(q), q[k] = d, d # c  PROVE Waits(p, d)
    <3>1. CASE k < i
      <4>1. k \in 1..Len(p) /\ p[k] = d
        BY <2>1, <2>7, <2>10, <3>1
      <4> QED BY <4>1 DEF Waits
    <3>2. CASE k > i
      <4>1. k - 1 \in 1..Len(p) /\ p[k - 1] = d
        BY <2>1, <2>7, <2>10, <3>2
      <4> QED BY <4>1 DEF Waits
    <3> QED BY <2>1, <2>10, <3>1, <3>2
  <2> QED BY <2>8, <2>9, <2>10 DEF Waits
<1> QED BY <1>1, <1>2

(* A writer waits from its call of Execute until it is served or gives up. *)
LEMMA WriterWaits ==
  ASSUME Phases, QueueTyped, QueueHoldsWaiters, NEW w \in Callers, HandlerWrites(w) \/ Write(w)
  PROVE  QueueHoldsWaiters'
<1>1. UNCHANGED <<monitor, closing>> /\ w \notin {"monitor", "closer"}
  BY CallerNames DEF HandlerWrites, Write, Submit, Execute, TryExecute, AcquireGate, AbandonGate,
         Transaction, AdmitWrite, BeginTx, Work, WorkFails, Operation, Rollback,
         CommitTakesEffect, CommitConfirmed, OperationBreaks
<1>2. CASE Execute(w)
  <2>1. Move(w, "wait") /\ pc[w] = "check" /\ Join(w) /\ w \in Takers
    BY <1>2 DEF Execute, Takers
  <2>2. ~Waits(waiting, w)
    BY <2>1 DEF QueueHoldsWaiters
  <2>3. Distinct(waiting') /\ \A d : Waits(waiting', d) <=> Waits(waiting, d) \/ d = w
    BY <2>1, <2>2, JoinedQueue DEF QueueHoldsWaiters
  <2>4. \A v \in Callers : pc'[v] = IF v = w THEN "wait" ELSE pc[v]
    BY <2>1 DEF Move, Phases
  <2> QED BY <1>1, <2>3, <2>4 DEF QueueHoldsWaiters
<1>3. CASE AcquireGate(w)
  <2>1. Move(w, "admit") /\ waiting # <<>> /\ Head(waiting) = w /\ waiting' = Tail(waiting)
    BY <1>3 DEF AcquireGate, TakeGate
  <2>2. Distinct(waiting') /\ \A d : Waits(waiting', d) <=> Waits(waiting, d) /\ d # w
    BY <2>1, ServedQueue DEF QueueTyped, QueueHoldsWaiters
  <2>3. \A v \in Callers : pc'[v] = IF v = w THEN "admit" ELSE pc[v]
    BY <2>1 DEF Move, Phases
  <2> QED BY <1>1, <2>2, <2>3 DEF QueueHoldsWaiters
<1>4. CASE AbandonGate(w)
  <2>1. Move(w, "idle") /\ waiting' = Remove(waiting, w)
    BY <1>4 DEF AbandonGate
  <2>2. Distinct(waiting') /\ \A d : Waits(waiting', d) <=> Waits(waiting, d) /\ d # w
    BY <2>1, LeftQueue DEF QueueTyped, QueueHoldsWaiters
  <2>3. \A v \in Callers : pc'[v] = IF v = w THEN "idle" ELSE pc[v]
    BY <2>1 DEF Move, Phases
  <2> QED BY <1>1, <2>2, <2>3 DEF QueueHoldsWaiters
<1>5. CASE Submit(w) \/ TryExecute(w) \/ Transaction(w)
  <2>1. /\ waiting' = waiting /\ pc[w] # "wait"
        /\ pc' = pc \/ \E to \in WriterPC \ {"wait"} : Move(w, to)
    BY <1>5 DEF Submit, TryExecute, Transaction, AdmitWrite, BeginTx, Work, WorkFails,
                Operation, Rollback, Release, CommitTakesEffect, CommitConfirmed,
                OperationBreaks, Admitted, Holding, WriterPC
  <2>2. \A v \in Callers : pc'[v] = "wait" <=> pc[v] = "wait"
    BY <2>1 DEF Move, Phases
  <2> QED BY <1>1, <2>1, <2>2 DEF QueueHoldsWaiters
<1> QED BY <1>2, <1>3, <1>4, <1>5 DEF HandlerWrites, Write

(* So does the monitor for its check,                                      *)
LEMMA MonitorWaits ==
  ASSUME QueueTyped, QueueHoldsWaiters, Monitor
  PROVE  QueueHoldsWaiters'
<1>1. UNCHANGED <<pc, closing>> /\ \A w \in Callers : w \notin {"monitor", "closer"}
  BY CallerNames DEF Monitor, MonitorTicks, MonitorAcquires, CheckSucceeds, CheckFails,
         MonitorReports, MonitorCancelled, writes
<1>2. CASE MonitorTicks
  <2>1. /\ Join("monitor") /\ "monitor" \in Takers
        /\ monitor' = "wait" /\ ~Waits(waiting, "monitor")
    BY <1>2 DEF MonitorTicks, Takers, QueueHoldsWaiters
  <2>2. Distinct(waiting') /\ \A d : Waits(waiting', d) <=> Waits(waiting, d) \/ d = "monitor"
    BY <2>1, JoinedQueue DEF QueueHoldsWaiters
  <2> QED BY <1>1, <2>1, <2>2 DEF QueueHoldsWaiters
<1>3. CASE MonitorAcquires
  <2>1. /\ waiting # <<>> /\ Head(waiting) = "monitor" /\ waiting' = Tail(waiting)
        /\ monitor' # "wait"
    BY <1>3 DEF MonitorAcquires, TakeGate
  <2>2. Distinct(waiting') /\ \A d : Waits(waiting', d) <=> Waits(waiting, d) /\ d # "monitor"
    BY <2>1, ServedQueue DEF QueueTyped, QueueHoldsWaiters
  <2> QED BY <1>1, <2>1, <2>2 DEF QueueHoldsWaiters
<1>4. CASE MonitorCancelled
  <2>1. waiting' = Remove(waiting, "monitor") /\ monitor' # "wait"
    BY <1>4 DEF MonitorCancelled
  <2>2. Distinct(waiting') /\ \A d : Waits(waiting', d) <=> Waits(waiting, d) /\ d # "monitor"
    BY <2>1, LeftQueue DEF QueueTyped, QueueHoldsWaiters
  <2> QED BY <1>1, <2>1, <2>2 DEF QueueHoldsWaiters
<1>5. CASE CheckSucceeds \/ CheckFails \/ MonitorReports
  <2>1. waiting' = waiting /\ monitor # "wait" /\ monitor' # "wait"
    BY <1>5 DEF CheckSucceeds, CheckFails, MonitorReports, writes
  <2> QED BY <1>1, <2>1 DEF QueueHoldsWaiters
<1> QED BY <1>2, <1>3, <1>4, <1>5 DEF Monitor

(* and Close for the connection, until it is served or cuts it.            *)
LEMMA CloserWaits ==
  ASSUME QueueTyped, QueueHoldsWaiters, CloseDatabase \/ CloseStep \/ Exit
  PROVE  QueueHoldsWaiters'
<1>1. UNCHANGED <<pc, monitor>> /\ \A w \in Callers : w \notin {"monitor", "closer"}
  BY CallerNames DEF CloseDatabase, CloseBegins, CloseStep, CloseAcquires, ReleaseLock,
         ForceClose, Exit, CloseEnds, writes
<1>2. CASE CloseDatabase
  <2>1. /\ Join("closer") /\ "closer" \in Takers
        /\ closing' = "gate" /\ ~Waits(waiting, "closer")
    BY <1>2 DEF CloseDatabase, CloseBegins, Takers, QueueHoldsWaiters
  <2>2. Distinct(waiting') /\ \A d : Waits(waiting', d) <=> Waits(waiting, d) \/ d = "closer"
    BY <2>1, JoinedQueue DEF QueueHoldsWaiters
  <2> QED BY <1>1, <2>1, <2>2 DEF QueueHoldsWaiters
<1>3. CASE CloseAcquires
  <2>1. /\ waiting # <<>> /\ Head(waiting) = "closer" /\ waiting' = Tail(waiting)
        /\ closing' # "gate"
    BY <1>3 DEF CloseAcquires, TakeGate
  <2>2. Distinct(waiting') /\ \A d : Waits(waiting', d) <=> Waits(waiting, d) /\ d # "closer"
    BY <2>1, ServedQueue DEF QueueTyped, QueueHoldsWaiters
  <2> QED BY <1>1, <2>1, <2>2 DEF QueueHoldsWaiters
<1>4. CASE ForceClose
  <2>1. waiting' = Remove(waiting, "closer") /\ closing' # "gate"
    BY <1>4 DEF ForceClose
  <2>2. Distinct(waiting') /\ \A d : Waits(waiting', d) <=> Waits(waiting, d) /\ d # "closer"
    BY <2>1, LeftQueue DEF QueueTyped, QueueHoldsWaiters
  <2> QED BY <1>1, <2>1, <2>2 DEF QueueHoldsWaiters
<1>5. CASE ReleaseLock \/ Exit
  <2>1. waiting' = waiting /\ closing # "gate" /\ closing' # "gate"
    BY <1>5 DEF ReleaseLock, Exit, CloseEnds, writes
  <2> QED BY <1>1, <2>1 DEF QueueHoldsWaiters
<1> QED BY <1>2, <1>3, <1>4, <1>5 DEF CloseStep

(* Before StartMonitoring there is no monitor.                             *)
MonitorOff == host \in {"new", "migrate", "monitor"} => monitor = "off"

(* StartMonitoring starts it once, and the host does not come back.        *)
LEMMA MonitorStarts ==
  ASSUME MonitorOff, [Next]_vars
  PROVE  MonitorOff'
<1>1. CASE \E w \in Callers : HandlerWrites(w) \/ Write(w)
  <2>1. UNCHANGED <<monitor, host>>
    BY <1>1 DEF HandlerWrites, Write, Submit, Execute, TryExecute, AcquireGate, AbandonGate,
         Transaction, AdmitWrite, BeginTx, Work, WorkFails, Operation, Rollback,
         CommitTakesEffect, CommitConfirmed, OperationBreaks
  <2> QED BY <2>1 DEF MonitorOff
<1>2. CASE \/ Migrate \/ MigrationsDone \/ MigrationFails \/ Monitored \/ MonitorStep
           \/ CloseDatabase \/ CloseStep \/ Exit
  BY <1>2 DEF Migrate, LoadHistory, ApplyMigration, MigrationsDone, MigrateCompletes,
         MigrationFails, MigrateFails, Monitored, StartMonitoring, MonitorStep, Monitor,
         MonitorTicks, MonitorAcquires, CheckSucceeds, CheckFails, MonitorReports,
         MonitorCancelled, CloseDatabase, CloseBegins, CloseStep, CloseAcquires, ReleaseLock,
         ForceClose, Exit, CloseEnds, BeginStop, MonitorOff
<1>3. CASE \/ OpenDatabase \/ OpenFails \/ CleanupDone \/ CleanupFails \/ StartFails
           \/ \E i \in 1..Components : StartComponent(i) \/ ComponentFails(i) \/ ShutdownComponent(i)
           \/ \E r \in Reads : HandlerReads(r) \/ ReadStep(r)
           \/ FailureSeen \/ Signalled \/ ShutdownExpires \/ DrainReads \/ Server
           \/ UNCHANGED vars
  <2>1. monitor' = monitor
    BY <1>3, QuietSteps
  <2>2. \/ host' = host \/ host = "new"
        \/ host' \in {"start", "serve", "stop"}
    BY <1>3 DEF OpenDatabase, OpenFails, CleanupDone, CleanupFails, StartFails, StartComponent,
           ComponentFails, ShutdownComponent, HandlerReads, ReadStep, FailureSeen, Signalled,
           ShutdownExpires, DrainReads, Server, BeginStop, vars
  <2> QED BY <2>1, <2>2 DEF MonitorOff
<1> QED BY <1>1, <1>2, <1>3 DEF Next

(* Migration and the start of the monitor do not wait.                     *)
LEMMA OthersDoNotWait ==
  ASSUME QueueHoldsWaiters, MonitorOff,
         \/ Migrate \/ MigrationsDone \/ MigrationFails \/ Monitored
         \/ UNCHANGED <<waiting, pc, monitor, closing>>
  PROVE  QueueHoldsWaiters'
<1>1. UNCHANGED <<waiting, pc, closing>> /\ (monitor' = "wait" <=> monitor = "wait")
  BY DEF Migrate, LoadHistory, ApplyMigration, MigrationsDone, MigrateCompletes,
         MigrationFails, MigrateFails, Monitored, StartMonitoring, writes, MonitorOff
<1> QED BY <1>1 DEF QueueHoldsWaiters

(* The queue of the gate holds exactly those who wait for the token, each  *)
(* once: a caller whose context ended is not served, and one that waits is *)
(* not forgotten, however joins, service and abandonments interleave.      *)
THEOREM QueueOfWaiters == Spec => []QueueHoldsWaiters
<1>1. Init => QueueTyped /\ QueueHoldsWaiters /\ MonitorOff
  <2>1. <<>> \in Seq(Takers) /\ Distinct(<<>>) /\ \A d : ~Waits(<<>>, d)
    BY DEF Distinct, Waits
  <2>2. ASSUME Init  PROVE /\ waiting = <<>> /\ \A w \in Callers : pc[w] = "idle"
                           /\ monitor = "off" /\ closing = "no"
    BY <2>2 DEF Init, DatabaseInit
  <2> QED BY <2>1, <2>2 DEF QueueTyped, QueueHoldsWaiters, MonitorOff
<1>2. GateInv /\ QueueTyped /\ QueueHoldsWaiters /\ MonitorOff /\ [Next]_vars => QueueHoldsWaiters'
  <2> SUFFICES ASSUME GateInv, QueueTyped, QueueHoldsWaiters, MonitorOff, [Next]_vars
      PROVE  QueueHoldsWaiters'
    OBVIOUS
  <2>1. CASE \E w \in Callers : HandlerWrites(w) \/ Write(w)
    BY <2>1, WriterWaits DEF GateInv
  <2>2. CASE MonitorStep
    BY <2>2, MonitorWaits DEF MonitorStep
  <2>3. CASE CloseDatabase \/ CloseStep \/ Exit
    BY <2>3, CloserWaits
  <2>4. CASE Migrate \/ MigrationsDone \/ MigrationFails \/ Monitored
    BY <2>4, OthersDoNotWait
  <2>5. CASE \/ OpenDatabase \/ OpenFails \/ CleanupDone \/ CleanupFails \/ StartFails
             \/ \E i \in 1..Components : StartComponent(i) \/ ComponentFails(i) \/ ShutdownComponent(i)
             \/ \E r \in Reads : HandlerReads(r) \/ ReadStep(r)
             \/ FailureSeen \/ Signalled \/ ShutdownExpires \/ DrainReads \/ Server
             \/ UNCHANGED vars
    <3>1. UNCHANGED <<waiting, pc, monitor, closing>>
      BY <2>5, QuietSteps
    <3> QED BY <3>1, OthersDoNotWait
  <2> QED BY <2>1, <2>2, <2>3, <2>4, <2>5 DEF Next
<1>3. QueueTyped /\ MonitorOff /\ [Next]_vars => QueueTyped' /\ MonitorOff'
  BY QueueTypedStep, MonitorStarts
<1> QED BY <1>1, <1>2, <1>3, GateHeld, PTL DEF Spec
=============================================================================
