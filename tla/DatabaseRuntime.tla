--------------------------- MODULE DatabaseRuntime ---------------------------
(***************************************************************************)
(* The PostgreSQL runtime of one process: the dedicated connection that    *)
(* holds the advisory lock and carries every write, the one-slot write     *)
(* gate in front of it, the monitor of that connection, the migrations on  *)
(* a connection of their own, and Close.                                   *)
(*                                                                         *)
(* The server's session and the client's view of it are two things: the    *)
(* session may be gone before the client notices, and a client that closed *)
(* the connection leaves the session, its lock and its open transaction to *)
(* the server until the server notices.                                    *)
(***************************************************************************)
EXTENDS Naturals, Sequences

CONSTANTS Writers,      \* callers of Execute
          TryWriters,   \* callers of TryExecute
          Versions      \* registered migrations 1..Versions

ASSUME WritersAssumption ==
  /\ Writers \cap TryWriters = {}
  /\ {"free", "migrator", "monitor", "closer"} \cap (Writers \cup TryWriters) = {}
ASSUME VersionsAssumption == Versions \in Nat

VARIABLES
  state,      \* lifecycleState, "none" before Open
  accepting,  \* acceptingWrites
  session,    \* the server's session of the lock connection: "live" or "gone"
  conn,       \* the client's view of that connection: "open" or "closed"
  lock,       \* the advisory lock's owner: "self", "rival" or "nobody"
  gate,       \* who took the token of the one-slot channel, or "free"
  waiting,    \* the callers blocked in acquireGate, first come first
  pc,         \* where each writer is
  effects,    \* writers whose current transaction took effect
  monitor,    \* the monitor goroutine
  failure,    \* whether the one-slot failure channel was filled
  closing,    \* where Close is
  wasMonitoring, \* previousState of Close
  deadline,   \* whether the shutdown context has expired
  schema,     \* how often the statements of each migration took effect
  nextVersion \* the next version this process applies, 0: history not loaded

connection == <<session, conn, lock>>
lifecycle == <<state, accepting, failure>>
writes == <<gate, waiting, pc, effects>>
migration == <<schema, nextVersion>>
dbVars == <<connection, lifecycle, writes, monitor, closing, wasMonitoring, deadline, migration>>

Callers == Writers \cup TryWriters
Lifecycle == {"none", "Open", "Monitoring", "StartupFailed", "Lost", "Closing", "Closed"}
WriterPC == {"idle", "check", "wait", "admit", "begin", "work", "commit", "reply", "rollback"}
Holding == {"admit", "begin", "work", "commit", "reply", "rollback"}
Admitted == Holding \ {"admit"}

DatabaseTypeOK ==
  /\ state \in Lifecycle /\ accepting \in BOOLEAN /\ failure \in BOOLEAN
  /\ session \in {"live", "gone"} /\ conn \in {"open", "closed"}
  /\ lock \in {"self", "rival", "nobody"}
  /\ gate \in Callers \cup {"free", "migrator", "monitor", "closer"}
  /\ waiting \in Seq(Writers \cup {"monitor", "closer"})
  /\ pc \in [Callers -> WriterPC] /\ effects \subseteq Callers
  /\ monitor \in {"off", "sleep", "wait", "check", "report", "ended"}
  /\ closing \in {"no", "gate", "release", "drain", "done"}
  /\ wasMonitoring \in BOOLEAN /\ deadline \in BOOLEAN
  /\ schema \in [1..Versions -> Nat] /\ nextVersion \in 0..(Versions + 1)

DatabaseInit ==
  /\ state = "none" /\ accepting = FALSE /\ failure = FALSE
  /\ session = "gone" /\ conn = "closed" /\ lock \in {"rival", "nobody"}
  /\ gate = "free" /\ waiting = <<>>
  /\ pc = [w \in Callers |-> "idle"] /\ effects = {}
  /\ monitor = "off" /\ closing = "no" /\ wasMonitoring = FALSE /\ deadline = FALSE
  /\ schema = [v \in 1..Versions |-> 0] /\ nextVersion = 0

----------------------------------------------------------------------------
(* The server, another process, and what a client operation can meet       *)

(* The server ends the session, for whatever reason: its lock is free and  *)
(* its open transaction is rolled back.                                    *)
SessionEnds ==
  /\ session = "live"
  /\ session' = "gone" /\ lock' = "nobody"
  /\ UNCHANGED <<conn, lifecycle, writes, monitor, closing, wasMonitoring, deadline, migration>>

RivalTakesLock ==
  /\ lock = "nobody" /\ lock' = "rival"
  /\ UNCHANGED <<session, conn, lifecycle, writes, monitor, closing, wasMonitoring,
                 deadline, migration>>

RivalReleasesLock ==
  /\ lock = "rival" /\ lock' = "nobody"
  /\ UNCHANGED <<session, conn, lifecycle, writes, monitor, closing, wasMonitoring,
                 deadline, migration>>

Usable == session = "live" /\ conn = "open"

(* The driver closes the connection when an operation on it fails or its   *)
(* context ends; an operation on a closed connection fails at once.        *)
ConnectionBreaks == conn' = "closed" /\ UNCHANGED <<session, lock>>

(* markLost with its report; observeConnectionFailure after ConnectionBreaks *)
MarkLost ==
  IF state \in {"Closing", "Closed", "Lost"}
  THEN UNCHANGED lifecycle
  ELSE state' = "Lost" /\ accepting' = FALSE /\ failure' = TRUE

----------------------------------------------------------------------------
(* The write gate *)

(* a caller waits in one place at most *)
Remove(q, c) ==
  IF \E i \in 1..Len(q) : q[i] = c
  THEN LET i == CHOOSE i \in 1..Len(q) : q[i] = c
       IN SubSeq(q, 1, i - 1) \o SubSeq(q, i + 1, Len(q))
  ELSE q
Join(c) == waiting' = Append(waiting, c)

(* A released token goes to the first blocked caller: channel receivers    *)
(* are served in order.                                                    *)
TakeGate(c) ==
  /\ gate = "free" /\ waiting # <<>> /\ Head(waiting) = c
  /\ gate' = c /\ waiting' = Tail(waiting)

(* slip: waiting callers are not counted *)
TryTakeGateFree == gate = "free"

(* tryAcquireGate *)
TryTakeGate == gate = "free" /\ waiting = <<>>

----------------------------------------------------------------------------
(* Execute and TryExecute *)

AcceptsWrites == accepting /\ state \in {"Open", "Monitoring"}
Move(w, to) == pc' = [pc EXCEPT ![w] = to]

(* the first requireAcceptingWrites, before the gate *)
Submit(w) ==
  /\ pc[w] = "idle" /\ AcceptsWrites
  /\ Move(w, "check")
  /\ effects' = effects \ {w}
  /\ UNCHANGED <<connection, lifecycle, gate, waiting, monitor, closing, wasMonitoring,
                 deadline, migration>>

Execute(w) ==
  /\ w \in Writers /\ pc[w] = "check"
  /\ Move(w, "wait") /\ Join(w)
  /\ UNCHANGED <<connection, lifecycle, gate, effects, monitor, closing, wasMonitoring,
                 deadline, migration>>

TryExecute(w) ==
  /\ w \in TryWriters /\ pc[w] = "check"
  /\ IF TryTakeGate THEN gate' = w /\ Move(w, "admit") ELSE gate' = gate /\ Move(w, "idle")
  /\ UNCHANGED <<connection, lifecycle, waiting, effects, monitor, closing, wasMonitoring,
                 deadline, migration>>

AcquireGate(w) ==
  /\ pc[w] = "wait" /\ TakeGate(w)
  /\ Move(w, "admit")
  /\ UNCHANGED <<connection, lifecycle, effects, monitor, closing, wasMonitoring,
                 deadline, migration>>

(* slip: the release is deferred before the gate is acquired *)
AbandonGateReleases(w) ==
  /\ pc[w] = "wait"
  /\ Move(w, "idle") /\ waiting' = Remove(waiting, w) /\ gate' = "free"
  /\ UNCHANGED <<connection, lifecycle, effects, monitor, closing, wasMonitoring,
                 deadline, migration>>

(* the caller's context ends while it waits for the gate *)
AbandonGate(w) ==
  /\ pc[w] = "wait"
  /\ Move(w, "idle") /\ waiting' = Remove(waiting, w)
  /\ UNCHANGED <<connection, lifecycle, gate, effects, monitor, closing, wasMonitoring,
                 deadline, migration>>

Release(w) == gate' = "free" /\ Move(w, "idle") /\ UNCHANGED <<waiting, effects>>

(* slip: only the connection is looked at once the gate is held *)
AdmitWriteUnchecked(w) ==
  /\ pc[w] = "admit"
  /\ IF conn = "closed" THEN MarkLost /\ Release(w)
     ELSE Move(w, "begin") /\ UNCHANGED <<lifecycle, gate, waiting, effects>>
  /\ UNCHANGED <<connection, monitor, closing, wasMonitoring, deadline, migration>>

(* admitWrite, the last check under the gate *)
AdmitWrite(w) ==
  /\ pc[w] = "admit"
  /\ \/ ~AcceptsWrites /\ Release(w) /\ UNCHANGED lifecycle
     \/ AcceptsWrites /\ conn = "closed" /\ MarkLost /\ Release(w)
     \/ AcceptsWrites /\ conn = "open" /\ Move(w, "begin")
          /\ UNCHANGED <<lifecycle, gate, waiting, effects>>
  /\ UNCHANGED <<connection, monitor, closing, wasMonitoring, deadline, migration>>

(* an operation of the transaction succeeds *)
Operation(w, from, to) ==
  /\ pc[w] = from /\ Usable
  /\ Move(w, to)
  /\ UNCHANGED <<connection, lifecycle, gate, waiting, effects, monitor, closing,
                 wasMonitoring, deadline, migration>>

BeginTx(w) == Operation(w, "begin", "work")
Work(w) == Operation(w, "work", "commit")
WorkFails(w) == Operation(w, "work", "rollback")

(* An operation fails with the connection, because the session is gone or  *)
(* because the caller's context ended in the middle of it.                 *)
OperationBreaks(w) ==
  /\ pc[w] \in Admitted
  /\ ConnectionBreaks
  /\ MarkLost /\ Release(w)
  /\ UNCHANGED <<monitor, closing, wasMonitoring, deadline, migration>>

Rollback(w) ==
  /\ pc[w] = "rollback" /\ Usable
  /\ Release(w)
  /\ UNCHANGED <<connection, lifecycle, monitor, closing, wasMonitoring, deadline, migration>>

(* The server commits, also when the client has cut the connection under a *)
(* COMMIT on its way; the caller knows only when the reply has come, and   *)
(* when it does not come it reports an error (OperationBreaks).            *)
CommitTakesEffect(w) ==
  /\ pc[w] = "commit" /\ session = "live"
  /\ Move(w, "reply") /\ effects' = effects \cup {w}
  /\ UNCHANGED <<connection, lifecycle, gate, waiting, monitor, closing, wasMonitoring,
                 deadline, migration>>

CommitConfirmed(w) ==
  /\ pc[w] = "reply" /\ Usable
  /\ Release(w)
  /\ UNCHANGED <<connection, lifecycle, monitor, closing, wasMonitoring, deadline, migration>>

(* what one admitted transaction does until it gives the gate back *)
Transaction(w) ==
  \/ AdmitWrite(w) \/ BeginTx(w) \/ Work(w) \/ WorkFails(w) \/ Rollback(w)
  \/ CommitTakesEffect(w) \/ CommitConfirmed(w) \/ OperationBreaks(w)

----------------------------------------------------------------------------
(* Open, Migrate, StartMonitoring *)

(* pg_try_advisory_lock decides; every failure of Open closes what it opened *)
Open ==
  /\ state = "none" /\ lock = "nobody"
  /\ state' = "Open" /\ accepting' = TRUE /\ failure' = failure
  /\ session' = "live" /\ conn' = "open" /\ lock' = "self"
  /\ UNCHANGED <<writes, monitor, closing, wasMonitoring, deadline, migration>>

(* slip: the first version to apply is one too far *)
LoadHistorySkips ==
  /\ state = "Open" /\ nextVersion = 0 /\ gate = "free" /\ conn = "open"
  /\ gate' = "migrator"
  /\ nextVersion' \in 2..(Versions + 2)
  /\ \A v \in 1..Versions : schema[v] > 0 <=> v < nextVersion' - 1
  /\ UNCHANGED <<connection, lifecycle, waiting, pc, effects, monitor, closing,
                 wasMonitoring, deadline, schema>>

(* The history is read once; what it holds is a prefix of the registered   *)
(* migrations or the run stops.                                            *)
LoadHistory ==
  /\ state = "Open" /\ nextVersion = 0 /\ gate = "free" /\ conn = "open"
  /\ gate' = "migrator"
  /\ nextVersion' \in 1..(Versions + 1)
  /\ \A v \in 1..Versions : schema[v] > 0 <=> v < nextVersion'
  /\ UNCHANGED <<connection, lifecycle, waiting, pc, effects, monitor, closing,
                 wasMonitoring, deadline, schema>>

(* slip: a version that is already recorded is applied again *)
VersionRecordedIgnored(v) == FALSE

(* the primary key of the metadata table *)
VersionRecorded(v) == schema[v] > 0

(* Statements and record are one transaction of the migration connection,  *)
(* which the loss of the lock connection does not stop.                    *)
ApplyMigration ==
  /\ gate = "migrator" /\ nextVersion \in 1..Versions
  /\ ~VersionRecorded(nextVersion)
  /\ schema' = [schema EXCEPT ![nextVersion] = @ + 1]
  /\ nextVersion' = nextVersion + 1
  /\ UNCHANGED <<connection, lifecycle, writes, monitor, closing, wasMonitoring, deadline>>

RivalMigrates ==
  /\ lock = "rival"
  /\ \E v \in 1..Versions :
       /\ ~VersionRecorded(v) /\ \A u \in 1..(v - 1) : VersionRecorded(u)
       /\ schema' = [schema EXCEPT ![v] = @ + 1]
  /\ UNCHANGED <<connection, lifecycle, writes, monitor, closing, wasMonitoring, deadline,
                 nextVersion>>

(* markStartupFailed, after observeConnectionFailure *)
MigrateFails ==
  /\ gate = "migrator" /\ gate' = "free"
  /\ IF conn = "closed" THEN MarkLost
     ELSE state' = "StartupFailed" /\ accepting' = FALSE /\ UNCHANGED failure
  /\ UNCHANGED <<connection, waiting, pc, effects, monitor, closing, wasMonitoring,
                 deadline, migration>>

MigrateCompletes ==
  /\ gate = "migrator" /\ nextVersion = Versions + 1
  /\ gate' = "free"
  /\ UNCHANGED <<connection, lifecycle, waiting, pc, effects, monitor, closing,
                 wasMonitoring, deadline, migration>>

StartMonitoring ==
  /\ state = "Open" /\ accepting /\ gate = "free"
  /\ IF conn = "closed"
     THEN state' = "Lost" /\ failure' = TRUE /\ UNCHANGED monitor
     ELSE state' = "Monitoring" /\ monitor' = "sleep" /\ UNCHANGED failure
  /\ UNCHANGED <<connection, accepting, writes, closing, wasMonitoring, deadline, migration>>

----------------------------------------------------------------------------
(* The monitor *)

MonitorTicks ==
  /\ monitor = "sleep" /\ closing = "no"
  /\ monitor' = "wait" /\ Join("monitor")
  /\ UNCHANGED <<connection, lifecycle, gate, pc, effects, closing, wasMonitoring,
                 deadline, migration>>

MonitorAcquires ==
  /\ monitor = "wait" /\ TakeGate("monitor")
  /\ monitor' = "check"
  /\ UNCHANGED <<connection, lifecycle, pc, effects, closing, wasMonitoring, deadline, migration>>

CheckSucceeds ==
  /\ monitor = "check" /\ Usable
  /\ monitor' = "sleep" /\ gate' = "free"
  /\ UNCHANGED <<connection, lifecycle, waiting, pc, effects, closing, wasMonitoring,
                 deadline, migration>>

(* A dead session, a check that takes too long, or the cancelled monitor   *)
(* context.  The gate is given back before the loss is reported.           *)
CheckFails ==
  /\ monitor = "check"
  /\ ConnectionBreaks
  /\ monitor' = "report" /\ gate' = "free"
  /\ UNCHANGED <<lifecycle, waiting, pc, effects, closing, wasMonitoring, deadline, migration>>

MonitorReports ==
  /\ monitor = "report"
  /\ MarkLost
  /\ monitor' = "ended"
  /\ UNCHANGED <<connection, writes, closing, wasMonitoring, deadline, migration>>

MonitorCancelled ==
  /\ closing # "no" /\ monitor \in {"sleep", "wait"}
  /\ monitor' = "ended" /\ waiting' = Remove(waiting, "monitor")
  /\ UNCHANGED <<connection, lifecycle, gate, pc, effects, closing, wasMonitoring,
                 deadline, migration>>

Monitor ==
  \/ MonitorTicks \/ MonitorAcquires \/ CheckSucceeds \/ CheckFails \/ MonitorReports
  \/ MonitorCancelled

----------------------------------------------------------------------------
(* StopAcceptingWrites and Close *)

StopAcceptingWrites == accepting' = FALSE

(* beginClosing; the monitor is cancelled and the reads are sealed with it *)
CloseBegins ==
  /\ closing = "no" /\ state # "none"
  /\ wasMonitoring' = (state = "Monitoring")
  /\ state' = "Closing" /\ accepting' = FALSE /\ UNCHANGED failure
  /\ closing' = "gate" /\ Join("closer")
  /\ UNCHANGED <<connection, gate, pc, effects, monitor, deadline, migration>>

CloseAcquires ==
  /\ closing = "gate" /\ TakeGate("closer")
  /\ closing' = "release"
  /\ UNCHANGED <<connection, lifecycle, pc, effects, monitor, wasMonitoring, deadline, migration>>

(* releaseLockAndCloseConnection, bounded by the shutdown context: with a  *)
(* usable connection the lock is unlocked, otherwise the connection is     *)
(* only closed and the server frees the lock when it ends the session.     *)
ReleaseLock ==
  /\ closing = "release"
  /\ \/ Usable /\ lock' = "nobody" /\ session' = "gone"
     \/ (~Usable \/ deadline) /\ UNCHANGED <<lock, session>>
  /\ conn' = "closed" /\ gate' = "free" /\ closing' = "drain"
  /\ UNCHANGED <<lifecycle, waiting, pc, effects, monitor, wasMonitoring, deadline, migration>>

(* slip: the shutdown that ran out of time unlocks instead of cutting the  *)
(* connection, under the transaction that still holds the gate             *)
ForceCloseUnlocks ==
  /\ closing = "gate" /\ deadline
  /\ lock' = IF lock = "self" THEN "nobody" ELSE lock
  /\ waiting' = Remove(waiting, "closer")
  /\ closing' = "drain"
  /\ UNCHANGED <<session, conn, lifecycle, gate, pc, effects, monitor, wasMonitoring,
                 deadline, migration>>

(* forceCloseLockConnection cuts the socket under whoever uses it          *)
ForceClose ==
  /\ closing = "gate" /\ deadline
  /\ ConnectionBreaks
  /\ waiting' = Remove(waiting, "closer")
  /\ closing' = "drain"
  /\ UNCHANGED <<lifecycle, gate, pc, effects, monitor, wasMonitoring, deadline, migration>>

(* slip: the monitor is waited for whether or not it was ever started *)
CloseEndsJoinsAlways(readsDone) ==
  /\ closing = "drain" /\ readsDone
  /\ monitor = "ended"
  /\ closing' = "done" /\ state' = "Closed" /\ UNCHANGED <<accepting, failure>>
  /\ UNCHANGED <<connection, writes, monitor, wasMonitoring, deadline, migration>>

(* Close returns once the monitor and the read pool are done *)
CloseEnds(readsDone) ==
  /\ closing = "drain" /\ readsDone
  /\ wasMonitoring => monitor = "ended"
  /\ closing' = "done" /\ state' = "Closed" /\ UNCHANGED <<accepting, failure>>
  /\ UNCHANGED <<connection, writes, monitor, wasMonitoring, deadline, migration>>
=============================================================================
