------------------------ MODULE TaskRuntimeProperties ------------------------
(***************************************************************************)
(* What the task runtime promises.                                         *)
(***************************************************************************)
EXTENDS TaskRuntime

Rows == {t \in Tasks : Exists(t)}
Owned(r) == r.exec = "RUNNING" /\ r.worker = inst

----------------------------------------------------------------------------
(* The cross-object states of docs/design/004, section 5: which statuses   *)
(* of task, run, execution and step, which queue entry, owner and report   *)
(* may occur together.                                                     *)

FreshRow(r) ==
  /\ r.task = "Pending" /\ r.run = "Pending" /\ r.exec = "QUEUED" /\ r.queuedAt # None
  /\ r.worker = None /\ ~r.started /\ ~HasPlan(r)

ApprovedRow(r) ==
  /\ r.task = "Running" /\ r.run = "Running" /\ r.exec = "QUEUED" /\ r.queuedAt # None
  /\ r.worker = None /\ r.started /\ r.step = "Running" /\ r.approval = "Approved"

OwnedRow(r) ==
  /\ r.task = "Running" /\ r.run = "Running" /\ r.exec = "RUNNING" /\ r.queuedAt = None
  /\ r.worker # None /\ r.started /\ r.step \in {"none", "Pending", "Running", "Completed"}

WaitingRow(r) ==
  /\ r.task = "WaitingApproval" /\ r.run = "WaitingApproval" /\ r.step = "WaitingApproval"
  /\ r.exec = "WAITING_APPROVAL" /\ r.queuedAt = None /\ r.worker = None /\ r.started
  /\ r.approval = "Pending" /\ r.tool = "none"

InterruptedRow(r) ==
  /\ r.exec = "INTERRUPTED" /\ r.queuedAt = None /\ r.tool # "RUNNING"
  /\ r.step \in {"none", "Running"}
  /\ \/ /\ r.task = "Running" /\ r.run = "Running" /\ r.started
        /\ r.worker # None /\ r.cause = "WorkerInterrupted"
     \/ /\ r.task = "INTERRUPTED" /\ r.run = (IF r.started THEN "Running" ELSE "Pending")
        /\ r.worker = None /\ r.report
        /\ r.cause = "CONFIG_VERSION_MISMATCH" /\ r.error = r.cause

EndedRow(r) ==
  /\ r.queuedAt = None /\ r.report
  /\ \/ /\ r.task = "Completed" /\ r.run = "Completed" /\ r.exec = "COMPLETED"
        /\ r.step = "Completed" /\ ~HasLaterStep(r) /\ r.error = "none"
     \/ /\ r.task \in {"Failed", "Cancelled"} /\ r.run = "Failed" /\ r.exec = "FAILED"
        /\ r.error # "none"

PlanPosition(r) ==
  /\ HasPlan(r) <=> r.cur # None
  /\ HasPlan(r) <=> r.step # "none"
  /\ r.cur \in 0 .. Len(r.plan)

(* No sequence of commands, results, decisions, crashes and restarts takes *)
(* a task to a combination of states the lifecycle does not know, so that  *)
(* ClaimNextExecution never meets DATA_INCONSISTENT facts (claim.go).      *)
CrossObjectConsistent ==
  \A t \in Rows :
    /\ PlanPosition(db[t])
    /\ \/ FreshRow(db[t]) \/ ApprovedRow(db[t]) \/ OwnedRow(db[t]) \/ WaitingRow(db[t])
       \/ InterruptedRow(db[t]) \/ EndedRow(db[t])

(* Three readers accept every undamaged checkpoint they may find: a claim  *)
(* of a queued task, the dispatch of a running one without a tool call,    *)
(* StartupCleanup with a tool call in flight.  The reload after a tool     *)
(* call returned is no such reader: it refuses what this one accepts, see  *)
(* CheckpointInvalidMeansDamaged (repository.go, loadAndValidateLatest).   *)
CheckpointUsable ==
  \A t \in Rows :
    LET r == db[t] IN
    r.ckpt.ok =>
      /\ r.exec = "QUEUED" => CheckpointValid(r, ClaimSource(r))
      /\ r.exec = "RUNNING" =>
           CheckpointValid(r, IF r.tool = "RUNNING" THEN "StartupCleanup" ELSE "ExecutionDispatch")

----------------------------------------------------------------------------
(* The worker and the database *)

(* A running execution of this process that the worker is not working on   *)
(* is past its deadline: every Stale return of execute.go leaves a row     *)
(* that is closed, handed over, or about to expire, never a stuck one.     *)
OrphanIsExpired ==
  host = "up" => \A t \in Rows : Owned(db[t]) /\ w.task # t => Expired(db[t], now)

(* A call that started is told when its task ends under it: its registry   *)
(* entry is cancelled, or the cancel of the committed termination is still *)
(* to come (cancel.go and activecall/registry.go; a cancel before Prepare  *)
(* misses, and then the start transaction must refuse).                    *)
CallLearnsOfTermination ==
  w.pc \in {"activate", "call"} /\ Terminal(Dispatched) =>
    (\E e \in Entries : e.cancelled) \/ WorkerKey \in pending

(* The same for CancelTask and ExpireTask, whose terminations leave the    *)
(* execution without TaskTimeout as its own error code (cancel.go).        *)
CallLearnsOfCommand ==
  w.pc \in {"activate", "call"} /\ Terminal(Dispatched) /\ Dispatched.cause # "TaskTimeout" =>
    (\E e \in Entries : e.cancelled) \/ WorkerKey \in pending

(* Of the checks ExecuteClaimedExecution makes of its own bookkeeping only *)
(* one ever fails: the confirmation of an approval request that something  *)
(* overtook.  Its registry key is never taken and never gone, its          *)
(* configuration is that of the claim, a row it calls terminal is terminal. *)
(* The errors of its ports and transactions (LoopFails) are not meant.     *)
SelfChecksFailOnlyOnConfirm == SelfCheckFails => w.pc = "confirmWaiting"

(* The process only runs executions frozen with its own configuration,     *)
(* across restarts, approvals and recoveries (claim.go, currentHash).      *)
RunsOwnConfiguration == \A t \in Rows : Owned(db[t]) => db[t].hash = config

(* Once the ToolExecution of a write tool is durable, its execution is     *)
(* never queued or left for Recover: the call is not made twice            *)
(* (startup_cleanup.go, startupToolWriteRunning).                          *)
WriteToolRunsOnce ==
  \A t \in Rows : Kind(db[t]) = "write" /\ db[t].tool # "none" =>
    db[t].exec \in {"RUNNING", "COMPLETED", "FAILED"}

(* StartupCleanup refuses a legacy execution only where its step is not    *)
(* running, or the configuration changed under it.                         *)
StartupRefusesOnlyBoundary ==
  host = "starting" => \A t \in Legacy :
    StartupAccepts(db[t], config) \/ db[t].step \in {"Pending", "Completed"} \/ db[t].hash # config

(* Recover creates a version only where Query offered it (query.go).       *)
RecoveredWasRecoverable ==
  \A t \in Rows : RecoverOutcome(db[t], now, config) = "Recovered" =>
    Recoverable(db[t], now, config)
(* Terminal tasks have no step left open, and no tool call still RUNNING   *)
(* unless the checkpoint was invalid, which keeps the tool's history       *)
(* (docs/design/004, section 5).                                           *)
TerminalClosesStep ==
  \A t \in Rows : Terminal(db[t]) => db[t].step \notin ActiveStep
TerminalClosesTool ==
  \A t \in Rows : Terminal(db[t]) /\ db[t].error # "CheckpointInvalid" =>
    db[t].tool # "RUNNING"

(* Only a damaged checkpoint is reported as CheckpointInvalid: no sequence *)
(* of the runtime's own transactions makes a checkpoint unusable.          *)
CheckpointInvalidMeansDamaged ==
  \A t \in Rows : db[t].error = "CheckpointInvalid" => ~db[t].ckpt.ok

----------------------------------------------------------------------------
(* What a step may never do *)

(* A terminal row never changes again: late results, decisions, recoveries *)
(* and cleanups of an ended task are discarded.                            *)
TerminalIsFinal ==
  [][\A t \in Rows : Terminal(db[t]) => db'[t] = db[t]]_vars

(* Every status change of every transaction is an edge of the shared       *)
(* policy, whether or not that transaction asks it (lifecycle/policy.go);  *)
(* a new version starts a new execution, a next step a new step.           *)
FollowsLifecycle ==
  [][\A t \in Rows : LET r == db[t]  n == db'[t] IN
       /\ n.task # r.task => CanTaskTransition(r.task, n.task)
       /\ n.run # r.run => CanRunTransition(r.run, n.run)
       /\ n.version = r.version /\ n.exec # r.exec => CanExecutionTransition(r.exec, n.exec)
       /\ n.cur = r.cur /\ n.step # r.step => CanStepTransition(r.step, n.step)]_vars

(* Plans and step results enter a row only while the process that produced *)
(* them owns its running execution before the deadline (execute.go,        *)
(* reloadDispatchInTransaction).                                           *)
Progress(r) == IF r.cur = None THEN 0 ELSE IF r.step = "Completed" THEN r.cur ELSE r.cur - 1
ProgressOnlyByOwner ==
  [][\A t \in Rows :
       db'[t].plan # db[t].plan \/ Progress(db'[t]) # Progress(db[t]) =>
         ClaimOwns(db[t], w.version, inst, now) /\ w.task = t]_vars

(* Whatever still happens to a task at or after its deadline fails it      *)
(* (damage of its checkpoint aside): it is not claimed, advanced,          *)
(* approved, cancelled or completed any more.                              *)
AfterDeadlineOnlyFails ==
  [][\A t \in Rows :
       Expired(db[t], now) /\ db'[t] # db[t] =>
         db'[t].task = "Failed" \/ db'[t] = [db[t] EXCEPT !.ckpt.ok = FALSE]]_vars

(* A new version replaces only an interrupted one, of a task that is not   *)
(* queued, with the same configuration and a later checkpoint sequence     *)
(* (recover.go).                                                           *)
VersionReplacesInterrupted ==
  [][\A t \in Rows : db'[t].version # db[t].version =>
       /\ db'[t].version = db[t].version + 1
       /\ db[t].exec = "INTERRUPTED" /\ db[t].queuedAt = None
       /\ db'[t].hash = db[t].hash /\ db'[t].ckpt.seq > db[t].ckpt.seq]_vars

----------------------------------------------------------------------------
(* What must happen, under LiveSpec *)

StaysUp == <>[](host = "up")

(* A queued task is claimed or ended: neither another task the worker lost *)
(* by a command, a decision or its deadline nor an approval meanwhile      *)
(* holds the loop up, as long as the worker's calls return (execute.go,    *)
(* the Stale returns; worker/worker.go, Run).                              *)
QueueDrains ==
  StaysUp /\ []<>(w.pc # "call") =>
    \A t \in Tasks : t \in Queue ~> t \notin Queue

(* CancelTask reaches the worker: however the cancel falls between         *)
(* Prepare, the start transaction, Activate and the call, the worker does  *)
(* not stay with the cancelled task (cancel.go, activecall/registry.go).   *)
CancelReachesWorker ==
  \A t \in Tasks : w.task = t /\ db[t].task = "Cancelled" ~> w.task # t

(* Every task ends once its deadline has passed under a running process:   *)
(* queued, running, interrupted or waiting for a decision alike            *)
(* (app/timeout_scanner.go, timeout.go).                                   *)
EveryTaskEnds ==
  StaysUp => \A t \in Tasks :
    (Exists(t) /\ Expired(db[t], now)) ~> (Exists(t) /\ Terminal(db[t]))

----------------------------------------------------------------------------
(* What the documents promise and the code does not keep *)

(* What Query offers, Recover does (docs/design/010, recovery matrix:      *)
(* WORKER_INTERRUPTED with GENERATE_PLAN; recover.go).                     *)
RecoverableCanRecover ==
  \A t \in Rows : Recoverable(db[t], now, config) /\ db[t].ckpt.action = "GENERATE_PLAN" =>
    RecoverOutcome(db[t], now, config) = "Recovered"

(* A restart with the same configuration copes with every execution the    *)
(* crash left running (docs/design/004, section 6.11; startup_cleanup.go). *)
StartupAcceptsLegacy ==
  host = "starting" => \A t \in Legacy :
    db[t].hash = config => StartupAccepts(db[t], config)

(* A decision or a termination that overtakes the worker's confirmation of *)
(* an approval request makes the result Stale (docs/design/004, section    *)
(* 6.12), never an error that stops the process (execute.go).              *)
OvertakenConfirmIsStale == w.pc = "confirmWaiting" => ~Fatal

----------------------------------------------------------------------------
(* The runtime implements durable jobs *)

JobPhase(r) ==
  CASE r.exec = "QUEUED" -> "queued"
    [] r.exec = "RUNNING" -> "held"
    [] r.exec = "WAITING_APPROVAL" -> "parked"
    [] r.exec = "INTERRUPTED" -> "interrupted"
    [] r.task = "Completed" -> "completed"
    [] r.task = "Failed" -> "failed"
    [] OTHER -> "cancelled"

JobOf(r) ==
  [phase |-> JobPhase(r), epoch |-> r.version, size |-> Len(r.plan), done |-> Progress(r),
   written |-> Kind(r) = "write" /\ r.tool # "none"]

AbsentJob == [phase |-> "absent", epoch |-> 0, size |-> 0, done |-> 0, written |-> FALSE]
Durable == INSTANCE DurableJob WITH
  Jobs <- Tasks,
  job <- [t \in Tasks |-> IF Exists(t) THEN JobOf(db[t]) ELSE AbsentJob]

(* Every step of the runtime is a step, or a stutter, of each job.         *)
ImplementsDurableJobs == Durable!Spec
=============================================================================
