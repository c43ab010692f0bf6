----------------------------- MODULE Transactions -----------------------------
(***************************************************************************)
(* What each runtime transaction writes, as a function from the locked row *)
(* of one task to its new row.  Guards that need more than the row and the *)
(* database clock are in TaskRuntime, which runs these functions as atomic *)
(* actions: the runtime executes every one in a single PostgreSQL          *)
(* transaction that locks the rows before it reads the clock.              *)
(***************************************************************************)
EXTENDS Checkpoint

CONSTANT TaskTimeout    \* clock readings between Create and the deadline

ASSUME TimeoutAssumption == TaskTimeout \in Nat \ {0}

Expired(r, now) == now >= r.createdAt + TaskTimeout

(***************************************************************************)
(* Every failing transaction closes task, run and execution, takes the     *)
(* task off the queue and makes sure that a pending Report exists.  Which  *)
(* of them also close the current step differs.                            *)
(***************************************************************************)
Closed(r, status, error, cause) ==
  [r EXCEPT !.task = status, !.error = error, !.queuedAt = None, !.run = "Failed",
            !.exec = "FAILED", !.cause = cause, !.report = TRUE]

(* slip: the step gets the execution's spelling of the status *)
StepFailedMisspelt(r, statuses) ==
  [r EXCEPT !.step = IF r.step \in statuses THEN "FAILED" ELSE r.step]

StepFailed(r, statuses) ==
  [r EXCEPT !.step = IF r.step \in statuses THEN "Failed" ELSE r.step]

ActiveStep == {"Running", "WaitingApproval"}
OpenStep == ActiveStep \cup {"Pending"}

----------------------------------------------------------------------------
(* CreateTask *)

InitialRow(now, config) ==
  [task |-> "Pending", error |-> "none", version |-> 1, createdAt |-> now,
   queuedAt |-> now, run |-> "Pending", plan |-> <<>>, cur |-> None,
   step |-> "none", exec |-> "QUEUED", worker |-> None, hash |-> config,
   cause |-> "none", started |-> FALSE, tool |-> "none", approval |-> "none",
   ckpt |-> [seq |-> 1, action |-> "GENERATE_PLAN", step |-> None,
             source |-> FALSE, approval |-> FALSE, ok |-> TRUE],
   report |-> FALSE]

----------------------------------------------------------------------------
(* ClaimNextExecution *)

(* classifyClaimSource, as the checkpoint usage it selects *)
ClaimSource(r) ==
  IF r.version = 1 /\ ~r.started /\ ~HasPlan(r) /\ r.cur = None
  THEN "ClaimInitial" ELSE "ClaimContinuation"

(* slip: the frozen configuration hash is not compared *)
ClaimOutcomeAnyConfig(r, now, config) ==
  IF Expired(r, now) THEN "ExpiredTerminalized"
  ELSE IF ~CheckpointValid(r, ClaimSource(r)) THEN "CheckpointInvalidTerminalized"
  ELSE "Claimed"

ClaimOutcome(r, now, config) ==
  IF Expired(r, now) THEN "ExpiredTerminalized"
  ELSE IF ~CheckpointValid(r, ClaimSource(r)) THEN "CheckpointInvalidTerminalized"
  ELSE IF r.hash # config THEN "ConfigMismatchInterrupted"
  ELSE "Claimed"

(* commitClaim, and the Execution checkpoint of a run without a plan *)
CommitClaim(r, worker) ==
  LET claimed == [r EXCEPT !.exec = "RUNNING", !.worker = worker, !.started = TRUE,
                           !.run = "Running", !.task = "Running", !.queuedAt = None]
  IN  IF ~HasPlan(r) /\ (ClaimSource(r) = "ClaimInitial" \/ r.ckpt.source)
      THEN [claimed EXCEPT !.ckpt = NextCheckpoint(claimed, "GENERATE_PLAN")]
      ELSE claimed

(* slip: the interrupted task stays in the queue *)
InterruptConfigMismatchQueued(r) ==
  [r EXCEPT !.exec = "INTERRUPTED", !.cause = "CONFIG_VERSION_MISMATCH",
            !.task = "INTERRUPTED", !.error = "CONFIG_VERSION_MISMATCH",
            !.worker = None, !.report = TRUE]

InterruptConfigMismatch(r) ==
  [r EXCEPT !.exec = "INTERRUPTED", !.cause = "CONFIG_VERSION_MISMATCH",
            !.task = "INTERRUPTED", !.error = "CONFIG_VERSION_MISMATCH",
            !.queuedAt = None, !.worker = None, !.report = TRUE]

(* terminalizeClaim leaves the current step as it is *)
TerminalizeClaim(r, error) == Closed(r, "Failed", error, error)

Claim(r, now, config, worker) ==
  CASE ClaimOutcome(r, now, config) = "ExpiredTerminalized" ->
         TerminalizeClaim(r, "TaskTimeout")
    [] ClaimOutcome(r, now, config) = "CheckpointInvalidTerminalized" ->
         TerminalizeClaim(r, "CheckpointInvalid")
    [] ClaimOutcome(r, now, config) = "ConfigMismatchInterrupted" ->
         InterruptConfigMismatch(r)
    [] OTHER -> CommitClaim(r, worker)

----------------------------------------------------------------------------
(* CancelTask and ExpireTask *)

(* slip: the tool call in flight is forgotten *)
TerminationKeepsTool(r, status, error) ==
  StepFailed(Closed(r, status, error, "none"), OpenStep)

(* terminationRequest applied: a config mismatch already recorded on the   *)
(* execution is kept; a write tool in flight ends UNKNOWN.                 *)
Termination(r, status, error) ==
  LET inFlight == r.tool = "RUNNING"
      write == Kind(r) = "write"
      cause == IF r.cause = "CONFIG_VERSION_MISMATCH" THEN r.cause
               ELSE IF inFlight /\ write THEN "WriteToolInterrupted" ELSE "none"
  IN  [StepFailed(Closed(r, status, error, cause), OpenStep)
         EXCEPT !.tool = IF ~inFlight THEN r.tool
                         ELSE IF write THEN "UNKNOWN" ELSE "FAILED"]

(* slip: a cancel beats the deadline *)
CancelledWhenever(r, now) == Termination(r, "Cancelled", "TaskCancelled")

Cancelled(r, now) ==
  IF Expired(r, now) THEN Termination(r, "Failed", "TaskTimeout")
  ELSE Termination(r, "Cancelled", "TaskCancelled")

ExpiredRow(r) == Termination(r, "Failed", "TaskTimeout")

----------------------------------------------------------------------------
(* RecoverTask *)

(* slips: the deadline is not checked; the configuration is not compared *)
RecoverOutcomeLate(r, now, config) ==
  IF Terminal(r) \/ RecoveryPhase(r) = "none" \/ r.hash # config THEN "Rejected"
  ELSE IF RecoverySourceValid(r) /\ CanTaskTransition(r.task, "Pending")
          /\ r.ckpt.action = "GENERATE_PLAN"
  THEN "Recovered" ELSE "error"

RecoverOutcomeAnyConfig(r, now, config) ==
  IF Terminal(r) \/ Expired(r, now) \/ RecoveryPhase(r) = "none" THEN "Rejected"
  ELSE IF RecoverySourceValid(r) /\ CanTaskTransition(r.task, "Pending")
          /\ r.ckpt.action = "GENERATE_PLAN"
  THEN "Recovered" ELSE "error"

(* The checks in the order the transaction makes them.  An "error" rolls   *)
(* the transaction back; a "Rejected" only stores the command's receipt.   *)
RecoverOutcome(r, now, config) ==
  LET failure(code) == IF r.step # "none" \/ r.tool # "none" THEN "error" ELSE code
  IN  IF Terminal(r) THEN "Rejected"
      ELSE IF Expired(r, now) THEN failure("TaskTimeout")
      ELSE IF RecoveryPhase(r) = "none" THEN "Rejected"
      ELSE IF ~RecoverySourceValid(r) THEN failure("CheckpointInvalid")
      ELSE IF r.ckpt.action # "GENERATE_PLAN" THEN "error"
      ELSE IF r.hash # config THEN "Rejected"
      ELSE IF ~CanTaskTransition(r.task, "Pending") THEN "error"
      ELSE "Recovered"

(* terminalizeFailure *)
RecoveryFailure(r, error) == Closed(r, "Failed", error, error)

(* slip: the interrupted execution is queued again under its own version *)
RecoveredInPlace(r, now, config) ==
  [r EXCEPT !.task = "Pending", !.error = "none", !.queuedAt = now, !.run = "Pending",
            !.exec = "QUEUED", !.worker = None, !.cause = "none", !.started = FALSE,
            !.ckpt = [r.ckpt EXCEPT !.seq = @ + 1, !.source = TRUE]]

(* the next version, queued, with its Recovery Start checkpoint *)
Recovered(r, now, config) ==
  [r EXCEPT !.task = "Pending", !.error = "none", !.version = @ + 1,
            !.queuedAt = now, !.run = "Pending", !.exec = "QUEUED",
            !.worker = None, !.hash = config, !.cause = "none", !.started = FALSE,
            !.tool = "none", !.approval = "none",
            !.ckpt = [r.ckpt EXCEPT !.seq = @ + 1, !.source = TRUE]]

(* loadView: what Query tells an operator about Recover *)
Recoverable(r, now, config) ==
  /\ r.task \in {"Running", "INTERRUPTED"}
  /\ r.exec = "INTERRUPTED" /\ r.queuedAt = None
  /\ ~Expired(r, now)
  /\ RecoverySourceValid(r)
  /\ ~(Kind(r) = "write" /\ r.tool \in {"RUNNING", "UNKNOWN"})
  /\ r.hash = config
----------------------------------------------------------------------------
(* ExecuteClaimedExecution *)

(* executionClaimOwnsFacts: the claim still owns a running execution       *)
ClaimOwns(r, version, worker, now) ==
  /\ r.task = "Running" /\ r.run = "Running" /\ r.exec = "RUNNING" /\ r.queuedAt = None
  /\ CheckGuard(r.version, version, r.worker, worker, r.createdAt + TaskTimeout, now)

(* ExecutionActionGuard: the checkpoint the action was frozen in           *)
Frozen(r) == [seq |-> r.ckpt.seq, action |-> r.ckpt.action, step |-> r.ckpt.step]

(* StartExecutionAction *)
StartStep(r) == [r EXCEPT !.step = IF r.step = "Pending" THEN "Running" ELSE r.step]

(* ApplyPlannerCompleted: the plan, its pending steps, the first action    *)
PlanApplied(r, plan) ==
  LET planned == [r EXCEPT !.plan = plan, !.cur = 1, !.step = "Pending"]
  IN  [planned EXCEPT !.ckpt = NextCheckpoint(planned, ActionForKind(plan[1]))]

(* slip: the checkpoint is saved before the run moves to the next step *)
StepCompletedEarlyCheckpoint(r) ==
  IF HasLaterStep(r)
  THEN [r EXCEPT !.cur = r.cur + 1, !.step = "Pending", !.tool = "none", !.approval = "none",
                 !.ckpt = NextCheckpoint(r, ActionForKind(r.plan[r.cur + 1]))]
  ELSE [r EXCEPT !.step = "Completed", !.ckpt = NextCheckpoint(r, "FINALIZE_RUN")]

(* ApplyStepCompleted: the next step with its frozen action, or FINALIZE_RUN *)
StepCompleted(r) ==
  LET done == [r EXCEPT !.step = "Completed",
                        !.tool = IF r.tool = "none" THEN "none" ELSE "COMPLETED"]
      next == [r EXCEPT !.cur = r.cur + 1, !.step = "Pending", !.tool = "none",
                        !.approval = "none"]
  IN  IF HasLaterStep(r)
      THEN [next EXCEPT !.ckpt = NextCheckpoint(next, ActionForKind(next.plan[next.cur]))]
      ELSE [done EXCEPT !.ckpt = NextCheckpoint(done, "FINALIZE_RUN")]

(* FinalizeExecution *)
Finalized(r) ==
  [r EXCEPT !.task = "Completed", !.run = "Completed", !.exec = "COMPLETED", !.report = TRUE]

(* TerminalizeExecution, with the tool call the failed action had begun    *)
ActionTerminalized(r) ==
  [StepFailed(Closed(r, "Failed", "ActionFailed", "ActionFailed"), OpenStep)
     EXCEPT !.tool = IF r.tool # "RUNNING" THEN r.tool
                     ELSE IF Kind(r) = "write" THEN "UNKNOWN" ELSE "FAILED"]

(* TerminalizeCheckpointInvalid names only a running step as active and    *)
(* has no field for a ToolExecution.                                       *)
CheckpointInvalidTerminalized(r) ==
  StepFailed(Closed(r, "Failed", "CheckpointInvalid", "CheckpointInvalid"), {"Running"})

----------------------------------------------------------------------------
(* The Approval Manager *)

(* RequestApproval hands the execution over to the approver                *)
ApprovalRequested(r) ==
  [r EXCEPT !.task = "WaitingApproval", !.run = "WaitingApproval",
            !.step = "WaitingApproval", !.exec = "WAITING_APPROVAL",
            !.worker = None, !.approval = "Pending",
            !.ckpt = [NextCheckpoint(r, "REQUEST_APPROVAL") EXCEPT !.approval = TRUE]]

(* slip: the approved execution runs on instead of being queued *)
ApprovedRunning(r, now) ==
  [r EXCEPT !.task = "Running", !.run = "Running", !.step = "Running",
            !.exec = "RUNNING", !.queuedAt = now, !.approval = "Approved",
            !.ckpt = [NextCheckpoint(r, "EXECUTE_APPROVED_TOOL") EXCEPT !.approval = TRUE]]

(* Approve queues the same version again, at the end of the queue          *)
Approved(r, now) ==
  [r EXCEPT !.task = "Running", !.run = "Running", !.step = "Running",
            !.exec = "QUEUED", !.queuedAt = now, !.approval = "Approved",
            !.ckpt = [NextCheckpoint(r, "EXECUTE_APPROVED_TOOL") EXCEPT !.approval = TRUE]]

(* Reject cancels the task *)
Rejected(r) ==
  [StepFailed(Closed(r, "Cancelled", "TaskCancelled", "none"), OpenStep)
     EXCEPT !.approval = "Rejected"]

(* a decision on a damaged WaitingApproval checkpoint *)
DecisionCheckpointInvalid(r) ==
  StepFailed(Closed(r, "Failed", "CheckpointInvalid", "CheckpointInvalid"), OpenStep)

----------------------------------------------------------------------------
(* StartupCleanup *)

(* slip: an execution caught while planning, without a step, is refused *)
StartupAcceptsSteps(r, config) ==
  /\ r.task = "Running" /\ r.run = "Running" /\ r.queuedAt = None
  /\ r.step = "Running" /\ r.hash = config

(* validateStartupFacts and the configuration check: a row that fails      *)
(* either one aborts the whole cleanup.                                    *)
StartupAccepts(r, config) ==
  /\ r.task = "Running" /\ r.run = "Running" /\ r.queuedAt = None
  /\ r.step \in {"none", "Running"}
  /\ r.hash = config
  /\ r.tool # "none" => IsToolKind(Kind(r)) /\ r.tool = "RUNNING"

(* validateStartupScene: the frozen action explains the scene *)
StartupSceneMatches(r) ==
  CASE r.ckpt.action = "GENERATE_PLAN" -> r.cur = None /\ r.tool = "none"
    [] r.ckpt.action = "EXECUTE_STEP" -> ~r.ckpt.approval /\ Kind(r) # "write"
    [] r.ckpt.action = "REQUEST_APPROVAL" ->
         Kind(r) = "write" /\ r.tool = "none" /\ ~r.ckpt.approval
    [] r.ckpt.action = "EXECUTE_APPROVED_TOOL" ->
         Kind(r) = "write" /\ r.ckpt.approval /\ r.approval = "Approved"
    [] r.ckpt.action = "FINALIZE_RUN" -> FALSE

(* slip: a write tool in flight is interrupted like any other call *)
StartupDispositionAnyTool(r, now) ==
  IF Expired(r, now) THEN "timeout"
  ELSE IF ~(CheckpointValid(r, "StartupCleanup") /\ StartupSceneMatches(r))
       THEN "checkpointInvalid" ELSE "interrupt"

StartupDisposition(r, now) ==
  IF Expired(r, now) THEN "timeout"
  ELSE IF ~(CheckpointValid(r, "StartupCleanup") /\ StartupSceneMatches(r))
       THEN "checkpointInvalid"
  ELSE IF Kind(r) = "write" /\ r.tool = "RUNNING" THEN "writeTool"
  ELSE "interrupt"

StartupCleaned(r, now) ==
  LET write == Kind(r) = "write" /\ r.tool = "RUNNING"
      readTool(to) == IF r.tool = "RUNNING" THEN to ELSE r.tool
      close(error, cause, tool) ==
        [StepFailed(Closed(r, "Failed", error, cause), OpenStep) EXCEPT !.tool = tool]
  IN  CASE StartupDisposition(r, now) = "timeout" ->
             IF write THEN close("TaskTimeout", "WriteToolInterrupted", "UNKNOWN")
                      ELSE close("TaskTimeout", "none", readTool("FAILED"))
        [] StartupDisposition(r, now) = "checkpointInvalid" ->
             close("CheckpointInvalid", "CheckpointInvalid", r.tool)
        [] StartupDisposition(r, now) = "writeTool" ->
             close("WriteToolInterrupted", "WriteToolInterrupted", "UNKNOWN")
        [] OTHER ->
             [r EXCEPT !.exec = "INTERRUPTED", !.cause = "WorkerInterrupted",
                       !.tool = readTool("FAILED")]
=============================================================================
