------------------------------ MODULE Checkpoint ------------------------------
(***************************************************************************)
(* The durable facts of one task and what the Checkpoint Manager           *)
(* (internal/checkpoint) accepts about them.                               *)
(*                                                                         *)
(* A row joins what one transaction locks together: the task, its run, the *)
(* TaskExecution of the current version, the current step, that step's     *)
(* ToolExecution and Approval in the current version, the latest           *)
(* checkpoint, and whether a pending report exists.  Executions of earlier *)
(* versions are immutable history no transaction of the runtime reads.     *)
(*                                                                         *)
(*   plan     the kinds of the frozen steps; <<>> while there is no plan   *)
(*   cur      run.current_step_id as an index into plan                    *)
(*   step     the status of plan[cur] ("none" without a current step);     *)
(*            earlier steps are Completed, later ones Pending              *)
(*   cause    the error code of the execution, error that of the task      *)
(*   started  execution.started_at is set                                  *)
(*   tool     the current step's ToolExecution in the current version      *)
(*                                                                         *)
(* A checkpoint keeps its sequence number, the frozen next action, the     *)
(* step it names, whether it is a Recovery Start (has a source) and        *)
(* whether it carries an approval.  "ok" is FALSE once the stored context  *)
(* can no longer be decoded, attributed or matched to the execution hash.  *)
(***************************************************************************)
EXTENDS Lifecycle, Sequences

CONSTANTS Plans,        \* the step lists a Planner may return
          Configs       \* the execution configuration hashes

StepKind == {"model", "read", "write"}

ASSUME PlansAssumption ==
  /\ \A p \in Plans : p \in Seq(StepKind) /\ Len(p) > 0
  /\ Configs # {}

NextAction == {"GENERATE_PLAN", "EXECUTE_STEP", "REQUEST_APPROVAL",
               "EXECUTE_APPROVED_TOOL", "FINALIZE_RUN"}

ErrorCode == {"none", "TaskTimeout", "TaskCancelled", "CheckpointInvalid",
              "CONFIG_VERSION_MISMATCH", "WriteToolInterrupted",
              "WorkerInterrupted", "ActionFailed"}

CheckpointRow == [seq : Nat, action : NextAction, step : Nat,
                  source : BOOLEAN, approval : BOOLEAN, ok : BOOLEAN]

Row == [task : TaskStatus, error : ErrorCode, version : Nat, createdAt : Nat,
        queuedAt : Nat, run : RunStatus, plan : Plans \cup {<<>>}, cur : Nat,
        step : StepStatus \cup {"none"}, exec : ExecutionStatus, worker : Nat,
        hash : Configs, cause : ErrorCode, started : BOOLEAN,
        tool : ToolExecutionStatus \cup {"none"},
        approval : ApprovalStatus \cup {"none"}, ckpt : CheckpointRow,
        report : BOOLEAN]

Terminal(r) == r.task \in TerminalTaskStatus
HasPlan(r) == r.plan # <<>>
Kind(r) == IF r.cur = None THEN "none" ELSE r.plan[r.cur]
IsToolKind(kind) == kind \in {"read", "write"}
HasLaterStep(r) == r.cur < Len(r.plan)

(***************************************************************************)
(* nextActionForStep: the frozen action of a step that is about to run.    *)
(***************************************************************************)
ActionForKind(kind) == IF kind = "write" THEN "REQUEST_APPROVAL" ELSE "EXECUTE_STEP"

(***************************************************************************)
(* The next checkpoint of a run.  Saving never reuses a sequence number;   *)
(* the context copies the current step of the row it is saved with.        *)
(***************************************************************************)
NextCheckpoint(r, action) ==
  [seq |-> r.ckpt.seq + 1, action |-> action, step |-> r.cur,
   source |-> FALSE, approval |-> FALSE, ok |-> TRUE]

InferType(r) ==
  IF r.ckpt.source THEN "RecoveryStart"
  ELSE IF r.version = 1 /\ r.ckpt.seq = 1 /\ r.ckpt.action = "GENERATE_PLAN"
       THEN "Initialization" ELSE "Execution"

(***************************************************************************)
(* validatePlanAndStep and validateApproval: the context and the run name  *)
(* the same plan, step and approval; an approval of the current step that  *)
(* the context leaves out is refused like one it names and nobody filed.   *)
(***************************************************************************)
ReferencesMatch(r) ==
  /\ r.ckpt.action = "GENERATE_PLAN" <=> ~HasPlan(r)
  /\ r.ckpt.step = r.cur
  /\ r.ckpt.approval <=> r.approval # "none"

(***************************************************************************)
(* toolExecutionAllowed: a ToolExecution of the current step may exist     *)
(* only where the frozen action explains it.                               *)
(***************************************************************************)
ToolExecutionAllowed(r, usage) ==
  \/ r.tool = "none"
  \/ /\ r.ckpt.action \in {"EXECUTE_STEP", "EXECUTE_APPROVED_TOOL"}
     /\ usage = "StartupCleanup"
     /\ IsToolKind(Kind(r)) /\ r.tool = "RUNNING"
  \/ /\ r.ckpt.action = "FINALIZE_RUN"
     /\ IsToolKind(Kind(r)) /\ r.tool = "COMPLETED"

ActionMatches(r, usage) ==
  CASE r.ckpt.action = "GENERATE_PLAN" -> r.cur = None /\ ~r.ckpt.approval
    [] r.ckpt.action = "EXECUTE_STEP" ->
         /\ HasPlan(r) /\ r.step \in {"Pending", "Running"} /\ ~r.ckpt.approval
         /\ ToolExecutionAllowed(r, usage)
    [] r.ckpt.action = "REQUEST_APPROVAL" ->
         /\ HasPlan(r) /\ IsToolKind(Kind(r)) /\ r.step \in {"Pending", "Running"}
         /\ ~r.ckpt.approval /\ r.tool = "none"
    [] r.ckpt.action = "EXECUTE_APPROVED_TOOL" ->
         /\ IsToolKind(Kind(r)) /\ r.step = "Running"
         /\ r.ckpt.approval /\ r.approval = "Approved"
         /\ ToolExecutionAllowed(r, usage)
    [] r.ckpt.action = "FINALIZE_RUN" ->
         /\ HasPlan(r) /\ r.step = "Completed" /\ ~HasLaterStep(r)
         /\ ~r.ckpt.approval /\ ToolExecutionAllowed(r, usage)

(***************************************************************************)
(* validateUsage, with the checkpoint types a claim refuses.               *)
(***************************************************************************)
UsageMatches(r, usage) ==
  CASE usage = "ClaimInitial" ->
         /\ r.ckpt.action = "GENERATE_PLAN" /\ r.version = 1
         /\ r.task = "Pending" /\ r.run = "Pending" /\ r.exec = "QUEUED"
         /\ r.worker = None /\ r.queuedAt # None /\ InferType(r) = "Initialization"
    [] usage = "ClaimContinuation" ->
         /\ r.exec = "QUEUED" /\ r.worker = None /\ r.queuedAt # None
         /\ LET status == IF r.ckpt.action = "GENERATE_PLAN" THEN "Pending" ELSE "Running"
            IN  r.task = status /\ r.run = status
         /\ InferType(r) # "Initialization"
    [] usage \in {"ExecutionDispatch", "StartupCleanup"} ->
         /\ r.task = "Running" /\ r.run = "Running" /\ r.exec = "RUNNING"
         /\ r.worker # None

(***************************************************************************)
(* loadAndValidateLatest: the latest checkpoint of the current version is  *)
(* intact and fits the facts it is used with.                              *)
(***************************************************************************)
CheckpointValid(r, usage) ==
  r.ckpt.ok /\ ReferencesMatch(r) /\ ActionMatches(r, usage) /\ UsageMatches(r, usage)
(***************************************************************************)
(* recoveryPhase: which interrupted versions a Recover may continue from.  *)
(***************************************************************************)
RecoveryPhase(r) ==
  CASE \/ Terminal(r) \/ r.queuedAt # None
       \/ r.exec # "INTERRUPTED" \/ r.cause = "none" -> "none"
    [] OTHER ->
       IF /\ r.task = "INTERRUPTED" /\ r.run = "Pending"
          /\ r.cause = "CONFIG_VERSION_MISMATCH" /\ ~r.started
          /\ ~HasPlan(r) /\ r.cur = None /\ r.tool = "none"
       THEN "BeforeFirstExecution"
       ELSE IF /\ r.run = "Running" /\ r.task \in {"Running", "INTERRUPTED"}
               /\ r.cause \in {"WorkerInterrupted", "RESULT_PERSISTENCE_FAILED",
                               "CONFIG_VERSION_MISMATCH"}   \* nothing writes the second
            THEN "StartedExecution" ELSE "none"

(***************************************************************************)
(* validateRecoveryActionConsequence: what the interrupted version left    *)
(* behind must let its frozen action be repeated.                          *)
(***************************************************************************)
ActionRepeatable(r) ==
  /\ r.tool \notin {"RUNNING", "UNKNOWN"}
  /\ r.cause = "CONFIG_VERSION_MISMATCH" => r.tool = "none"
  /\ CASE r.ckpt.action = "GENERATE_PLAN" ->
             ~HasPlan(r) /\ r.cur = None /\ r.approval = "none" /\ r.tool = "none"
       [] r.ckpt.action = "EXECUTE_STEP" ->
             /\ r.step = "Running" /\ r.approval = "none"
             /\ r.tool # "none" => IsToolKind(Kind(r)) /\ r.tool = "FAILED"
       [] r.ckpt.action = "REQUEST_APPROVAL" ->
             /\ IsToolKind(Kind(r)) /\ r.step = "Running" /\ ~r.ckpt.approval
             /\ r.approval = "none" /\ r.tool = "none" /\ r.cause = "WorkerInterrupted"
       [] r.ckpt.action = "EXECUTE_APPROVED_TOOL" ->
             /\ r.step = "Running" /\ r.ckpt.approval /\ r.approval = "Approved"
             /\ r.tool = "none"
       [] r.ckpt.action = "FINALIZE_RUN" ->
             /\ r.step = "Completed" /\ ~HasLaterStep(r)
             /\ r.tool = "none" /\ r.cause = "WorkerInterrupted"

(***************************************************************************)
(* ValidateRecoverySource: the closed matrix over phase and error code.    *)
(***************************************************************************)
RecoverySourceValid(r) ==
  /\ r.ckpt.ok /\ ReferencesMatch(r)
  /\ \/ /\ RecoveryPhase(r) = "BeforeFirstExecution"
        /\ r.error = "CONFIG_VERSION_MISMATCH" /\ r.ckpt.action = "GENERATE_PLAN"
        /\ r.step = "none" /\ r.approval = "none"
        /\ InferType(r) \in {"Initialization", "RecoveryStart"}
     \/ /\ RecoveryPhase(r) = "StartedExecution"
        /\ InferType(r) # "Initialization"
        /\ IF r.cause = "CONFIG_VERSION_MISMATCH"
           THEN /\ r.task = "INTERRUPTED" /\ r.error = "CONFIG_VERSION_MISMATCH"
                /\ \/ InferType(r) = "RecoveryStart" /\ ~r.started
                   \/ /\ InferType(r) = "Execution" /\ r.started
                      /\ r.ckpt.action = "EXECUTE_APPROVED_TOOL"
           ELSE r.task = "Running" /\ r.started
        /\ ActionRepeatable(r)

=============================================================================
