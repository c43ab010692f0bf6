------------------------------ MODULE Lifecycle ------------------------------
(***************************************************************************)
(* The shared task-lifecycle policy (internal/lifecycle/policy.go) over    *)
(* the closed status sets of internal/contracts/status.go.  Claims,        *)
(* terminations, recoveries and cleanups ask it before they write, the     *)
(* transactions of the loop and of the Approval Manager do not.            *)
(*                                                                         *)
(* NULL columns (queued_at, worker_id, current_step_id) are the number     *)
(* None, which is below every clock reading, worker instance and step.     *)
(***************************************************************************)
EXTENDS Integers

None == 0

TaskStatus == {"Pending", "Running", "WaitingApproval", "INTERRUPTED",
               "Completed", "Failed", "Cancelled"}
TerminalTaskStatus == {"Completed", "Failed", "Cancelled"}
RunStatus == {"Pending", "Running", "WaitingApproval", "Completed", "Failed"}
StepStatus == RunStatus
ExecutionStatus == {"QUEUED", "RUNNING", "WAITING_APPROVAL", "COMPLETED",
                    "FAILED", "INTERRUPTED"}
ToolExecutionStatus == {"RUNNING", "COMPLETED", "FAILED", "UNKNOWN"}
ApprovalStatus == {"Pending", "Approved", "Rejected"}

(***************************************************************************)
(* The transition tables: the pairs <<from, to>> each Can...Transition     *)
(* function allows.  Staying in a status is not a transition.              *)
(***************************************************************************)
TaskEdges ==
  ({"Pending"} \X {"Running", "INTERRUPTED", "Cancelled", "Failed"})
  \cup ({"Running"} \X {"WaitingApproval", "INTERRUPTED", "Completed", "Failed", "Cancelled"})
  \cup ({"WaitingApproval"} \X {"Running", "Cancelled", "Failed"})
  \cup ({"INTERRUPTED"} \X {"Pending", "Running", "Cancelled", "Failed"})

RunEdges ==
  ({"Pending"} \X {"Running", "Failed"})
  \cup ({"Running"} \X {"WaitingApproval", "Completed", "Failed"})
  \cup ({"WaitingApproval"} \X {"Running", "Failed"})

StepEdges == RunEdges

ExecutionEdges ==
  ({"QUEUED"} \X {"RUNNING", "INTERRUPTED", "FAILED"})
  \cup ({"RUNNING"} \X {"WAITING_APPROVAL", "COMPLETED", "FAILED", "INTERRUPTED"})
  \cup ({"WAITING_APPROVAL"} \X {"QUEUED", "FAILED"})
  \cup ({"INTERRUPTED"} \X {"FAILED"})

CanTaskTransition(from, to) == <<from, to>> \in TaskEdges
CanRunTransition(from, to) == <<from, to>> \in RunEdges
CanStepTransition(from, to) == <<from, to>> \in StepEdges
CanExecutionTransition(from, to) == <<from, to>> \in ExecutionEdges

(***************************************************************************)
(* CheckGuard: the request names the current version and, for a worker's   *)
(* result, the worker that owns the execution, and the database clock has  *)
(* not reached the deadline.                                               *)
(***************************************************************************)
CheckGuard(current, requested, owner, worker, deadline, now) ==
  /\ current = requested
  /\ worker # None => owner = worker
  /\ now < deadline
=============================================================================
