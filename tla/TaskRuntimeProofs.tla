-------------------------- MODULE TaskRuntimeProofs --------------------------
(***************************************************************************)
(* Proofs about the task runtime, for every set of tasks, plans and        *)
(* configurations, every timeout and every bound on restarts.              *)
(*                                                                         *)
(* The cross-object states are not inductive by themselves.  What a        *)
(* transaction writes depends on the row it reads being explained by its   *)
(* own history (RowInv) and, inside ExecuteClaimedExecution, on the action *)
(* the worker froze still being the one in the row while the row runs      *)
(* (WorkerInv).                                                            *)
(***************************************************************************)
EXTENDS TaskRuntimeProperties, TLAPS

RowInv(r) ==
  /\ PlanPosition(r)
  /\ \/ FreshRow(r) \/ ApprovedRow(r) \/ OwnedRow(r) \/ WaitingRow(r)
     \/ InterruptedRow(r) \/ EndedRow(r)
  /\ r.exec = "QUEUED" => r.tool = "none"
  /\ r.exec = "INTERRUPTED" /\ Kind(r) = "write" => r.tool = "none"
  /\ r.task \notin {"Failed", "Cancelled", "INTERRUPTED"} => r.error = "none"

GoodRow(r) == r \in Row /\ RowInv(r)

RowsInv == \A t \in Tasks : Exists(t) => GoodRow(db[t])

ProcessInv ==
  /\ now # None
  /\ host # "down" => inst # None
  /\ host # "up" => w = Idle

WorkerInv ==
  /\ w.pc # "idle" => w.task \in Tasks /\ Exists(w.task)
  /\ /\ w.pc \in {"prepare", "start", "activate", "call", "commit", "fail", "finalize"}
     /\ Dispatched.exec = "RUNNING"
     => Frozen(Dispatched) = w.guard
  /\ w.pc = "finalize" => w.guard.action = "FINALIZE_RUN"

IInv == TypeOK /\ RowsInv /\ ProcessInv /\ WorkerInv

----------------------------------------------------------------------------
(* The rows transactions write *)

(* A checkpoint of a row, with the row's own step and the next number.     *)
LEMMA NextCheckpointType ==
  ASSUME NEW r \in Row, NEW action \in NextAction
  PROVE  NextCheckpoint(r, action) \in CheckpointRow
BY DEF NextCheckpoint, Row, CheckpointRow

(* Every step kind freezes one of the actions (nextActionForStep).         *)
LEMMA ActionForKindType ==
  ASSUME NEW kind
  PROVE  ActionForKind(kind) \in {"REQUEST_APPROVAL", "EXECUTE_STEP"}
BY DEF ActionForKind

(* The closing writes leave a row that ended for good, whatever was open.  *)
LEMMA ClosedGood ==
  ASSUME NEW r, GoodRow(r), NEW status \in {"Failed", "Cancelled"},
         NEW error \in ErrorCode \ {"none"}, NEW cause \in ErrorCode
  PROVE  /\ GoodRow(Closed(r, status, error, cause))
         /\ Closed(r, status, error, cause).task = status
         /\ EndedRow(Closed(r, status, error, cause))
<1> DEFINE n == Closed(r, status, error, cause)
<1>0. r \in Row /\ RowInv(r)
  BY DEF GoodRow
<1>1. n \in Row
  BY <1>0 DEF Closed, Row, TaskStatus, RunStatus, ExecutionStatus, None
<1>2. /\ n.plan = r.plan /\ n.cur = r.cur /\ n.step = r.step
      /\ n.exec = "FAILED" /\ n.run = "Failed" /\ n.task = status
      /\ n.error = error /\ n.queuedAt = None /\ n.report = TRUE
  BY <1>0 DEF Closed, Row
<1>3. PlanPosition(n)
  BY <1>0, <1>2 DEF RowInv, PlanPosition, HasPlan
<1>4. EndedRow(n)
  BY <1>2 DEF EndedRow
<1> QED BY <1>1, <1>2, <1>3, <1>4 DEF GoodRow, RowInv

(* An ended row stays one whatever happens to its tool, approval or step,  *)
(* as long as a step it has is kept.                                       *)
LEMMA EndedKept ==
  ASSUME NEW r, GoodRow(r), EndedRow(r), r.task \in {"Failed", "Cancelled"},
         NEW n \in Row, n.plan = r.plan, n.cur = r.cur, n.exec = r.exec, n.run = r.run,
         n.task = r.task, n.error = r.error, n.queuedAt = r.queuedAt, n.report = r.report,
         n.step = "none" <=> r.step = "none"
  PROVE  GoodRow(n) /\ EndedRow(n) /\ n.task \in {"Failed", "Cancelled"}
<1>1. EndedRow(n) /\ n.exec = "FAILED"
  BY DEF EndedRow
<1>2. PlanPosition(n)
  BY DEF GoodRow, RowInv, PlanPosition, HasPlan
<1> QED BY <1>1, <1>2 DEF GoodRow, RowInv

(* Closing the step of an ended row, and then its tool call or approval.   *)
LEMMA StepFailedGood ==
  ASSUME NEW r, GoodRow(r), EndedRow(r), r.task \in {"Failed", "Cancelled"}, NEW statuses, "none" \notin statuses
  PROVE  /\ GoodRow(StepFailed(r, statuses)) /\ EndedRow(StepFailed(r, statuses))
         /\ StepFailed(r, statuses).task \in {"Failed", "Cancelled"}
<1> DEFINE n == StepFailed(r, statuses)
<1>1. r \in Row
  BY DEF GoodRow
<1>2. n \in Row
  BY <1>1 DEF StepFailed, Row, StepStatus, RunStatus
<1>3. /\ n.plan = r.plan /\ n.cur = r.cur /\ n.exec = r.exec /\ n.run = r.run
      /\ n.task = r.task /\ n.error = r.error /\ n.queuedAt = r.queuedAt
      /\ n.report = r.report /\ n.step \in {r.step, "Failed"}
      /\ (n.step = "none" <=> r.step = "none")
  BY <1>1, "none" \notin statuses DEF StepFailed, Row, StepStatus, RunStatus
<1>4. GoodRow(n) /\ EndedRow(n) /\ n.task \in {"Failed", "Cancelled"}
  <2> HIDE DEF n
  <2> QED BY <1>2, <1>3, EndedKept
<1> QED BY <1>4

(* The tool call of an ended row may be closed too.                        *)
LEMMA ToolClosedGood ==
  ASSUME NEW r, GoodRow(r), EndedRow(r), r.task \in {"Failed", "Cancelled"},
         NEW tool \in ToolExecutionStatus \cup {"none"}
  PROVE  GoodRow([r EXCEPT !.tool = tool]) /\ EndedRow([r EXCEPT !.tool = tool])
<1> DEFINE n == [r EXCEPT !.tool = tool]
<1>1. r \in Row
  BY DEF GoodRow
<1>2. n \in Row
  BY <1>1 DEF Row
<1>3. /\ n.plan = r.plan /\ n.cur = r.cur /\ n.exec = r.exec /\ n.run = r.run
      /\ n.task = r.task /\ n.error = r.error /\ n.queuedAt = r.queuedAt
      /\ n.report = r.report /\ n.step = r.step
  BY <1>1 DEF Row
<1>4. GoodRow(n) /\ EndedRow(n)
  <2> HIDE DEF n
  <2> QED BY <1>2, <1>3, EndedKept
<1> QED BY <1>4

(* And so may its approval.                                                *)
LEMMA ApprovalClosedGood ==
  ASSUME NEW r, GoodRow(r), EndedRow(r), r.task \in {"Failed", "Cancelled"}
  PROVE  /\ GoodRow([r EXCEPT !.approval = "Rejected"])
         /\ EndedRow([r EXCEPT !.approval = "Rejected"])
<1> DEFINE n == [r EXCEPT !.approval = "Rejected"]
<1>1. r \in Row
  BY DEF GoodRow
<1>2. n \in Row
  BY <1>1 DEF Row, ApprovalStatus
<1>3. /\ n.plan = r.plan /\ n.cur = r.cur /\ n.exec = r.exec /\ n.run = r.run
      /\ n.task = r.task /\ n.error = r.error /\ n.queuedAt = r.queuedAt
      /\ n.report = r.report /\ n.step = r.step
  BY <1>1 DEF Row
<1>4. GoodRow(n) /\ EndedRow(n)
  <2> HIDE DEF n
  <2> QED BY <1>2, <1>3, EndedKept
<1> QED BY <1>4

(* The status of the execution tells which kind of row it is.              *)
LEMMA RowKinds ==
  ASSUME NEW r, GoodRow(r)
  PROVE  /\ r.exec = "QUEUED" => FreshRow(r) \/ ApprovedRow(r)
         /\ r.queuedAt # None => r.exec = "QUEUED"
         /\ r.exec = "RUNNING" => OwnedRow(r)
         /\ r.task = "WaitingApproval" => WaitingRow(r)
         /\ r.exec = "INTERRUPTED" => InterruptedRow(r)
         /\ Terminal(r) <=> EndedRow(r)
BY DEF GoodRow, RowInv, FreshRow, ApprovedRow, OwnedRow, WaitingRow, InterruptedRow,
       EndedRow, Terminal, TerminalTaskStatus

(* CreateTask inserts a fresh row.                                         *)
LEMMA InitialRowGood ==
  ASSUME NEW t \in Nat \ {0}, NEW c \in Configs
  PROVE  GoodRow(InitialRow(t, c))
<1> DEFINE n == InitialRow(t, c)
<1>1. n.ckpt \in CheckpointRow
  BY DEF InitialRow, CheckpointRow, NextAction, None
<1>2. n \in Row
  BY <1>1 DEF InitialRow, Row, TaskStatus, RunStatus, StepStatus, ExecutionStatus,
              ToolExecutionStatus, ApprovalStatus, ErrorCode, None
<1>3. PlanPosition(n)
  BY DEF InitialRow, PlanPosition, HasPlan, None
<1>4. FreshRow(n)
  BY DEF InitialRow, FreshRow, HasPlan, None
<1>5. n.tool = "none" /\ n.error = "none" /\ n.exec = "QUEUED"
  BY DEF InitialRow
<1> QED BY <1>2, <1>3, <1>4, <1>5 DEF GoodRow, RowInv

(* A claim makes a queued row an owned one, with a checkpoint of its own   *)
(* for a first or recovered planning.                                      *)
LEMMA CommitClaimGood ==
  ASSUME NEW r, GoodRow(r), r.queuedAt # None, NEW worker \in Nat \ {0}
  PROVE  GoodRow(CommitClaim(r, worker))
<1> DEFINE c == [r EXCEPT !.exec = "RUNNING", !.worker = worker, !.started = TRUE,
                          !.run = "Running", !.task = "Running", !.queuedAt = None]
           n == CommitClaim(r, worker)
<1>1. r \in Row /\ RowInv(r)
  BY DEF GoodRow
<1>2. c \in Row
  BY <1>1 DEF Row, TaskStatus, RunStatus, ExecutionStatus, None
<1>3. NextCheckpoint(c, "GENERATE_PLAN") \in CheckpointRow
  BY <1>2, NextCheckpointType DEF NextAction
<1>4. \A x \in CheckpointRow : [c EXCEPT !.ckpt = x] \in Row
  BY <1>2 DEF Row
<1>5. n \in Row
  BY <1>2, <1>3, <1>4 DEF CommitClaim
<1>6. /\ n.plan = r.plan /\ n.cur = r.cur /\ n.step = r.step /\ n.error = r.error
      /\ n.exec = "RUNNING" /\ n.run = "Running" /\ n.task = "Running"
      /\ n.worker = worker /\ n.queuedAt = None /\ n.started = TRUE
  BY <1>1 DEF CommitClaim, Row
<1>7. FreshRow(r) \/ ApprovedRow(r)
  BY RowKinds
<1>8. PlanPosition(n)
  BY <1>1, <1>6 DEF RowInv, PlanPosition, HasPlan
<1>9. OwnedRow(n)
  BY <1>1, <1>6, <1>7 DEF OwnedRow, RowInv, FreshRow, ApprovedRow, PlanPosition, None
<1>10. n.error = "none"
  BY <1>1, <1>6, <1>7 DEF RowInv, FreshRow, ApprovedRow
<1> QED BY <1>5, <1>6, <1>8, <1>9, <1>10 DEF GoodRow, RowInv

(* A queued row of another configuration is left interrupted.              *)
LEMMA InterruptConfigMismatchGood ==
  ASSUME NEW r, GoodRow(r), r.queuedAt # None
  PROVE  GoodRow(InterruptConfigMismatch(r))
<1> DEFINE n == InterruptConfigMismatch(r)
<1>1. r \in Row /\ RowInv(r)
  BY DEF GoodRow
<1>2. n \in Row
  BY <1>1 DEF InterruptConfigMismatch, Row, TaskStatus, ExecutionStatus, ErrorCode, None
<1>3. /\ n.plan = r.plan /\ n.cur = r.cur /\ n.step = r.step /\ n.run = r.run
      /\ n.started = r.started /\ n.tool = r.tool /\ n.queuedAt = None
      /\ n.exec = "INTERRUPTED" /\ n.task = "INTERRUPTED" /\ n.worker = None
      /\ n.report = TRUE /\ n.cause = "CONFIG_VERSION_MISMATCH"
      /\ n.error = "CONFIG_VERSION_MISMATCH"
  BY <1>1 DEF InterruptConfigMismatch, Row
<1>4. FreshRow(r) \/ ApprovedRow(r)
  BY RowKinds
<1>5. PlanPosition(n)
  BY <1>1, <1>3 DEF RowInv, PlanPosition, HasPlan
<1>6. r.tool = "none"
  BY <1>1, <1>4 DEF RowInv, FreshRow, ApprovedRow
<1>7. InterruptedRow(n)
  BY <1>1, <1>3, <1>4, <1>6 DEF InterruptedRow, FreshRow, ApprovedRow, RowInv, PlanPosition
<1> QED BY <1>2, <1>3, <1>5, <1>6, <1>7 DEF GoodRow, RowInv

(* Every outcome of ClaimNextExecution.                                    *)
LEMMA ClaimGood ==
  ASSUME NEW r, GoodRow(r), r.queuedAt # None, NEW t, NEW c, NEW worker \in Nat \ {0}
  PROVE  GoodRow(Claim(r, t, c, worker))
<1>1. GoodRow(TerminalizeClaim(r, "TaskTimeout")) /\ GoodRow(TerminalizeClaim(r, "CheckpointInvalid"))
  BY ClosedGood DEF TerminalizeClaim, ErrorCode
<1>2. GoodRow(InterruptConfigMismatch(r)) /\ GoodRow(CommitClaim(r, worker))
  BY InterruptConfigMismatchGood, CommitClaimGood
<1> QED BY <1>1, <1>2 DEF Claim, ClaimOutcome

(* CancelTask and ExpireTask end a row whatever it was doing.              *)
LEMMA TerminationGood ==
  ASSUME NEW r, GoodRow(r), NEW status \in {"Failed", "Cancelled"},
         NEW error \in ErrorCode \ {"none"}
  PROVE  GoodRow(Termination(r, status, error)) /\ EndedRow(Termination(r, status, error))
<1> DEFINE inFlight == r.tool = "RUNNING"
           write == Kind(r) = "write"
           cause == IF r.cause = "CONFIG_VERSION_MISMATCH" THEN r.cause
                    ELSE IF inFlight /\ write THEN "WriteToolInterrupted" ELSE "none"
           tool == IF ~inFlight THEN r.tool ELSE IF write THEN "UNKNOWN" ELSE "FAILED"
           c == Closed(r, status, error, cause)
           s == StepFailed(c, OpenStep)
<1>1. cause \in ErrorCode
  BY DEF ErrorCode
<1>2. tool \in ToolExecutionStatus \cup {"none"}
  <2>1. r.tool \in ToolExecutionStatus \cup {"none"}
    BY DEF GoodRow, Row
  <2> QED BY <2>1 DEF ToolExecutionStatus
<1>3. GoodRow(c) /\ c.task \in {"Failed", "Cancelled"} /\ EndedRow(c)
  <2> HIDE DEF cause
  <2> QED BY <1>1, ClosedGood
<1>4. GoodRow(s) /\ s.task \in {"Failed", "Cancelled"} /\ EndedRow(s)
  <2> HIDE DEF c
  <2> QED BY <1>3, StepFailedGood DEF OpenStep, ActiveStep
<1>5. GoodRow([s EXCEPT !.tool = tool]) /\ EndedRow([s EXCEPT !.tool = tool])
  <2> HIDE DEF s, tool
  <2> QED BY <1>2, <1>4, ToolClosedGood
<1> QED BY <1>5 DEF Termination

(* A recovery that cannot continue ends the row.                           *)
LEMMA RecoveryFailureGood ==
  ASSUME NEW r, GoodRow(r), NEW error \in {"TaskTimeout", "CheckpointInvalid"}
  PROVE  GoodRow(RecoveryFailure(r, error)) /\ EndedRow(RecoveryFailure(r, error))
BY ClosedGood DEF RecoveryFailure, ErrorCode

(* RecoverTask only ever requeues a row that has no plan yet, as a fresh   *)
(* row of the next version.                                                *)
LEMMA RecoveredGood ==
  ASSUME NEW r, GoodRow(r), NEW t \in Nat \ {0}, NEW c \in Configs,
         RecoverOutcome(r, t, c) = "Recovered"
  PROVE  GoodRow(Recovered(r, t, c)) /\ Recovered(r, t, c).exec = "QUEUED"
<1> DEFINE n == Recovered(r, t, c)
<1>1. r \in Row /\ RowInv(r)
  BY DEF GoodRow
<1>2. ~HasPlan(r)
  BY DEF RecoverOutcome, RecoverySourceValid, ReferencesMatch
<1>3. [r.ckpt EXCEPT !.seq = @ + 1, !.source = TRUE] \in CheckpointRow
  <2>1. \A x \in CheckpointRow, q \in Nat : [x EXCEPT !.seq = q, !.source = TRUE] \in CheckpointRow
    BY DEF CheckpointRow
  <2>2. r.ckpt \in CheckpointRow /\ r.ckpt.seq + 1 \in Nat
    BY <1>1 DEF Row, CheckpointRow
  <2> QED BY <2>1, <2>2
<1>4. n \in Row
  <2>1. r.version + 1 \in Nat
    BY <1>1 DEF Row
  <2>2. ASSUME NEW x \in CheckpointRow, NEW v \in Nat
        PROVE  [r EXCEPT !.task = "Pending", !.error = "none", !.version = v,
                 !.queuedAt = t, !.run = "Pending", !.exec = "QUEUED",
                 !.worker = None, !.hash = c, !.cause = "none", !.started = FALSE,
                 !.tool = "none", !.approval = "none", !.ckpt = x] \in Row
    <3>1. /\ "Pending" \in TaskStatus /\ "Pending" \in RunStatus /\ "QUEUED" \in ExecutionStatus
          /\ "none" \in ErrorCode /\ None \in Nat /\ t \in Nat
      BY DEF TaskStatus, RunStatus, ExecutionStatus, ErrorCode, None
    <3> QED BY <1>1, <3>1 DEF Row
  <2> QED BY <1>3, <2>1, <2>2 DEF Recovered
<1>5. /\ n.plan = r.plan /\ n.cur = r.cur /\ n.step = r.step /\ n.run = "Pending"
      /\ n.started = FALSE /\ n.tool = "none" /\ n.queuedAt = t
      /\ n.exec = "QUEUED" /\ n.task = "Pending" /\ n.worker = None /\ n.error = "none"
  BY <1>1 DEF Recovered, Row
<1>6. PlanPosition(n)
  BY <1>1, <1>5 DEF RowInv, PlanPosition, HasPlan
<1>7. FreshRow(n)
  BY <1>2, <1>5 DEF FreshRow, HasPlan, None
<1> QED BY <1>4, <1>5, <1>6, <1>7 DEF GoodRow, RowInv

----------------------------------------------------------------------------
(* The rows ExecuteClaimedExecution writes *)

(* A row with the columns of an owned one and a plan position is good.     *)
LEMMA OwnedKept ==
  ASSUME NEW r, GoodRow(r), r.exec = "RUNNING",
         NEW n \in Row, n.exec = r.exec, n.run = r.run, n.task = r.task, n.error = r.error,
         n.queuedAt = r.queuedAt, n.worker = r.worker, n.started = r.started,
         PlanPosition(n), n.step \in {"none", "Pending", "Running", "Completed"}
  PROVE  GoodRow(n)
<1>1. OwnedRow(r) /\ r.error = "none"
  BY RowKinds DEF GoodRow, RowInv, OwnedRow
<1>2. OwnedRow(n)
  BY <1>1 DEF OwnedRow
<1> QED BY <1>1, <1>2 DEF GoodRow, RowInv, OwnedRow

(* StartExecutionAction only ever moves a pending step.                    *)
LEMMA StartStepGood ==
  ASSUME NEW r, GoodRow(r), r.exec = "RUNNING"
  PROVE  GoodRow(StartStep(r)) /\ Frozen(StartStep(r)) = Frozen(r)
<1> DEFINE n == StartStep(r)
<1>1. r \in Row /\ RowInv(r)
  BY DEF GoodRow
<1>2. n \in Row
  BY <1>1 DEF StartStep, Row, StepStatus, RunStatus
<1>3. /\ n.plan = r.plan /\ n.cur = r.cur /\ n.exec = r.exec /\ n.run = r.run
      /\ n.task = r.task /\ n.error = r.error /\ n.queuedAt = r.queuedAt
      /\ n.worker = r.worker /\ n.started = r.started /\ n.ckpt = r.ckpt
      /\ n.step = (IF r.step = "Pending" THEN "Running" ELSE r.step)
  BY <1>1 DEF StartStep, Row
<1>4. OwnedRow(r)
  BY RowKinds
<1>5. PlanPosition(n) /\ n.step \in {"none", "Pending", "Running", "Completed"}
  BY <1>1, <1>3, <1>4 DEF OwnedRow, RowInv, PlanPosition, HasPlan
<1>6. GoodRow(n)
  <2> HIDE DEF n
  <2> QED BY <1>2, <1>3, <1>5, OwnedKept
<1> QED BY <1>3, <1>6 DEF Frozen

(* The Tool Framework's durable begin.                                     *)
LEMMA ToolBegunGood ==
  ASSUME NEW r, GoodRow(r), r.exec = "RUNNING"
  PROVE  /\ GoodRow([r EXCEPT !.tool = "RUNNING"])
         /\ Frozen([r EXCEPT !.tool = "RUNNING"]) = Frozen(r)
<1> DEFINE n == [r EXCEPT !.tool = "RUNNING"]
<1>1. r \in Row /\ RowInv(r)
  BY DEF GoodRow
<1>2. n \in Row
  BY <1>1 DEF Row, ToolExecutionStatus
<1>3. /\ n.plan = r.plan /\ n.cur = r.cur /\ n.exec = r.exec /\ n.run = r.run
      /\ n.task = r.task /\ n.error = r.error /\ n.queuedAt = r.queuedAt
      /\ n.worker = r.worker /\ n.started = r.started /\ n.ckpt = r.ckpt
      /\ n.step = r.step
  BY <1>1 DEF Row
<1>4. OwnedRow(r)
  BY RowKinds
<1>5. PlanPosition(n) /\ n.step \in {"none", "Pending", "Running", "Completed"}
  BY <1>1, <1>3, <1>4 DEF OwnedRow, RowInv, PlanPosition, HasPlan
<1>6. GoodRow(n)
  <2> HIDE DEF n
  <2> QED BY <1>2, <1>3, <1>5, OwnedKept
<1> QED BY <1>3, <1>6 DEF Frozen

(* A plan is never empty, and its first step is the current one.           *)
LEMMA PlanAppliedGood ==
  ASSUME NEW r, GoodRow(r), r.exec = "RUNNING", NEW plan \in Plans
  PROVE  GoodRow(PlanApplied(r, plan))
<1> DEFINE p == [r EXCEPT !.plan = plan, !.cur = 1, !.step = "Pending"]
           n == PlanApplied(r, plan)
<1>1. r \in Row /\ RowInv(r)
  BY DEF GoodRow
<1>2. p \in Row
  BY <1>1 DEF Row, StepStatus, RunStatus
<1>3. NextCheckpoint(p, ActionForKind(plan[1])) \in CheckpointRow
  <2>1. ActionForKind(plan[1]) \in NextAction
    BY ActionForKindType DEF NextAction
  <2> HIDE DEF p
  <2> QED BY <1>2, <2>1, NextCheckpointType
<1>4. \A x \in CheckpointRow : [p EXCEPT !.ckpt = x] \in Row
  BY <1>2 DEF Row
<1>5. n \in Row
  BY <1>3, <1>4 DEF PlanApplied
<1>6. /\ n.plan = plan /\ n.cur = 1 /\ n.step = "Pending" /\ n.exec = r.exec
      /\ n.run = r.run /\ n.task = r.task /\ n.error = r.error
      /\ n.queuedAt = r.queuedAt /\ n.worker = r.worker /\ n.started = r.started
  BY <1>1 DEF PlanApplied, Row
<1>7. plan # <<>> /\ Len(plan) \in Nat /\ Len(plan) > 0
  BY PlansAssumption
<1>8. PlanPosition(n)
  BY <1>6, <1>7 DEF PlanPosition, HasPlan, None
<1>9. GoodRow(n)
  <2> HIDE DEF n
  <2> QED BY <1>5, <1>6, <1>8, OwnedKept
<1> QED BY <1>9

(* A completed step moves the run on, or leaves its last step completed.   *)
LEMMA StepCompletedGood ==
  ASSUME NEW r, GoodRow(r), r.exec = "RUNNING", HasPlan(r)
  PROVE  GoodRow(StepCompleted(r))
<1> DEFINE done == [r EXCEPT !.step = "Completed",
                             !.tool = IF r.tool = "none" THEN "none" ELSE "COMPLETED"]
           next == [r EXCEPT !.cur = r.cur + 1, !.step = "Pending", !.tool = "none",
                             !.approval = "none"]
           n == StepCompleted(r)
<1>1. r \in Row /\ RowInv(r)
  BY DEF GoodRow
<1>2. r.cur \in Nat /\ r.cur + 1 \in Nat
  BY <1>1 DEF Row
<1>3. /\ next \in Row /\ next.plan = r.plan /\ next.cur = r.cur + 1 /\ next.step = "Pending"
      /\ next.exec = r.exec /\ next.run = r.run /\ next.task = r.task /\ next.error = r.error
      /\ next.queuedAt = r.queuedAt /\ next.worker = r.worker /\ next.started = r.started
  BY <1>1, <1>2 DEF Row, StepStatus, RunStatus
<1>4. /\ done \in Row /\ done.plan = r.plan /\ done.cur = r.cur /\ done.step = "Completed"
      /\ done.exec = r.exec /\ done.run = r.run /\ done.task = r.task /\ done.error = r.error
      /\ done.queuedAt = r.queuedAt /\ done.worker = r.worker /\ done.started = r.started
  BY <1>1 DEF Row, StepStatus, RunStatus, ToolExecutionStatus
<1>5. ASSUME NEW y \in Row, NEW x \in CheckpointRow
      PROVE  LET z == [y EXCEPT !.ckpt = x] IN
             /\ z \in Row /\ z.plan = y.plan /\ z.cur = y.cur /\ z.step = y.step
             /\ z.exec = y.exec /\ z.run = y.run /\ z.task = y.task /\ z.error = y.error
             /\ z.queuedAt = y.queuedAt /\ z.worker = y.worker /\ z.started = y.started
  BY DEF Row
<1>6. CASE HasLaterStep(r)
  <2> DEFINE x == NextCheckpoint(next, ActionForKind(next.plan[next.cur]))
  <2>1. x \in CheckpointRow
    <3>1. ActionForKind(next.plan[next.cur]) \in NextAction
      BY ActionForKindType DEF NextAction
    <3> HIDE DEF next
    <3> QED BY <1>3, <3>1, NextCheckpointType
  <2>2. n = [next EXCEPT !.ckpt = x]
    BY <1>6 DEF StepCompleted
  <2> HIDE DEF x, next, n
  <2>3. /\ n \in Row /\ n.plan = r.plan /\ n.cur = r.cur + 1 /\ n.step = "Pending"
        /\ n.exec = r.exec /\ n.run = r.run /\ n.task = r.task /\ n.error = r.error
        /\ n.queuedAt = r.queuedAt /\ n.worker = r.worker /\ n.started = r.started
    BY <1>3, <1>5, <2>1, <2>2
  <2>4. PlanPosition(n)
    <3>1. r.cur \in 0 .. Len(r.plan) /\ r.cur < Len(r.plan)
      BY <1>1, <1>6 DEF RowInv, PlanPosition, HasLaterStep
    <3>2. Len(r.plan) \in Nat
      BY <1>1, PlansAssumption DEF Row
    <3>3. n.cur \in 0 .. Len(n.plan) /\ n.cur # None
      BY <1>2, <2>3, <3>1, <3>2 DEF None
    <3>4. HasPlan(n)
      BY <2>3 DEF HasPlan
    <3> QED BY <2>3, <3>3, <3>4 DEF PlanPosition
  <2>5. GoodRow(n)
    BY <2>3, <2>4, OwnedKept
  <2> QED BY <2>5 DEF n
<1>7. CASE ~HasLaterStep(r)
  <2> DEFINE x == NextCheckpoint(done, "FINALIZE_RUN")
  <2>1. x \in CheckpointRow
    <3> HIDE DEF done
    <3> QED BY <1>4, NextCheckpointType DEF NextAction
  <2>2. n = [done EXCEPT !.ckpt = x]
    BY <1>7 DEF StepCompleted
  <2> HIDE DEF x, done, n
  <2>3. /\ n \in Row /\ n.plan = r.plan /\ n.cur = r.cur /\ n.step = "Completed"
        /\ n.exec = r.exec /\ n.run = r.run /\ n.task = r.task /\ n.error = r.error
        /\ n.queuedAt = r.queuedAt /\ n.worker = r.worker /\ n.started = r.started
    BY <1>4, <1>5, <2>1, <2>2
  <2>4. PlanPosition(n)
    BY <1>1, <2>3 DEF RowInv, PlanPosition, HasPlan
  <2>5. GoodRow(n)
    BY <2>3, <2>4, OwnedKept
  <2> QED BY <2>5 DEF n
<1> QED BY <1>6, <1>7

(* FinalizeExecution completes a run whose last step is completed.         *)
LEMMA FinalizedGood ==
  ASSUME NEW r, GoodRow(r), r.exec = "RUNNING", r.step = "Completed", ~HasLaterStep(r)
  PROVE  GoodRow(Finalized(r))
<1> DEFINE n == Finalized(r)
<1>1. r \in Row /\ RowInv(r)
  BY DEF GoodRow
<1>2. n \in Row
  BY <1>1 DEF Finalized, Row, TaskStatus, RunStatus, ExecutionStatus
<1>3. /\ n.plan = r.plan /\ n.cur = r.cur /\ n.step = r.step /\ n.error = r.error
      /\ n.queuedAt = r.queuedAt /\ n.exec = "COMPLETED" /\ n.run = "Completed"
      /\ n.task = "Completed" /\ n.report = TRUE
  BY <1>1 DEF Finalized, Row
<1>4. OwnedRow(r) /\ r.error = "none"
  BY <1>1, RowKinds DEF RowInv, OwnedRow
<1>5. PlanPosition(n)
  BY <1>1, <1>3 DEF RowInv, PlanPosition, HasPlan
<1>6. EndedRow(n)
  BY <1>3, <1>4 DEF EndedRow, OwnedRow, HasLaterStep
<1> QED BY <1>2, <1>3, <1>4, <1>5, <1>6 DEF GoodRow, RowInv

(* A failed action ends the row with its step and its tool call.           *)
LEMMA ActionTerminalizedGood ==
  ASSUME NEW r, GoodRow(r)
  PROVE  GoodRow(ActionTerminalized(r)) /\ EndedRow(ActionTerminalized(r))
<1> DEFINE c == Closed(r, "Failed", "ActionFailed", "ActionFailed")
           s == StepFailed(c, OpenStep)
           tool == IF r.tool # "RUNNING" THEN r.tool
                   ELSE IF Kind(r) = "write" THEN "UNKNOWN" ELSE "FAILED"
<1>1. GoodRow(c) /\ c.task \in {"Failed", "Cancelled"} /\ EndedRow(c)
  BY ClosedGood DEF ErrorCode
<1>2. GoodRow(s) /\ s.task \in {"Failed", "Cancelled"} /\ EndedRow(s)
  <2> HIDE DEF c
  <2> QED BY <1>1, StepFailedGood DEF OpenStep, ActiveStep
<1>3. tool \in ToolExecutionStatus \cup {"none"}
  <2>1. r.tool \in ToolExecutionStatus \cup {"none"}
    BY DEF GoodRow, Row
  <2> QED BY <2>1 DEF ToolExecutionStatus
<1>4. GoodRow([s EXCEPT !.tool = tool]) /\ EndedRow([s EXCEPT !.tool = tool])
  <2> HIDE DEF s, tool
  <2> QED BY <1>2, <1>3, ToolClosedGood
<1> QED BY <1>4 DEF ActionTerminalized

(* An unusable checkpoint ends the row, under the worker or a decision.    *)
LEMMA CheckpointInvalidGood ==
  ASSUME NEW r, GoodRow(r)
  PROVE  /\ GoodRow(CheckpointInvalidTerminalized(r)) /\ EndedRow(CheckpointInvalidTerminalized(r))
         /\ GoodRow(DecisionCheckpointInvalid(r)) /\ EndedRow(DecisionCheckpointInvalid(r))
<1> DEFINE c == Closed(r, "Failed", "CheckpointInvalid", "CheckpointInvalid")
<1>1. GoodRow(c) /\ c.task \in {"Failed", "Cancelled"} /\ EndedRow(c)
  BY ClosedGood DEF ErrorCode
<1>2. /\ GoodRow(StepFailed(c, {"Running"})) /\ EndedRow(StepFailed(c, {"Running"}))
      /\ GoodRow(StepFailed(c, OpenStep)) /\ EndedRow(StepFailed(c, OpenStep))
  <2> HIDE DEF c
  <2> QED BY <1>1, StepFailedGood DEF OpenStep, ActiveStep
<1> QED BY <1>2 DEF CheckpointInvalidTerminalized, DecisionCheckpointInvalid

----------------------------------------------------------------------------
(* The rows the Approval Manager and StartupCleanup write *)

(* An approval request hands over a planned step without a tool call.      *)
LEMMA ApprovalRequestedGood ==
  ASSUME NEW r, GoodRow(r), r.exec = "RUNNING", HasPlan(r), r.tool = "none"
  PROVE  GoodRow(ApprovalRequested(r))
<1> DEFINE n == ApprovalRequested(r)
           x == [NextCheckpoint(r, "REQUEST_APPROVAL") EXCEPT !.approval = TRUE]
<1>1. r \in Row /\ RowInv(r)
  BY DEF GoodRow
<1>2. x \in CheckpointRow
  <2>1. NextCheckpoint(r, "REQUEST_APPROVAL") \in CheckpointRow
    BY <1>1, NextCheckpointType DEF NextAction
  <2>2. \A y \in CheckpointRow : [y EXCEPT !.approval = TRUE] \in CheckpointRow
    BY DEF CheckpointRow
  <2> QED BY <2>1, <2>2
<1>3. n \in Row
  <2>1. \A y \in CheckpointRow :
          [r EXCEPT !.task = "WaitingApproval", !.run = "WaitingApproval",
            !.step = "WaitingApproval", !.exec = "WAITING_APPROVAL",
            !.worker = None, !.approval = "Pending", !.ckpt = y] \in Row
    BY <1>1 DEF Row, TaskStatus, RunStatus, StepStatus, ExecutionStatus, ApprovalStatus, None
  <2> QED BY <1>2, <2>1 DEF ApprovalRequested
<1>4. /\ n.plan = r.plan /\ n.cur = r.cur /\ n.step = "WaitingApproval" /\ n.error = r.error
      /\ n.queuedAt = r.queuedAt /\ n.exec = "WAITING_APPROVAL" /\ n.run = "WaitingApproval"
      /\ n.task = "WaitingApproval" /\ n.worker = None /\ n.started = r.started
      /\ n.approval = "Pending" /\ n.tool = r.tool
  BY <1>1 DEF ApprovalRequested, Row
<1>5. OwnedRow(r) /\ r.error = "none"
  BY <1>1, RowKinds DEF RowInv, OwnedRow
<1>6. PlanPosition(n)
  BY <1>1, <1>4 DEF RowInv, PlanPosition, HasPlan
<1>7. WaitingRow(n)
  BY <1>4, <1>5 DEF WaitingRow, OwnedRow
<1> QED BY <1>3, <1>4, <1>5, <1>6, <1>7 DEF GoodRow, RowInv

(* Approve queues the same version again.                                  *)
LEMMA ApprovedGood ==
  ASSUME NEW r, GoodRow(r), r.task = "WaitingApproval", NEW t \in Nat \ {0}
  PROVE  GoodRow(Approved(r, t)) /\ Approved(r, t).exec = "QUEUED"
<1> DEFINE n == Approved(r, t)
           x == [NextCheckpoint(r, "EXECUTE_APPROVED_TOOL") EXCEPT !.approval = TRUE]
<1>1. r \in Row /\ RowInv(r)
  BY DEF GoodRow
<1>2. x \in CheckpointRow
  <2>1. NextCheckpoint(r, "EXECUTE_APPROVED_TOOL") \in CheckpointRow
    BY <1>1, NextCheckpointType DEF NextAction
  <2>2. \A y \in CheckpointRow : [y EXCEPT !.approval = TRUE] \in CheckpointRow
    BY DEF CheckpointRow
  <2> QED BY <2>1, <2>2
<1>3. n \in Row
  <2>1. \A y \in CheckpointRow :
          [r EXCEPT !.task = "Running", !.run = "Running", !.step = "Running",
            !.exec = "QUEUED", !.queuedAt = t, !.approval = "Approved", !.ckpt = y] \in Row
    BY <1>1 DEF Row, TaskStatus, RunStatus, StepStatus, ExecutionStatus, ApprovalStatus
  <2> QED BY <1>2, <2>1 DEF Approved
<1>4. /\ n.plan = r.plan /\ n.cur = r.cur /\ n.step = "Running" /\ n.error = r.error
      /\ n.queuedAt = t /\ n.exec = "QUEUED" /\ n.run = "Running" /\ n.task = "Running"
      /\ n.worker = r.worker /\ n.started = r.started /\ n.approval = "Approved"
      /\ n.tool = r.tool
  BY <1>1 DEF Approved, Row
<1>5. WaitingRow(r) /\ r.error = "none"
  BY <1>1, RowKinds DEF RowInv
<1>6. PlanPosition(n)
  BY <1>1, <1>4, <1>5 DEF RowInv, PlanPosition, HasPlan, WaitingRow
<1>7. ApprovedRow(n)
  BY <1>4, <1>5 DEF ApprovedRow, WaitingRow, None
<1>8. n.tool = "none" /\ n.error = "none" /\ n.exec # "INTERRUPTED"
  BY <1>4, <1>5 DEF WaitingRow
<1> QED BY <1>3, <1>4, <1>6, <1>7, <1>8 DEF GoodRow, RowInv

(* Reject cancels the task.                                                *)
LEMMA RejectedGood ==
  ASSUME NEW r, GoodRow(r)
  PROVE  GoodRow(Rejected(r)) /\ EndedRow(Rejected(r))
<1> DEFINE c == Closed(r, "Cancelled", "TaskCancelled", "none")
           s == StepFailed(c, OpenStep)
<1>1. GoodRow(c) /\ c.task \in {"Failed", "Cancelled"} /\ EndedRow(c)
  BY ClosedGood DEF ErrorCode
<1>2. GoodRow(s) /\ s.task \in {"Failed", "Cancelled"} /\ EndedRow(s)
  <2> HIDE DEF c
  <2> QED BY <1>1, StepFailedGood DEF OpenStep, ActiveStep
<1>3. GoodRow([s EXCEPT !.approval = "Rejected"]) /\ EndedRow([s EXCEPT !.approval = "Rejected"])
  <2> HIDE DEF s
  <2> QED BY <1>2, ApprovalClosedGood
<1> QED BY <1>3 DEF Rejected

(* StartupCleanup ends a row an earlier process left running, or leaves it *)
(* interrupted, and then without a write call that began.                  *)
LEMMA StartupCleanedGood ==
  ASSUME NEW r, GoodRow(r), r.exec = "RUNNING", NEW t, NEW c, StartupAccepts(r, c)
  PROVE  GoodRow(StartupCleaned(r, t))
<1> DEFINE n == StartupCleaned(r, t)
           close(error, cause, tool) ==
             [StepFailed(Closed(r, "Failed", error, cause), OpenStep) EXCEPT !.tool = tool]
           failed == IF r.tool = "RUNNING" THEN "FAILED" ELSE r.tool
           m == [r EXCEPT !.exec = "INTERRUPTED", !.cause = "WorkerInterrupted", !.tool = failed]
<1>1. r \in Row /\ RowInv(r)
  BY DEF GoodRow
<1>2. OwnedRow(r) /\ r.error = "none"
  BY <1>1, RowKinds DEF RowInv, OwnedRow
<1>3. failed \in ToolExecutionStatus \cup {"none"} /\ r.tool \in ToolExecutionStatus \cup {"none"}
  <2>1. r.tool \in ToolExecutionStatus \cup {"none"}
    BY <1>1 DEF Row
  <2> QED BY <2>1 DEF ToolExecutionStatus
<1>4. ASSUME NEW error \in {"TaskTimeout", "CheckpointInvalid", "WriteToolInterrupted"},
             NEW cause \in {"WriteToolInterrupted", "CheckpointInvalid", "none"},
             NEW tool \in ToolExecutionStatus \cup {"none"}
      PROVE  GoodRow(close(error, cause, tool))
  <2> DEFINE d == Closed(r, "Failed", error, cause)
             s == StepFailed(d, OpenStep)
  <2>0. error \in ErrorCode \ {"none"} /\ cause \in ErrorCode
    BY DEF ErrorCode
  <2>1. GoodRow(d) /\ d.task \in {"Failed", "Cancelled"} /\ EndedRow(d)
    BY <2>0, ClosedGood
  <2>2. GoodRow(s) /\ s.task \in {"Failed", "Cancelled"} /\ EndedRow(s)
    <3> HIDE DEF d
    <3> QED BY <2>1, StepFailedGood DEF OpenStep, ActiveStep
  <2>3. GoodRow([s EXCEPT !.tool = tool])
    <3> HIDE DEF s
    <3> QED BY <2>2, ToolClosedGood
  <2> QED BY <2>3
<1>5. ASSUME ~(Kind(r) = "write" /\ r.tool = "RUNNING")
      PROVE  GoodRow(m)
  <2>1. m \in Row
    <3> HIDE DEF failed
    <3> QED BY <1>1, <1>3 DEF Row, ExecutionStatus, ErrorCode
  <2>2. /\ m.plan = r.plan /\ m.cur = r.cur /\ m.step = r.step /\ m.error = r.error
        /\ m.queuedAt = r.queuedAt /\ m.exec = "INTERRUPTED" /\ m.run = r.run
        /\ m.task = r.task /\ m.worker = r.worker /\ m.started = r.started
        /\ m.tool = failed /\ m.cause = "WorkerInterrupted"
    BY <1>1 DEF Row
  <2>3. PlanPosition(m) /\ Kind(m) = Kind(r)
    BY <1>1, <2>2 DEF RowInv, PlanPosition, HasPlan, Kind
  <2>4. InterruptedRow(m)
    BY <1>2, <2>2 DEF InterruptedRow, OwnedRow, StartupAccepts
  <2>5. Kind(m) = "write" => m.tool = "none"
    BY <1>5, <2>2, <2>3 DEF StartupAccepts
  <2> HIDE DEF m
  <2> QED BY <1>2, <2>1, <2>2, <2>3, <2>4, <2>5 DEF GoodRow, RowInv
<1>6. /\ GoodRow(close("TaskTimeout", "WriteToolInterrupted", "UNKNOWN"))
      /\ GoodRow(close("TaskTimeout", "none", failed))
      /\ GoodRow(close("CheckpointInvalid", "CheckpointInvalid", r.tool))
      /\ GoodRow(close("WriteToolInterrupted", "WriteToolInterrupted", "UNKNOWN"))
  <2>1. "UNKNOWN" \in ToolExecutionStatus \cup {"none"}
    BY DEF ToolExecutionStatus
  <2> HIDE DEF close, failed
  <2> QED BY <1>3, <1>4, <2>1
<1>7. \/ n = close("TaskTimeout", "WriteToolInterrupted", "UNKNOWN")
      \/ n = close("TaskTimeout", "none", failed)
      \/ n = close("CheckpointInvalid", "CheckpointInvalid", r.tool)
      \/ n = close("WriteToolInterrupted", "WriteToolInterrupted", "UNKNOWN")
      \/ n = m /\ ~(Kind(r) = "write" /\ r.tool = "RUNNING")
  BY DEF StartupCleaned, StartupDisposition
<1> HIDE DEF n, m, close, failed
<1>8. GoodRow(n)
  BY <1>5, <1>6, <1>7
<1> QED BY <1>8 DEF n

(* Damage of a stored context leaves everything else as it is.             *)
LEMMA DamagedGood ==
  ASSUME NEW r, GoodRow(r)
  PROVE  GoodRow([r EXCEPT !.ckpt.ok = FALSE])
         /\ Frozen([r EXCEPT !.ckpt.ok = FALSE]) = Frozen(r)
         /\ [r EXCEPT !.ckpt.ok = FALSE].exec = r.exec
<1> DEFINE n == [r EXCEPT !.ckpt.ok = FALSE]
<1>1. r \in Row /\ RowInv(r)
  BY DEF GoodRow
<1>2. r.ckpt \in CheckpointRow
  BY <1>1 DEF Row
<1>3. [r.ckpt EXCEPT !.ok = FALSE] \in CheckpointRow
  BY <1>2 DEF CheckpointRow
<1>4. n \in Row
  <2>1. \A y \in CheckpointRow : [r EXCEPT !.ckpt = y] \in Row
    BY <1>1 DEF Row
  <2> QED BY <1>3, <2>1
<1>5. /\ n.plan = r.plan /\ n.cur = r.cur /\ n.step = r.step /\ n.error = r.error
      /\ n.queuedAt = r.queuedAt /\ n.exec = r.exec /\ n.run = r.run
      /\ n.task = r.task /\ n.worker = r.worker /\ n.started = r.started
      /\ n.tool = r.tool /\ n.cause = r.cause /\ n.approval = r.approval
      /\ n.report = r.report /\ n.ckpt = [r.ckpt EXCEPT !.ok = FALSE]
  BY <1>1 DEF Row
<1>6. Frozen(n) = Frozen(r)
  BY <1>2, <1>5 DEF Frozen, CheckpointRow
<1>7. RowInv(n)
  <2> HIDE DEF n
  <2> QED BY <1>1, <1>5 DEF RowInv, PlanPosition, HasPlan, Kind, FreshRow, ApprovedRow, OwnedRow,
             WaitingRow, InterruptedRow, EndedRow, HasLaterStep
<1> QED BY <1>4, <1>5, <1>6, <1>7 DEF GoodRow

----------------------------------------------------------------------------
(* The steps *)

(* The idle worker is a worker.                                            *)
LEMMA IdleType == Idle \in Worker
BY DEF Idle, Worker, WorkerPC, NoGuard, None

(* The kind of the current step is one the plan has.                       *)
LEMMA KindType ==
  ASSUME NEW r, GoodRow(r)
  PROVE  Kind(r) \in StepKind \cup {"none"}
<1>1. r \in Row /\ PlanPosition(r)
  BY DEF GoodRow, RowInv
<1>2. CASE r.cur = None
  BY <1>2 DEF Kind
<1>3. CASE r.cur # None
  <2>1. r.plan \in Seq(StepKind) /\ r.cur \in 1 .. Len(r.plan)
    BY <1>1, <1>3, PlansAssumption DEF Row, PlanPosition, HasPlan, None
  <2> QED BY <1>3, <2>1 DEF Kind
<1> QED BY <1>2, <1>3

(* A transaction that writes a good row keeps every other row as it is.    *)
LEMMA WriteRow ==
  ASSUME TypeOK, RowsInv, NEW t \in Tasks, NEW row, GoodRow(row), Write(t, row)
  PROVE  /\ db' \in [Tasks -> Row \cup {NoRow}] /\ RowsInv'
         /\ db'[t] = row /\ \A s \in Tasks \ {t} : db'[s] = db[s]
         /\ Exists(t)' /\ \A s \in Tasks : Exists(s) => Exists(s)'
<1>1. row \in Row /\ row # NoRow
  BY TasksAssumption DEF GoodRow
<1>2. /\ db' \in [Tasks -> Row \cup {NoRow}]
      /\ db'[t] = row /\ \A s \in Tasks \ {t} : db'[s] = db[s]
  BY <1>1 DEF TypeOK, Write
<1>3. Exists(t)' /\ \A s \in Tasks : Exists(s) => Exists(s)'
  BY <1>1, <1>2 DEF Exists
<1>4. RowsInv'
  <2> SUFFICES ASSUME NEW s \in Tasks, Exists(s)' PROVE GoodRow(db'[s])
    BY DEF RowsInv
  <2>1. CASE s = t
    BY <1>2, <2>1
  <2>2. CASE s # t
    BY <1>2, <2>2 DEF RowsInv, Exists
  <2> QED BY <2>1, <2>2
<1> QED BY <1>2, <1>3, <1>4

(* Another actor's transaction does not disturb the worker: a row that     *)
(* still runs has the checkpoint it had.                                   *)
LEMMA WorkerUndisturbed ==
  ASSUME TypeOK, RowsInv, WorkerInv, NEW t \in Tasks, NEW row, GoodRow(row), Write(t, row),
         w' = w,
         \/ row.exec # "RUNNING"
         \/ row.exec = db[t].exec /\ Frozen(row) = Frozen(db[t])
  PROVE  WorkerInv'
<1>1. /\ db'[t] = row /\ \A s \in Tasks \ {t} : db'[s] = db[s]
      /\ \A s \in Tasks : Exists(s) => Exists(s)'
  BY WriteRow
<1>2. w.pc # "idle" => w.task \in Tasks /\ Exists(w.task)'
  BY <1>1 DEF WorkerInv
<1>3. /\ w.pc \in {"prepare", "start", "activate", "call", "commit", "fail", "finalize"}
      /\ db'[w.task].exec = "RUNNING"
      => Frozen(db'[w.task]) = w.guard
  <2>1. CASE w.task = t
    BY <1>1, <2>1 DEF WorkerInv, Dispatched
  <2>2. CASE w.task # t
    BY <1>1, <1>2, <2>2 DEF WorkerInv, Dispatched
  <2> QED BY <2>1, <2>2
<1> QED BY <1>2, <1>3 DEF WorkerInv, Dispatched, Exists

(* Nothing of the database or the worker changes.                          *)
LEMMA OnlyOthersChange ==
  ASSUME RowsInv, WorkerInv, UNCHANGED <<db, w>>
  PROVE  RowsInv' /\ WorkerInv'
BY DEF RowsInv, WorkerInv, Dispatched, Exists

(* A worker that becomes idle owes nothing.                                *)
LEMMA IdleWorker ==
  ASSUME w' = Idle
  PROVE  WorkerInv' /\ w' \in Worker
BY IdleType DEF WorkerInv, Idle

(* The environment, the process and StartupCleanup.                        *)
LEMMA ProcessSteps ==
  ASSUME IInv,
         \/ Tick \/ Crash \/ StartupCleanup \/ StartupFails \/ WorkerStops
         \/ \E c \in Configs : Restart(c)
         \/ \E t \in Tasks : DamageCheckpoint(t)
  PROVE  IInv'
<1> USE DEF IInv
<1>1. CASE Tick
  <2>1. now' \in Nat /\ now' # None
    BY <1>1 DEF Tick, TypeOK, None
  <2> QED BY <1>1, <2>1, OnlyOthersChange DEF Tick, TypeOK, ProcessInv, process
<1>2. CASE Crash \/ StartupFails \/ WorkerStops
  <2>1. /\ host' = "down" /\ w' = Idle /\ registry' = {} /\ pending' = {}
        /\ UNCHANGED <<db, now, inst, config>>
    BY <1>2 DEF Crash, StartupFails, WorkerStops, ForgetProcess
  <2> QED BY <2>1, IdleWorker DEF TypeOK, RowsInv, ProcessInv, Exists
<1>3. CASE \E c \in Configs : Restart(c)
  <2>1. inst' \in Nat /\ inst' # None /\ host' = "starting" /\ config' \in Configs /\ host = "down"
    BY <1>3 DEF Restart, TypeOK, None
  <2>2. UNCHANGED <<db, now, w, registry, pending>>
    BY <1>3 DEF Restart
  <2> QED BY <2>1, <2>2, OnlyOthersChange DEF TypeOK, ProcessInv
<1>4. CASE StartupCleanup
  <2>1. \A t \in Legacy : t \in Tasks /\ Exists(t) /\ db[t].exec = "RUNNING" /\ StartupAccepts(db[t], config)
    BY <1>4 DEF StartupCleanup, Legacy
  <2>2. \A t \in Legacy : GoodRow(StartupCleaned(db[t], now))
    BY <2>1, StartupCleanedGood DEF RowsInv
  <2>3. ASSUME NEW t \in Tasks
        PROVE  /\ db'[t] = (IF t \in Legacy THEN StartupCleaned(db[t], now) ELSE db[t])
               /\ db'[t] \in Row \cup {NoRow} /\ (Exists(t)' => GoodRow(db'[t]))
    <3>1. db'[t] = (IF t \in Legacy THEN StartupCleaned(db[t], now) ELSE db[t])
      BY <1>4 DEF StartupCleanup
    <3> QED BY <2>2, <3>1 DEF RowsInv, Exists, GoodRow, TypeOK
  <2>4. db' \in [Tasks -> Row \cup {NoRow}] /\ RowsInv'
    BY <1>4, <2>3 DEF StartupCleanup, RowsInv
  <2>5. w' = Idle /\ host' = "up" /\ UNCHANGED <<now, inst, config, registry, pending>>
    BY <1>4 DEF StartupCleanup, ProcessInv
  <2> QED BY <1>4, <2>4, <2>5, IdleWorker DEF StartupCleanup, TypeOK, ProcessInv
<1>5. CASE \E t \in Tasks : DamageCheckpoint(t)
  <2>1. PICK t \in Tasks : DamageCheckpoint(t)
    BY <1>5
  <2> DEFINE row == [db[t] EXCEPT !.ckpt.ok = FALSE]
  <2>2. Write(t, row) /\ UNCHANGED <<now, host, inst, config, w, registry, pending>>
    BY <2>1 DEF DamageCheckpoint, process
  <2>3. GoodRow(row) /\ Frozen(row) = Frozen(db[t]) /\ row.exec = db[t].exec
    BY <2>1, DamagedGood DEF DamageCheckpoint, RowsInv
  <2> HIDE DEF row
  <2>4. RowsInv' /\ WorkerInv' /\ db' \in [Tasks -> Row \cup {NoRow}]
    BY <2>2, <2>3, WriteRow, WorkerUndisturbed
  <2> QED BY <2>2, <2>4 DEF TypeOK, ProcessInv
<1> QED BY <1>1, <1>2, <1>3, <1>4, <1>5

(* The commands, the scanner and the delivery of a cancel.                 *)
LEMMA CommandSteps ==
  ASSUME IInv,
         \/ \E t \in Tasks : Command(t) \/ ExpireTask(t)
         \/ \E k \in pending : DeliverCancel(k)
  PROVE  IInv'
<1> USE DEF IInv
<1>1. ASSUME NEW t \in Tasks, NEW row, GoodRow(row), Write(t, row),
             row.exec # "RUNNING", UNCHANGED <<now, process, w, registry>>,
             pending' \subseteq Key
      PROVE  IInv'
  <2>1. RowsInv' /\ WorkerInv' /\ db' \in [Tasks -> Row \cup {NoRow}]
    BY <1>1, WriteRow, WorkerUndisturbed
  <2> QED BY <1>1, <2>1 DEF TypeOK, ProcessInv, process
<1>2. ASSUME NEW t \in Tasks, Exists(t), NEW row, GoodRow(row), EndedRow(row), Terminate(t, row)
      PROVE  IInv'
  <2>1. pending' \subseteq Key
    <3>1. db[t].version \in Nat /\ db[t].worker \in Nat
      BY <1>2 DEF RowsInv, GoodRow, Row
    <3> QED BY <1>2, <3>1 DEF Terminate, TypeOK, Key
  <2>2. row.exec # "RUNNING"
    BY <1>2 DEF EndedRow
  <2> QED BY <1>1, <1>2, <2>1, <2>2 DEF Terminate
<1>3. now \in Nat \ {0}
  BY DEF TypeOK, ProcessInv, None
<1>4. ASSUME NEW t \in Tasks, CreateTask(t)
      PROVE  IInv'
  <2>1. GoodRow(InitialRow(now, config))
    BY <1>3, InitialRowGood DEF TypeOK
  <2>2. InitialRow(now, config).exec # "RUNNING"
    BY DEF InitialRow
  <2> QED BY <1>1, <1>4, <2>1, <2>2 DEF CreateTask, TypeOK
<1>5. ASSUME NEW t \in Tasks, CancelTask(t)
      PROVE  IInv'
  <2>1. GoodRow(db[t]) /\ Exists(t) /\ Terminate(t, Cancelled(db[t], now))
    BY <1>5 DEF CancelTask, RowsInv
  <2>2. GoodRow(Cancelled(db[t], now)) /\ EndedRow(Cancelled(db[t], now))
    BY <2>1, TerminationGood DEF Cancelled, ErrorCode
  <2> QED BY <1>2, <2>1, <2>2
<1>6. ASSUME NEW t \in Tasks, ExpireTask(t)
      PROVE  IInv'
  <2>1. GoodRow(db[t]) /\ Exists(t) /\ Terminate(t, ExpiredRow(db[t]))
    BY <1>6 DEF ExpireTask, RowsInv
  <2>2. GoodRow(ExpiredRow(db[t])) /\ EndedRow(ExpiredRow(db[t]))
    BY <2>1, TerminationGood DEF ExpiredRow, ErrorCode
  <2> QED BY <1>2, <2>1, <2>2
<1>7. ASSUME NEW t \in Tasks, RecoverTask(t)
      PROVE  IInv'
  <2> DEFINE outcome == RecoverOutcome(db[t], now, config)
  <2>1. GoodRow(db[t]) /\ config \in Configs /\ pending' \subseteq Key
    BY <1>7 DEF RecoverTask, RowsInv, TypeOK
  <2>2. CASE outcome = "Recovered" /\ Write(t, Recovered(db[t], now, config))
    <3>1. GoodRow(Recovered(db[t], now, config)) /\ Recovered(db[t], now, config).exec = "QUEUED"
      BY <1>3, <2>1, <2>2, RecoveredGood
    <3> QED BY <1>1, <1>7, <2>1, <2>2, <3>1 DEF RecoverTask
  <2>3. CASE outcome \in {"TaskTimeout", "CheckpointInvalid"} /\ Write(t, RecoveryFailure(db[t], outcome))
    <3>1. GoodRow(RecoveryFailure(db[t], outcome)) /\ RecoveryFailure(db[t], outcome).exec # "RUNNING"
      BY <2>1, <2>3, RecoveryFailureGood DEF EndedRow
    <3> QED BY <1>1, <1>7, <2>1, <2>3, <3>1 DEF RecoverTask
  <2> QED BY <1>7, <2>2, <2>3 DEF RecoverTask
<1>8. ASSUME NEW t \in Tasks, Approve(t) \/ Reject(t)
      PROVE  IInv'
  <2>1. GoodRow(db[t]) /\ db[t].task = "WaitingApproval" /\ pending' \subseteq Key
        /\ UNCHANGED <<now, process, w, registry>>
    BY <1>8 DEF Approve, Reject, AwaitsDecision, RowsInv, TypeOK
  <2>2. PICK row \in {Approved(db[t], now), Rejected(db[t]), DecisionCheckpointInvalid(db[t])} :
          Write(t, row)
    BY <1>8 DEF Approve, Reject
  <2>3. GoodRow(row) /\ row.exec # "RUNNING"
    BY <1>3, <2>1, ApprovedGood, RejectedGood, CheckpointInvalidGood DEF EndedRow
  <2> QED BY <1>1, <2>1, <2>2, <2>3
<1>9. ASSUME NEW k \in pending, DeliverCancel(k)
      PROVE  IInv'
  <2>1. registry' \subseteq Entry /\ pending' \subseteq Key
    BY <1>9 DEF DeliverCancel, TypeOK, Entry
  <2> QED BY <1>9, <2>1, OnlyOthersChange DEF DeliverCancel, TypeOK, ProcessInv, process
<1> QED BY <1>4, <1>5, <1>6, <1>7, <1>8, <1>9 DEF Command

(* A queued row is claimed, ended or interrupted; only a claimed one gives *)
(* the worker something to load.                                           *)
LEMMA ClaimStep ==
  ASSUME IInv, NEW t \in Tasks, ClaimNextExecution(t)
  PROVE  IInv'
<1> DEFINE row == Claim(db[t], now, config, inst)
           loaded == [Idle EXCEPT !.pc = "load", !.task = t, !.version = db[t].version]
<1>1. GoodRow(db[t]) /\ Exists(t) /\ db[t].queuedAt # None /\ host = "up"
  BY DEF ClaimNextExecution, IsHead, Queue, IInv, RowsInv
<1>2. inst \in Nat \ {0}
  BY <1>1 DEF IInv, TypeOK, ProcessInv, None
<1>3. GoodRow(row) /\ Write(t, row)
  BY <1>1, <1>2, ClaimGood DEF ClaimNextExecution
<1>4. w' \in {Idle, loaded} /\ UNCHANGED <<now, host, inst, config, registry, pending>>
  BY DEF ClaimNextExecution, process
<1> HIDE DEF row
<1>5. db' \in [Tasks -> Row \cup {NoRow}] /\ RowsInv' /\ Exists(t)'
  BY <1>3, WriteRow DEF IInv
<1>6. CASE w' = Idle
  BY <1>4, <1>5, <1>6, IdleWorker DEF IInv, TypeOK, ProcessInv
<1>7. CASE w' = loaded
  <2>1. loaded \in Worker /\ loaded.pc = "load" /\ loaded.task = t
    <3>1. db[t].version \in Nat
      BY <1>1 DEF GoodRow, Row
    <3> QED BY <3>1 DEF Idle, Worker, WorkerPC, NoGuard, None
  <2> HIDE DEF loaded
  <2>2. WorkerInv'
    BY <1>5, <1>7, <2>1 DEF WorkerInv
  <2> QED BY <1>1, <1>4, <1>5, <1>7, <2>1, <2>2 DEF IInv, TypeOK, ProcessInv
<1> QED BY <1>4, <1>6, <1>7

(* What a worker that is not idle can rely on.                             *)
LEMMA Dispatching ==
  ASSUME IInv, w.pc # "idle", host = "up"
  PROVE  /\ w.task \in Tasks /\ Exists(w.task) /\ GoodRow(Dispatched)
         /\ WorkerKey \in Key
         /\ Owns => Dispatched.exec = "RUNNING"
BY DEF IInv, WorkerInv, RowsInv, Dispatched, WorkerKey, Key, TypeOK, Worker, Owns, ClaimOwns

(* A worker that goes on with the same claim and the same frozen action.   *)
LEMMA MovedWorker ==
  ASSUME TypeOK, NEW pc \in WorkerPC, Goto(pc)
  PROVE  /\ w' \in Worker /\ w'.pc = pc /\ w'.task = w.task /\ w'.guard = w.guard
BY DEF TypeOK, Goto, Worker

(* A loop step that leaves the worker idle, with or without a good row.    *)
LEMMA LoopEnds ==
  ASSUME IInv, host = "up", w.pc # "idle", w' = Idle, registry' \subseteq Entry,
         UNCHANGED <<now, process, pending>>,
         \/ db' = db
         \/ \E row : GoodRow(row) /\ Write(w.task, row)
  PROVE  IInv'
<1>1. w.task \in Tasks
  BY Dispatching
<1>2. db' \in [Tasks -> Row \cup {NoRow}] /\ RowsInv'
  <2>1. CASE db' = db
    BY <2>1 DEF IInv, TypeOK, RowsInv, Exists
  <2>2. CASE \E row : GoodRow(row) /\ Write(w.task, row)
    BY <1>1, <2>2, WriteRow DEF IInv
  <2> QED BY <2>1, <2>2
<1> QED BY <1>2, IdleWorker DEF IInv, TypeOK, ProcessInv, process

(* A loop step that goes on with the same claim: either the worker is      *)
(* about to load again, to confirm or to stop, or the frozen action is     *)
(* still there.                                                            *)
LEMMA LoopGoesOn ==
  ASSUME IInv, host = "up", w.pc # "idle", w' \in Worker, w'.task = w.task,
         w'.guard = w.guard, w'.pc # "finalize", registry' \subseteq Entry,
         UNCHANGED <<now, process, pending>>,
         \/ db' = db
         \/ \E row : GoodRow(row) /\ Write(w.task, row),
         \/ w'.pc \in {"load", "confirmWaiting", "confirmTerminal", "broken"}
         \/ /\ w.pc \in {"prepare", "start", "activate", "call", "commit", "fail"}
            /\ db'[w.task].exec = Dispatched.exec /\ Frozen(db'[w.task]) = Frozen(Dispatched)
  PROVE  IInv'
<1>1. w.task \in Tasks /\ Exists(w.task)
  BY Dispatching
<1>2. db' \in [Tasks -> Row \cup {NoRow}] /\ RowsInv' /\ Exists(w.task)'
  <2>1. CASE db' = db
    BY <1>1, <2>1 DEF IInv, TypeOK, RowsInv, Exists
  <2>2. CASE \E row : GoodRow(row) /\ Write(w.task, row)
    BY <1>1, <2>2, WriteRow DEF IInv
  <2> QED BY <2>1, <2>2
<1>3. WorkerInv'
  <2>1. w'.pc \in {"prepare", "start", "activate", "call", "commit", "fail", "finalize"}
        /\ db'[w.task].exec = "RUNNING" => Frozen(db'[w.task]) = w.guard
    BY DEF IInv, WorkerInv, Dispatched
  <2> QED BY <1>1, <1>2, <2>1 DEF WorkerInv, Dispatched, Exists
<1> QED BY <1>2, <1>3 DEF IInv, TypeOK, ProcessInv, process

(* Loading freezes the action of the latest checkpoint.                    *)
LEMMA LoadStep ==
  ASSUME IInv, LoadDispatch
  PROVE  IInv'
<1>1. host = "up" /\ w.pc = "load" /\ UNCHANGED <<now, host, inst, config, registry, pending>>
  BY DEF LoadDispatch, At, process
<1>2. w.task \in Tasks /\ Exists(w.task) /\ GoodRow(Dispatched)
  BY <1>1, Dispatching
<1>3. CASE StaleDispatch
  BY <1>1, <1>3, LoopEnds DEF StaleDispatch, IInv, TypeOK, process
<1>4. CASE InvalidDispatch
  BY <1>1, <1>2, <1>4, CheckpointInvalidGood, LoopEnds DEF InvalidDispatch, IInv, TypeOK, process
<1>5. CASE ~StaleDispatch /\ ~InvalidDispatch
  <2> DEFINE pc == IF Dispatched.ckpt.action = "FINALIZE_RUN" THEN "finalize" ELSE "prepare"
             next == [w EXCEPT !.pc = pc, !.guard = Frozen(Dispatched),
                               !.kind = Kind(Dispatched), !.began = FALSE]
  <2>1. db' = db /\ w' = next
    BY <1>5 DEF LoadDispatch
  <2>2. Frozen(Dispatched) \in [seq : Nat, action : NextAction \cup {"none"}, step : Nat]
    BY <1>2 DEF GoodRow, Row, CheckpointRow, Frozen
  <2>3. Kind(Dispatched) \in StepKind \cup {"none"}
    BY <1>2, KindType
  <2>4. /\ next \in Worker /\ next.pc = pc /\ next.task = w.task
        /\ next.guard = Frozen(Dispatched)
    BY <2>2, <2>3 DEF IInv, TypeOK, Worker, WorkerPC
  <2>5. pc = "finalize" => Frozen(Dispatched).action = "FINALIZE_RUN"
    BY DEF Frozen
  <2>6. RowsInv' /\ Exists(w.task)'
    BY <1>2, <2>1 DEF IInv, RowsInv, Exists
  <2> HIDE DEF next, pc
  <2>7. WorkerInv'
    BY <1>2, <2>1, <2>4, <2>5, <2>6 DEF WorkerInv, Dispatched
  <2> QED BY <1>1, <2>1, <2>4, <2>6, <2>7 DEF IInv, TypeOK, ProcessInv
<1> QED BY <1>3, <1>4, <1>5

(* Registering the call, starting the action and activating the handle.    *)
LEMMA StartSteps ==
  ASSUME IInv, PrepareCall \/ StartAction \/ ActivateCall
  PROVE  IInv'
<1>1. host = "up" /\ w.pc \in {"prepare", "start", "activate"} /\ UNCHANGED <<now, process, pending>>
  BY DEF PrepareCall, StartAction, ActivateCall, At
<1>2. w.task \in Tasks /\ GoodRow(Dispatched) /\ WorkerKey \in Key
      /\ (Owns => Dispatched.exec = "RUNNING")
  BY <1>1, Dispatching
<1>3. TypeOK /\ registry \subseteq Entry
  BY DEF IInv, TypeOK
<1>4. CASE PrepareCall
  <2>1. registry' \subseteq Entry
    <3>1. [key |-> WorkerKey, state |-> "PREPARED", cancelled |-> FALSE] \in Entry
      BY <1>2 DEF Entry
    <3> QED BY <1>3, <1>4, <3>1 DEF PrepareCall
  <2>2. w' \in Worker /\ w'.pc = "start" /\ w'.task = w.task /\ w'.guard = w.guard /\ db' = db
    BY <1>3, <1>4, MovedWorker DEF PrepareCall, WorkerPC
  <2> QED BY <1>1, <2>1, <2>2, LoopGoesOn DEF Dispatched
<1>5. CASE StartAction
  <2>1. registry' \subseteq Entry
    BY <1>3, <1>5 DEF StartAction, Unregistered
  <2>2. CASE Owns /\ Frozen(Dispatched) = w.guard
    <3> DEFINE row == StartStep(Dispatched)
    <3>1. GoodRow(row) /\ Frozen(row) = Frozen(Dispatched) /\ row.exec = Dispatched.exec
      BY <1>2, <2>2, StartStepGood DEF StartStep, GoodRow, Row
    <3>2. Write(w.task, row) /\ Goto("activate")
      BY <1>5, <2>2 DEF StartAction
    <3> HIDE DEF row
    <3>3. db'[w.task] = row
      BY <1>2, <1>3, <3>1, <3>2, WriteRow DEF IInv
    <3>4. w' \in Worker /\ w'.pc = "activate" /\ w'.task = w.task /\ w'.guard = w.guard
      BY <1>3, <3>2, MovedWorker DEF WorkerPC
    <3> QED BY <1>1, <2>1, <3>1, <3>2, <3>3, <3>4, LoopGoesOn
  <2>3. CASE ~(Owns /\ Frozen(Dispatched) = w.guard)
    <3>1. db' = db /\ w' = Idle
      BY <1>5, <2>3 DEF StartAction
    <3> QED BY <1>1, <2>1, <3>1, LoopEnds
  <2> QED BY <2>2, <2>3
<1>6. CASE ActivateCall
  <2>1. registry' \subseteq Entry /\ db' = db
    <3>1. \A e \in Entry : [e EXCEPT !.state = "ACTIVE"] \in Entry
      BY DEF Entry
    <3>2. Entries \subseteq Entry /\ Unregistered \subseteq Entry
      BY <1>3 DEF Entries, Unregistered
    <3> QED BY <1>6, <3>1, <3>2 DEF ActivateCall
  <2>2. CASE w' = Idle
    BY <1>1, <2>1, <2>2, LoopEnds
  <2>3. CASE Goto("call")
    <3>1. w' \in Worker /\ w'.pc = "call" /\ w'.task = w.task /\ w'.guard = w.guard
      BY <1>3, <2>3, MovedWorker DEF WorkerPC
    <3> QED BY <1>1, <2>1, <3>1, LoopGoesOn DEF Dispatched
  <2> QED BY <1>6, <2>2, <2>3 DEF ActivateCall
<1> QED BY <1>4, <1>5, <1>6

(* The tool begins and the call returns.                                   *)
LEMMA CallSteps ==
  ASSUME IInv, BeginTool \/ CallReturns
  PROVE  IInv'
<1>1. host = "up" /\ w.pc = "call" /\ UNCHANGED <<now, process, pending>>
  BY DEF BeginTool, CallReturns, At
<1>2. w.task \in Tasks /\ GoodRow(Dispatched) /\ (Owns => Dispatched.exec = "RUNNING")
  BY <1>1, Dispatching
<1>3. TypeOK /\ registry' \subseteq Entry
  BY DEF IInv, TypeOK, BeginTool, CallReturns, Unregistered
<1>4. CASE BeginTool
  <2> DEFINE row == [Dispatched EXCEPT !.tool = "RUNNING"]
             next == [w EXCEPT !.began = TRUE]
  <2>1. Write(w.task, row) /\ w' = next /\ Owns
    BY <1>4 DEF BeginTool
  <2>2. GoodRow(row) /\ Frozen(row) = Frozen(Dispatched) /\ row.exec = Dispatched.exec
    BY <1>2, <2>1, ToolBegunGood DEF GoodRow, Row
  <2>3. next \in Worker /\ next.pc = "call" /\ next.task = w.task /\ next.guard = w.guard
    BY <1>1, <1>3 DEF TypeOK, Worker
  <2> HIDE DEF row, next
  <2>4. db'[w.task] = row
    BY <1>2, <1>3, <2>1, <2>2, WriteRow DEF IInv
  <2> QED BY <1>1, <1>3, <2>1, <2>2, <2>3, <2>4, LoopGoesOn
<1>5. CASE CallReturns
  <2>1. db' = db
    BY <1>5 DEF CallReturns
  <2>2. CASE w' = Idle
    BY <1>1, <1>3, <2>1, <2>2, LoopEnds
  <2>3. ASSUME NEW pc \in {"commit", "fail"}, Goto(pc)
        PROVE  IInv'
    <3>1. w' \in Worker /\ w'.pc = pc /\ w'.task = w.task /\ w'.guard = w.guard
      BY <1>3, <2>3, MovedWorker DEF WorkerPC
    <3> QED BY <1>1, <1>3, <2>1, <3>1, LoopGoesOn DEF Dispatched
  <2> QED BY <1>5, <2>2, <2>3 DEF CallReturns
<1> QED BY <1>4, <1>5

(* An error leaves the worker with its claim until the process stops.      *)
LEMMA LoopFailsStep ==
  ASSUME IInv, LoopFails
  PROVE  IInv'
<1>1. /\ host = "up" /\ w.pc # "idle" /\ db' = db /\ Goto("broken")
      /\ UNCHANGED <<now, process, pending>>
  BY DEF LoopFails
<1>2. TypeOK /\ registry' \subseteq Entry
  BY DEF IInv, TypeOK, LoopFails, Unregistered
<1>3. w' \in Worker /\ w'.pc = "broken" /\ w'.task = w.task /\ w'.guard = w.guard
  BY <1>1, <1>2, MovedWorker DEF WorkerPC
<1> QED BY <1>1, <1>2, <1>3, LoopGoesOn

(* The Approval Manager's transaction inside the call.                     *)
LEMMA RequestApprovalStep ==
  ASSUME IInv, RequestApproval
  PROVE  IInv'
<1>1. host = "up" /\ w.pc = "call" /\ w.guard.action = "REQUEST_APPROVAL"
      /\ UNCHANGED <<now, process, pending>>
  BY DEF RequestApproval, At
<1>2. w.task \in Tasks /\ GoodRow(Dispatched) /\ (Owns => Dispatched.exec = "RUNNING")
  BY <1>1, Dispatching
<1>3. TypeOK /\ registry' \subseteq Entry
  BY DEF IInv, TypeOK, RequestApproval, Unregistered
<1>4. CASE StaleDispatch
  BY <1>1, <1>3, <1>4, LoopEnds DEF StaleDispatch
<1>5. ASSUME NEW pc \in {"confirmTerminal", "confirmWaiting"}, Goto(pc),
             NEW row, GoodRow(row), Write(w.task, row)
      PROVE  IInv'
  <2>1. w' \in Worker /\ w'.pc = pc /\ w'.task = w.task /\ w'.guard = w.guard
    BY <1>3, <1>5, MovedWorker DEF WorkerPC
  <2> QED BY <1>1, <1>3, <1>5, <2>1, LoopGoesOn
<1>6. CASE /\ Owns /\ ~DispatchValid /\ Goto("confirmTerminal")
           /\ Write(w.task, CheckpointInvalidTerminalized(Dispatched))
  BY <1>2, <1>5, <1>6, CheckpointInvalidGood
<1>7. CASE /\ Owns /\ DispatchValid /\ Goto("confirmWaiting")
           /\ Write(w.task, ApprovalRequested(Dispatched))
  <2>1. Dispatched.ckpt.action = "REQUEST_APPROVAL"
    BY <1>1, <1>2, <1>7 DEF IInv, WorkerInv, Frozen
  <2>2. HasPlan(Dispatched) /\ Dispatched.tool = "none"
    BY <1>7, <2>1 DEF DispatchValid, CheckpointValid, ActionMatches
  <2>3. GoodRow(ApprovalRequested(Dispatched))
    BY <1>2, <1>7, <2>2, ApprovalRequestedGood
  <2> QED BY <1>5, <1>7, <2>3
<1>8. CASE Goto("fail") /\ db' = db
  <2>1. w' \in Worker /\ w'.pc = "fail" /\ w'.task = w.task /\ w'.guard = w.guard
    BY <1>3, <1>8, MovedWorker DEF WorkerPC
  <2> QED BY <1>1, <1>3, <1>8, <2>1, LoopGoesOn DEF Dispatched
<1> QED BY <1>4, <1>6, <1>7, <1>8 DEF RequestApproval

(* A result counts only for the frozen action that produced it.            *)
LEMMA CommitResultStep ==
  ASSUME IInv, At("commit"), NEW row, CommitResult(row),
         UNCHANGED <<now, process, registry, pending>>,
         Owns /\ DispatchValid /\ Frozen(Dispatched) = w.guard => GoodRow(row)
  PROVE  IInv'
<1>1. host = "up" /\ w.pc = "commit"
  BY DEF At
<1>2. GoodRow(Dispatched)
  BY <1>1, Dispatching
<1>3. TypeOK /\ registry' \subseteq Entry
  BY DEF IInv, TypeOK
<1>4. CASE StaleDispatch
  BY <1>1, <1>3, <1>4, LoopEnds DEF StaleDispatch
<1>5. CASE InvalidDispatch
  BY <1>1, <1>2, <1>3, <1>5, LoopEnds, CheckpointInvalidGood DEF InvalidDispatch
<1>6. CASE Owns /\ DispatchValid /\ Frozen(Dispatched) # w.guard /\ db' = db /\ w' = Idle
  BY <1>1, <1>3, <1>6, LoopEnds
<1>7. CASE /\ Owns /\ DispatchValid /\ Frozen(Dispatched) = w.guard
           /\ Write(w.task, row) /\ Goto("load")
  <2>1. w' \in Worker /\ w'.pc = "load" /\ w'.task = w.task /\ w'.guard = w.guard
    BY <1>3, <1>7, MovedWorker DEF WorkerPC
  <2> QED BY <1>1, <1>3, <1>7, <2>1, LoopGoesOn
<1> QED BY <1>4, <1>5, <1>6, <1>7 DEF CommitResult

(* Results, failures, completion and the confirmation of a request.        *)
LEMMA ResultSteps ==
  ASSUME IInv,
         \/ ApplyPlanner \/ CommitCompletedStep
         \/ TerminalizeAction \/ Finalize \/ ConfirmApproval
  PROVE  IInv'
<1>1. /\ host = "up" /\ UNCHANGED <<now, process, registry, pending>>
      /\ w.pc \in {"commit", "fail", "finalize", "confirmWaiting", "confirmTerminal"}
  BY DEF ApplyPlanner, CommitCompletedStep, TerminalizeAction, Finalize, ConfirmApproval, At
<1>2. GoodRow(Dispatched) /\ (Owns => Dispatched.exec = "RUNNING")
  BY <1>1, Dispatching
<1>3. registry' \subseteq Entry
  BY <1>1 DEF IInv, TypeOK
<1>4. CASE ApplyPlanner
  <2>1. PICK plan \in Plans : CommitResult(PlanApplied(Dispatched, plan))
    BY <1>4 DEF ApplyPlanner
  <2>2. Owns => GoodRow(PlanApplied(Dispatched, plan))
    BY <1>2, PlanAppliedGood
  <2> QED BY <1>1, <1>4, <2>1, <2>2, CommitResultStep DEF ApplyPlanner
<1>5. CASE CommitCompletedStep
  <2>1. ASSUME Owns, DispatchValid, Frozen(Dispatched) = w.guard
        PROVE  GoodRow(StepCompleted(Dispatched))
    <3>1. HasPlan(Dispatched)
      BY <1>5, <2>1 DEF CommitCompletedStep, DispatchValid, CheckpointValid, ReferencesMatch, Frozen
    <3> QED BY <1>2, <2>1, <3>1, StepCompletedGood
  <2> QED BY <1>1, <1>5, <2>1, CommitResultStep DEF CommitCompletedStep
<1>6. CASE TerminalizeAction
  <2>1. w' = Idle /\ (db' = db \/ Write(w.task, ActionTerminalized(Dispatched)))
    BY <1>6 DEF TerminalizeAction, Write
  <2> QED BY <1>1, <1>2, <1>3, <2>1, ActionTerminalizedGood, LoopEnds
<1>7. CASE Finalize
  <2>1. CASE StaleDispatch
    BY <1>1, <1>3, <2>1, LoopEnds DEF StaleDispatch
  <2>2. CASE InvalidDispatch
    BY <1>1, <1>2, <1>3, <2>2, CheckpointInvalidGood, LoopEnds DEF InvalidDispatch
  <2>3. CASE Owns /\ DispatchValid /\ w' = Idle /\ Write(w.task, Finalized(Dispatched))
    <3>1. Dispatched.ckpt.action = "FINALIZE_RUN"
      BY <1>2, <1>7, <2>3 DEF Finalize, At, IInv, WorkerInv, Frozen
    <3>2. Dispatched.step = "Completed" /\ ~HasLaterStep(Dispatched)
      BY <2>3, <3>1 DEF DispatchValid, CheckpointValid, ActionMatches
    <3>3. GoodRow(Finalized(Dispatched))
      BY <1>2, <2>3, <3>2, FinalizedGood
    <3> QED BY <1>1, <1>3, <2>3, <3>3, LoopEnds
  <2> QED BY <1>7, <2>1, <2>2, <2>3 DEF Finalize
<1>8. CASE ConfirmApproval
  BY <1>1, <1>3, <1>8, LoopEnds DEF ConfirmApproval
<1> QED BY <1>4, <1>5, <1>6, <1>7, <1>8

----------------------------------------------------------------------------
(* The theorems *)

(* The invariant holds before the first start of the process.              *)
LEMMA InvInit == Init => IInv
<1> SUFFICES ASSUME Init PROVE IInv
  OBVIOUS
<1>1. TypeOK
  BY IdleType DEF Init, TypeOK
<1>2. RowsInv
  BY DEF Init, RowsInv, Exists
<1>3. ProcessInv
  BY DEF Init, ProcessInv, None
<1>4. WorkerInv
  BY DEF Init, WorkerInv, Idle
<1> QED BY <1>1, <1>2, <1>3, <1>4 DEF IInv

(* Every step of the environment, the commands and the loop keeps it.      *)
LEMMA InvNext == IInv /\ [Next]_vars => IInv'
<1> SUFFICES ASSUME IInv, [Next]_vars PROVE IInv'
  OBVIOUS
<1>1. CASE UNCHANGED vars
  BY <1>1, OnlyOthersChange DEF vars, IInv, TypeOK, ProcessInv
<1>2. CASE \/ Tick \/ Crash \/ StartupCleanup \/ StartupFails \/ WorkerStops
           \/ \E c \in Configs : Restart(c)
           \/ \E t \in Tasks : DamageCheckpoint(t)
  BY <1>2, ProcessSteps
<1>3. CASE \/ \E t \in Tasks : Command(t) \/ ExpireTask(t)
           \/ \E k \in pending : DeliverCancel(k)
  BY <1>3, CommandSteps
<1>4. CASE \E t \in Tasks : ClaimNextExecution(t)
  BY <1>4, ClaimStep
<1>5. CASE LoopStep \/ BeginTool \/ CallReturns \/ LoopFails
  BY <1>5, LoadStep, StartSteps, CallSteps, LoopFailsStep, RequestApprovalStep, ResultSteps
     DEF LoopStep
<1> QED BY <1>1, <1>2, <1>3, <1>4, <1>5 DEF Next

(* The inductive invariant: every row is explained by its own history, and *)
(* the worker's frozen action is the one of the row it runs (execute.go,   *)
(* ExecutionActionGuard).  The theorems below follow from it.              *)
THEOREM Invariance == Spec => []IInv
BY InvInit, InvNext, PTL DEF Spec

(* Type correctness: every variable keeps its type (TypeOK), for any       *)
(* tasks, plans, configurations and bounds.                                *)
THEOREM TypeCorrect == Spec => []TypeOK
<1>1. IInv => TypeOK
  BY DEF IInv
<1> QED BY Invariance, <1>1, PTL

(* The rows of a task, its run, its execution and its current step always  *)
(* form one of the combinations of docs/design/004, section 5, whatever    *)
(* commands, results, decisions, crashes and restarts came before.         *)
THEOREM CrossObjectConsistency == Spec => []CrossObjectConsistent
<1>1. IInv => CrossObjectConsistent
  BY DEF IInv, RowsInv, GoodRow, RowInv, CrossObjectConsistent, Rows
<1> QED BY Invariance, <1>1, PTL

(* Once the ToolExecution of a write tool is durable its execution is not  *)
(* queued, parked or left for Recover, so the call is not made again       *)
(* (startup_cleanup.go, claim.go, recover.go).                             *)
THEOREM WriteToolOnce == Spec => []WriteToolRunsOnce
<1>1. IInv => WriteToolRunsOnce
  <2> SUFFICES ASSUME IInv, NEW t \in Rows, Kind(db[t]) = "write", db[t].tool # "none"
               PROVE  db[t].exec \in {"RUNNING", "COMPLETED", "FAILED"}
    BY DEF WriteToolRunsOnce
  <2>1. GoodRow(db[t])
    BY DEF IInv, RowsInv, Rows
  <2> QED BY <2>1, RowKinds DEF GoodRow, RowInv, FreshRow, ApprovedRow, OwnedRow, WaitingRow,
             InterruptedRow, EndedRow
<1> QED BY Invariance, <1>1, PTL

(* Whoever writes a row found it open: the guards of the commands and the  *)
(* decisions, the queue entry a claim needs, the claim a result needs and  *)
(* the facts StartupCleanup insists on all exclude an ended one.           *)
LEMMA TerminalKept ==
  ASSUME IInv, [Next]_vars, NEW t \in Rows, Terminal(db[t])
  PROVE  db'[t] = db[t]
<1>1. t \in Tasks /\ EndedRow(db[t]) /\ TypeOK
  BY RowKinds DEF Rows, IInv, RowsInv
<1>2. ASSUME NEW s \in Tasks \ {t}, NEW row, Write(s, row)
      PROVE  db'[t] = db[t]
  BY <1>1, <1>2 DEF Write, TypeOK
<1>3. CASE UNCHANGED db
  BY <1>3
<1>4. CASE StartupCleanup
  <2>1. t \notin Legacy
    BY <1>1 DEF Legacy, EndedRow
  <2> QED BY <1>1, <1>4, <2>1 DEF StartupCleanup
<1>5. ASSUME NEW s \in Tasks,
             DamageCheckpoint(s) \/ Command(s) \/ ExpireTask(s) \/ ClaimNextExecution(s)
      PROVE  db'[t] = db[t]
  <2>1. PICK row : Write(s, row)
    BY <1>5 DEF DamageCheckpoint, Command, ExpireTask, ClaimNextExecution, CreateTask,
                CancelTask, RecoverTask, Approve, Reject, Terminate
  <2>2. s # t
    <3>1. CASE DamageCheckpoint(s) \/ ExpireTask(s) \/ CancelTask(s)
      BY <3>1 DEF DamageCheckpoint, ExpireTask, CancelTask
    <3>2. CASE ClaimNextExecution(s)
      BY <1>1, <3>2 DEF ClaimNextExecution, IsHead, Queue, EndedRow
    <3>3. CASE CreateTask(s)
      BY <3>3 DEF CreateTask, Rows
    <3>4. CASE RecoverTask(s)
      BY <3>4 DEF RecoverTask, RecoverOutcome
    <3>5. CASE Approve(s) \/ Reject(s)
      BY <3>5 DEF Approve, Reject, AwaitsDecision, Terminal, TerminalTaskStatus
    <3> QED BY <1>5, <3>1, <3>2, <3>3, <3>4, <3>5 DEF Command
  <2> QED BY <1>2, <2>1, <2>2
<1>6. CASE LoopStep \/ BeginTool \/ CallReturns \/ LoopFails
  <2>1. host = "up" /\ w.pc # "idle"
    BY <1>6 DEF LoopStep, BeginTool, CallReturns, LoopFails, LoadDispatch, PrepareCall, StartAction,
                ActivateCall, RequestApproval, ApplyPlanner, CommitCompletedStep,
                TerminalizeAction, Finalize, ConfirmApproval, At
  <2>2. w.task \in Tasks /\ Exists(w.task)
    BY <2>1, Dispatching
  <2>3. w.task = t => ~Owns
    BY DEF Owns, ClaimOwns, Dispatched, Terminal, TerminalTaskStatus
  <2>4. w.task = t => ~ClaimOwns(Dispatched, w.version, inst, Dispatched.createdAt)
    BY DEF ClaimOwns, Dispatched, Terminal, TerminalTaskStatus
  <2>5. db' = db \/ (w.task # t /\ \E row : Write(w.task, row))
    <3>1. ASSUME NEW row, CommitResult(row)
          PROVE  db' = db \/ (w.task # t /\ \E x : Write(w.task, x))
      BY <2>3, <3>1 DEF CommitResult, StaleDispatch, InvalidDispatch
    <3>2. CASE ApplyPlanner \/ CommitCompletedStep
      BY <3>1, <3>2 DEF ApplyPlanner, CommitCompletedStep
    <3>3. CASE LoadDispatch \/ Finalize
      BY <2>3, <3>3 DEF LoadDispatch, Finalize, StaleDispatch, InvalidDispatch
    <3>4. CASE RequestApproval
      BY <2>3, <3>4 DEF RequestApproval, StaleDispatch
    <3>5. CASE StartAction \/ BeginTool
      BY <2>3, <3>5 DEF StartAction, BeginTool
    <3>6. CASE TerminalizeAction
      BY <2>4, <3>6 DEF TerminalizeAction, Write
    <3>7. CASE PrepareCall \/ ActivateCall \/ CallReturns \/ LoopFails \/ ConfirmApproval
      BY <3>7 DEF PrepareCall, ActivateCall, CallReturns, LoopFails, ConfirmApproval
    <3> QED BY <1>6, <3>2, <3>3, <3>4, <3>5, <3>6, <3>7 DEF LoopStep
  <2> QED BY <1>2, <2>2, <2>5
<1>7. CASE \/ Tick \/ Crash \/ StartupFails \/ WorkerStops
           \/ \E c \in Configs : Restart(c)
           \/ \E k \in pending : DeliverCancel(k)
           \/ UNCHANGED vars
  BY <1>3, <1>7 DEF Tick, Crash, StartupFails, WorkerStops, Restart, DeliverCancel, vars
<1> QED BY <1>4, <1>5, <1>6, <1>7 DEF Next

(* An ended task stays exactly as it ended: late results, decisions,       *)
(* recoveries, expiries and cleanups leave its rows alone.                 *)
THEOREM TerminalRowsAreFinal == Spec => TerminalIsFinal
<1>1. IInv /\ [Next]_vars => [\A t \in Rows : Terminal(db[t]) => db'[t] = db[t]]_vars
  BY TerminalKept
<1> QED BY Invariance, <1>1, PTL DEF Spec, TerminalIsFinal
=============================================================================
