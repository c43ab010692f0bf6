--------------------------- MODULE TaskStepProofs ---------------------------
(***************************************************************************)
(* What a step of any actor may make of the row of one task, and what      *)
(* follows for the action properties of the task runtime.                  *)
(*                                                                         *)
(* RowStep lists the transactions with what each of them checked under its *)
(* row locks.  Once every action is known to be one of them (RowSteps), an *)
(* action property is a fact about each transaction by itself.             *)
(***************************************************************************)
EXTENDS TaskRuntimeProofs

(* the commands of the API, the timeout scanner and the Approval Manager   *)
CommandWrites(r, n) ==
  /\ host = "up"
  /\ \/ ~Terminal(r) /\ n = Cancelled(r, now)
     \/ ~Terminal(r) /\ Expired(r, now) /\ n = ExpiredRow(r)
     \/ RecoverOutcome(r, now, config) = "Recovered" /\ n = Recovered(r, now, config)
     \/ \E error \in {"TaskTimeout", "CheckpointInvalid"} :
           RecoverOutcome(r, now, config) = error /\ n = RecoveryFailure(r, error)
     \/ AwaitsDecision(r) /\ r.ckpt.ok /\ n \in {Approved(r, now), Rejected(r)}
     \/ AwaitsDecision(r) /\ ~r.ckpt.ok /\ n = DecisionCheckpointInvalid(r)

DamageWrites(r, n) == ~Terminal(r) /\ n = [r EXCEPT !.ckpt.ok = FALSE]

ClaimWrites(r, n) ==
  host = "up" /\ w.pc = "idle" /\ r.queuedAt # None /\ n = Claim(r, now, config, inst)

StartupWrites(r, n) ==
  /\ host = "starting" /\ r.exec = "RUNNING" /\ r.worker # inst
  /\ StartupAccepts(r, config) /\ n = StartupCleaned(r, now)

(* what a transaction of ExecuteClaimedExecution makes of a row it owns    *)
Advances(r, n) ==
  \/ w.pc = "start" /\ n = StartStep(r)
  \/ /\ w.pc = "call" /\ r.step = "Running" /\ r.tool = "none" /\ n = [r EXCEPT !.tool = "RUNNING"]
     /\ \/ r.ckpt.action = "EXECUTE_STEP" /\ w.kind = "read"
        \/ r.ckpt.action = "EXECUTE_APPROVED_TOOL"
  \/ /\ CheckpointValid(r, "ExecutionDispatch")
     /\ \/ w.pc = "call" /\ r.ckpt.action = "REQUEST_APPROVAL" /\ n = ApprovalRequested(r)
        \/ /\ w.pc = "commit" /\ r.ckpt.action = "GENERATE_PLAN"
           /\ \E plan \in Plans : n = PlanApplied(r, plan)
        \/ w.pc = "commit" /\ r.ckpt.action # "GENERATE_PLAN" /\ n = StepCompleted(r)
        \/ w.pc = "finalize" /\ r.ckpt.action = "FINALIZE_RUN" /\ n = Finalized(r)

OwnerWrites(r, n) ==
  /\ ClaimOwns(r, w.version, inst, now)
  /\ \/ Advances(r, n)
     \/ ~CheckpointValid(r, "ExecutionDispatch") /\ n = CheckpointInvalidTerminalized(r)

(* TerminalizeExecution does not look at the deadline                      *)
FailureWrites(r, n) ==
  /\ ClaimOwns(r, w.version, inst, r.createdAt)
  /\ w.pc = "fail" /\ n = ActionTerminalized(r)

WorkerWrites(t, r, n) ==
  host = "up" /\ w.task = t /\ (OwnerWrites(r, n) \/ FailureWrites(r, n))

RowStep(t, r, n) ==
  \/ n = r
  \/ CommandWrites(r, n) \/ DamageWrites(r, n) \/ ClaimWrites(r, n) \/ StartupWrites(r, n)
  \/ WorkerWrites(t, r, n)

----------------------------------------------------------------------------
(* Every action is one of these transactions on every row *)

(* A transaction writes one row and leaves the others.                     *)
LEMMA WriteOne ==
  ASSUME TypeOK, NEW s \in Tasks, NEW row, Write(s, row), NEW t \in Tasks
  PROVE  db'[t] = IF t = s THEN row ELSE db[t]
BY DEF Write, TypeOK

(* The commands and the decisions, each under its guard.                   *)
LEMMA CommandRowSteps ==
  ASSUME IInv, NEW t \in Rows, NEW s \in Tasks, Command(s) \/ ExpireTask(s)
  PROVE  db'[t] = db[t] \/ CommandWrites(db[t], db'[t])
<1>1. t \in Tasks /\ Exists(t) /\ TypeOK
  BY DEF Rows, IInv
<1>2. CASE CreateTask(s)
  <2>1. s # t
    BY <1>1, <1>2 DEF CreateTask
  <2> QED BY <1>1, <1>2, <2>1, WriteOne DEF CreateTask
<1>3. CASE CancelTask(s)
  BY <1>1, <1>3, WriteOne DEF CancelTask, Terminate, CommandWrites
<1>4. CASE ExpireTask(s)
  BY <1>1, <1>4, WriteOne DEF ExpireTask, Terminate, CommandWrites
<1>5. CASE RecoverTask(s)
  <2>1. \/ /\ RecoverOutcome(db[s], now, config) = "Recovered"
           /\ Write(s, Recovered(db[s], now, config))
        \/ \E error \in {"TaskTimeout", "CheckpointInvalid"} :
             RecoverOutcome(db[s], now, config) = error /\ Write(s, RecoveryFailure(db[s], error))
    BY <1>5 DEF RecoverTask
  <2>2. host = "up"
    BY <1>5 DEF RecoverTask
  <2> QED BY <1>1, <2>1, <2>2, WriteOne DEF CommandWrites
<1>6. CASE Approve(s) \/ Reject(s)
  <2>1. /\ host = "up" /\ AwaitsDecision(db[s])
        /\ \/ db[s].ckpt.ok /\ Write(s, Approved(db[s], now))
           \/ db[s].ckpt.ok /\ Write(s, Rejected(db[s]))
           \/ ~db[s].ckpt.ok /\ Write(s, DecisionCheckpointInvalid(db[s]))
    BY <1>6 DEF Approve, Reject
  <2> QED BY <1>1, <2>1, WriteOne DEF CommandWrites
<1> QED BY <1>2, <1>3, <1>4, <1>5, <1>6 DEF Command

(* The worker's transactions, each at its point of the loop.               *)
LEMMA WorkerRowSteps ==
  ASSUME IInv, NEW t \in Rows, LoopStep \/ BeginTool \/ CallReturns \/ LoopFails
  PROVE  db'[t] = db[t] \/ WorkerWrites(t, db[t], db'[t])
<1>1. t \in Tasks /\ TypeOK
  BY DEF Rows, IInv
<1>2. host = "up" /\ w.pc # "idle"
  BY DEF LoopStep, BeginTool, CallReturns, LoopFails, LoadDispatch, PrepareCall, StartAction,
         ActivateCall, RequestApproval, ApplyPlanner, CommitCompletedStep, TerminalizeAction, Finalize,
         ConfirmApproval, At
<1>3. w.task \in Tasks
  BY <1>2, Dispatching
<1>0. /\ Owns => Dispatched.exec = "RUNNING"
      /\ w.pc \in {"start", "call", "commit", "finalize"} /\ Owns =>
           Dispatched.ckpt.action = w.guard.action
      /\ w.pc = "finalize" => w.guard.action = "FINALIZE_RUN"
  BY <1>2, Dispatching DEF IInv, WorkerInv, Frozen
<1>4. ASSUME NEW row, Write(w.task, row), WorkerWrites(w.task, Dispatched, row)
      PROVE  db'[t] = db[t] \/ WorkerWrites(t, db[t], db'[t])
  BY <1>1, <1>3, <1>4, WriteOne DEF Dispatched
<1>5. ASSUME InvalidDispatch
      PROVE  db'[t] = db[t] \/ WorkerWrites(t, db[t], db'[t])
  BY <1>2, <1>4, <1>5 DEF InvalidDispatch, Owns, DispatchValid, WorkerWrites, OwnerWrites, Advances
<1>6. CASE LoadDispatch
  BY <1>5, <1>6 DEF LoadDispatch, StaleDispatch
<1>7. CASE PrepareCall \/ ActivateCall \/ CallReturns \/ LoopFails \/ ConfirmApproval
  BY <1>7 DEF PrepareCall, ActivateCall, CallReturns, LoopFails, ConfirmApproval
<1>8. CASE StartAction
  BY <1>2, <1>4, <1>8 DEF StartAction, At, Owns, WorkerWrites, OwnerWrites, Advances
<1>9. CASE BeginTool
  BY <1>0, <1>2, <1>4, <1>9 DEF BeginTool, At, Owns, WorkerWrites, OwnerWrites, Advances
<1>10. CASE RequestApproval
  <2>1. CASE Owns /\ ~DispatchValid /\ Write(w.task, CheckpointInvalidTerminalized(Dispatched))
    BY <1>2, <1>4, <2>1 DEF Owns, DispatchValid, WorkerWrites, OwnerWrites, Advances
  <2>2. CASE Owns /\ DispatchValid /\ Write(w.task, ApprovalRequested(Dispatched))
    BY <1>0, <1>2, <1>4, <1>10, <2>2 DEF RequestApproval, At, Owns, DispatchValid, WorkerWrites, OwnerWrites, Advances
  <2> QED BY <1>10, <2>1, <2>2 DEF RequestApproval, StaleDispatch
<1>11. CASE ApplyPlanner
  <2>1. PICK plan \in Plans : CommitResult(PlanApplied(Dispatched, plan))
    BY <1>11 DEF ApplyPlanner
  <2>2. CASE Owns /\ DispatchValid /\ Write(w.task, PlanApplied(Dispatched, plan))
    BY <1>0, <1>2, <1>4, <1>11, <2>2 DEF ApplyPlanner, At, Owns, DispatchValid, WorkerWrites, OwnerWrites, Advances
  <2> QED BY <1>5, <2>1, <2>2 DEF CommitResult, StaleDispatch
<1>12. CASE CommitCompletedStep
  <2>1. CASE Owns /\ DispatchValid /\ Write(w.task, StepCompleted(Dispatched))
    BY <1>0, <1>2, <1>4, <1>12, <2>1 DEF CommitCompletedStep, At, Owns, DispatchValid, WorkerWrites, OwnerWrites, Advances
  <2> QED BY <1>5, <1>12, <2>1 DEF CommitCompletedStep, CommitResult, StaleDispatch
<1>13. CASE TerminalizeAction
  <2>1. \/ db' = db
        \/ /\ ClaimOwns(Dispatched, w.version, inst, Dispatched.createdAt)
           /\ Write(w.task, ActionTerminalized(Dispatched))
    BY <1>13 DEF TerminalizeAction, Write
  <2> QED BY <1>2, <1>4, <1>13, <2>1 DEF TerminalizeAction, At, WorkerWrites, FailureWrites
<1>14. CASE Finalize
  <2>1. CASE Owns /\ DispatchValid /\ Write(w.task, Finalized(Dispatched))
    BY <1>0, <1>2, <1>4, <1>14, <2>1 DEF Finalize, At, Owns, DispatchValid, WorkerWrites, OwnerWrites, Advances
  <2> QED BY <1>5, <1>14, <2>1 DEF Finalize, StaleDispatch
<1> QED BY <1>6, <1>7, <1>8, <1>9, <1>10, <1>11, <1>12, <1>13, <1>14 DEF LoopStep

(* Every step of the system makes one of the listed transactions of every  *)
(* row, or leaves the row as it is.                                        *)
LEMMA RowSteps ==
  ASSUME IInv, [Next]_vars, NEW t \in Rows
  PROVE  RowStep(t, db[t], db'[t])
<1>1. t \in Tasks /\ Exists(t) /\ TypeOK
  BY DEF Rows, IInv
<1>2. CASE UNCHANGED db
  BY <1>2 DEF RowStep
<1>3. CASE StartupCleanup
  BY <1>1, <1>3 DEF StartupCleanup, Legacy, RowStep, StartupWrites
<1>4. CASE \E s \in Tasks : DamageCheckpoint(s)
  BY <1>1, <1>4, WriteOne DEF DamageCheckpoint, RowStep, DamageWrites
<1>5. CASE \E s \in Tasks : Command(s) \/ ExpireTask(s)
  BY <1>5, CommandRowSteps DEF RowStep
<1>6. CASE \E s \in Tasks : ClaimNextExecution(s)
  BY <1>1, <1>6, WriteOne DEF ClaimNextExecution, IsHead, Queue, RowStep, ClaimWrites
<1>7. CASE LoopStep \/ BeginTool \/ CallReturns \/ LoopFails
  BY <1>7, WorkerRowSteps DEF RowStep
<1>8. CASE \/ Tick \/ Crash \/ StartupFails \/ WorkerStops
           \/ \E c \in Configs : Restart(c)
           \/ \E k \in pending : DeliverCancel(k)
           \/ UNCHANGED vars
  BY <1>2, <1>8 DEF Tick, Crash, StartupFails, WorkerStops, Restart, DeliverCancel, vars
<1> QED BY <1>3, <1>4, <1>5, <1>6, <1>7, <1>8 DEF Next

(* The worker's transactions write good rows: a result needs a plan, an    *)
(* approval request a planned step without a tool call, and FINALIZE the   *)
(* last step completed, all of which the checkpoint they validated says.   *)
LEMMA OwnerWritesGood ==
  ASSUME NEW r, GoodRow(r), NEW n, OwnerWrites(r, n)
  PROVE  GoodRow(n)
<1>1. r.exec = "RUNNING"
  BY DEF OwnerWrites, ClaimOwns
<1>2. CASE n = StartStep(r) \/ n = [r EXCEPT !.tool = "RUNNING"] \/ n = CheckpointInvalidTerminalized(r)
  BY <1>1, <1>2, StartStepGood, ToolBegunGood, CheckpointInvalidGood
<1>3. CASE CheckpointValid(r, "ExecutionDispatch")
           /\ r.ckpt.action = "REQUEST_APPROVAL" /\ n = ApprovalRequested(r)
  <2>1. HasPlan(r) /\ r.tool = "none"
    BY <1>3 DEF CheckpointValid, ActionMatches
  <2> QED BY <1>1, <1>3, <2>1, ApprovalRequestedGood
<1>4. CASE \E plan \in Plans : n = PlanApplied(r, plan)
  BY <1>1, <1>4, PlanAppliedGood
<1>5. CASE CheckpointValid(r, "ExecutionDispatch")
           /\ r.ckpt.action # "GENERATE_PLAN" /\ n = StepCompleted(r)
  <2>1. HasPlan(r)
    BY <1>5 DEF CheckpointValid, ReferencesMatch
  <2> QED BY <1>1, <1>5, <2>1, StepCompletedGood
<1>6. CASE CheckpointValid(r, "ExecutionDispatch")
           /\ r.ckpt.action = "FINALIZE_RUN" /\ n = Finalized(r)
  <2>1. r.step = "Completed" /\ ~HasLaterStep(r)
    BY <1>6 DEF CheckpointValid, ActionMatches
  <2> QED BY <1>1, <1>6, <2>1, FinalizedGood
<1> QED BY <1>2, <1>3, <1>4, <1>5, <1>6 DEF OwnerWrites, Advances

(* Every transaction makes a good row of a good row.                       *)
LEMMA RowStepGood ==
  ASSUME IInv, NEW t, NEW r, GoodRow(r), NEW n, RowStep(t, r, n)
  PROVE  GoodRow(n)
<1>1. now \in Nat \ {0} /\ config \in Configs /\ inst \in Nat /\ (host # "down" => inst # 0)
  BY DEF IInv, TypeOK, ProcessInv, None
<1>2. CASE CommandWrites(r, n)
  <2>1. GoodRow(Cancelled(r, now)) /\ GoodRow(ExpiredRow(r))
    BY TerminationGood DEF Cancelled, ExpiredRow, ErrorCode
  <2>2. \A error \in {"TaskTimeout", "CheckpointInvalid"} : GoodRow(RecoveryFailure(r, error))
    BY RecoveryFailureGood
  <2>3. RecoverOutcome(r, now, config) = "Recovered" => GoodRow(Recovered(r, now, config))
    BY <1>1, RecoveredGood
  <2>4. AwaitsDecision(r) => GoodRow(Approved(r, now)) /\ GoodRow(Rejected(r))
    BY <1>1, ApprovedGood, RejectedGood DEF AwaitsDecision
  <2>5. GoodRow(DecisionCheckpointInvalid(r))
    BY CheckpointInvalidGood
  <2> QED BY <1>2, <2>1, <2>2, <2>3, <2>4, <2>5 DEF CommandWrites
<1>3. CASE DamageWrites(r, n)
  BY <1>3, DamagedGood DEF DamageWrites
<1>4. CASE ClaimWrites(r, n)
  BY <1>1, <1>4, ClaimGood DEF ClaimWrites
<1>5. CASE StartupWrites(r, n)
  BY <1>5, StartupCleanedGood DEF StartupWrites
<1>6. CASE WorkerWrites(t, r, n)
  BY <1>6, OwnerWritesGood, ActionTerminalizedGood DEF WorkerWrites, FailureWrites
<1> QED BY <1>2, <1>3, <1>4, <1>5, <1>6 DEF RowStep

(* No step removes a task: its row stays, and stays a good one.            *)
LEMMA RowsStay ==
  ASSUME IInv, [Next]_vars, NEW t \in Rows
  PROVE  /\ RowStep(t, db[t], db'[t])
         /\ GoodRow(db[t]) /\ GoodRow(db'[t])
         /\ t \in Rows'
<1>1. RowStep(t, db[t], db'[t])
  BY RowSteps
<1>2. GoodRow(db[t]) /\ GoodRow(db'[t])
  BY <1>1, RowStepGood DEF IInv, RowsInv, Rows
<1>3. db'[t] # NoRow
  BY <1>2, TasksAssumption DEF GoodRow
<1> QED BY <1>1, <1>2, <1>3 DEF Rows, Exists

(* A task appears by CreateTask only.                                      *)
LEMMA NewRows ==
  ASSUME IInv, [Next]_vars, NEW t \in Rows', t \notin Rows
  PROVE  CreateTask(t) /\ db'[t] = InitialRow(now, config)
<1>1. t \in Tasks /\ db[t] = NoRow /\ db'[t] # NoRow /\ TypeOK
  BY DEF Rows, Exists, IInv
<1>2. ASSUME NEW s \in Tasks, Exists(s), NEW row, Write(s, row)
      PROVE  FALSE
  BY <1>1, <1>2, WriteOne DEF Exists
<1>3. ~UNCHANGED db
  BY <1>1
<1>4. ~StartupCleanup
  BY <1>1 DEF StartupCleanup, Legacy, Exists
<1>5. ASSUME NEW s \in Tasks, \/ DamageCheckpoint(s) \/ CancelTask(s) \/ RecoverTask(s)
                              \/ Approve(s) \/ Reject(s) \/ ExpireTask(s) \/ ClaimNextExecution(s)
      PROVE  FALSE
  <2>1. Exists(s) /\ \E row : Write(s, row)
    BY <1>5 DEF DamageCheckpoint, CancelTask, RecoverTask, Approve, Reject, ExpireTask,
                ClaimNextExecution, IsHead, Queue, Terminate
  <2> QED BY <1>2, <2>1
<1>6. ~(LoopStep \/ BeginTool \/ CallReturns \/ LoopFails)
  <2> SUFFICES ASSUME LoopStep \/ BeginTool \/ CallReturns \/ LoopFails PROVE FALSE
    OBVIOUS
  <2>1. host = "up" /\ w.pc # "idle"
    BY DEF LoopStep, BeginTool, CallReturns, LoopFails, LoadDispatch, PrepareCall, StartAction,
           ActivateCall, RequestApproval, ApplyPlanner, CommitCompletedStep, TerminalizeAction, Finalize,
           ConfirmApproval, At
  <2>2. w.task \in Tasks /\ Exists(w.task)
    BY <2>1, Dispatching
  <2>3. db' = db \/ \E row : Write(w.task, row)
    <3>1. ASSUME NEW row, CommitResult(row)
          PROVE  db' = db \/ \E x : Write(w.task, x)
      BY <3>1 DEF CommitResult, StaleDispatch, InvalidDispatch
    <3>2. CASE ApplyPlanner \/ CommitCompletedStep
      BY <3>1, <3>2 DEF ApplyPlanner, CommitCompletedStep
    <3> QED BY <3>2 DEF LoopStep, BeginTool, CallReturns, LoopFails, LoadDispatch, PrepareCall, StartAction,
              ActivateCall, RequestApproval, TerminalizeAction, Finalize, ConfirmApproval,
              StaleDispatch, InvalidDispatch, Write
  <2> QED BY <1>2, <1>3, <2>2, <2>3
<1>7. ASSUME NEW s \in Tasks, CreateTask(s)
      PROVE  CreateTask(t) /\ db'[t] = InitialRow(now, config)
  <2>1. Write(s, InitialRow(now, config))
    BY <1>7 DEF CreateTask
  <2>2. s = t
    BY <1>1, <2>1, WriteOne
  <2> QED BY <1>1, <1>7, <2>1, <2>2, WriteOne
<1> QED BY <1>3, <1>4, <1>5, <1>6, <1>7 DEF Next, Command, Tick, Crash, StartupFails, WorkerStops,
           Restart, DeliverCancel, vars

----------------------------------------------------------------------------
(* The columns each transaction changes *)

(* How a row ends unsuccessfully: what closes, what the history keeps.  A  *)
(* tool call is closed unless the checkpoint was found invalid.            *)
Ends(r, n) ==
  /\ n.task \in {"Failed", "Cancelled"} /\ n.run = "Failed" /\ n.exec = "FAILED"
  /\ n.plan = r.plan /\ n.cur = r.cur /\ n.ckpt = r.ckpt
  /\ n.version = r.version /\ n.createdAt = r.createdAt
  /\ n.hash = r.hash /\ n.worker = r.worker
  /\ n.step = r.step \/ (r.step \in OpenStep /\ n.step = "Failed")
  /\ n.tool = "none" <=> r.tool = "none"
  /\ n.error = "CheckpointInvalid" \/ n.tool # "RUNNING"

(* Every closing write, whatever it does with the step and the tool call.  *)
LEMMA ClosingEnds ==
  ASSUME NEW r \in Row, NEW status \in {"Failed", "Cancelled"}, NEW error, NEW cause,
         NEW statuses \in SUBSET OpenStep, NEW tool, tool = "none" <=> r.tool = "none",
         error = "CheckpointInvalid" \/ tool # "RUNNING"
  PROVE  Ends(r, [StepFailed(Closed(r, status, error, cause), statuses) EXCEPT !.tool = tool])
<1> DEFINE c == Closed(r, status, error, cause)
           s == StepFailed(c, statuses)
           n == [s EXCEPT !.tool = tool]
<1>1. /\ c.task = status /\ c.run = "Failed" /\ c.exec = "FAILED" /\ c.error = error
      /\ c.plan = r.plan /\ c.cur = r.cur /\ c.ckpt = r.ckpt /\ c.step = r.step
      /\ c.version = r.version /\ c.createdAt = r.createdAt
      /\ c.hash = r.hash /\ c.worker = r.worker /\ DOMAIN c = DOMAIN r
  BY DEF Closed, Row
<1>2. /\ n.task = c.task /\ n.run = c.run /\ n.exec = c.exec /\ n.error = c.error
      /\ n.plan = c.plan /\ n.cur = c.cur /\ n.ckpt = c.ckpt
      /\ n.version = c.version /\ n.createdAt = c.createdAt
      /\ n.hash = c.hash /\ n.worker = c.worker /\ n.tool = tool
      /\ n.step = IF c.step \in statuses THEN "Failed" ELSE c.step
  BY DEF Closed, StepFailed, Row
<1>3. Ends(r, n)
  <2> HIDE DEF n, c
  <2> QED BY <1>1, <1>2 DEF Ends
<1> QED BY <1>3

(* The closing writes that leave the tool call as it is.                   *)
LEMMA ClosingKeepsTool ==
  ASSUME NEW r \in Row, NEW status \in {"Failed", "Cancelled"}, NEW error, NEW cause,
         NEW statuses \in SUBSET OpenStep, error = "CheckpointInvalid" \/ r.tool # "RUNNING"
  PROVE  /\ Ends(r, Closed(r, status, error, cause))
         /\ Ends(r, StepFailed(Closed(r, status, error, cause), statuses))
         /\ Ends(r, [StepFailed(Closed(r, status, error, cause), statuses) EXCEPT !.approval = "Rejected"])
<1> DEFINE c == Closed(r, status, error, cause)
           s == StepFailed(c, statuses)
           n == [s EXCEPT !.approval = "Rejected"]
<1>1. /\ c.task = status /\ c.run = "Failed" /\ c.exec = "FAILED" /\ c.error = error
      /\ c.plan = r.plan /\ c.cur = r.cur /\ c.ckpt = r.ckpt /\ c.step = r.step
      /\ c.version = r.version /\ c.createdAt = r.createdAt
      /\ c.hash = r.hash /\ c.worker = r.worker /\ c.tool = r.tool
  BY DEF Closed, Row
<1>2. /\ s.task = c.task /\ s.run = c.run /\ s.exec = c.exec /\ s.error = c.error
      /\ s.plan = c.plan /\ s.cur = c.cur /\ s.ckpt = c.ckpt
      /\ s.version = c.version /\ s.createdAt = c.createdAt
      /\ s.hash = c.hash /\ s.worker = c.worker /\ s.tool = c.tool
      /\ s.step = IF c.step \in statuses THEN "Failed" ELSE c.step
  BY DEF Closed, StepFailed, Row
<1>3. /\ n.task = s.task /\ n.run = s.run /\ n.exec = s.exec /\ n.error = s.error
      /\ n.plan = s.plan /\ n.cur = s.cur /\ n.ckpt = s.ckpt
      /\ n.version = s.version /\ n.createdAt = s.createdAt
      /\ n.hash = s.hash /\ n.worker = s.worker /\ n.tool = s.tool /\ n.step = s.step
  BY DEF Closed, StepFailed, Row
<1>4. Ends(r, c) /\ Ends(r, s) /\ Ends(r, n)
  <2> HIDE DEF c, s, n
  <2> QED BY <1>1, <1>2, <1>3 DEF Ends
<1> QED BY <1>4

(* CancelTask, ExpireTask and a failed action close the step and the tool. *)
LEMMA TerminationEnds ==
  ASSUME NEW r \in Row, NEW status \in {"Failed", "Cancelled"}, NEW error
  PROVE  /\ Ends(r, Termination(r, status, error)) /\ Termination(r, status, error).task = status
         /\ Ends(r, ActionTerminalized(r)) /\ ActionTerminalized(r).task = "Failed"
<1> DEFINE inFlight == r.tool = "RUNNING"
           write == Kind(r) = "write"
           cause == IF r.cause = "CONFIG_VERSION_MISMATCH" THEN r.cause
                    ELSE IF inFlight /\ write THEN "WriteToolInterrupted" ELSE "none"
           tool == IF ~inFlight THEN r.tool ELSE IF write THEN "UNKNOWN" ELSE "FAILED"
<1>1. (tool = "none" <=> r.tool = "none") /\ tool # "RUNNING"
  OBVIOUS
<1>2. /\ Termination(r, status, error)
           = [StepFailed(Closed(r, status, error, cause), OpenStep) EXCEPT !.tool = tool]
      /\ ActionTerminalized(r)
           = [StepFailed(Closed(r, "Failed", "ActionFailed", "ActionFailed"), OpenStep)
                EXCEPT !.tool = tool]
  BY DEF Termination, ActionTerminalized
<1>3. Ends(r, Termination(r, status, error)) /\ Ends(r, ActionTerminalized(r))
  <2>1. OpenStep \in SUBSET OpenStep
    OBVIOUS
  <2> HIDE DEF tool, cause
  <2>2. /\ Ends(r, [StepFailed(Closed(r, status, error, cause), OpenStep) EXCEPT !.tool = tool])
        /\ Ends(r, [StepFailed(Closed(r, "Failed", "ActionFailed", "ActionFailed"), OpenStep)
                     EXCEPT !.tool = tool])
    BY <1>1, <2>1, ClosingEnds
  <2> QED BY <1>2, <2>2
<1>4. Termination(r, status, error).task = status /\ ActionTerminalized(r).task = "Failed"
  BY DEF Termination, ActionTerminalized, StepFailed, Closed, Row
<1> QED BY <1>3, <1>4

(* What a transaction that does not end the task makes of its row, with    *)
(* what it checked first.                                                  *)
Claimed(r, n) ==
  /\ host = "up" /\ w.pc = "idle" /\ r.queuedAt # None
  /\ ~Expired(r, now) /\ r.hash = config /\ CheckpointValid(r, ClaimSource(r))
  /\ n = CommitClaim(r, inst)

ClaimInterrupted(r, n) == r.queuedAt # None /\ ~Expired(r, now) /\ n = InterruptConfigMismatch(r)
Requeued(r, n) == RecoverOutcome(r, now, config) = "Recovered" /\ n = Recovered(r, now, config)
Resumed(r, n) == AwaitsDecision(r) /\ n = Approved(r, now)

Interrupted(r, n) ==
  /\ r.exec = "RUNNING" /\ StartupAccepts(r, config)
  /\ ~Expired(r, now) /\ ~(Kind(r) = "write" /\ r.tool = "RUNNING")
  /\ n = [r EXCEPT !.exec = "INTERRUPTED", !.cause = "WorkerInterrupted",
                   !.tool = IF r.tool = "RUNNING" THEN "FAILED" ELSE r.tool]

Advanced(t, r, n) ==
  host = "up" /\ w.task = t /\ ClaimOwns(r, w.version, inst, now) /\ Advances(r, n)

Moves(t, r, n) ==
  \/ n = r \/ n = [r EXCEPT !.ckpt.ok = FALSE]
  \/ Claimed(r, n) \/ ClaimInterrupted(r, n) \/ Requeued(r, n) \/ Resumed(r, n)
  \/ Interrupted(r, n) \/ Advanced(t, r, n)

Fails(r, n) == ~Terminal(r) /\ Ends(r, n) /\ (Expired(r, now) => n.task = "Failed")

(* What a command makes of a row.                                          *)
LEMMA CommandEffects ==
  ASSUME IInv, NEW t, NEW r, GoodRow(r), NEW n, CommandWrites(r, n)
  PROVE  Moves(t, r, n) \/ Fails(r, n)
<1>1. r \in Row
  BY DEF GoodRow
<1>2. CASE ~Terminal(r) /\ n = Cancelled(r, now)
  BY <1>1, <1>2, TerminationEnds DEF Cancelled, Fails
<1>3. CASE ~Terminal(r) /\ n = ExpiredRow(r)
  BY <1>1, <1>3, TerminationEnds DEF ExpiredRow, Fails
<1>4. CASE RecoverOutcome(r, now, config) = "Recovered" /\ n = Recovered(r, now, config)
  BY <1>4 DEF Moves, Requeued
<1>5. ASSUME NEW error \in {"TaskTimeout", "CheckpointInvalid"},
             RecoverOutcome(r, now, config) = error, n = RecoveryFailure(r, error)
      PROVE  Fails(r, n)
  <2>1. ~Terminal(r) /\ r.tool = "none"
    BY <1>5 DEF RecoverOutcome
  <2>2. Ends(r, RecoveryFailure(r, error))
    BY <1>1, <2>1, ClosingKeepsTool DEF RecoveryFailure
  <2>3. RecoveryFailure(r, error).task = "Failed"
    BY <1>1 DEF RecoveryFailure, Closed, Row
  <2> QED BY <1>5, <2>1, <2>2, <2>3 DEF Fails
<1>6. CASE AwaitsDecision(r) /\ n \in {Approved(r, now), Rejected(r), DecisionCheckpointInvalid(r)}
  <2>1. WaitingRow(r) /\ ~Expired(r, now) /\ ~Terminal(r)
    BY <1>6, RowKinds DEF AwaitsDecision, Terminal, TerminalTaskStatus
  <2>2. r.tool # "RUNNING" /\ OpenStep \in SUBSET OpenStep
    BY <2>1 DEF WaitingRow
  <2>3. Ends(r, Rejected(r)) /\ Ends(r, DecisionCheckpointInvalid(r))
    BY <1>1, <2>2, ClosingKeepsTool DEF Rejected, DecisionCheckpointInvalid
  <2> QED BY <1>6, <2>1, <2>3 DEF Fails, Moves, Resumed
<1> QED BY <1>2, <1>3, <1>4, <1>5, <1>6 DEF CommandWrites

(* What a claim makes of a row: a queued row has no tool call.             *)
LEMMA ClaimEffects ==
  ASSUME NEW t, NEW r, GoodRow(r), NEW n, ClaimWrites(r, n)
  PROVE  Moves(t, r, n) \/ Fails(r, n)
<1>1. r \in Row /\ r.exec = "QUEUED" /\ r.tool = "none"
  BY RowKinds DEF GoodRow, RowInv, ClaimWrites
<1>2. ~Terminal(r)
  BY <1>1, RowKinds DEF EndedRow
<1>3. ASSUME NEW error \in {"TaskTimeout", "CheckpointInvalid"}, n = TerminalizeClaim(r, error)
      PROVE  Fails(r, n)
  <2>1. Ends(r, TerminalizeClaim(r, error))
    BY <1>1, ClosingKeepsTool DEF TerminalizeClaim
  <2>2. TerminalizeClaim(r, error).task = "Failed"
    BY <1>1 DEF TerminalizeClaim, Closed, Row
  <2> QED BY <1>2, <1>3, <2>1, <2>2 DEF Fails
<1>4. CASE ClaimOutcome(r, now, config) = "ConfigMismatchInterrupted"
  BY <1>4 DEF ClaimOutcome, Claim, ClaimWrites, Moves, ClaimInterrupted
<1>5. CASE ClaimOutcome(r, now, config) = "Claimed"
  BY <1>5 DEF ClaimOutcome, Claim, ClaimWrites, Moves, Claimed
<1>6. CASE ClaimOutcome(r, now, config) \in {"ExpiredTerminalized", "CheckpointInvalidTerminalized"}
  BY <1>3, <1>6 DEF Claim, ClaimWrites
<1> QED BY <1>4, <1>5, <1>6 DEF ClaimOutcome

(* What StartupCleanup makes of a legacy execution.                        *)
LEMMA StartupEffects ==
  ASSUME NEW t, NEW r, GoodRow(r), NEW n, StartupWrites(r, n)
  PROVE  Moves(t, r, n) \/ Fails(r, n)
<1> DEFINE close(error, cause, tool) ==
             [StepFailed(Closed(r, "Failed", error, cause), OpenStep) EXCEPT !.tool = tool]
           failed == IF r.tool = "RUNNING" THEN "FAILED" ELSE r.tool
<1>1. r \in Row /\ r.exec = "RUNNING" /\ StartupAccepts(r, config)
  BY DEF GoodRow, StartupWrites
<1>2. ~Terminal(r)
  BY <1>1, RowKinds DEF EndedRow
<1>3. (failed = "none" <=> r.tool = "none") /\ failed # "RUNNING"
  OBVIOUS
<1>4. ASSUME NEW error, NEW cause, NEW tool, tool = "none" <=> r.tool = "none",
             error = "CheckpointInvalid" \/ tool # "RUNNING"
      PROVE  Ends(r, close(error, cause, tool)) /\ close(error, cause, tool).task = "Failed"
  <2>1. OpenStep \in SUBSET OpenStep
    OBVIOUS
  <2>2. close(error, cause, tool).task = "Failed"
    BY <1>1 DEF StepFailed, Closed, Row
  <2> QED BY <1>1, <1>4, <2>1, <2>2, ClosingEnds
<1>5. CASE StartupDisposition(r, now) = "interrupt"
  <2>1. n = [r EXCEPT !.exec = "INTERRUPTED", !.cause = "WorkerInterrupted", !.tool = failed]
    BY <1>5 DEF StartupWrites, StartupCleaned
  <2> QED BY <1>1, <1>5, <2>1 DEF StartupDisposition, Moves, Interrupted
<1>6. CASE StartupDisposition(r, now) # "interrupt"
  <2>1. \/ n = close("TaskTimeout", "WriteToolInterrupted", "UNKNOWN") /\ r.tool = "RUNNING"
        \/ n = close("TaskTimeout", "none", failed)
        \/ n = close("CheckpointInvalid", "CheckpointInvalid", r.tool)
        \/ n = close("WriteToolInterrupted", "WriteToolInterrupted", "UNKNOWN") /\ r.tool = "RUNNING"
    BY <1>6 DEF StartupWrites, StartupCleaned, StartupDisposition
  <2> HIDE DEF close, failed
  <2>2. Ends(r, n) /\ n.task = "Failed"
    BY <1>3, <1>4, <2>1
  <2> QED BY <1>2, <2>2 DEF Fails
<1> QED BY <1>5, <1>6

(* What the worker makes of the row it works on.                           *)
LEMMA WorkerEffects ==
  ASSUME NEW t, NEW r, GoodRow(r), NEW n, WorkerWrites(t, r, n)
  PROVE  Moves(t, r, n) \/ Fails(r, n)
<1>1. r \in Row /\ ~Terminal(r)
  BY DEF GoodRow, WorkerWrites, OwnerWrites, FailureWrites, ClaimOwns, Terminal, TerminalTaskStatus
<1>2. CASE OwnerWrites(r, n) /\ Advances(r, n)
  BY <1>2 DEF WorkerWrites, OwnerWrites, Moves, Advanced
<1>3. CASE n = CheckpointInvalidTerminalized(r)
  <2>1. {"Running"} \in SUBSET OpenStep
    BY DEF OpenStep, ActiveStep
  <2>2. Ends(r, CheckpointInvalidTerminalized(r))
    BY <1>1, <2>1, ClosingKeepsTool DEF CheckpointInvalidTerminalized
  <2>3. CheckpointInvalidTerminalized(r).task = "Failed"
    BY <1>1 DEF CheckpointInvalidTerminalized, StepFailed, Closed, Row
  <2> QED BY <1>1, <1>3, <2>2, <2>3 DEF Fails
<1>4. CASE n = ActionTerminalized(r)
  BY <1>1, <1>4, TerminationEnds DEF Fails
<1> QED BY <1>2, <1>3, <1>4 DEF WorkerWrites, OwnerWrites, FailureWrites

(* Every transaction moves an open task on, or ends it, and past the       *)
(* deadline ends it as Failed.                                             *)
LEMMA Effects ==
  ASSUME IInv, NEW t, NEW r, GoodRow(r), NEW n, RowStep(t, r, n)
  PROVE  Moves(t, r, n) \/ Fails(r, n)
BY CommandEffects, ClaimEffects, StartupEffects, WorkerEffects DEF RowStep, DamageWrites, Moves

----------------------------------------------------------------------------
(* The columns a moving transaction writes *)

SameTask(r, n) == n.version = r.version /\ n.createdAt = r.createdAt /\ n.hash = r.hash
SamePlace(r, n) == n.plan = r.plan /\ n.cur = r.cur /\ n.step = r.step

(* Damage touches the checkpoint only.                                     *)
LEMMA DamagedFields ==
  ASSUME NEW r \in Row
  PROVE  LET n == [r EXCEPT !.ckpt.ok = FALSE] IN
         /\ SameTask(r, n) /\ SamePlace(r, n)
         /\ n.task = r.task /\ n.run = r.run /\ n.exec = r.exec /\ n.queuedAt = r.queuedAt
         /\ n.worker = r.worker /\ n.tool = r.tool /\ n.approval = r.approval
         /\ n.error = r.error /\ n.cause = r.cause /\ n.started = r.started
         /\ n.ckpt.seq = r.ckpt.seq /\ n.ckpt.action = r.ckpt.action /\ n.ckpt.step = r.ckpt.step
         /\ n.ckpt.source = r.ckpt.source /\ n.ckpt.approval = r.ckpt.approval
BY DEF Row, CheckpointRow, SameTask, SamePlace

(* A claim hands a queued row to the worker, with a checkpoint of its own  *)
(* for a first or recovered planning.                                      *)
LEMMA CommitClaimFields ==
  ASSUME NEW r \in Row, NEW k
  PROVE  LET n == CommitClaim(r, k) IN
         /\ SameTask(r, n) /\ SamePlace(r, n)
         /\ n.task = "Running" /\ n.run = "Running" /\ n.exec = "RUNNING" /\ n.queuedAt = None
         /\ n.worker = k /\ n.tool = r.tool /\ n.approval = r.approval
         /\ n.ckpt = IF ~HasPlan(r) /\ (ClaimSource(r) = "ClaimInitial" \/ r.ckpt.source)
                     THEN NextCheckpoint(r, "GENERATE_PLAN") ELSE r.ckpt
BY DEF CommitClaim, NextCheckpoint, Row, SameTask, SamePlace

(* The wrong configuration leaves an interrupted row.                      *)
LEMMA InterruptConfigMismatchFields ==
  ASSUME NEW r \in Row
  PROVE  LET n == InterruptConfigMismatch(r) IN
         /\ SameTask(r, n) /\ SamePlace(r, n)
         /\ n.task = "INTERRUPTED" /\ n.run = r.run /\ n.exec = "INTERRUPTED" /\ n.queuedAt = None
         /\ n.worker = None /\ n.tool = r.tool /\ n.approval = r.approval /\ n.ckpt = r.ckpt
BY DEF InterruptConfigMismatch, Row, SameTask, SamePlace

(* StartupCleanup keeps everything but the execution and its tool call.    *)
LEMMA InterruptedFields ==
  ASSUME NEW r \in Row, NEW n, Interrupted(r, n)
  PROVE  /\ SameTask(r, n) /\ SamePlace(r, n)
         /\ n.task = r.task /\ n.run = r.run /\ n.exec = "INTERRUPTED" /\ n.queuedAt = r.queuedAt
         /\ n.worker = r.worker /\ n.approval = r.approval /\ n.ckpt = r.ckpt
         /\ n.tool = IF r.tool = "RUNNING" THEN "FAILED" ELSE r.tool
BY DEF Interrupted, Row, SameTask, SamePlace

(* Recover makes the next version of the same plan position.               *)
LEMMA RequeuedFields ==
  ASSUME NEW r \in Row, NEW n, Requeued(r, n)
  PROVE  /\ n.version = r.version + 1 /\ n.createdAt = r.createdAt /\ n.hash = config
         /\ SamePlace(r, n)
         /\ n.task = "Pending" /\ n.run = "Pending" /\ n.exec = "QUEUED" /\ n.queuedAt = now
         /\ n.worker = None /\ n.tool = "none" /\ n.approval = "none"
         /\ n.ckpt.seq = r.ckpt.seq + 1 /\ n.ckpt.action = r.ckpt.action /\ n.ckpt.step = r.ckpt.step
         /\ n.ckpt.source = TRUE /\ n.ckpt.approval = r.ckpt.approval /\ n.ckpt.ok = r.ckpt.ok
<1> DEFINE k == [r.ckpt EXCEPT !.seq = @ + 1, !.source = TRUE]
<1>1. n = [r EXCEPT !.task = "Pending", !.error = "none", !.version = @ + 1,
            !.queuedAt = now, !.run = "Pending", !.exec = "QUEUED",
            !.worker = None, !.hash = config, !.cause = "none", !.started = FALSE,
            !.tool = "none", !.approval = "none", !.ckpt = k]
  BY DEF Requeued, Recovered
<1> HIDE DEF k
<1>2. /\ n.version = r.version + 1 /\ n.createdAt = r.createdAt /\ n.hash = config
      /\ n.plan = r.plan /\ n.cur = r.cur /\ n.step = r.step
      /\ n.task = "Pending" /\ n.run = "Pending" /\ n.exec = "QUEUED" /\ n.queuedAt = now
      /\ n.worker = None /\ n.tool = "none" /\ n.approval = "none" /\ n.ckpt = k
  BY <1>1 DEF Row
<1>3. /\ k.seq = r.ckpt.seq + 1 /\ k.action = r.ckpt.action /\ k.step = r.ckpt.step
      /\ k.source = TRUE /\ k.approval = r.ckpt.approval /\ k.ok = r.ckpt.ok
  BY DEF k, Row, CheckpointRow
<1> QED BY <1>2, <1>3 DEF SamePlace

(* Approve queues the waiting step again.                                  *)
LEMMA ResumedFields ==
  ASSUME NEW r \in Row, NEW n, Resumed(r, n)
  PROVE  /\ SameTask(r, n) /\ n.plan = r.plan /\ n.cur = r.cur /\ n.step = "Running"
         /\ n.task = "Running" /\ n.run = "Running" /\ n.exec = "QUEUED" /\ n.queuedAt = now
         /\ n.worker = r.worker /\ n.tool = r.tool /\ n.approval = "Approved"
         /\ n.ckpt.seq = r.ckpt.seq + 1 /\ n.ckpt.action = "EXECUTE_APPROVED_TOOL"
         /\ n.ckpt.step = r.cur /\ ~n.ckpt.source /\ n.ckpt.approval /\ n.ckpt.ok
<1> DEFINE k == [NextCheckpoint(r, "EXECUTE_APPROVED_TOOL") EXCEPT !.approval = TRUE]
<1>1. n = [r EXCEPT !.task = "Running", !.run = "Running", !.step = "Running",
                    !.exec = "QUEUED", !.queuedAt = now, !.approval = "Approved", !.ckpt = k]
  BY DEF Resumed, Approved
<1>2. /\ k.seq = r.ckpt.seq + 1 /\ k.action = "EXECUTE_APPROVED_TOOL"
      /\ k.step = r.cur /\ ~k.source /\ k.approval /\ k.ok
  BY DEF NextCheckpoint, Row, CheckpointRow
<1> HIDE DEF k
<1>3. /\ n.version = r.version /\ n.createdAt = r.createdAt /\ n.hash = r.hash
      /\ n.plan = r.plan /\ n.cur = r.cur /\ n.step = "Running"
      /\ n.task = "Running" /\ n.run = "Running" /\ n.exec = "QUEUED" /\ n.queuedAt = now
      /\ n.worker = r.worker /\ n.tool = r.tool /\ n.approval = "Approved" /\ n.ckpt = k
  BY <1>1 DEF Row
<1> QED BY <1>2, <1>3 DEF SameTask

(* Starting the action moves a pending step only.                          *)
LEMMA StartStepFields ==
  ASSUME NEW r \in Row
  PROVE  LET n == StartStep(r) IN
         /\ SameTask(r, n) /\ n.plan = r.plan /\ n.cur = r.cur
         /\ n.step = (IF r.step = "Pending" THEN "Running" ELSE r.step)
         /\ n.task = r.task /\ n.run = r.run /\ n.exec = r.exec /\ n.queuedAt = r.queuedAt
         /\ n.worker = r.worker /\ n.tool = r.tool /\ n.approval = r.approval /\ n.ckpt = r.ckpt
BY DEF StartStep, Row, SameTask

(* The Tool Framework begins the tool call.                                *)
LEMMA ToolBegunFields ==
  ASSUME NEW r \in Row
  PROVE  LET n == [r EXCEPT !.tool = "RUNNING"] IN
         /\ SameTask(r, n) /\ SamePlace(r, n)
         /\ n.task = r.task /\ n.run = r.run /\ n.exec = r.exec /\ n.queuedAt = r.queuedAt
         /\ n.worker = r.worker /\ n.tool = "RUNNING" /\ n.approval = r.approval /\ n.ckpt = r.ckpt
BY DEF Row, SameTask, SamePlace

(* RequestApproval parks the step.                                         *)
LEMMA ApprovalRequestedFields ==
  ASSUME NEW r \in Row
  PROVE  LET n == ApprovalRequested(r) IN
         /\ SameTask(r, n) /\ n.plan = r.plan /\ n.cur = r.cur /\ n.step = "WaitingApproval"
         /\ n.task = "WaitingApproval" /\ n.run = "WaitingApproval"
         /\ n.exec = "WAITING_APPROVAL" /\ n.queuedAt = r.queuedAt
         /\ n.worker = None /\ n.tool = r.tool /\ n.approval = "Pending"
         /\ n.ckpt = [seq |-> r.ckpt.seq + 1, action |-> "REQUEST_APPROVAL", step |-> r.cur,
                      source |-> FALSE, approval |-> TRUE, ok |-> TRUE]
BY DEF ApprovalRequested, NextCheckpoint, Row, SameTask

(* A plan's first step becomes the current one.                            *)
LEMMA PlanAppliedFields ==
  ASSUME NEW r \in Row, NEW plan \in Plans, NEW n, n = PlanApplied(r, plan)
  PROVE  /\ SameTask(r, n) /\ n.plan = plan /\ n.cur = 1 /\ n.step = "Pending"
         /\ n.task = r.task /\ n.run = r.run /\ n.exec = r.exec /\ n.queuedAt = r.queuedAt
         /\ n.worker = r.worker /\ n.tool = r.tool /\ n.approval = r.approval
         /\ n.ckpt.seq = r.ckpt.seq + 1 /\ n.ckpt.action = ActionForKind(Kind(n))
         /\ n.ckpt.step = 1 /\ ~n.ckpt.source /\ ~n.ckpt.approval /\ n.ckpt.ok
<1> DEFINE action == ActionForKind(plan[1])
           p == [r EXCEPT !.plan = plan, !.cur = 1, !.step = "Pending"]
           k == NextCheckpoint(p, action)
<1>1. n = [p EXCEPT !.ckpt = k]
  BY DEF PlanApplied
<1>2. p.ckpt = r.ckpt /\ p.cur = 1
  BY DEF Row
<1> HIDE DEF action
<1>3. k = [seq |-> r.ckpt.seq + 1, action |-> action, step |-> 1,
           source |-> FALSE, approval |-> FALSE, ok |-> TRUE]
  BY <1>2 DEF NextCheckpoint
<1>4. /\ k.seq = r.ckpt.seq + 1 /\ k.action = action /\ k.step = 1
      /\ ~k.source /\ ~k.approval /\ k.ok
  BY <1>3
<1> HIDE DEF k
<1>5. /\ SameTask(r, n) /\ n.plan = plan /\ n.cur = 1 /\ n.step = "Pending"
      /\ n.task = r.task /\ n.run = r.run /\ n.exec = r.exec /\ n.queuedAt = r.queuedAt
      /\ n.worker = r.worker /\ n.tool = r.tool /\ n.approval = r.approval /\ n.ckpt = k
  BY <1>1 DEF Row, SameTask
<1>6. action = ActionForKind(Kind(n))
  BY <1>5 DEF action, Kind, None
<1> QED BY <1>4, <1>5, <1>6

(* A completed step makes the next one current, or is the last.            *)
LEMMA StepCompletedFields ==
  ASSUME NEW r \in Row, NEW n, n = StepCompleted(r)
  PROVE  /\ SameTask(r, n) /\ n.plan = r.plan
         /\ n.task = r.task /\ n.run = r.run /\ n.exec = r.exec /\ n.queuedAt = r.queuedAt
         /\ n.worker = r.worker /\ n.ckpt.seq = r.ckpt.seq + 1
         /\ n.ckpt.step = n.cur /\ ~n.ckpt.source /\ ~n.ckpt.approval /\ n.ckpt.ok
         /\ IF HasLaterStep(r)
            THEN /\ n.cur = r.cur + 1 /\ n.step = "Pending"
                 /\ n.tool = "none" /\ n.approval = "none"
                 /\ n.ckpt.action = ActionForKind(Kind(n))
            ELSE /\ n.cur = r.cur /\ n.step = "Completed" /\ n.approval = r.approval
                 /\ n.tool = (IF r.tool = "none" THEN "none" ELSE "COMPLETED")
                 /\ n.ckpt.action = "FINALIZE_RUN"
<1>1. CASE HasLaterStep(r)
  <2> DEFINE action == ActionForKind(r.plan[r.cur + 1])
             p == [r EXCEPT !.cur = r.cur + 1, !.step = "Pending", !.tool = "none", !.approval = "none"]
             k == NextCheckpoint(p, action)
  <2>1. p.ckpt = r.ckpt /\ p.cur = r.cur + 1 /\ p.plan = r.plan
    BY DEF Row
  <2>2. n = [p EXCEPT !.ckpt = k]
    <3>1. n = [p EXCEPT !.ckpt = NextCheckpoint(p, ActionForKind(p.plan[p.cur]))]
      BY <1>1 DEF StepCompleted
    <3> QED BY <2>1, <3>1
  <2> HIDE DEF action
  <2>3. k = [seq |-> r.ckpt.seq + 1, action |-> action, step |-> r.cur + 1,
             source |-> FALSE, approval |-> FALSE, ok |-> TRUE]
    BY <2>1 DEF NextCheckpoint
  <2>4. /\ k.seq = r.ckpt.seq + 1 /\ k.action = action /\ k.step = r.cur + 1
        /\ ~k.source /\ ~k.approval /\ k.ok
    BY <2>3
  <2> HIDE DEF k
  <2>5. /\ SameTask(r, n) /\ n.plan = r.plan /\ n.cur = r.cur + 1 /\ n.step = "Pending"
        /\ n.task = r.task /\ n.run = r.run /\ n.exec = r.exec /\ n.queuedAt = r.queuedAt
        /\ n.worker = r.worker /\ n.tool = "none" /\ n.approval = "none" /\ n.ckpt = k
    BY <2>2 DEF Row, SameTask
  <2>6. action = ActionForKind(Kind(n))
    <3>1. n.cur # None
      BY <2>5 DEF Row, None
    <3> QED BY <2>5, <3>1 DEF action, Kind
  <2> QED BY <1>1, <2>4, <2>5, <2>6
<1>2. CASE ~HasLaterStep(r)
  <2> DEFINE tool == IF r.tool = "none" THEN "none" ELSE "COMPLETED"
             p == [r EXCEPT !.step = "Completed", !.tool = tool]
             k == NextCheckpoint(p, "FINALIZE_RUN")
  <2>1. p.ckpt = r.ckpt /\ p.cur = r.cur
    BY DEF Row
  <2>2. n = [p EXCEPT !.ckpt = k]
    BY <1>2 DEF StepCompleted
  <2>3. k = [seq |-> r.ckpt.seq + 1, action |-> "FINALIZE_RUN", step |-> r.cur,
             source |-> FALSE, approval |-> FALSE, ok |-> TRUE]
    BY <2>1 DEF NextCheckpoint
  <2>4. /\ k.seq = r.ckpt.seq + 1 /\ k.action = "FINALIZE_RUN" /\ k.step = r.cur
        /\ ~k.source /\ ~k.approval /\ k.ok
    BY <2>3
  <2> HIDE DEF k, tool
  <2>5. /\ SameTask(r, n) /\ n.plan = r.plan /\ n.cur = r.cur /\ n.step = "Completed"
        /\ n.task = r.task /\ n.run = r.run /\ n.exec = r.exec /\ n.queuedAt = r.queuedAt
        /\ n.worker = r.worker /\ n.tool = tool /\ n.approval = r.approval /\ n.ckpt = k
    BY <2>2 DEF Row, SameTask
  <2> QED BY <1>2, <2>4, <2>5 DEF tool
<1> QED BY <1>1, <1>2

(* FinalizeExecution ends the run as it stands.                            *)
LEMMA FinalizedFields ==
  ASSUME NEW r \in Row
  PROVE  LET n == Finalized(r) IN
         /\ SameTask(r, n) /\ SamePlace(r, n)
         /\ n.task = "Completed" /\ n.run = "Completed" /\ n.exec = "COMPLETED"
         /\ n.queuedAt = r.queuedAt /\ n.worker = r.worker /\ n.tool = r.tool
         /\ n.approval = r.approval /\ n.ckpt = r.ckpt /\ n.error = r.error
BY DEF Finalized, Row, SameTask, SamePlace

----------------------------------------------------------------------------
(* What the worker knows of the row it works on, as long as that row runs: *)
(* its step has been started, its kind is the one it froze, and a tool     *)
(* call it began is durable; a tool step has no result without such a      *)
(* call, and the end of a run is no action with a result.                  *)

Acting == {"activate", "call", "commit", "fail"}
Knowing == {"prepare", "start"} \cup Acting
Runs == Dispatched.exec = "RUNNING"

WorkerFacts ==
  /\ w.pc \in Acting /\ Runs => Dispatched.step # "Pending"
  /\ w.pc \in Knowing /\ Runs => w.kind = Kind(Dispatched)
  /\ w.pc \in {"call", "commit"} /\ w.began /\ Runs => Dispatched.tool = "RUNNING"
  /\ w.pc = "commit" /\ w.kind \in {"read", "write"} => w.began
  /\ w.pc \in {"prepare", "start", "activate"} => ~w.began
  /\ w.pc \in Knowing => w.guard.action # "FINALIZE_RUN"

(* A command leaves no row running.                                        *)
LEMMA CommandStops ==
  ASSUME NEW r, GoodRow(r), NEW n, CommandWrites(r, n)
  PROVE  n.exec # "RUNNING"
<1>1. r \in Row
  BY DEF GoodRow
<1>2. /\ EndedRow(Cancelled(r, now)) /\ EndedRow(ExpiredRow(r)) /\ EndedRow(Rejected(r))
      /\ EndedRow(DecisionCheckpointInvalid(r))
      /\ \A error \in {"TaskTimeout", "CheckpointInvalid"} : EndedRow(RecoveryFailure(r, error))
  BY TerminationGood, RejectedGood, CheckpointInvalidGood, RecoveryFailureGood
     DEF Cancelled, ExpiredRow, ErrorCode
<1>3. Recovered(r, now, config).exec = "QUEUED" /\ Approved(r, now).exec = "QUEUED"
  BY <1>1 DEF Recovered, Approved, Row
<1>4. \A x : EndedRow(x) => x.exec # "RUNNING"
  BY DEF EndedRow
<1> QED BY <1>2, <1>3, <1>4 DEF CommandWrites

(* Nobody but the worker changes its row while it runs, damage aside.      *)
LEMMA OthersLeaveRow ==
  ASSUME IInv, w.pc # "idle", w' = w,
         \/ \E s \in Tasks : Command(s) \/ ExpireTask(s) \/ DamageCheckpoint(s) \/ ClaimNextExecution(s)
         \/ StartupCleanup \/ UNCHANGED db
  PROVE  Runs' => /\ Runs
                  /\ Dispatched'.step = Dispatched.step /\ Kind(Dispatched)' = Kind(Dispatched)
                  /\ Dispatched'.tool = Dispatched.tool
<1>1. w.task \in Rows /\ w.task \in Tasks /\ GoodRow(Dispatched) /\ TypeOK /\ host = "up"
  BY DEF IInv, WorkerInv, ProcessInv, RowsInv, Rows, Dispatched, Idle
<1>2. Dispatched' = db'[w.task]
  BY DEF Dispatched
<1>3. CASE UNCHANGED db
  BY <1>2, <1>3 DEF Dispatched, Runs, Kind
<1>4. CASE \E s \in Tasks : Command(s) \/ ExpireTask(s)
  <2>1. db'[w.task] = db[w.task] \/ CommandWrites(db[w.task], db'[w.task])
    BY <1>1, <1>4, CommandRowSteps
  <2> QED BY <1>1, <1>2, <2>1, CommandStops DEF Dispatched, Runs, Kind
<1>5. CASE \E s \in Tasks : DamageCheckpoint(s)
  <2>1. PICK s \in Tasks : Write(s, [db[s] EXCEPT !.ckpt.ok = FALSE])
    BY <1>5 DEF DamageCheckpoint
  <2>2. Dispatched' = Dispatched \/ Dispatched' = [Dispatched EXCEPT !.ckpt.ok = FALSE]
    <3> DEFINE damaged == [db[s] EXCEPT !.ckpt.ok = FALSE]
    <3>1. Write(s, damaged)
      BY <2>1
    <3> HIDE DEF damaged
    <3>2. db'[w.task] = IF w.task = s THEN damaged ELSE db[w.task]
      BY <1>1, <3>1, WriteOne
    <3> QED BY <1>2, <3>2 DEF Dispatched, damaged
  <2>3. Dispatched \in Row
    BY <1>1 DEF GoodRow
  <2>4. /\ [Dispatched EXCEPT !.ckpt.ok = FALSE].exec = Dispatched.exec
        /\ SamePlace(Dispatched, [Dispatched EXCEPT !.ckpt.ok = FALSE])
        /\ [Dispatched EXCEPT !.ckpt.ok = FALSE].tool = Dispatched.tool
    BY <2>3, DamagedFields
  <2>5. ASSUME NEW n, Dispatched' = n, n.exec = Dispatched.exec, SamePlace(Dispatched, n),
               n.tool = Dispatched.tool
        PROVE  /\ Runs' = Runs /\ Dispatched'.step = Dispatched.step
               /\ Kind(Dispatched)' = Kind(Dispatched) /\ Dispatched'.tool = Dispatched.tool
    BY <2>5 DEF Runs, Kind, SamePlace
  <2>6. CASE Dispatched' = Dispatched
    BY <2>6 DEF Runs, Kind
  <2> QED BY <2>2, <2>4, <2>5, <2>6
<1>6. CASE (\E s \in Tasks : ClaimNextExecution(s)) \/ StartupCleanup
  BY <1>1, <1>6 DEF ClaimNextExecution, StartupCleanup
<1> QED BY <1>3, <1>4, <1>5, <1>6

(* The worker facts under everybody else's steps, and when it lets go.     *)
LEMMA FactsKept ==
  ASSUME IInv, WorkerFacts, w' = w,
         \/ \E s \in Tasks : Command(s) \/ ExpireTask(s) \/ DamageCheckpoint(s) \/ ClaimNextExecution(s)
         \/ StartupCleanup \/ UNCHANGED db
  PROVE  WorkerFacts'
<1>1. CASE w.pc = "idle"
  BY <1>1 DEF WorkerFacts, Acting, Knowing
<1>2. CASE w.pc # "idle"
  <2>1. Runs' => /\ Runs
                 /\ Dispatched'.step = Dispatched.step /\ Kind(Dispatched)' = Kind(Dispatched)
                 /\ Dispatched'.tool = Dispatched.tool
    BY <1>2, OthersLeaveRow
  <2> QED BY <2>1 DEF WorkerFacts
<1> QED BY <1>1, <1>2

(* Between two actions the worker claims to know nothing.                  *)
LEMMA FactsOfIdle ==
  ASSUME w'.pc \in {"idle", "load", "finalize", "confirmWaiting", "confirmTerminal", "broken"}
  PROVE  WorkerFacts'
BY DEF WorkerFacts, Acting, Knowing

(* The worker's own steps.                                                 *)
LEMMA FactsLoop ==
  ASSUME IInv, WorkerFacts, LoopStep \/ BeginTool \/ CallReturns \/ LoopFails
  PROVE  WorkerFacts'
<1> USE DEF Acting, Knowing
<1>0. /\ host = "up" /\ w.pc # "idle" /\ w \in Worker
      /\ w.task \in Tasks /\ GoodRow(Dispatched) /\ TypeOK /\ Dispatched \in Row
  <2>1. host = "up" /\ w.pc # "idle" /\ w \in Worker /\ TypeOK
    BY DEF LoopStep, BeginTool, CallReturns, LoopFails, LoadDispatch, PrepareCall, StartAction,
           ActivateCall, RequestApproval, ApplyPlanner, CommitCompletedStep, TerminalizeAction, Finalize,
           ConfirmApproval, At, IInv, TypeOK
  <2> QED BY <2>1, Dispatching DEF GoodRow
<1>1. ASSUME NEW pc, Goto(pc)
      PROVE  /\ w'.pc = pc /\ w'.task = w.task /\ w'.kind = w.kind /\ w'.began = w.began
             /\ w'.guard = w.guard
  BY <1>0, <1>1 DEF Goto, Worker
<1>2. ASSUME db' = db, w'.task = w.task
      PROVE  Dispatched' = Dispatched /\ Runs' = Runs
  BY <1>2 DEF Dispatched, Runs
<1>3. ASSUME w' = Idle
      PROVE  WorkerFacts'
  BY <1>3, FactsOfIdle DEF Idle
<1>4. CASE LoadDispatch
  <2>1. CASE /\ db' = db
             /\ w' = [w EXCEPT !.pc = IF Dispatched.ckpt.action = "FINALIZE_RUN"
                                      THEN "finalize" ELSE "prepare",
                               !.guard = Frozen(Dispatched), !.kind = Kind(Dispatched),
                               !.began = FALSE]
    <3>1. /\ w'.pc \in {"finalize", "prepare"} /\ w'.task = w.task
          /\ w'.kind = Kind(Dispatched) /\ w'.began = FALSE
          /\ w'.pc = "prepare" => Dispatched.ckpt.action # "FINALIZE_RUN"
          /\ w'.guard.action = Dispatched.ckpt.action
      BY <1>0, <2>1 DEF Worker, Frozen
    <3> QED BY <1>2, <2>1, <3>1 DEF WorkerFacts
  <2> QED BY <1>3, <1>4, <2>1 DEF LoadDispatch, StaleDispatch, InvalidDispatch
<1>5. CASE PrepareCall
  BY <1>1, <1>2, <1>5 DEF PrepareCall, At, WorkerFacts
<1>6. CASE StartAction
  <2>1. CASE Write(w.task, StartStep(Dispatched)) /\ Goto("activate")
    <3>1. /\ w'.pc = "activate" /\ w'.task = w.task /\ w'.kind = w.kind /\ w'.began = w.began
          /\ w'.guard = w.guard
      BY <1>1, <2>1
    <3>2. Dispatched' = StartStep(Dispatched)
      BY <1>0, <2>1, <3>1, WriteOne DEF Dispatched
    <3>3. /\ Dispatched'.step # "Pending" /\ Kind(Dispatched)' = Kind(Dispatched)
          /\ Dispatched'.exec = Dispatched.exec
      BY <1>0, <3>2, StartStepFields DEF Kind
    <3>4. w.pc = "start"
      BY <1>6 DEF StartAction, At
    <3> QED BY <3>1, <3>3, <3>4 DEF WorkerFacts, Runs
  <2> QED BY <1>3, <1>6, <2>1 DEF StartAction
<1>7. CASE ActivateCall
  <2>1. w' = Idle \/ (Goto("call") /\ db' = db)
    BY <1>7 DEF ActivateCall
  <2> QED BY <1>1, <1>2, <1>3, <1>7, <2>1 DEF ActivateCall, At, WorkerFacts
<1>8. CASE BeginTool
  <2>1. /\ w'.pc = w.pc /\ w.pc = "call" /\ w'.task = w.task /\ w'.kind = w.kind
        /\ w'.guard = w.guard
    BY <1>0, <1>8 DEF BeginTool, At, Worker
  <2>2. Dispatched' = [Dispatched EXCEPT !.tool = "RUNNING"]
    BY <1>0, <1>8, <2>1, WriteOne DEF BeginTool, Dispatched
  <2>3. /\ Dispatched'.tool = "RUNNING" /\ Dispatched'.step = Dispatched.step
        /\ Kind(Dispatched)' = Kind(Dispatched) /\ Dispatched'.exec = Dispatched.exec
    BY <1>0, <2>2, ToolBegunFields DEF Kind, SamePlace
  <2> QED BY <2>1, <2>3 DEF WorkerFacts, Runs
<1>9. CASE CallReturns
  <2>1. \/ Goto("commit") /\ (w.kind \in {"read", "write"} => w.began)
        \/ Goto("fail") \/ w' = Idle
    BY <1>9 DEF CallReturns
  <2> QED BY <1>1, <1>2, <1>3, <1>9, <2>1 DEF CallReturns, At, WorkerFacts
<1>10. CASE RequestApproval
  <2>1. \/ w' = Idle \/ Goto("confirmTerminal") \/ Goto("confirmWaiting")
        \/ Goto("fail") /\ db' = db
    BY <1>10 DEF RequestApproval, StaleDispatch
  <2> QED BY <1>1, <1>2, <1>3, <1>10, <2>1, FactsOfIdle DEF RequestApproval, At, WorkerFacts
<1>11. CASE ApplyPlanner \/ CommitCompletedStep
  <2>1. w' = Idle \/ Goto("load")
    BY <1>11 DEF ApplyPlanner, CommitCompletedStep, CommitResult, StaleDispatch, InvalidDispatch
  <2> QED BY <1>1, <1>3, <2>1, FactsOfIdle
<1>12. CASE TerminalizeAction \/ Finalize \/ ConfirmApproval
  <2>1. w' = Idle
    BY <1>12 DEF TerminalizeAction, Finalize, ConfirmApproval, StaleDispatch, InvalidDispatch
  <2> QED BY <1>3, <2>1
<1>13. CASE LoopFails
  <2>1. Goto("broken")
    BY <1>13 DEF LoopFails
  <2> QED BY <1>1, <2>1, FactsOfIdle
<1> QED BY <1>4, <1>5, <1>6, <1>7, <1>8, <1>9, <1>10, <1>11, <1>12, <1>13 DEF LoopStep

(* The worker facts are an invariant of the runtime.                       *)
LEMMA FactsNext == IInv /\ WorkerFacts /\ [Next]_vars => WorkerFacts'
<1> SUFFICES ASSUME IInv, WorkerFacts, [Next]_vars PROVE WorkerFacts'
  OBVIOUS
<1>1. CASE Crash \/ StartupFails \/ WorkerStops
  BY <1>1, FactsOfIdle DEF Crash, StartupFails, WorkerStops, ForgetProcess, Idle
<1>2. CASE \/ Tick \/ \E c \in Configs : Restart(c)
           \/ \E k \in pending : DeliverCancel(k)
           \/ UNCHANGED vars
  <2>1. w' = w /\ db' = db
    BY <1>2 DEF Tick, Restart, DeliverCancel, vars
  <2> QED BY <2>1, FactsKept
<1>3. CASE StartupCleanup
  BY <1>3, FactsKept DEF StartupCleanup
<1>4. CASE \E t \in Tasks : Command(t) \/ ExpireTask(t) \/ DamageCheckpoint(t)
  <2>1. w' = w
    BY <1>4 DEF Command, CreateTask, CancelTask, RecoverTask, Approve, Reject, ExpireTask,
                Terminate, DamageCheckpoint
  <2> QED BY <1>4, <2>1, FactsKept
<1>5. CASE \E t \in Tasks : ClaimNextExecution(t)
  <2>1. w'.pc \in {"idle", "load"}
    BY <1>5 DEF ClaimNextExecution, Idle
  <2> QED BY <2>1, FactsOfIdle
<1>6. CASE LoopStep \/ BeginTool \/ CallReturns \/ LoopFails
  BY <1>6, FactsLoop
<1> QED BY <1>1, <1>2, <1>3, <1>4, <1>5, <1>6 DEF Next

(* Whatever the worker does with a row that still runs rests on facts that *)
(* hold of it: the step was started, the kind is the frozen one, and the   *)
(* call it began is durable (execute.go, runClaimedAction).                *)
THEOREM FactsHold == Spec => [](IInv /\ WorkerFacts)
<1>1. Init => WorkerFacts
  BY DEF Init, Idle, WorkerFacts, Acting, Knowing
<1> QED BY <1>1, InvInit, InvNext, FactsNext, PTL DEF Spec

----------------------------------------------------------------------------
(* What a step may never do *)

(* What the worker knows of a row that advances.                           *)
Known(r) ==
  /\ w.pc \in Acting => r.step # "Pending"
  /\ w.pc \in Knowing => w.kind = Kind(r) /\ r.ckpt.action # "FINALIZE_RUN"
  /\ w.pc \in {"call", "commit"} /\ w.began => r.tool = "RUNNING"
  /\ w.pc = "commit" /\ w.kind \in {"read", "write"} => w.began

(* A step that advances a row advances one the worker knows.               *)
LEMMA AdvancedKnown ==
  ASSUME IInv, WorkerFacts, NEW t, NEW n, Advanced(t, db[t], n)
  PROVE  Known(db[t]) /\ db[t].exec = "RUNNING"
<1>1. Dispatched = db[t] /\ db[t].exec = "RUNNING"
  BY DEF Advanced, ClaimOwns, Dispatched
<1>2. w.pc \in Knowing => db[t].ckpt.action # "FINALIZE_RUN"
  BY <1>1 DEF IInv, WorkerInv, Frozen, WorkerFacts, Knowing, Acting
<1> QED BY <1>1, <1>2 DEF WorkerFacts, Known, Runs

(* Every step moves each row by an effect of the list, or ends it.         *)
LEMMA StepEffects ==
  ASSUME IInv, WorkerFacts, [Next]_vars, NEW t \in Rows
  PROVE  /\ GoodRow(db[t]) /\ GoodRow(db'[t]) /\ t \in Rows'
         /\ Moves(t, db[t], db'[t]) \/ Fails(db[t], db'[t])
         /\ Advanced(t, db[t], db'[t]) => Known(db[t])
BY RowsStay, Effects, AdvancedKnown

(* The edges of the shared policy the transactions use.                    *)
LEMMA Edges ==
  /\ CanTaskTransition("Pending", "Running") /\ CanTaskTransition("Pending", "INTERRUPTED")
  /\ CanTaskTransition("Running", "INTERRUPTED") /\ CanTaskTransition("INTERRUPTED", "Pending")
  /\ CanTaskTransition("Running", "WaitingApproval") /\ CanTaskTransition("WaitingApproval", "Running")
  /\ CanTaskTransition("Running", "Completed")
  /\ \A s \in TaskStatus \ TerminalTaskStatus : \A e \in {"Failed", "Cancelled"} :
       CanTaskTransition(s, e)
  /\ ~CanTaskTransition("Running", "Pending")
  /\ CanRunTransition("Pending", "Running") /\ CanRunTransition("Running", "WaitingApproval")
  /\ CanRunTransition("WaitingApproval", "Running") /\ CanRunTransition("Running", "Completed")
  /\ \A s \in {"Pending", "Running", "WaitingApproval"} : CanRunTransition(s, "Failed")
  /\ CanStepTransition("Pending", "Running") /\ CanStepTransition("Running", "WaitingApproval")
  /\ CanStepTransition("WaitingApproval", "Running") /\ CanStepTransition("Running", "Completed")
  /\ \A s \in OpenStep : CanStepTransition(s, "Failed")
  /\ CanExecutionTransition("QUEUED", "RUNNING") /\ CanExecutionTransition("QUEUED", "INTERRUPTED")
  /\ CanExecutionTransition("RUNNING", "WAITING_APPROVAL") /\ CanExecutionTransition("RUNNING", "COMPLETED")
  /\ CanExecutionTransition("RUNNING", "INTERRUPTED") /\ CanExecutionTransition("WAITING_APPROVAL", "QUEUED")
  /\ \A s \in {"QUEUED", "RUNNING", "WAITING_APPROVAL", "INTERRUPTED"} : CanExecutionTransition(s, "FAILED")
BY DEF CanTaskTransition, TaskEdges, CanRunTransition, RunEdges, CanStepTransition, StepEdges,
       CanExecutionTransition, ExecutionEdges, TaskStatus, TerminalTaskStatus, OpenStep, ActiveStep

Lawful(r, n) ==
  /\ n.task # r.task => CanTaskTransition(r.task, n.task)
  /\ n.run # r.run => CanRunTransition(r.run, n.run)
  /\ n.version = r.version /\ n.exec # r.exec => CanExecutionTransition(r.exec, n.exec)
  /\ n.cur = r.cur /\ n.step # r.step => CanStepTransition(r.step, n.step)

(* What a Recover that goes through found: an interrupted execution of a   *)
(* task that never started, still waiting for its plan.                    *)
LEMMA RequeuedFrom ==
  ASSUME NEW r, GoodRow(r), NEW n, Requeued(r, n)
  PROVE  /\ InterruptedRow(r) /\ r.task = "INTERRUPTED" /\ r.run = "Pending" /\ ~r.started
         /\ r.ckpt.action = "GENERATE_PLAN" /\ ReferencesMatch(r)
         /\ r.hash = config /\ ~Expired(r, now) /\ ~Terminal(r)
<1>1. /\ ~Terminal(r) /\ ~Expired(r, now) /\ r.hash = config /\ RecoveryPhase(r) # "none"
      /\ RecoverySourceValid(r) /\ r.ckpt.action = "GENERATE_PLAN"
      /\ CanTaskTransition(r.task, "Pending")
  BY DEF Requeued, RecoverOutcome
<1>2. r.exec = "INTERRUPTED"
  BY <1>1 DEF RecoveryPhase
<1>3. InterruptedRow(r)
  BY <1>2, RowKinds
<1>4. r.task = "INTERRUPTED" /\ r.cause = "CONFIG_VERSION_MISMATCH"
  BY <1>1, <1>3, Edges DEF InterruptedRow
<1>5. ReferencesMatch(r) /\ ~r.started
  BY <1>1, <1>4 DEF RecoverySourceValid, RecoveryPhase
<1> QED BY <1>1, <1>3, <1>4, <1>5 DEF InterruptedRow

(* What the checkpoint of a valid dispatch says of the row's step.         *)
LEMMA DispatchKnows ==
  ASSUME NEW r, CheckpointValid(r, "ExecutionDispatch")
  PROVE  /\ r.ckpt.action = "GENERATE_PLAN" <=> ~HasPlan(r)
         /\ r.ckpt.action = "GENERATE_PLAN" => r.cur = None
         /\ r.ckpt.action \in {"EXECUTE_STEP", "REQUEST_APPROVAL"} => r.step \in {"Pending", "Running"}
         /\ r.ckpt.action = "EXECUTE_APPROVED_TOOL" => r.step = "Running" /\ r.approval = "Approved"
         /\ r.ckpt.action = "FINALIZE_RUN" => r.step = "Completed" /\ ~HasLaterStep(r)
         /\ r.ckpt.action = "REQUEST_APPROVAL" => IsToolKind(Kind(r)) /\ r.tool = "none"
         /\ r.ckpt.action \in {"EXECUTE_STEP", "EXECUTE_APPROVED_TOOL"} => r.tool = "none"
BY DEF CheckpointValid, ReferencesMatch, ActionMatches, ToolExecutionAllowed

(* The status changes of the worker's own transactions.                    *)
LEMMA AdvancedLawful ==
  ASSUME NEW t, NEW r, GoodRow(r), NEW n, Advanced(t, r, n), Known(r)
  PROVE  Lawful(r, n)
<1>1. /\ r \in Row /\ r.task = "Running" /\ r.run = "Running" /\ r.exec = "RUNNING"
      /\ PlanPosition(r)
  BY DEF GoodRow, RowInv, Advanced, ClaimOwns
<1>2. CASE n = StartStep(r)
  BY <1>1, <1>2, StartStepFields, Edges DEF Lawful
<1>3. CASE n = [r EXCEPT !.tool = "RUNNING"]
  BY <1>1, <1>3, ToolBegunFields DEF Lawful, SamePlace
<1>4. CASE /\ CheckpointValid(r, "ExecutionDispatch") /\ w.pc = "call"
           /\ r.ckpt.action = "REQUEST_APPROVAL" /\ n = ApprovalRequested(r)
  <2>1. r.step = "Running"
    BY <1>4, DispatchKnows DEF Known, Acting
  <2> QED BY <1>1, <1>4, <2>1, ApprovalRequestedFields, Edges DEF Lawful
<1>5. CASE /\ CheckpointValid(r, "ExecutionDispatch") /\ r.ckpt.action = "GENERATE_PLAN"
           /\ \E plan \in Plans : n = PlanApplied(r, plan)
  <2>1. r.cur = None
    BY <1>5, DispatchKnows
  <2>2. /\ n.task = r.task /\ n.run = r.run /\ n.exec = r.exec /\ n.cur = 1
    BY <1>1, <1>5 DEF PlanApplied, Row
  <2> QED BY <2>1, <2>2 DEF Lawful, None
<1>6. CASE /\ CheckpointValid(r, "ExecutionDispatch") /\ w.pc = "commit"
           /\ r.ckpt.action # "GENERATE_PLAN" /\ n = StepCompleted(r)
  <2>1. r.step \in {"Running", "Completed"}
    BY <1>1, <1>6, DispatchKnows DEF Known, Acting, Row, CheckpointRow, NextAction
  <2>2. n.task = r.task /\ n.run = r.run /\ n.exec = r.exec
    BY <1>1, <1>6, StepCompletedFields
  <2>3. n.cur = r.cur => n.step = "Completed"
    <3>1. r.cur \in Nat /\ (IF HasLaterStep(r) THEN n.cur = r.cur + 1 ELSE n.step = "Completed")
      BY <1>1, <1>6, StepCompletedFields DEF Row
    <3> QED BY <3>1
  <2> QED BY <2>1, <2>2, <2>3, Edges DEF Lawful
<1>7. CASE n = Finalized(r)
  BY <1>1, <1>7, FinalizedFields, Edges DEF Lawful, SamePlace
<1> QED BY <1>2, <1>3, <1>4, <1>5, <1>6, <1>7 DEF Advanced, Advances

(* The status changes of everything else that does not end the task.       *)
LEMMA MovesLawful ==
  ASSUME NEW t, NEW r, GoodRow(r), NEW n, Moves(t, r, n), Advanced(t, r, n) => Known(r)
  PROVE  Lawful(r, n)
<1>1. r \in Row
  BY DEF GoodRow
<1>2. CASE n = r
  BY <1>2 DEF Lawful
<1>3. CASE n = [r EXCEPT !.ckpt.ok = FALSE]
  BY <1>1, <1>3, DamagedFields DEF Lawful, SamePlace
<1>4. CASE Claimed(r, n)
  <2>1. FreshRow(r) \/ ApprovedRow(r)
    BY <1>4, RowKinds DEF Claimed
  <2>2. n.task = "Running" /\ n.run = "Running" /\ n.exec = "RUNNING" /\ n.step = r.step
    BY <1>1, <1>4, CommitClaimFields DEF Claimed, SamePlace
  <2> QED BY <2>1, <2>2, Edges DEF Lawful, FreshRow, ApprovedRow
<1>5. CASE ClaimInterrupted(r, n)
  <2>1. FreshRow(r) \/ ApprovedRow(r)
    BY <1>5, RowKinds DEF ClaimInterrupted
  <2>2. n.task = "INTERRUPTED" /\ n.run = r.run /\ n.exec = "INTERRUPTED" /\ n.step = r.step
    BY <1>1, <1>5, InterruptConfigMismatchFields DEF ClaimInterrupted, SamePlace
  <2> QED BY <2>1, <2>2, Edges DEF Lawful, FreshRow, ApprovedRow
<1>6. CASE Requeued(r, n)
  <2>1. r.task = "INTERRUPTED" /\ r.run = "Pending"
    BY <1>6, RequeuedFrom
  <2>2. n.task = "Pending" /\ n.run = "Pending" /\ n.version = r.version + 1 /\ n.step = r.step
    BY <1>1, <1>6, RequeuedFields DEF SamePlace
  <2>3. n.version # r.version
    BY <1>1, <2>2 DEF Row
  <2> QED BY <2>1, <2>2, <2>3, Edges DEF Lawful
<1>7. CASE Resumed(r, n)
  <2>1. WaitingRow(r)
    BY <1>7, RowKinds DEF Resumed, AwaitsDecision
  <2>2. n.task = "Running" /\ n.run = "Running" /\ n.exec = "QUEUED" /\ n.step = "Running"
    BY <1>1, <1>7, ResumedFields
  <2> QED BY <2>1, <2>2, Edges DEF Lawful, WaitingRow
<1>8. CASE Interrupted(r, n)
  <2>1. n.task = r.task /\ n.run = r.run /\ n.exec = "INTERRUPTED" /\ n.step = r.step
    BY <1>1, <1>8, InterruptedFields DEF SamePlace
  <2> QED BY <1>8, <2>1, Edges DEF Lawful, Interrupted
<1> QED BY <1>2, <1>3, <1>4, <1>5, <1>6, <1>7, <1>8, AdvancedLawful DEF Moves

(* A task that is ended unsuccessfully was open, in all its parts.         *)
LEMMA FailsLawful ==
  ASSUME NEW r, GoodRow(r), NEW n, Fails(r, n)
  PROVE  Lawful(r, n)
<1>1. /\ r.task \in TaskStatus \ TerminalTaskStatus /\ r.run \in {"Pending", "Running", "WaitingApproval"}
      /\ r.exec \in {"QUEUED", "RUNNING", "WAITING_APPROVAL", "INTERRUPTED"}
  <2>1. r.task \in TaskStatus /\ r.task \notin TerminalTaskStatus
    BY DEF GoodRow, Row, Fails, Terminal
  <2>2. FreshRow(r) \/ ApprovedRow(r) \/ OwnedRow(r) \/ WaitingRow(r) \/ InterruptedRow(r)
    BY <2>1, RowKinds DEF GoodRow, RowInv, Terminal
  <2> QED BY <2>1, <2>2 DEF FreshRow, ApprovedRow, OwnedRow, WaitingRow, InterruptedRow
<1>2. /\ n.task \in {"Failed", "Cancelled"} /\ n.run = "Failed" /\ n.exec = "FAILED"
      /\ n.step = r.step \/ (r.step \in OpenStep /\ n.step = "Failed")
  BY DEF Fails, Ends
<1> QED BY <1>1, <1>2, Edges DEF Lawful

(* Every status change of every transaction is an edge of the lifecycle    *)
(* policy, also of those that never ask it (lifecycle/policy.go): commands *)
(* and decisions, claims, results, startup cleanup and recovery.           *)
THEOREM LifecycleFollowed == Spec => FollowsLifecycle
<1>1. ASSUME IInv, WorkerFacts, [Next]_vars, NEW t \in Rows
      PROVE  Lawful(db[t], db'[t])
  BY <1>1, StepEffects, MovesLawful, FailsLawful
<1>2. IInv /\ WorkerFacts /\ [Next]_vars =>
        [\A t \in Rows : LET r == db[t]  n == db'[t] IN
           /\ n.task # r.task => CanTaskTransition(r.task, n.task)
           /\ n.run # r.run => CanRunTransition(r.run, n.run)
           /\ n.version = r.version /\ n.exec # r.exec => CanExecutionTransition(r.exec, n.exec)
           /\ n.cur = r.cur /\ n.step # r.step => CanStepTransition(r.step, n.step)]_vars
  BY <1>1 DEF Lawful
<1> QED BY FactsHold, <1>2, PTL DEF Spec, FollowsLifecycle

(* A step that changes a plan or the number of completed steps is one the  *)
(* owner advances.                                                         *)
LEMMA MovesProgress ==
  ASSUME NEW t, NEW r, GoodRow(r), NEW n, Moves(t, r, n), ~Advanced(t, r, n)
  PROVE  n.plan = r.plan /\ n.cur = r.cur /\ (n.step = "Completed" <=> r.step = "Completed")
<1>1. r \in Row
  BY DEF GoodRow
<1>2. CASE n = [r EXCEPT !.ckpt.ok = FALSE]
  BY <1>1, <1>2, DamagedFields DEF SamePlace
<1>3. CASE Claimed(r, n)
  BY <1>1, <1>3, CommitClaimFields DEF Claimed, SamePlace
<1>4. CASE ClaimInterrupted(r, n)
  BY <1>1, <1>4, InterruptConfigMismatchFields DEF ClaimInterrupted, SamePlace
<1>5. CASE Requeued(r, n)
  BY <1>1, <1>5, RequeuedFields DEF SamePlace
<1>6. CASE Resumed(r, n)
  <2>1. r.step = "WaitingApproval"
    BY <1>6, RowKinds DEF Resumed, AwaitsDecision, WaitingRow
  <2> QED BY <1>1, <1>6, <2>1, ResumedFields
<1>7. CASE Interrupted(r, n)
  BY <1>1, <1>7, InterruptedFields DEF SamePlace
<1> QED BY <1>2, <1>3, <1>4, <1>5, <1>6, <1>7 DEF Moves

(* Ending a task neither completes a step nor takes a completed one back.  *)
LEMMA FailsProgress ==
  ASSUME NEW r, NEW n, Fails(r, n)
  PROVE  n.plan = r.plan /\ n.cur = r.cur /\ (n.step = "Completed" <=> r.step = "Completed")
BY DEF Fails, Ends, OpenStep, ActiveStep

(* Plans and completed steps enter a row only while the process at work    *)
(* owns its running execution before the deadline: a result that was       *)
(* computed under a lost claim is discarded (execute.go).                  *)
THEOREM OwnerMakesProgress == Spec => ProgressOnlyByOwner
<1>1. ASSUME IInv, WorkerFacts, [Next]_vars, NEW t \in Rows,
             db'[t].plan # db[t].plan \/ Progress(db'[t]) # Progress(db[t])
      PROVE  ClaimOwns(db[t], w.version, inst, now) /\ w.task = t
  <2>1. /\ GoodRow(db[t]) /\ (Moves(t, db[t], db'[t]) \/ Fails(db[t], db'[t]))
    BY <1>1, StepEffects
  <2>2. Advanced(t, db[t], db'[t])
    BY <1>1, <2>1, MovesProgress, FailsProgress DEF Progress
  <2> QED BY <2>2 DEF Advanced
<1>2. IInv /\ WorkerFacts /\ [Next]_vars =>
        [\A t \in Rows :
           db'[t].plan # db[t].plan \/ Progress(db'[t]) # Progress(db[t]) =>
             ClaimOwns(db[t], w.version, inst, now) /\ w.task = t]_vars
  BY <1>1
<1> QED BY FactsHold, <1>2, PTL DEF Spec, ProgressOnlyByOwner

(* Every transaction looks at the deadline after it has locked the row: at *)
(* or after it a task can only fail (claim.go, cancel.go, recover.go,      *)
(* approval_manager.go, execute.go, startup_cleanup.go).                   *)
THEOREM DeadlineOnlyFails == Spec => AfterDeadlineOnlyFails
<1>1. ASSUME IInv, WorkerFacts, [Next]_vars, NEW t \in Rows, Expired(db[t], now), db'[t] # db[t]
      PROVE  db'[t].task = "Failed" \/ db'[t] = [db[t] EXCEPT !.ckpt.ok = FALSE]
  <2>1. GoodRow(db[t]) /\ (Moves(t, db[t], db'[t]) \/ Fails(db[t], db'[t]))
    BY <1>1, StepEffects
  <2>2. ~Requeued(db[t], db'[t])
    BY <1>1, <2>1, RequeuedFrom
  <2>3. now \in Nat /\ db[t] \in Row
    BY <1>1, <2>1 DEF IInv, TypeOK, GoodRow
  <2>4. ~ClaimOwns(db[t], w.version, inst, now)
    BY <1>1, <2>3, TimeoutAssumption DEF ClaimOwns, CheckGuard, Expired, Row
  <2> QED BY <1>1, <2>1, <2>2, <2>4 DEF Fails, Moves, Claimed, ClaimInterrupted, Resumed,
             AwaitsDecision, Interrupted, Advanced
<1>2. IInv /\ WorkerFacts /\ [Next]_vars =>
        [\A t \in Rows :
           Expired(db[t], now) /\ db'[t] # db[t] =>
             db'[t].task = "Failed" \/ db'[t] = [db[t] EXCEPT !.ckpt.ok = FALSE]]_vars
  BY <1>1
<1> QED BY FactsHold, <1>2, PTL DEF Spec, AfterDeadlineOnlyFails

(* The worker's transactions keep the version, and the worker of a row     *)
(* that goes on running.                                                   *)
LEMMA AdvancedWorker ==
  ASSUME NEW t, NEW r \in Row, NEW n, Advanced(t, r, n)
  PROVE  /\ SameTask(r, n)
         /\ n.worker = r.worker \/ (n.worker = None /\ n.exec = "WAITING_APPROVAL")
<1>1. CASE n = StartStep(r)
  BY <1>1, StartStepFields
<1>2. CASE n = [r EXCEPT !.tool = "RUNNING"]
  BY <1>2, ToolBegunFields
<1>3. CASE n = ApprovalRequested(r)
  BY <1>3, ApprovalRequestedFields
<1>4. CASE \E plan \in Plans : n = PlanApplied(r, plan)
  BY <1>4 DEF PlanApplied, Row, SameTask
<1>5. CASE n = StepCompleted(r)
  BY <1>5, StepCompletedFields
<1>6. CASE n = Finalized(r)
  BY <1>6, FinalizedFields
<1> QED BY <1>1, <1>2, <1>3, <1>4, <1>5, <1>6 DEF Advanced, Advances

(* Only Recover makes another task of a row: a new version of it.          *)
LEMMA MovesSameTask ==
  ASSUME NEW t, NEW r, GoodRow(r), NEW n, Moves(t, r, n), ~Requeued(r, n)
  PROVE  SameTask(r, n)
<1>1. r \in Row
  BY DEF GoodRow
<1>2. CASE n = [r EXCEPT !.ckpt.ok = FALSE]
  BY <1>1, <1>2, DamagedFields
<1>3. CASE Claimed(r, n)
  BY <1>1, <1>3, CommitClaimFields DEF Claimed
<1>4. CASE ClaimInterrupted(r, n)
  BY <1>1, <1>4, InterruptConfigMismatchFields DEF ClaimInterrupted
<1>5. CASE Resumed(r, n)
  BY <1>1, <1>5, ResumedFields
<1>6. CASE Interrupted(r, n)
  BY <1>1, <1>6, InterruptedFields
<1> QED BY <1>1, <1>2, <1>3, <1>4, <1>5, <1>6, AdvancedWorker DEF Moves, SameTask

(* A Recover that goes through makes the next version of its row.          *)
LEMMA RequeuedVersion ==
  ASSUME NEW r, GoodRow(r), NEW n, Requeued(r, n)
  PROVE  /\ n.version = r.version + 1 /\ r.exec = "INTERRUPTED" /\ r.queuedAt = None
         /\ n.hash = r.hash /\ n.ckpt.seq > r.ckpt.seq
<1>1. r \in Row /\ r.ckpt.seq \in Nat
  BY DEF GoodRow, Row, CheckpointRow
<1>2. InterruptedRow(r) /\ r.hash = config
  BY RequeuedFrom
<1>3. n.version = r.version + 1 /\ n.hash = config /\ n.ckpt.seq = r.ckpt.seq + 1
  BY <1>1, RequeuedFields
<1> QED BY <1>1, <1>2, <1>3 DEF InterruptedRow

(* A new version replaces an interrupted one only, of a task that is not   *)
(* queued, under the same configuration and with a later checkpoint        *)
(* sequence (recover.go).                                                  *)
THEOREM VersionsReplaceInterrupted == Spec => VersionReplacesInterrupted
<1>1. ASSUME IInv, WorkerFacts, [Next]_vars, NEW t \in Rows, db'[t].version # db[t].version
      PROVE  /\ db'[t].version = db[t].version + 1
             /\ db[t].exec = "INTERRUPTED" /\ db[t].queuedAt = None
             /\ db'[t].hash = db[t].hash /\ db'[t].ckpt.seq > db[t].ckpt.seq
  <2>1. /\ GoodRow(db[t]) /\ db[t] \in Row
        /\ Moves(t, db[t], db'[t]) \/ Fails(db[t], db'[t])
    BY <1>1, StepEffects DEF GoodRow
  <2>2. Requeued(db[t], db'[t])
    BY <1>1, <2>1, MovesSameTask DEF Fails, Ends, SameTask
  <2> QED BY <2>1, <2>2, RequeuedVersion
<1>2. IInv /\ WorkerFacts /\ [Next]_vars =>
        [\A t \in Rows : db'[t].version # db[t].version =>
           /\ db'[t].version = db[t].version + 1
           /\ db[t].exec = "INTERRUPTED" /\ db[t].queuedAt = None
           /\ db'[t].hash = db[t].hash /\ db'[t].ckpt.seq > db[t].ckpt.seq]_vars
  BY <1>1
<1> QED BY FactsHold, <1>2, PTL DEF Spec, VersionReplacesInterrupted
=============================================================================
